SPECIFICATION FairSpec
CONSTANTS
    Registrations = {self, other}
    Self = self
    NoOwner = NoOwner
    Manifests <- RuntimeManifest
    TaskCommands <- SelfTasks
    Modes <- SelfConcurrent
    MaxActive = 1
    MaxEvents = 2
CHECK_DEADLOCK FALSE
INVARIANTS OnlyLinkedScales
PROPERTIES OwnerGoverns StatusSettles BacklogIsWorkedOff
