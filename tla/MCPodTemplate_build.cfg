SPECIFICATION Spec
CONSTANTS
    Specs <- AllSpecs
    Nodes <- AllNodes
    None = None
CHECK_DEADLOCK FALSE
INVARIANTS WorkloadFits ClassIsRight PlacementIsExact MountsAreRight RefusedForCause
