SPECIFICATION Spec
CONSTANTS
    Tasks = {t1}
    Runtimes = {"python"}
    MaxFaults = 0
CHECK_DEADLOCK FALSE
PROPERTY CompleteIsDurable
