SPECIFICATION Spec
CONSTANTS
    People = {ada, ben}
    Founders = {ada}
    Requests = {r1, r2}
    Overlap = TRUE
    Days = {0, 1}
    MaxNow = 2
    MaxIds = 1
    Nobody = nobody
PROPERTIES AccessIsGranted
CHECK_DEADLOCK FALSE
