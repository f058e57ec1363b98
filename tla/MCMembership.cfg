SPECIFICATION Spec
CONSTANTS
    People = {ada, ben}
    Founders = {ada}
    Requests = {r1, r2}
    Overlap = FALSE
    Days = {0, 1}
    MaxNow = 2
    MaxIds = 3
    Nobody = nobody
SYMMETRY Alike
INVARIANTS OpenAdminKept LinkedAsResolved
PROPERTIES AccessIsGranted
CHECK_DEADLOCK FALSE
