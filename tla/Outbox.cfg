SPECIFICATION Spec
CONSTANTS
    Topics = {"scope"}
    MaxRows = 3
    Page = 2
    Long = {2}
    Illustrated = {2}
    MaxTrouble = 2
INVARIANTS
    TypeOK
    OneTaskThread
PROPERTIES
    PostedOnce
    AckedWhole
    Delivered
CHECK_DEADLOCK FALSE
