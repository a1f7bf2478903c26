SPECIFICATION H2Spec
CONSTANTS
    H2Requests = {1}
    MaxData = 1
    MaxActs = 1
    H2Methods = {"GET", "POST"}
    Trailered = {"GET"}
    Acts = {"settings", "reset", "destroy", "close"}
INVARIANTS
    BodyIsWhole
    ToldInOrder
    SettingsSettle
PROPERTIES
    RequestsEnd
CHECK_DEADLOCK FALSE
