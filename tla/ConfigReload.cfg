SPECIFICATION Spec
CONSTANTS
    Source = {"path", "primary"}
    Key = {k1}
    k1 = k1
    c1 = c1
    c2 = c2
    Sources <- MCSources
    Configurables = {c1, c2}
    MaxRequests = 2
    MaxEdits = 2
CHECK_DEADLOCK FALSE
INVARIANTS RequestServed ConfigurablesSettled NoStaleValue GraceOfOneReload
PROPERTIES RequestIsServed
