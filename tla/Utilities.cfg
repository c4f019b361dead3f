CONSTANTS
    Size = 3
    Duration = 1
    Modulus = 4
    Values = {1, 2}
    MaxExcess = 3
    MaxTime = 5
    MaxCount = 5
    Samples = {0, 1, 3}
    Alpha <- MCAlpha
    MaxIndex = 3
    MaxSamples = 3
    Class <- MCClass
    Parts <- MCParts
    Templates <- MCTemplates
    CounterModulus = 16
    MaxCalls = 4
    OwnLog = {"own", "same", "shadow"}
    NameOf <- MCNameOf
    User = {"u", "v"}
    Path = {"link", "file", "other"}
    LibraryOf <- MCLibraryOf
    Starts = {0, 6}
    Steps = {1, 2}
    IdModulus = 8
    MaxOffers = 7
    MaxLoads = 3
    MaxIds = 5
    Plain = {"echo"}
    Aliases <- MCAliases
    Unknown = {"unknown"}
    Actions = {"alias", "redo"}
    MaxEntered = 4
    MaxHistory = 6
    Server = {"s1", "s2"}
    Client = {"c"}
    Scripts <- MCScripts
    Room = 2
    AllowedFailures = 3
SPECIFICATION MCSpec
CHECK_DEADLOCK FALSE
INVARIANTS WindowIsExact FiguresAreExact ActionsAreExact RegistriesAgree
           NoDoubleRedo ServerIsReached
PROPERTIES ImplementsContract QuitEnds
