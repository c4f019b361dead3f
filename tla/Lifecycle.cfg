CONSTANTS
    LogCapacity = 1
    QueueCapacity = 2
    MaxTasks = 6
SPECIFICATION Spec
INVARIANTS FinalPass OneLoader
PROPERTIES ShutdownCompletes
