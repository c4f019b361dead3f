CONSTANTS
    csv = csv
    pcap = pcap
    NoSource = NoSource
    Source <- MCSource
    Pcap <- MCPcap
    Paths <- MCPaths
    Jitters <- MCJitters
    Timeout = 1
    MaxRecords = 3
    MaxTime = 3
    Letters = {"x"}
    Contents <- MCContents
    MaxCells = 2
    MaxLines = 3
    Second = 4
    Micro = 2
    BufferSize = 2
    Packets <- MCPackets
    MaxPackets = 2
SPECIFICATION MCSpec
CHECK_DEADLOCK FALSE
INVARIANTS DataOfEvent AllDelivered FilesAreRead
PROPERTIES OnTime Completes
