\* Two connections, three pages, three clients for two places.
CONSTANTS
    Unset = Unset
    None = None
    FirstSize = 2
    MaxPuts = 4
    NbConn = 2
    Todos <- MCTodos
    Base = 2
    Digits = 2
    FilesPerDir = 2
    SizeStep = 2
    NbSizes = 3
    IndexFile = "index"
    Documents = {d1, d2, d3}
    SpecPerDir = 2
    MaxSpec = 3
    Size = 3
    LeastRows = 2
    Periods <- MCPeriods
    Hits <- MCHits
    Seconds = 9
    Users = {1, 2, 3}
    ListenFd = 0
    MaxInput = 3
    BufSize = 8
    MaxLine = 2
    Scripts <- MCScripts
    Headers <- MCHeaders
    ValidUrls <- MCValid
    Requests <- MCRequests
    WebBufSize = 15
    Files <- MCFiles
    Switches = {"specificSearch"}
    Values <- MCValues
    Atoi <- MCAtoi
    ValidStarts = {"u.mp3", "v"}
    ExtOf <- MCExtOf
SPECIFICATION Spec
INVARIANTS
    RingsRight
    OutputsRight
    InputsRight
PROPERTY Served
CHECK_DEADLOCK FALSE
