SPECIFICATION FairSpec
CONSTANTS
    RIO_BUFSIZE = 2
    MAXLINE = 4
    CR = "CR"
    LF = "LF"
    Junk = "log"
    Methods = {"GET", "POST"}
    Uris = {"page", "dir/", "out.cgi?1", "../out.cgi"}
    Requests <- MCRequests
    Symbols <- MCSymbols
    UriForm <- MCUriForm
    Files <- MCFiles
    Mode <- MCMode
    Content <- MCContent
    Leftover <- MCLeftover
    SockBuf <- MCSockBuf
INVARIANTS
    ReadsInOrder
    HeadersEndAtEmptyLine
    ResponseComplete
PROPERTIES
    WorkerReturns
    ClientEnds
CHECK_DEADLOCK FALSE
