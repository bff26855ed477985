SPECIFICATION PartsSpec
CONSTANTS
    Parts = {"ttl", "buffer", "dispatcher", "message", "files", "websocket", "logger", "signal", "smtp", "ssl", "codec"}
    Others = {t1, t2}
    MaxTimers = 3
    init_size = 1
    Extra = 2
    MaxReadable = 2
    EVLIST_INIT_SIZE = 2
    HttpConns = {c1, c2}
    MaxTime = 3
    Small = 3
    PerSecond = 2
    BufferedSize = 4096
    WsStreams <- MCStreams
    WsCalls <- MCCalls
    Writers = {w1}
    MaxLines = 3
    log_roll_file_size = 2
    MaxRestarts = 1
    Signos = {s1, s2}
    MaxCalls = 4
    MaxRaised = 2
    Addrs = {0, 1, 2}
    receivers = 2
    SslConns = {k1, k2, k3}
    SslFds = {1, 2}
    IoLoops = {l1}
    BufferData <- MCData
    Fds = {1, 3, 4}
    FD_SETSIZE = 4
    Garbage = {{}, {"Write", "Edge", "OneShot"}}
    HttpRequests <- MCRequests
    Lens = {0, 1, 4}
    Nobody = Nobody
    WordBytes = {0, 32, 37, 46, 61, 65, 200}
    MaxWord = 4
    MaxRecords = 2
    max_line_limit = 4
    max_label_size = 2
    max_name_size = 5
INVARIANTS TtlTracked ParsedAsSent EachAnswered BodyAsAsked MessagesWhole LoggedInOrder SignalsAgree OkMeansAccepted OwnHandshake CodecsInvert
PROPERTIES BufferIsQueue DispatcherIsTable
CHECK_DEADLOCK FALSE
