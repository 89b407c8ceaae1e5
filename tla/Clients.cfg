SPECIFICATION MCSpec
CONSTANTS
    a = a
    b = b
    Thread = {a, b}
    NoThread = NoThread
    Fd = {1, 2}
    NoFd = NoFd
    KeepAlive = TRUE
    Redirects = 2
    MaxSends = 2
    MaxStops = 2
    NoOne = NoOne
    Program = Program
INVARIANTS FlightExact SocketIsMine AnswerIsMine SocketsSound SslSound Verified
PROPERTY EveryCallEnds
CHECK_DEADLOCK FALSE
