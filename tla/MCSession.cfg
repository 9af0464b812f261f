\* Two senders, two passwords, up to two chunks through a connection that holds one.
CONSTANTS
    s1 = s1  s2 = s2  good = good  bad = bad
    Receiver = Receiver
    Nobody = Nobody
    Senders <- MCSenders
    Passwords <- MCPasswords
    MaxChunks = 2
    SocketBuffer = 1
    MaxAccidents = 1
SPECIFICATION FairSpec
INVARIANTS
    TypeOK
    SamePassword
    PacketsDecrypt
    ReceiverSurvives
    SentIsThereOrComing
    SessionInv
PROPERTIES
    SendersKeepPromise
    ReceiverKeepsPromise
    SendersAreServed
    ReceiverIsFreed
\* All processes end, or wait for a user.
CHECK_DEADLOCK FALSE
