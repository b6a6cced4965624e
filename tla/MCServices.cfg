SPECIFICATION MCSpec
INVARIANTS
    ActiveWasMailed
    TimesAreRight
    BothOkMeansComplete
    RowsAreTrue
    RecordsAreTrue
PROPERTIES
    RegistrationKept
    ChoiceIsKept
    OnlyMarkedVanish
    DownloadIsLastUpload
CONSTANTS
    MailUser = {1, 2}
    MailAddress = {a, b}
    NoAddress = none
    MailDecoded <- MCMailDecoded
    MailHour = 1
    MailMaxClock = 4
    PingCount = 3
    SeqSize = 3
    Day = 2
    WordSize = 5
    PingMaxClock = 3
    DhcpServer = {1, 2}
    DhcpClient = {1, 2}
    DhcpAddress = {10, 11, 12}
    NoIp = 0
    NoServer = 0
    StaticLease <- MCStaticLease
    DefaultIp <- MCDefaultIp
    TcpHeader = 2
    TcpSizes = {0, 1, 3}
    TcpBuffer = 2
    Conn = {c1, c2}
    User = {u1, u2}
    MaxMessages = 3
    MaxFaults = 1
    DnsLabel = {97, 98, 99}
    DnsQuestion <- MCDnsQuestion
    DnsRecords <- MCDnsRecords
    MaxAnswers = 2
    MaxJumps = 4
    ReceiveBuffer = 60
    Pop = {p1, p2}
    MaxMails = 3
    Ftp = {f1, f2}
    MaxUploads = 2
    MaxUnits = 2
SYMMETRY MCSymmetry
CHECK_DEADLOCK FALSE
