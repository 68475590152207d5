SPECIFICATION FairSpec
CONSTANTS
    Empty = Empty
    NoPort = NoPort
    Host = Host
    Crash = Crash
    Hash = Hash
    N22 = N22
    N022 = N022
    Word = Word
    Text <- MCText
    Hashed <- MCHashed
    PortOf <- MCPortOf
    TextOf <- MCTextOf
    Lines <- MCLines
    Fatal <- MCFatal
    DefaultPort = 22
    MaxLines = 3
    Threads = 2
INVARIANTS TypeOK AllOrNothing LinesAnswered
PROPERTIES SentIsCollected Returns
CHECK_DEADLOCK FALSE
