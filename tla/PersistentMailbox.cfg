CONSTANTS
    m1 = m1
    None = None
    Mailbox = {m1}
    Object = {o1}
    Payload = {p1}
    Handle = {h1, h2}
    Binding <- OneBinding
    Credential = {0, 1, 2, 3, 4}
    CredentialTriple <- OneTriple
    IssuedCredential = {4}
    Maintenance = 0
    PayloadBytes <- OneByte
    ResultBytes = {1}
    MaterialBytes = 1
    MaxTime = 3
    DatetimeMax = 3
    MaxMailboxes = 1
    MaxActiveBytes = 1
    MaxEvidenceBytes = 1
    MaxCommittedBytes = 2
    MaxEvidenceItems = 1
    MaxTombstones = 1
    TerminalRetention = 1
    TombstoneRetention = 1
    MaxGeneration = 9
SPECIFICATION SystemSpec
INVARIANTS AnswersAreDurable RowLoads
PROPERTIES DiskImplementsRepository LockReleased
