CONSTANTS
    m1 = m1
    m2 = m2
    None = None
    Mailbox = {m1, m2}
    Object = {o1}
    Payload = {p1}
    Binding <- SystemBindings
    Credential <- Creds
    CredentialTriple <- SystemTriples
    IssuedCredential = {7, 8}
    Maintenance = 0
    PayloadBytes <- OneByte
    ResultBytes = {1}
    MaterialBytes = 1
    MaxTime = 3
    DatetimeMax = 9
    MaxMailboxes = 2
    MaxActiveBytes = 2
    MaxEvidenceBytes = 2
    MaxCommittedBytes = 4
    MaxEvidenceItems = 1
    MaxTombstones = 1
    TerminalRetention = 1
    TombstoneRetention = 1
SPECIFICATION SystemSpec
INVARIANTS DeliveredOnce ResultAuthority ReplayHorizon
