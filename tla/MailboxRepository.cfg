CONSTANTS
    m1 = m1
    m2 = m2
    p1 = p1
    p2 = p2
    None = None
    Mailbox = {m1, m2}
    Object = {o1, o2}
    Payload = {p1, p2}
    Binding <- TwoBindings
    Credential <- Creds
    CredentialTriple <- Triples
    IssuedCredential = {5, 7}
    Maintenance = 0
    PayloadBytes <- TwoSizes
    ResultBytes = {1}
    MaterialBytes = 2
    MaxTime = 4
    DatetimeMax = 4
    MaxMailboxes = 2
    MaxActiveBytes = 3
    MaxEvidenceBytes = 2
    MaxCommittedBytes = 3
    MaxEvidenceItems = 2
    MaxTombstones = 1
    TerminalRetention = 1
    TombstoneRetention = 1
SPECIFICATION Spec
INVARIANTS TypeOK LifecycleValid TimesOrdered CredentialsDistinct QuotaAccounting
PROPERTIES ResultSurvives DeadlinesHold
