SPECIFICATION Spec
CONSTANTS
    Provider = {p1}
    Path = {a}
    Key = {k1, k2}
    Nonce = {n1, n2, n3}
    Binding = {b1, b2}
    Handle = {h1}
    Installation = {i1}
    None = None
    WrapLimit = 3
    UsageLimit = 3
    MaxId = 2
SYMMETRY KeyServiceSymmetry
INVARIANTS
    NonceNeverReused
    SealedIsReserved
    GrantedIsDurable
    OneKeyAuthenticates
    CatalogLoads
PROPERTY RecoveryIsFinal
