SPECIFICATION ProviderSpec
CONSTANTS
    Provider = {p1, p2}
    Path = {a, b}
    Key = {k1}
    Nonce = {n1, n2}
    Binding = {b1}
    Handle = {h1}
    Installation = {i1, i2}
    None = None
    WrapLimit = 2
    MaxId = 2
SYMMETRY ProviderSymmetry
INVARIANTS
    NonceEncryptsOnce
    OneProviderPerKey
