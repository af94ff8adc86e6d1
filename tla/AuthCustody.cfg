SPECIFICATION Spec
CONSTANTS
    Thread = {t1, t2}
    Binding = {here, elsewhere}
    Expected = here
    None = None
    MaxMinted = 2
    MaxId = 3
SYMMETRY ThreadSymmetry
INVARIANTS ReleasedAgree CustodyFirst OneBundlePerReader
