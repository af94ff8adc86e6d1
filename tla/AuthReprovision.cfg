CONSTANTS
    None = None
    ReprovisionEnabled = TRUE
    BootstrapTTL = 1
    SessionTTL = 2
    StepUpTTL = 1
    RecoveryTTL = 2
    CeremonyTTL = 1
    ActivationDelay = 0
    MaxAttempts = 1
    ActiveCapacity = 1
    TombstoneCapacity = 1
    ReplaySeconds = 1
    Retention = {0}
    Purpose <- Purposes
    MaxTime = 1
    MaxBootstraps = 2
    MaxSessions = 2
    MaxRecoveries = 2
    MaxStepUps = 0
    MaxCeremonies = 3
    MaxRoots = 4
SPECIFICATION Spec
INVARIANTS TypeOK OneUse BootstrapStands ReprovisionRoute CeremonyRetention
