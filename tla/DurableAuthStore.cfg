CONSTANTS
    None = None
    ReprovisionEnabled = FALSE
    BootstrapTTL = 1
    SessionTTL = 2
    StepUpTTL = 1
    RecoveryTTL = 3
    CeremonyTTL = 1
    ActivationDelay = 0
    MaxAttempts = 1
    ActiveCapacity = 1
    TombstoneCapacity = 1
    ReplaySeconds = 1
    Retention = {0}
    Purpose <- Purposes
    MaxTime = 2
    MaxBootstraps = 1
    MaxSessions = 2
    MaxRecoveries = 2
    MaxStepUps = 1
    MaxCeremonies = 0
    MaxRoots = 3
SPECIFICATION DurableSpec
INVARIANTS OneUse DeadStaysDead EpochFence RestoresDecisions DeliveredIsDurable
CHECK_DEADLOCK FALSE
