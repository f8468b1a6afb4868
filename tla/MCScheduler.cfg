CONSTANTS
    n1 = n1
    n2 = n2
    n3 = n3
    e1 = e1
    e2 = e2
    r1 = r1
    r2 = r2
    Nodes <- MCNodes
    Entities <- MCEntities
    NodeEntity <- MCNodeEntity
    ValidatorNodes <- MCNodes
    NodeExpiration <- MCNodeExpiration
    InitStake <- MCInitStake
    InitValidators <- MCInitValidators
    BaseEpoch = 0
    MaxEpoch = 3
    MaxStake = 3
    SlashAmount = 2
    RewardAmount = 1
    ClaimThreshold = 1
    DebugBypassStake = FALSE
    MinValidators = 1
    MaxValidators = 2
    MaxValidatorsPerEntity = 2
    Runtimes <- MCRuntimes
    ComputeNodes <- MCNodes
    NodeRuntimes <- MCNodeRuntimes
    ActiveVersion <- MCActiveVersion
    NoDeployment = 0
    SuspendedUntil <- MCSuspendedUntil
    RuntimeTEE <- MCRuntimeTEE
    NodeTEE <- MCNodeTEE
    ElectionEligibleAfter <- MCElectionEligibleAfter
    EpochInvalid = 99
    FilterCommitteeNodes = TRUE
    GroupSize <- MCGroupSize
    GroupBackupSize <- MCGroupBackupSize
SPECIFICATION Spec
INVARIANTS
    TypeOK
    EngineMatchesCurrent
    ValidatorBounds
    ElectionFollowsStake
    FrozenNotValidating
    CommitteesSuitable
