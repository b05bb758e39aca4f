SPECIFICATION FairSpec
CONSTANTS
    NumOt = 3
    NumThread = 2
    Elem <- Elements
    Exp <- Exponents
    Gen <- One
    Pow <- Times
    Div <- Minus
    SecretSets <- SecretChoice
    RndSeqs <- Rnds
    Width = 3
    NumBlk = 2
    Prg <- Stream
    NumInit = 2
    NumMsg = 4
    RSeed <- R0
    SSeed <- S0
    Stale <- StaleBlocks
    Deltas <- DeltaChoice
    Inputs <- InputChoice
INVARIANTS PK0sWhole BaseAgreement OtsRelate SeedsAgree SeedsSettled InitLockstep
PROPERTIES InitsEnd
CHECK_DEADLOCK FALSE
