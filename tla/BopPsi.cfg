SPECIFICATION FairSpec
CONSTANTS
    Value = {1, 2, 3, 4}
    RecvSize = 3
    SendSize = 2
    NumBin = 3
    MaxStash = 1
    MaxBin = 5
    StepSize = 2
    RecvSets <- Receivers
    SendSets <- Senders
    HashFns <- Hashes
    Bit <- Bits
    CodeBit <- CodeBits
    Code <- Codes
    T0 <- Msg0
    T1 <- Msg1
    Choice <- Choices
    Dummy <- Dummies
    Permute <- Shuffled
    StashPermute <- Shuffled
INVARIANTS TypeOK OnlyCommon AllCommon SlotsFilled Lockstep
PROPERTIES PsiEnds
CHECK_DEADLOCK FALSE
