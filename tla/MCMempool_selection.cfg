SPECIFICATION Spec
CONSTANTS
    Addr <- MCAddr
    InitialReward = 8
    HalvingInterval = 4
    ScriptHeight = 4
    Tx <- MCTx
    MinFee = 1
    MaxPool = 3
    MaxAhead = 1
    GraceAge = 1
    TtlAge = 2
    Capacity = 2
    Me = "me"
    Others <- MCOthers
    Founders <- MCFounders
    MaxHeight = 6
    MaxReorg = 2
INVARIANT SelectionApplies
