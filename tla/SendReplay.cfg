CONSTANTS
    b1 = b1
    b2 = b2
    s1 = s1
    s2 = s2
    t0 = t0
    NoTx = NoTx
    Genesis = t0
    Base <- MCBase
    Send <- MCSend
    Tx <- MCTx
    Proof <- MCProof
    Amount <- MCAmount
    P2PK <- MCSwapped
    Offline <- MCNone
    BaseWorth = 2
    HealStep = 1
    Nut19 = TRUE
    Extras = FALSE
    PartialClaims = FALSE
    Sweeps = TRUE
    MaxIndex = 4
    MaxCrashes = 0
    MaxTimeouts = 1
    MaxDrops = 0
SPECIFICATION Spec
CHECK_DEADLOCK FALSE

INVARIANT ReplayIsIdempotent
