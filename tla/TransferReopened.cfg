CONSTANTS
    b = b
    m1 = m1
    m2 = m2
    t0 = t0
    NoTx = NoTx
    Genesis = t0
    Base <- MCBase
    Value <- MCValue
    Transfer <- MCTransfer
    Onchain <- MCOnchain
    Dated = {}
    Tx <- MCTx
    Proof <- MCProof
    Need <- MCNeed
    Amount <- MCAmount
    Mishap <- MCMishaps
    MaxMishaps = 0
SPECIFICATION Spec
CHECK_DEADLOCK FALSE
PROPERTY TerminalIsFinal
