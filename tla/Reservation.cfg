CONSTANTS
    p1 = p1
    p2 = p2
    p3 = p3
    t1 = t1
    t2 = t2
    NoTx = NoTx
    Proof <- MCProof
    Tx <- MCTx
SPECIFICATION Spec
CHECK_DEADLOCK FALSE
SYMMETRY Symmetry
INVARIANT TypeOK
INVARIANT LocksAreSafe
INVARIANT MemoryMirrorsDisk
PROPERTY ImplementsLedger
