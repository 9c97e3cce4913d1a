CONSTANTS
    b = b
    m1 = m1
    m2 = m2
    t0 = t0
    NoTx = NoTx
    Genesis = t0
    Base <- MCBase
    Value <- MCValue
    Transfer <- MCTransfer
    Onchain <- MCOnchain
    Dated <- MCDated
    Tx <- MCTx
    Proof <- MCProof
    Need <- MCNeed
    Amount <- MCAmount
    Mishap <- MCMishaps
    MaxMishaps = 1
    SendFrom = {"here", "there"}
    DefaultFrom = "there"
    SendCases <- MCSendCases
    Wallets <- MCWallets
    FeeRates = {0, 500, 1000}
    Targets = {1, 3, 5, 8, 12}
    MaxIterations = 3
SPECIFICATION PaymentsSpec
CHECK_DEADLOCK FALSE
INVARIANT CompletedOnlyIfPaid
INVARIANT ChangeKept
INVARIANT PaidNotSpendable
INVARIANT FailureIsTrue
INVARIANT NothingStranded
INVARIANT OneLossIsSurvived
INVARIANT ClaimShownIsTrue
INVARIANT PaysAsRequested
INVARIANT FundsSuffice
