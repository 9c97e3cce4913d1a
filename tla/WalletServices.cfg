CONSTANTS
    tok = tok
    off = off
    req = req
    lnq = lnq
    btcq = btcq
    receive1 = receive1
    offline1 = offline1
    request1 = request1
    topup1 = topup1
    rescue1 = rescue1
    deposit1 = deposit1
    deposit2 = deposit2
    Source <- MCSource
    MaxPaid <- MCMaxPaid
    InTx <- MCInTx
    InKind <- MCInKind
    Origin <- MCOrigin
    Sessions <- MCSessions
    MintCap = 1
    InHealStep = 1
    MaxInIndex = 3
    pay1 = pay1
    pay2 = pay2
    pay3 = pay3
    note1 = note1
    note2 = note2
    note3 = note3
    ask1 = ask1
    Event <- MCEvent
    EventKind <- MCEventKind
    Bill <- MCBill
    FeeReserve = 1
    Fees = {0}
    DailyLimit = 4
    Funds = 7
    MaxMultiPay = 2
    RingSize = 2
    MaxDay = 1
    MaxRuns = 2
    Scenarios <- MCScenarios
    Call <- MCCall
    Function_ <- MCFunction
    Awaited = {"send1", "send2"}
    Urgent = {"send1"}
    Loop = {"loop1", "loop2"}
    LoopName <- MCLoopName
    MaxPolls = 2
    Url = {"here", "there"}
    Keyset = {"old", "new"}
    FirstKeyset = "old"
    MaxMints = 2
    MaxDraws = 1
    Budgets <- MCBudgets
    Lane = {"lane1", "lane2"}
    MaxDismissals = 1
    MaxVisits = 1
    Payer = {"here", "there"}
    FirstPayer = "here"
    PayCases <- MCPayCases
    MaxPayments = 2
    Seed = {"s1", "s2"}
    NoSeed = "none"
    RestoreInterval = 2
    MaxIndex = 4
    Phones <- MCPhones
SPECIFICATION Spec
CHECK_DEADLOCK FALSE
INVARIANT EcashIsReported
INVARIANT IssuedIsCredited
INVARIANT LimitHolds
INVARIANT HandledOnce
INVARIANT ErrorMeansUnpaid
INVARIANT OutputsFresh
INVARIANT BookIsOnDisk
INVARIANT PaymentNeedsConsent
INVARIANT CompletedShownIsPaid
INVARIANT ForeignQuoteCostsNothing
INVARIANT IndexNotRepeated
INVARIANT OnboardedHasKeys
PROPERTY PaidIsMinted
PROPERTY QueueMovesOn
PROPERTY CallsSettle
PROPERTY ReaderComesBack
