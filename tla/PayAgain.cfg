CONSTANTS
    Payer = {"here", "there"}
    FirstPayer = "here"
    PayCases <- MCPayCases
    MaxPayments = 2
SPECIFICATION PaySpec
CHECK_DEADLOCK FALSE
INVARIANT WrittenOffIsTaken
