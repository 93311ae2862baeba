\* Two outputs and an internal send; registering the small one and the start-up
\* check may fail.
SPECIFICATION FairSpec
CONSTANTS
    Users = {"u1", "owner"}
    Owner = "owner"
    Outputs = {"small", "large"}
    Sends = {"s1"}
    OwnerOf <- MCOwnerOf
    Amount = 2
    SendFee = 1
    Needed <- MCNeeded
    InitBalance <- MCBalance
    Handlers = {"boot", "stream"}
    Boot = "boot"
    NoOutput = NoOutput
    Unlucky = {"small"}
    CheckMayFail = TRUE
    Deepest = 2
    Fragile = {"tx"}
INVARIANTS TypeOK ReceiptInv CheckInv
PROPERTIES LedgerSpec SeenReceiptsCredited
