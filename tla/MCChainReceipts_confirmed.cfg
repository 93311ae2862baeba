SPECIFICATION FairSpec
CONSTANTS
    Users = {"u1", "owner"}
    Owner = "owner"
    Outputs = {"large"}
    Sends = {}
    OwnerOf <- MCOwnerOf
    Amount = 2
    SendFee = 1
    Needed <- MCNeeded
    InitBalance <- MCBalance
    Handlers = {"boot", "stream"}
    Boot = "boot"
    NoOutput = NoOutput
    Unlucky = {}
    CheckMayFail = FALSE
    Deepest = 3
    Fragile = {"tx", "block"}
PROPERTY ConfirmedAreProcessed
