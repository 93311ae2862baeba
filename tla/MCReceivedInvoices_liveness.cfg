SPECIFICATION FairSpec
CONSTANTS
    Users = {"u1", "owner"}
    Owner = "owner"
    Invoices = {"i1", "i2"}
    AtProvider = {}
    OwnerOf <- MCOwnerOf
    Amount = 2
    SendFee = 1
    InitBalance <- MCBalance
    Calls = {"c1"}
    Streams = {"s1", "s2"}
    MaxCallbacks = 1
    Unlucky = {}
PROPERTY SettledCredited
