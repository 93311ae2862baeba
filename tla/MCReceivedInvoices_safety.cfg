SPECIFICATION Spec
CONSTANTS
    Users = {"u1", "owner"}
    Owner = "owner"
    Invoices = {"i1", "i2"}
    AtProvider = {"i2"}
    OwnerOf <- MCOwnerOf
    Amount = 2
    SendFee = 1
    InitBalance <- MCBalance
    Calls = {c1, c2}
    Streams = {s1, s2}
    MaxCallbacks = 2
    Unlucky = {"i1"}
SYMMETRY CallSymmetry
INVARIANTS TypeOK InvoiceInv
PROPERTY LedgerSpec
