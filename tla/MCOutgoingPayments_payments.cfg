\* Two calls, two invoices, both rails; a request may register late.
SPECIFICATION Spec
CONSTANTS
    u1 = u1
    owner = owner
    Users <- MCUsers
    Owner = owner
    Invoices = {i1, i2}
    Calls = {c1, c2}
    Price = 2
    ServiceFee = 2
    NetFees = {1, 3}
    InitBalance <- MCInitBalance
    Rails = {"lnd", "provider"}
    LateWindow = 2
    DecodeMayFail = FALSE
    HistoryLoss = FALSE
    ConnectedAtBoot = TRUE
    NoInvoice = NoInvoice
SYMMETRY MCSymmetry
INVARIANTS
    TypeOK
    OneCallPerInvoice
    NoRefundOfDelivered
    BooksBalance
    Solvent
    PaymentInv
PROPERTIES
    LedgerSpec
