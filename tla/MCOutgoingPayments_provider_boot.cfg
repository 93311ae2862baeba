\* The real order of start-up: nostr is attached after recovery.
SPECIFICATION FairSpec
CONSTANTS
    u1 = u1
    owner = owner
    Users <- MCUsers
    Owner = owner
    Invoices = {i1}
    Calls = {c1}
    Price = 2
    ServiceFee = 2
    NetFees = {1}
    InitBalance <- MCInitBalance
    Rails = {"lnd", "provider"}
    LateWindow = 0
    DecodeMayFail = FALSE
    HistoryLoss = FALSE
    ConnectedAtBoot = FALSE
    NoInvoice = NoInvoice
PROPERTIES
    ProviderPaymentsFinalized
