\* One call, the provider ready at boot; decoding may fail, LND may forget.
SPECIFICATION FairSpec
CONSTANTS
    u1 = u1
    owner = owner
    Users <- MCUsers
    Owner = owner
    Invoices = {i1}
    Calls = {c1}
    Price = 2
    ServiceFee = 2
    NetFees = {1, 3}
    InitBalance <- MCInitBalance
    Rails = {"lnd", "provider"}
    LateWindow = 0
    DecodeMayFail = TRUE
    HistoryLoss = TRUE
    ConnectedAtBoot = TRUE
    NoInvoice = NoInvoice
INVARIANTS
    IndexGuardsRefund
PROPERTIES
    LockReleased
    ReservationsEnd
    ProviderPaymentsFinalized
