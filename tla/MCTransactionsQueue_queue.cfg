\* Three clients, readers and writers; safety, the refinement and progress.
SPECIFICATION FairSpec
CONSTANTS
    Clients = {c1, c2, c3}
    NoClient = NoClient
    InitialValue = 1
    Cap = 1
INVARIANTS TypeOK Exclusion NoDirtyRead CheckedStillTrue NoLostWaiter
PROPERTIES StoreSpec WritersServed ReadersServed
