\* One page, reloaded now and then.
CONSTANTS
    Pages = {p1}
    Kinds = {"CREATE_ORDER", "POST_PAYMENT", "UPSERT_SHIPMENT"}
    OFFLINE_SYNC_RETRY_MAX = 2
    MaxItems = 2
    MaxReloads = 2
    MaxCount = 5
SPECIFICATION FairSpec
INVARIANTS
    TypeOK
    RepeatsAreExplained
    AttemptsBounded
    NothingLost
    TriedInOrder
PROPERTY DrainEnds
