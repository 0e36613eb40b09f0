\* A mutation queued while a drain is failing.
CONSTANTS
    Pages = {p1}
    Kinds = {"POST_PAYMENT"}
    OFFLINE_SYNC_RETRY_MAX = 2
    MaxItems = 2
    MaxReloads = 0
    MaxCount = 1
SPECIFICATION FairSpec
PROPERTY SyncsWhenConnected
