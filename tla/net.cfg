SPECIFICATION FairSpec
CONSTANTS
    Files = {f1}
    HaveCredentials = TRUE
    StorageIsAddress = TRUE
INVARIANTS
    TypeOK
    ServerKnownForRequests
    NoFileForgotten
    UploadNeverEmpty
PROPERTIES
    BoxSpec
    FullAttempts
    DeafOncePolling
    WifiFollowsDriver
    TimeKeepsSynced
