SPECIFICATION FairSpec
CONSTANTS
    HttpsWords <- MCHttps
    SecureWords <- MCSecure
    PlainWords <- MCPlain
    Lists <- MCLists
    Mounts <- MCMounts
    MaxChanges = 1
    MaxFaults = 1
INVARIANTS
    TypeOK
    PlainIsWanted
    HttpsNeedsTLS
    ListsAreRead
PROPERTY
    Settles
CHECK_DEADLOCK FALSE
