\* One queue, two urls, files of two urls, a crash before any change.
CONSTANTS
    u1 = u1 u2 = u2 u3 = u3 wait = wait
    URLsDiskWait = wait
    Urls <- MCUrls
    Order <- MCOrder
    Match <- MCMatch
    UrlByFile = 2
    CanReload = TRUE
    CrashPoints <- AnyTime
    MaxFile = 2
SPECIFICATION Spec
INVARIANTS
    NeverStarved
    LengthExact
PROPERTIES
    QueuePromise
