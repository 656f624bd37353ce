\* Both queues, stopped between two operations.
CONSTANTS
    u1 = u1 u2 = u2 u3 = u3
    URLsDisk = URLsDisk URLsDiskWait = URLsDiskWait
    Urls <- ThreeUrls
    Order <- BothQueues
    Match <- FileNames
    UrlByFile = 2
    CanReload = TRUE
    CrashPoints <- Between
    MaxFile = 1
SPECIFICATION ResumeSpec
INVARIANT
    NeverStuck
