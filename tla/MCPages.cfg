\* One submitted url and two pages, and the names of hosts.
CONSTANTS
    None = None
    Lower <- MCLower
    PortOf <- MCPortOf
    Width <- MCWidth
    MaxUrl = 48
    MaxSite = 16
    MaxCookie = 4
    Options <- MCOptions
    Units <- MCUnits
    Seeds <- MCSeeds
    InputDepth = 1
    DepthInSite = 2
    Answers <- MCAnswers
    Bodies <- MCBodies
    RobotsAnswers <- MCRobotsAnswers
    RobotsFiles <- MCRobots
    ForbExt = {".gz"}
    Domains = {}
    MaxPage = 21
    MaxSpec = 4
    MaxRobots = 19
    MaxItems = 2
    MaxFetches = 2
SPECIFICATION Spec
INVARIANTS
    PiecesDontMatter
    LinksRight
    QueueKeeps
    RobotsObeyed
    PunycodeInverse
CHECK_DEADLOCK FALSE
