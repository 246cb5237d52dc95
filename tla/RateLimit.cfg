\* Two deliveries at once, two deaths; the limits and lives are those of MCRateLimit.
SPECIFICATION FairSpec
CONSTANTS
    Call = {c1, c2}
    Limit <- MCLimit
    Life <- MCLife
    MaxCrashes = 2
INVARIANTS
    TypeOK
    LimitHolds
    ArmedOrArming
PROPERTIES
    BanEnds
