SPECIFICATION FairSpec
CONSTANTS
    Players = {p1, p2}
    MaxHealth = 1
    WallWait = 2
    PlayerHitWait = 2
    ChanceLen = 2
    MaxContact = 7
    mMuteki = TRUE
    mMutekiBulletIgnore = TRUE
    mIsMutekiChanceChanging = TRUE
    mIsMutekiNormalChanging = FALSE
INVARIANTS TypeOK WallBounce DrownShows HostileLooks PushedOnce
PROPERTIES Dies
