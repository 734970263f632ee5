SPECIFICATION Spec
CONSTANTS
    FlightTime = 1
    LongFlightTime = 1
    BurstDuration = 3
    Bursts = {"b1", "b2"}
    Objects = {"p2", "sprinkler", "bubble", "rail", "barrel", "hook", "sponge",
               "canopy", "rainmaker"}
    Movers = {"p2"}
    Teams = {"alpha", "bravo"}
    SenderOf <- MCSenderOf
    TeamOf <- MCTeamOf
    KindOf <- MCKindOf
    FirstTeam <- MCFirstTeam
    RadiusStart = 1
    RadiusEnd = 3
    FirstDists <- MCFirstDists
    FullHp = 2000
    DmgStart = 2
    DmgEnd = 1
    SpongeFrames = 2
    PaintFrames = 2
    TableSize = 3
    HoldFrames = 2
    HalfHeight = 4
    WaterRel <- MCWaterRel
    TiedBlocks = {"ramp"}
    BlockReports <- MCBlockReports
INVARIANTS TypeOK HitsFollowClock OneGrabPerBurst CreditGoesHome EachBlockOnce
PROPERTIES ImplementsReservedHits
