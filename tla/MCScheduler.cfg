SPECIFICATION FairSpec
CONSTANTS
    Ticks = {1, 2, 6}
    Horizon = 7
    TTL = 2
    MaxLag = 1
    NoTick = NoTick
INVARIANTS TypeOK OneAtATime OnceEach
PROPERTIES Forward EveryTickIsServed
CHECK_DEADLOCK FALSE
