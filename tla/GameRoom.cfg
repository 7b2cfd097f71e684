\* Two clients that log in, enter, chat twice in all and drop off at any time;
\* one call of one of them, or of its session, is refused.
CONSTANTS
    Clients = {c1, c2}
    Room = room
    NoPlayer = NoPlayer
    MaxChats = 2
    MaxRefused <- OneRefused
SPECIFICATION FairGameSpec
INVARIANTS
    RoomOrder
    SeesOwnChats
    LeavesForGood
    PlayersThere
PROPERTY
    EveryClientEnters
\* All clients may have left; an undefined access ends the process.
CHECK_DEADLOCK FALSE
