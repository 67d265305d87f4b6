SPECIFICATION FairSpec
CONSTANTS
    s1 = s1
    s2 = s2
    t1 = t1
    u1 = u1
    Shares = {s1, s2}
    Tasks = {t1}
    Users = {u1}
    About <- MCAbout
    To <- MCTo
    Droppable = {u1}
    Slots = {h1, h2}
    Prefetch = 1
    Breaks = 1
    Replays = 1
    Idle = Idle
INVARIANTS
    TypeOK
    NoRecipientForgotten
    OneHolder
    RepeatsNeedABreak
PROPERTIES
    EveryMessageSettled
    NotifiesOrReports
CHECK_DEADLOCK FALSE
