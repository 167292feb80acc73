SPECIFICATION FairSpec
CONSTANTS
    s1 = s1
    s2 = s2
    Swipes = {s1, s2}
    Known = {s1}
    MaxRestarts = 2
    TokenTicks = 1
    AccessTicks = 1
    MaxTokens = 2
    MaxClock = 2
INVARIANTS UnlockOnce
PROPERTIES OutboxKept  
