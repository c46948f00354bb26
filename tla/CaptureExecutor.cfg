CONSTANTS
    ItemCount = 2
    MaxAttempts = 3
    MaxCorroborations = 1
    Offered <- MCOffered
SPECIFICATION FairSpec
INVARIANTS NeverRefused OneStory SecondOriginWhole
PROPERTIES ImplementsContract SecondOriginHarmless EveryRunEnds
