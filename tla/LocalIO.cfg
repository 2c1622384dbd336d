CONSTANTS
    ChannelCount = 3
    MAX_UIE_INPUTS = 2
    Levels <- MCLevels
    InputMode = "NC"
    ButtonCount = 1
SPECIFICATION Spec
INVARIANTS
    TypeOK
    ToldIsStored
    OffIsDark
    HeardIsLevel
PROPERTIES
    NoForeignNews
    AlarmRaised
    BlinkersBlink
    RedLedBlinks
