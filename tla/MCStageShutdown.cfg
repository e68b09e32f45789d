SPECIFICATION Spec
CHECK_DEADLOCK FALSE
CONSTANTS
    Channels <- MCChannels
    Cascaded <- MCCascaded
    SkipFrames = 0
    MaxFrames <- MCMaxFrames
    RuleChannels <- MCRuleChannels
    MaxRules = 0
PROPERTIES
    ShutdownReturns
