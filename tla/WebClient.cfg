SPECIFICATION LiveSpec
CONSTANTS
    None = None
    Refused = Refused
    NoStream = NoStream
    Stream = {m1, m2, m3}
    MaxHub = 4
    MaxClicks = 2
    MaxLost = 1
    MaxFlows = 2
    MaxInputs = 1
    MaxPauses = 1
    MaxPicks = 4
    MaxActs = 3
    MaxBots = 1
    MaxFlight = 2
INVARIANTS TypeOK PollsUnlessOvertaken PipelineHonoured OneTake OneMicrophone MicrophoneOff ListSettles
PROPERTIES ListIsMirror ChainDone  TagsSpent LinkNoticed
CHECK_DEADLOCK FALSE
