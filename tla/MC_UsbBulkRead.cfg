CONSTANTS
    URB = 4
    Pkt = 2
    MaxSizes = {3, 4, 8, 9}
    RespLen = 3
    RespMax = 4
    Flaky = TRUE
    MaxQueued = 4
SPECIFICATION Spec
INVARIANT TypeOK WritesInBuffer ExactPhaseIntact
CONSTRAINT QueueBound
