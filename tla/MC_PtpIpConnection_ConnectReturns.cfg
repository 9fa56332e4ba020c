CONSTANTS
    i1 = i1
    i2 = i2
    l1 = l1
    l2 = l2
    b1 = b1
    b2 = b2
    b3 = b3
    LbufIds <- MC_LbufIds
    Blocks <- MC_Blocks
    DataSizes = {24, 80}
    Counts = {4}
    CallerSizes <- MC_CallerSizes
    PackedSizes = {0, 24, 48}
    Ids <- MC_Ids
    NoId = NoId
    Zero = Zero
    MaxFds = 3
    NAddr = 2
    AckLen = 40
    AckSplits = {1, 8, 12, 28, 40}
    EvSplits = {4, 8}
    Flaky = TRUE
SPECIFICATION FairCallsSpec
PROPERTY ConnectReturns
