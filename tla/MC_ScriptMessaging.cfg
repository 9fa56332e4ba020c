CONSTANTS
    MaxId = 3
    MaxBoot = 2
    QSize = 1
    OutMax = 2
    Flaky = TRUE
SPECIFICATION Spec
CONSTRAINT OutBound
INVARIANT TypeOK DefaultReachesAckedScript
PROPERTY CallerSeesMessageTransfers
