CONSTANTS
    o1 = o1
    o2 = o2
    Obj <- MC_Obj
    NoObj = NoObj
    Stale = Stale
    Stuck = Stuck
SPECIFICATION Spec
INVARIANT TypeOK
INVARIANT OneLiveConnectionPerKey
 
INVARIANT EndpointsFound
INVARIANT ListedDevicesFound
INVARIANT LibrariesRegistered
INVARIANT StartupRegistered
INVARIANT PtpErrorsDescribed
INVARIANT ArraysExact
PROPERTY ConnectRecovers
SYMMETRY MC_Symmetry
