\* One thread: a driver adds the lock map with _DRM_DRIVER, the X server
\* adds it again; drm_find_matching_map does not match the two.
CONSTANTS
    Procs <- MCProcs1
    Ids <- MCIds
    Res <- MCRes
    Keys <- MCKeys
    HashKeys <- MCHashKeys
    KeyOf <- MCKeyOf
    Reqs <- MCReqsLock
    Master = Master
    NoId = NoId
    NoKey = NoKey
    NoMaster = NoMaster
    MaxMaps = 3
    p1 = p1
    p2 = p2
    e1 = e1
    e2 = e2
    e3 = e3
    r1 = r1
    k1 = k1
    k2 = k2
    k3 = k3
SPECIFICATION Spec
INVARIANT SingleLockMap
