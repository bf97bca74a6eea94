\* Two threads adding and removing every kind of map; three hashed keys
\* for three entries, so drm_map_handle always finds a key.
CONSTANTS
    Procs <- MCProcs2
    Ids <- MCIds
    Res <- MCRes
    Keys <- MCKeys
    HashKeys <- MCHashKeys
    KeyOf <- MCKeyOf
    Reqs <- MCReqsAll
    Master = Master
    NoId = NoId
    NoKey = NoKey
    NoMaster = NoMaster
    MaxMaps = 3
    p1 = p1
    p2 = p2
    e1 = e1
    e2 = e2
    e3 = e3
    r1 = r1
    k1 = k1
    k2 = k2
    k3 = k3
SYMMETRY MCSymm
SPECIFICATION Spec
INVARIANT HashMatchesList
