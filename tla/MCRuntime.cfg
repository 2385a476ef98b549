SPECIFICATION RuntimeSpec
CONSTANTS
    e1 = e1
    e2 = e2
    e3 = e3
    e4 = e4
    Elements = {e1, e2, e3, e4}
    HashOf <- FourHashes
    Lookers = {t1, t2}
    Bases <- ThreeClasses
    Loaded = {3}
    Functions = {f1}
    Properties = {p1}
    Missing = Missing
    MaxEpoch = 3
    MaxClasses = 5
    x = x
    y = y
    z = z
    Strs = {a, b}
    Others = {x, y, z}
    Hash <- ThreeHashes
    Vals = {v1, v2}
    Deleted = Deleted
    Slack = 1
    MaxSlots = 5
    Nodes = {n1, n2, n3}
    Stranger = Stranger
    MaxBatch = 2
    p = p
    pa = pa
    pb = pb
    pc = pc
    m = m
    none = none
    Modules = {p, pa, pb, pc, m, none}
    Parent <- Tree
    Dotted <- Names
    Root = Root
    Packages = {p, pa}
    Files = {p, pa, pb, pc, m}
    MaxObjects = 4
    Runners = {r1, r2}
    MaxTime = 1
    Priorities = {1, 2}
    MaxEvents = 2
    Arguments = {k1, k2, k3}
    MaxSizes = {0, 1, 2}
    MaxDepth = 2
SYMMETRY Interchangeable
INVARIANTS PlacesAreExact CacheIsFresh OrderIsSound SorterKeepsOrder CacheIsWhole
    LeastRecentGoes
PROPERTIES ImplementsMap EventsRunInTurn
CHECK_DEADLOCK FALSE
