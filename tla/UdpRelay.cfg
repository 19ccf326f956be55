SPECIFICATION FairSpec
CONSTANTS
    Client = {a, b}
    Ref = {r1, r2, r3}
    Query = {q1, q2}
    Capacity = 3
    Numeric = {"inet"}
    None = None
INVARIANT CacheSound
INVARIANT LookupsOwn
PROPERTY LookupEnds
