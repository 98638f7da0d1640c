CONSTANTS
    a1 = a1
    o1 = o1
    o2 = o2
    Sessions = {s1, s2}
    Agents = {a1}
    Orgs = {o1, o2}
    Queries <- MCQueries
    Retrievals = {c1}
    MaxStored = 2
SPECIFICATION MemorySpec
PROPERTIES
    SessionIsOwnOrLatest
