CONSTANTS
    r0 = r0
    r1 = r1
    s1 = s1
    s2 = s2
    i1 = i1
    i2 = i2
    Resolvers <- MCResolvers
    InitResolver = r0
    Setters = {s1}
    InfoReaders = {i1, i2}
    NumPeers = 2
    Torn = Torn
    NoSetter = NoSetter
    n1 = n1
    a1 = a1
    f1 = f1
    f2 = f2
    Notifiers = {n1}
    Adders = {}
    Finders = {}
    MaxNotifiers = 0
    NoAdder = NoAdder
SPECIFICATION Spec

INVARIANT FullHistoryUsesOneResolver

