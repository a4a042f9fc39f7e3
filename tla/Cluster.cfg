CONSTANTS
    Pods = {p1, p2}
    Containers = {n1}
    LabelSets = {l1, l2}
    Vpas = {v1}
    Selectors = {s1, s2}
    Matches <- MCMatches
    Aggs = {a1, a2, a3}
    p1 = p1
    p2 = p2
    n1 = n1
    l1 = l1
    l2 = l2
    v1 = v1
    s1 = s1
    s2 = s2
    a1 = a1
    a2 = a2
    a3 = a3
    MaxUsage = 2
    Metered = {p1}
    None = None
    Proxy = Proxy
SPECIFICATION Spec
SYMMETRY Symmetry
INVARIANTS
    VpaBooksExact
    NoStrayWrite
    OnePeakPerWindow
