CONSTANTS
    Handlers = {h1, h2}
    Discoverers = {d1, d2}
    Attrs = {mtu, speed}
    Vals = {0, 1}
    Nodes = {n1, n2, n3}
    MaxChanges = 2
SPECIFICATION Spec
SYMMETRY Symmetry
INVARIANTS
    TypeOK
    InSync
    NodesOfOneRound
CHECK_DEADLOCK FALSE
