CONSTANTS
  Channels = {c1, c2}
  NoClient = NoClient
  Clients = {p1, p2, p3}
SPECIFICATION Spec
SYMMETRY Symmetry
INVARIANTS ListsAreSets CountersExact
PROPERTY ImplementsPubsub
