CONSTANTS
  k1 = k1
  k2 = k2
  k3 = k3
  k4 = k4
  k5 = k5
  Keys = {k1, k2, k3, k4, k5}
  Values = {v1, v2, v3, v4, v5, v6}
  NULL = NULL
  Hash <- MCHash
  InitialCapacity = 4
  SizeMax = 15
SPECIFICATION Spec
SYMMETRY Symmetry
INVARIANTS TypeOK FindTerminates CountsExact Reachable Ownership
PROPERTY ImplementsTable
