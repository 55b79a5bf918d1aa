CONSTANTS
  Fds = {f1, f2, f3}
  MaxBytes = 2
SPECIFICATION NetSpec
INVARIANTS NoLeak NeverBlocks
