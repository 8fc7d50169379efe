CONSTANTS
  Addr = {a1, a2, a3, a4}
  Pools = {p1, p2}
  Handles = {h1, h2}
  NULL = NULL
SPECIFICATION Spec
INVARIANTS TypeOK DeleterMatches OneOwner NoLeak NameInPool
PROPERTIES GivenBackAsTaken ImplementsOwner
