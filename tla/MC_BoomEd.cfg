CONSTANTS
  Windows = {w1, w2}
  Versions <- MCVersions
  Addr = {a1, a2, a3}
  NULL = NULL
SPECIFICATION Spec
INVARIANTS TypeOK GlfwUsedInOrder DrawsInItsContext NoDanglingWindow
  PoolOutlivesCommands LeavesNothing
PROPERTIES ImplementsScopes ImplementsFactory CloseEnds
