CONSTANTS
  EnumSeq <- MCEnumSeq
  Opposite <- MCOpposite
  Arity <- MCArity
  NumUniverse <- MCUniverse
  Symmetric = {"rel"}
  Antisymmetric = {"rel"}
  Numeric = {"num"}
  U32Max = 100
  MaxLen = 5
  MaxObj = 3
  Systems <- MCSystems
SPECIFICATION Spec
INVARIANTS SolutionsKept CounterExact FixpointReached FiltersFaithful DomainsSound
PROPERTIES PropagationEnds
CHECK_DEADLOCK FALSE
