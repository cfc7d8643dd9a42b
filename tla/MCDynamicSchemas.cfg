CONSTANTS
  Plural <- MCPlural
  Lower <- MCLower
  FullNames <- MCFullNames
  GoTypes <- MCGoTypes
  TypeNames <- MCTypeNames
  Mapped = {"node", "part"}
  Programs <- MCPrograms
  Customs <- MCCustoms
  Dynamics <- MCDynamics
  MaxCalls = 3
SPECIFICATION Spec
INVARIANTS ImportIsComplete EmbedIsClean BackReferences ListIsClosed
CHECK_DEADLOCK FALSE
