SPECIFICATION Spec
CONSTANTS
  ProtectedKeys = {"cattle.io/creator"}
  FieldKeys = {}
  WellFormed <- MCWellFormed
  Referable <- MCReferable
  DefaultLimit = 1000
  MaxLimit = 10000
  Collation <- MCCollation
  p = p
  q = q
  Clients <- MCClients
  Menus <- MCMenus
  Type = "thing"
  ResourceMethods = {"GET", "PUT", "DELETE"}
  CollectionMethods = {"GET", "POST"}
  CollectionFilters <- MCFilters
  ApiFields <- MCApiFields
  InternalSchemas <- MCInternal
  TypeMapper <- MCTypeMapper
  Creator = "user"
  GeneratedNames = {"g"}
  InitialObjects <- MCObjects
  States = {"ready"}
  Tries = 2
INVARIANTS ConflictMeansContention PagesCover
PROPERTIES StoreIsAtomic
SYMMETRY Alike
CHECK_DEADLOCK FALSE
