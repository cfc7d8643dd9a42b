CONSTANTS
  ProtectedKeys = {"cattle.io/creator"}
  FieldKeys = {"field.cattle.io/team","field.cattle.io/description","field.cattle.io/options"}
  Extras <- MCExtras
  MaxExtras = 2
  Schemas <- MCSchemas
  Root = "thing"
  SubMappers <- MCSubMappers
  Objects <- MCObjects
  Edits <- MCEdits
SPECIFICATION Spec
INVARIANTS ShownIsDeclared ReadBack
PROPERTIES NothingLost
CHECK_DEADLOCK FALSE
