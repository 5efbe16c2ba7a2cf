SPECIFICATION Spec
CONSTANTS
  PAGE_SIZE = 128
  Schemas <- MCSchemas
  SetValues <- MCSetValues
  Conditions <- MCConditions
INVARIANTS
  TypeOK
  SchemaKept
  AttrsKept
  SerializerAgrees
  EvalMeans
