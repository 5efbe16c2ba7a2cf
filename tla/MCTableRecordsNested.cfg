SPECIFICATION Spec
CONSTANTS
  PAGE_SIZE = 128
  Schemas <- MCSchemas
  SetValues <- MCSetValues
  Conditions <- MCNested
INVARIANT ResultIsBool
