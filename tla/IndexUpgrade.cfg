\* Two releases with different schemas.
CONSTANTS
  Process = {"old", "new"}
  Schema = {"s1", "s2"}
  NoSchema = NoSchema
  SchemaOf <- MCSchemaOf
SPECIFICATION UpgradeSpec
INVARIANT AloneHasItsIndex
