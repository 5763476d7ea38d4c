\* Two replicas of one release start, serve and stop side by side.
CONSTANTS
  Process = {p1, p2}
  Schema = {"s1", "s2"}
  NoSchema = NoSchema
  SchemaOf <- MCSchemaOf
  Workflow = {f1, f2}
  Worker = {"archive"}
  MaxAttempts = 2
  Batch = 2
  MaxHandler = 1
SPECIFICATION FairSpec
INVARIANTS
  TypeOK
  SettledIndexRight
  
  WorkKeepsItsClients
PROPERTIES
  SignalEnds
  StartSettles
