SPECIFICATION Spec
CONSTANTS
  Replicas = {r1}
  Targets <- MCTargets
  Dimensions = {384, 1024}
  PgVectors <- MCPgVectors
  Written = {"learnings", "notes", "passages"}
INVARIANTS
  TypeOK
  EveryStatementRuns
  RevisionFixesSchema
PROPERTY
  ServesOnlyAtHead
