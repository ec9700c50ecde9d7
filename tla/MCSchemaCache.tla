--------------------------- MODULE MCSchemaCache ---------------------------
(* SchemaCache with its history on a few keys and entries of several sizes. *)
EXTENDS SchemaCacheHistory

CONSTANTS none, small, large, oversize

MCEntry == {none, small, large, oversize}
MCCheckpointBytes ==
  [e \in MCEntry |-> CASE e = none     -> 0    \* an entry without checkpoint
                       [] e = small    -> 1
                       [] e = large    -> MaxBytes - 1
                       [] e = oversize -> MaxBytes + 1]
=============================================================================
