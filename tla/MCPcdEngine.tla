----------------------------- MODULE MCPcdEngine -----------------------------
(***************************************************************************)
(* PcdEngine on three schemas and two contexts.  Prefixes and contexts of  *)
(* one and of several batches; a field that resolves at once, one whose    *)
(* choices share more tokens than the tree may walk, one where a choice is *)
(* a prefix of another; checkpoints of which two fit the cache, or the     *)
(* third alone.  With the short context schema a fills the context window  *)
(* exactly, with the long one it does not fit.                             *)
(***************************************************************************)
EXTENDS PcdEngine

CONSTANTS a, b, c, short, long

Field(suffix, candidates) == [suffix |-> suffix, candidates |-> candidates]

MCSchema ==
  [k \in Key |->
     CASE k = a -> [prefix |-> 3, bytes |-> 1,
                    fields |-> <<Field(1, <<<<1>>, <<2>>>>),
                                 Field(2, <<<<1, 1, 1, 1>>, <<1, 1, 1, 2>>, <<2>>>>)>>]
       [] k = b -> [prefix |-> 2, bytes |-> 1,
                    fields |-> <<Field(1, <<<<1>>, <<1, 2>>>>)>>]
       [] k = c -> [prefix |-> 1, bytes |-> 2,
                    fields |-> <<Field(1, <<<<1>>, <<2>>>>)>>]]

MCDynamicLength == [x \in Context |-> IF x = short THEN 1 ELSE 3]
=============================================================================
