---------------------------- MODULE MCModelLoading ----------------------------
(***************************************************************************)
(* ModelLoading on a directory of two names, one of which may at first be  *)
(* anything; and on one of two models and a file without the extension.    *)
(***************************************************************************)
EXTENDS ModelLoading

TwoModels == {[a |-> kind, b |-> "file"] : kind \in {"file", "inner", "folder"}}

WithNotes == {[a |-> "file", b |-> "file", notes |-> "file"]}
=============================================================================
