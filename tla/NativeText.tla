------------------------------ MODULE NativeText ------------------------------
(***************************************************************************)
(* How LlamaRuntime gets texts out of llama.cpp                            *)
(* (src/src/engine/llama_runtime.cpp): a first call with a buffer of a     *)
(* fixed size, and a second one with the size the first asked for.         *)
(*                                                                         *)
(* A text is a sequence of characters, a buffer a sequence of the same     *)
(* with Nul where nothing was written; a negative return value means that  *)
(* the call failed.  The functions of llama.cpp come in three kinds:       *)
(*   copying   writes a text that fits and returns its length; otherwise   *)
(*             writes nothing and returns minus its length                 *)
(*   cutting   writes what fits and returns the length of the whole        *)
(*   printing  snprintf: what fits with a final Nul, and the whole length  *)
(*                                                                         *)
(* Operators named X_Y are mistaken variants of X that only show that some *)
(* property tells X from X_Y.                                              *)
(***************************************************************************)
EXTENDS Integers, Sequences, FiniteSetsExt

CONSTANTS
  Nul,          \* the character '\0'
  Unsupported,  \* no text: the template or the key is unknown
  Failure       \* NativeError

Fresh(size) == [i \in 1 .. size |-> Nul]

Filled(size, text) == [i \in 1 .. size |-> IF i <= Len(text) THEN text[i] ELSE Nul]

copying(text, size) ==
  IF Len(text) > size THEN [n |-> -Len(text), out |-> Fresh(size)]
  ELSE [n |-> Len(text), out |-> Filled(size, text)]

cutting(text, size) == [n |-> Len(text), out |-> Filled(size, text)]

printing(text, size) ==
  [n |-> Len(text), out |-> Filled(size, SubSeq(text, 1, Min({Len(text), size - 1})))]

-----------------------------------------------------------------------------
\* tokenize and token_to_piece: a negative answer is the size to ask for.
FirstThenExact(text, room) ==
  LET first == copying(text, room)
      call == IF first.n < 0 THEN copying(text, -first.n) ELSE first
  IN  IF call.n < 0 THEN Failure ELSE SubSeq(call.out, 1, call.n)

\* render_chat: a negative answer is a template llama.cpp does not know.
render_chat(text, room) ==
  IF text = Unsupported THEN Failure
  ELSE LET first == cutting(text, room)
           call == IF first.n > room THEN cutting(text, first.n) ELSE first
       IN  SubSeq(call.out, 1, call.n)

metadata_WithoutNul(text, room) ==
  IF text = Unsupported THEN <<>>
  ELSE LET first == printing(text, room)
           call == IF first.n > room THEN printing(text, first.n + 1) ELSE first
       IN  SubSeq(call.out, 1, call.n)

\* metadata: a text of room characters does not fit, for snprintf needs one
\* more; an unknown key is the empty text.
metadata(text, room) ==
  IF text = Unsupported THEN <<>>
  ELSE LET first == printing(text, room)
           call == IF first.n >= room THEN printing(text, first.n + 1) ELSE first
       IN  SubSeq(call.out, 1, call.n)

\* model_description: one call, cut to what it wrote.
model_description(text, room) ==
  LET call == printing(text, room)
  IN  SubSeq(call.out, 1, Min({call.n, room - 1}))

-----------------------------------------------------------------------------
\* What each of them should return.
Whole(query, text, room) ==
  IF text = Unsupported THEN (IF query = "chat" THEN Failure ELSE <<>>)
  ELSE IF query = "description" THEN SubSeq(text, 1, Min({Len(text), room - 1}))
  ELSE text

Returned(query, text, room) ==
  CASE query \in {"tokens", "piece"} -> FirstThenExact(text, room)
    [] query = "chat" -> render_chat(text, room)
    [] query = "metadata" -> metadata(text, room)
    [] OTHER -> model_description(text, room)
=============================================================================
