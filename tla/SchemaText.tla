------------------------------ MODULE SchemaText ------------------------------
(***************************************************************************)
(* The texts a schema becomes (src/engine/schema.cpp): the cache key, the  *)
(* system prompt, and the pieces of the JSON object that are scored.       *)
(*                                                                         *)
(* A text is a sequence of bytes; what matters of a byte is whether JSON   *)
(* escapes it and whether it is part of a longer UTF-8 character.  A field *)
(* is a record: name, description, kind, and the labels of its choices.    *)
(***************************************************************************)
EXTENDS Naturals, Sequences, SequencesExt

Quote == "quote"
Backslash == "backslash"
Lead == "lead"                  \* first byte of a two-byte character
Trail == {"trail1", "trail2"}   \* second bytes of two such characters
Marker == "marker"              \* user_marker, which no part of a text matches

\* What json(...).dump() accepts: every character is whole.
IsText(s) ==
  \A i \in DOMAIN s :
    /\ s[i] = Lead => i < Len(s) /\ s[i + 1] \in Trail
    /\ s[i] \in Trail => i > 1 /\ s[i - 1] = Lead

\* The marker begins and ends with a control character, which JSON escapes.
json_escape(s) ==
  FlattenSeq([i \in DOMAIN s |->
                CASE s[i] \in {Quote, Backslash} -> <<Backslash, s[i]>>
                  [] s[i] = Marker -> <<Backslash, "u0001">>
                  [] OTHER -> <<s[i]>>])

Quoted(s) == <<Quote>> \o json_escape(s) \o <<Quote>>

Joined(items) == FlattenSeq([i \in DOMAIN items |-> IF i = 1 THEN items[1] ELSE <<",">> \o items[i]])

\* What two texts share, as std::mismatch finds it.
Shared(s, t) ==
  LET same == {n \in 0 .. Len(s) : n <= Len(t) /\ \A i \in 1 .. n : s[i] = t[i]}
  IN SubSeq(s, 1, CHOOSE n \in same : \A k \in same : k <= n)

common_prefix_OfTwo(choices) == Shared(choices[1], choices[2])

common_prefix(choices) == FoldLeft(Shared, choices[1], choices)

\* The common prefix compile() gives a field.
PrefixOf(field) == IF field.kind = "boolean" THEN <<>> ELSE common_prefix(field.choices)

Value(field, label) == IF field.kind = "boolean" THEN label ELSE Quoted(label)

Values(field) == Joined([i \in DOMAIN field.choices |-> Value(field, field.choices[i])])

canonical_schema_NamesOnly(fields) ==
  Joined([i \in DOMAIN fields |->
            <<"[">> \o Quoted(fields[i].name) \o <<",", fields[i].kind, ",", "[">>
              \o Values(fields[i]) \o <<"]", "]">>])

canonical_schema(fields) ==
  Joined([i \in DOMAIN fields |->
            <<"[">> \o Joined(<<Quoted(fields[i].name), Quoted(fields[i].description)>>)
              \o <<",", fields[i].kind, ",", "[">> \o Values(fields[i]) \o <<"]", "]">>])

\* The description goes in as it is.
schema_system_prompt(fields) ==
  FlattenSeq([i \in DOMAIN fields |->
                <<"- ">> \o Quoted(fields[i].name)
                  \o (IF fields[i].description = <<>> THEN <<>> ELSE <<": ">> \o fields[i].description)
                  \o <<". Allowed values: ">> \o Values(fields[i]) \o <<"\n">>])
    \o FlattenSeq([i \in DOMAIN fields |-> Quoted(fields[i].name) \o <<": <value>">>])

Markers(rendered) == {i \in DOMAIN rendered : rendered[i] = Marker}

\* Does split_template accept the rendered text?
MarkedOnce_AtLeast(rendered) == Markers(rendered) # {}
MarkedOnce(rendered) == \E i \in Markers(rendered) : Markers(rendered) = {i}

\* The text before the first marker.
TemplatePrefix(rendered) ==
  SubSeq(rendered, 1, (CHOOSE i \in Markers(rendered) : \A j \in Markers(rendered) : i <= j) - 1)

field_suffix_text(field, prefix) ==
  Quoted(field.name) \o <<":">>
    \o (IF field.kind = "boolean" THEN <<>> ELSE <<" ", Quote>> \o json_escape(prefix))

Remainder(label, prefix) == SubSeq(label, Len(prefix) + 1, Len(label))

candidate_text_Open(field, prefix, label) ==
  IF field.kind = "boolean" THEN <<" ">> \o label
  ELSE json_escape(Remainder(label, prefix))

candidate_text_Raw(field, prefix, label) ==
  IF field.kind = "boolean" THEN <<" ">> \o label
  ELSE Remainder(label, prefix) \o <<Quote>>

candidate_text(field, prefix, label) ==
  IF field.kind = "boolean" THEN <<" ">> \o label
  ELSE json_escape(Remainder(label, prefix)) \o <<Quote>>

\* json_escape throws on the common prefix, or on what follows it in a choice.
EscapeThrows(field) ==
  \/ ~IsText(PrefixOf(field))
  \/ \E i \in DOMAIN field.choices : ~IsText(Remainder(field.choices[i], PrefixOf(field)))
===============================================================================
