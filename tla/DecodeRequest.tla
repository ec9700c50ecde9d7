---------------------------- MODULE DecodeRequest ----------------------------
(***************************************************************************)
(* A POST /v1/pcd/decode from the body's JSON to the response's: the       *)
(* validation (src/types.cpp), the schema's texts (SchemaText,             *)
(* PcdEngine::compile), the error codes (http_server.cpp).                 *)
(* What a decode does in between is module PcdEngine's subject; handlers   *)
(* share nothing here, so one request shows all there is.                  *)
(*                                                                         *)
(* A JSON value is a record with its kind and its text or items; a member  *)
(* that is missing has the kind "missing".                                 *)
(***************************************************************************)
EXTENDS SchemaText, Functions

CONSTANTS
  Byte,                \* what a text is made of
  Body,                \* the bodies that may arrive, malformed ones included
  MaxFields, MinChoices, MaxChoices, MaxNameBytes, MaxDescriptionBytes,
  MaxChoiceBytes, MaxContextBytes,
  MaxCandidateTokens

\* A string's text is bytes; a boolean has the label choice_label gives it.
WellFormed(v) ==
  /\ v.kind = "string" => v.text \in Seq(Byte)
  /\ v.kind = "boolean" => v.text \in {<<"true">>, <<"false">>}

\* What nlohmann::json hands to the validation: arrays are sequences.
ASSUME BodyAssumption ==
  \A b \in Body : b.kind = "object" /\ b.fields.kind = "array" =>
    LET items == b.fields.items IN
      /\ items \in Seq(ToSet(items))
      /\ \A i \in DOMAIN items : items[i].kind = "object" =>
           /\ WellFormed(items[i].name) /\ WellFormed(items[i].description)
           /\ items[i].choices.kind = "array" =>
                /\ items[i].choices.items \in Seq(ToSet(items[i].choices.items))
                /\ \A k \in DOMAIN items[i].choices.items : WellFormed(items[i].choices.items[k])

\* A field has a choice to look at before its choices are compared.
ASSUME LimitAssumption ==
  /\ MaxFields \in Nat
  /\ MinChoices \in Nat \ {0} /\ MaxChoices \in Nat

VARIABLES
  body,
  at,         \* where the handler is
  code,       \* of an error reply; "" before it, and for status 200
  fields,     \* what parse_decode_request returned
  compiled,   \* the schema's key and prefix
  response    \* each field's winner, and the objects sent

vars == <<body, at, code, fields, compiled, response>>

Init ==
  /\ body \in Body
  /\ at = "parsing"
  /\ code = "" /\ fields = <<>> /\ response = <<>>
  /\ compiled = [key |-> <<>>, prefix |-> <<>>]

IsString(v, max) == v.kind = "string" /\ Len(v.text) <= max
NotEmpty(v) == v.text # <<>>

Distinct_Unchecked(items) == TRUE

\* What the set `seen`, or `names`, enforces.
Distinct(items) == IsInjective(items)

Labels(choices) == [i \in DOMAIN choices.items |-> choices.items[i].text]

ValidCount(choices) == Len(choices.items) \in MinChoices .. MaxChoices

ValidChoices(choices) ==
  /\ choices.kind = "array"
  /\ ValidCount(choices)
  /\ choices.items[1].kind \in {"boolean", "string"}
  /\ \A i \in DOMAIN choices.items : choices.items[i].kind = choices.items[1].kind
  /\ choices.items[1].kind = "string" =>
       \A i \in DOMAIN choices.items :
         IsString(choices.items[i], MaxChoiceBytes) /\ NotEmpty(choices.items[i])
  /\ Distinct(Labels(choices))
  /\ choices.items[1].kind = "boolean" => Len(choices.items) = 2

ValidField(field) ==
  /\ field.kind = "object"
  /\ IsString(field.name, MaxNameBytes) /\ NotEmpty(field.name)
  /\ IsString(field.description, MaxDescriptionBytes)
  /\ ValidChoices(field.choices)

ValidBody(b) ==
  /\ b.kind = "object"
  /\ IsString(b.context, MaxContextBytes) /\ NotEmpty(b.context)
  /\ b.fields.kind = "array"
  /\ Len(b.fields.items) \in 1 .. MaxFields
  /\ \A i \in DOMAIN b.fields.items : ValidField(b.fields.items[i])
  /\ Distinct([i \in DOMAIN b.fields.items |-> b.fields.items[i].name.text])

parse_field(field) ==
  [name |-> field.name.text, description |-> field.description.text,
   kind |-> IF field.choices.items[1].kind = "boolean" THEN "boolean" ELSE "enum",
   choices |-> Labels(field.choices)]

parse_decode_request(b) == [i \in DOMAIN b.fields.items |-> parse_field(b.fields.items[i])]

Replies(c) == at' = "replied" /\ code' = c

Refuse ==
  /\ at = "parsing"
  /\ ~ValidBody(body)
  /\ Replies(IF body.kind = "malformed" THEN "invalid_json" ELSE "invalid_request")
  /\ UNCHANGED <<body, fields, compiled, response>>

Accept ==
  /\ at = "parsing"
  /\ ValidBody(body)
  /\ fields' = parse_decode_request(body)
  /\ at' = "compiling"
  /\ UNCHANGED <<body, code, compiled, response>>

NoModel ==
  /\ at = "compiling"
  /\ Replies("no_model")
  /\ UNCHANGED <<body, fields, compiled, response>>

\* A chat template that keeps its parts in order, and the user's marker.
Rendered(fs) == <<"system">> \o schema_system_prompt(fs) \o <<"user", Marker, "assistant">>

CandidateTokens(fs) ==   \* with a token for every byte
  LET size(f) == FoldLeft(+, 0, [i \in DOMAIN f.choices |->
                                   Len(candidate_text(f, PrefixOf(f), f.choices[i]))])
  IN FoldLeft(+, 0, [i \in DOMAIN fs |-> size(fs[i])])

\* The template cannot be rendered, or a text has no tokens, or two have the
\* same: all of these are up to the model.
CompileFails ==
  /\ at = "compiling"
  /\ Replies("schema_error")
  /\ UNCHANGED <<body, fields, compiled, response>>

TooManyTokens ==
  /\ at = "compiling"
  /\ MarkedOnce(Rendered(fields))
  /\ \A i \in DOMAIN fields : ~EscapeThrows(fields[i])
  /\ CandidateTokens(fields) > MaxCandidateTokens
  /\ Replies("schema_error")
  /\ UNCHANGED <<body, fields, compiled, response>>

\* json_escape throws something guarded() has no name for.
CompileThrows ==
  /\ at = "compiling"
  /\ MarkedOnce(Rendered(fields))
  /\ \E i \in DOMAIN fields : EscapeThrows(fields[i])
  /\ Replies("internal_error")
  /\ UNCHANGED <<body, fields, compiled, response>>

Compile ==
  /\ at = "compiling"
  /\ MarkedOnce(Rendered(fields))
  /\ \A i \in DOMAIN fields : ~EscapeThrows(fields[i])
  /\ CandidateTokens(fields) <= MaxCandidateTokens
  /\ compiled' = [key |-> canonical_schema(fields), prefix |-> TemplatePrefix(Rendered(fields))]
  /\ at' = "decoding"
  /\ UNCHANGED <<body, code, fields, response>>

\* ensure_fits refuses, or llama.cpp fails.
DecodeFails ==
  /\ at = "decoding"
  /\ \E c \in {"invalid_request", "native_error"} : Replies(c)
  /\ UNCHANGED <<body, fields, compiled, response>>

\* A JSON object: of two members with one name the last stays.
Object(names, values) ==
  [n \in ToSet(names) |-> values[CHOOSE i \in DOMAIN names :
                                   names[i] = n /\ \A j \in DOMAIN names : names[j] = n => j <= i]]

\* The probability of choice i is written as i.
to_json_response(fs, winner) ==
  [values |-> Object([i \in DOMAIN fs |-> fs[i].name], [i \in DOMAIN fs |-> fs[i].choices[winner[i]]]),
   probabilities |-> [i \in DOMAIN fs |->
                        Object(fs[i].choices, [k \in DOMAIN fs[i].choices |-> k])]]

Answer ==
  /\ at = "decoding"
  /\ \E winner \in [DOMAIN fields -> 1 .. MaxChoices] :
       /\ \A i \in DOMAIN fields : winner[i] \in DOMAIN fields[i].choices
       /\ response' = <<winner, to_json_response(fields, winner)>>
  /\ Replies("")
  /\ UNCHANGED <<body, fields, compiled>>

Next ==
  \/ Refuse \/ Accept \/ NoModel
  \/ CompileFails \/ TooManyTokens \/ CompileThrows \/ Compile
  \/ DecodeFails \/ Answer

Spec == Init /\ [][Next]_vars

-----------------------------------------------------------------------------
Enums == {i \in DOMAIN fields : fields[i].kind = "enum"}

\* schema.hpp:41 and the test "common prefix is computed over every choice":
\* what the loop of mismatches leaves is the longest prefix of all choices.
PrefixIsLongestCommon ==
  \A i \in Enums : PrefixOf(fields[i]) = LongestCommonPrefix(ToSet(fields[i].choices))

\* What is put before the choice and the text scored for it spell together the
\* JSON member of exactly that choice, however the common prefix was cut off.
TextsSpellTheMember ==
  at = "decoding" =>
    \A i \in Enums : LET f == fields[i] IN
      \A k \in DOMAIN f.choices :
        field_suffix_text(f, PrefixOf(f)) \o candidate_text(f, PrefixOf(f), f.choices[k])
          = Quoted(f.name) \o <<":", " ">> \o Quoted(f.choices[k])

\* No candidate's text begins another's (schema.hpp:57, "exhausted candidates
\* disambiguate cleanly"): so a choice that is a prefix of another, or contains
\* quotes and backslashes, can still be told from it.
NoTextBeginsAnother ==
  at = "decoding" =>
    \A i \in DOMAIN fields : LET f == fields[i] IN
      \A k, l \in DOMAIN f.choices :
        k # l => ~IsPrefix(candidate_text(f, PrefixOf(f), f.choices[k]),
                           candidate_text(f, PrefixOf(f), f.choices[l]))

\* The requests that would be compiled, with their keys and prefixes.
Schemas == {fs \in {parse_decode_request(b) : b \in {c \in Body : ValidBody(c)}} : MarkedOnce(Rendered(fs))}
Published == {[key |-> canonical_schema(fs), prefix |-> TemplatePrefix(Rendered(fs))] : fs \in Schemas}

\* No other request with the same cache key has another prefix: a checkpoint is
\* never restored for a prompt it was not saved for.
KeyDeterminesPrefix ==
  at = "decoding" => \A p \in Published : p.key = compiled.key => p.prefix = compiled.prefix

\* The cached prefix is the whole system prompt and the opening of the user's
\* turn, whatever a description contains.
PrefixHoldsThePrompt ==
  at = "decoding" =>
    compiled.prefix = <<"system">> \o schema_system_prompt(fields) \o <<"user">>

\* The JSON objects of an answer keep every field's winner and every choice's
\* own probability: validation leaves no two names or labels that would share
\* a member (types.cpp:133 and 135 assign by name).
AnswerKeepsEveryEntry ==
  response # <<>> =>
    \A i \in DOMAIN fields :
      /\ response[2].values[fields[i].name] = fields[i].choices[response[1][i]]
      /\ \A k \in DOMAIN fields[i].choices :
           response[2].probabilities[i][fields[i].choices[k]] = k

\* schema.hpp:41, "Longest common character prefix of all choices": the prefix
\* consists of characters.
CommonPrefixIsText == \A i \in Enums : IsText(PrefixOf(fields[i]))

=============================================================================
