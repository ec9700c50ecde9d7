------------------------- MODULE DecodeRequestProofs -------------------------
(***************************************************************************)
(* For all bodies and all bounds of the validation: the objects of an      *)
(* answer lose no field and no choice; a cache key belongs to one list of  *)
(* fields, and so to one prefix, which is the whole system prompt; the     *)
(* texts that are scored spell the JSON members, and none begins another.  *)
(*                                                                         *)
(* The argument is that the texts are self-delimiting.  json_escape writes *)
(* each byte with a word of its own, none of which begins as the closing   *)
(* quote does, so a quoted text can be read back from the left, and so can *)
(* a list of them with commas, a field, and the whole key.                 *)
(***************************************************************************)
EXTENDS DecodeRequest, TLAPS, SequenceTheorems, NaturalsInduction, WellFoundedInduction

\* A handler that is past the validation works on what the validation let
\* through, a decode on the key and the prefix of that, and an answer is made
\* from it.
Validated == body \in Body /\ ValidBody(body) /\ fields = parse_decode_request(body)

Compiled ==
  /\ MarkedOnce(Rendered(fields))
  /\ compiled = [key |-> canonical_schema(fields), prefix |-> TemplatePrefix(Rendered(fields))]

RInv ==
  /\ body \in Body
  /\ fields # <<>> \/ at \in {"compiling", "decoding"} => Validated
  /\ at = "decoding" => Compiled
  /\ response # <<>> =>
       /\ Validated
       /\ at = "replied"
       /\ \E winner :
            /\ \A i \in DOMAIN fields : winner[i] \in DOMAIN fields[i].choices
            /\ response = <<winner, to_json_response(fields, winner)>>

\* An object whose names differ keeps the value of each.
LEMMA ObjectKeeps ==
  ASSUME NEW names, NEW values, IsInjective(names), DOMAIN names \subseteq Nat,
         NEW i \in DOMAIN names
  PROVE  Object(names, values)[names[i]] = values[i]
<1> DEFINE last(j) == names[j] = names[i] /\ \A k \in DOMAIN names : names[k] = names[i] => k <= j
           chosen == CHOOSE j \in DOMAIN names : last(j)
<1>1. \A j \in DOMAIN names : names[j] = names[i] => j = i
  BY DEF IsInjective
<1>2. last(i)
  BY <1>1
<1>3. chosen = i
  <2>1. chosen \in DOMAIN names /\ last(chosen)
    BY <1>2
  <2> QED  BY <1>1, <2>1
<1>4. names[i] \in ToSet(names)
  BY DEF ToSet
<1>5. Object(names, values)[names[i]] = values[chosen]
  BY <1>4, Zenon DEF Object
<1> QED  BY <1>3, <1>5

\* What parse_field keeps of a field.
LEMMA ParsedFields ==
  ASSUME NEW field
  PROVE  parse_field(field).name = field.name.text
         /\ parse_field(field).choices = Labels(field.choices)
  BY Zenon DEF parse_field

\* No two fields that pass the validation have one name, no two choices of a
\* field one label.
LEMMA ValidatedDistinct ==
  ASSUME Validated
  PROVE  /\ DOMAIN fields \subseteq Nat
         /\ IsInjective([i \in DOMAIN fields |-> fields[i].name])
         /\ \A i \in DOMAIN fields : /\ IsInjective(fields[i].choices)
                                     /\ DOMAIN fields[i].choices \subseteq Nat
<1> DEFINE items == body.fields.items
<1>1. /\ body.kind = "object" /\ body.fields.kind = "array"
      /\ \A i \in DOMAIN items : ValidField(items[i])
      /\ IsInjective([i \in DOMAIN items |-> items[i].name.text])
  BY DEF Validated, ValidBody, Distinct
<1>2. fields = [i \in DOMAIN items |-> parse_field(items[i])]
  BY DEF Validated, parse_decode_request
<1>3. DOMAIN fields = DOMAIN items /\ \A i \in DOMAIN items : fields[i] = parse_field(items[i])
  BY <1>2
<1>4. DOMAIN items \subseteq Nat
  BY <1>1, BodyAssumption DEF Validated
<1>5. [i \in DOMAIN fields |-> fields[i].name] = [i \in DOMAIN items |-> items[i].name.text]
  <2>1. \A i \in DOMAIN items : fields[i].name = items[i].name.text
    BY <1>3, ParsedFields, Zenon
  <2> QED  BY <1>3, <2>1, Zenon
<1>6. ASSUME NEW i \in DOMAIN items
      PROVE  IsInjective(fields[i].choices) /\ DOMAIN fields[i].choices \subseteq Nat
  <2>1. fields[i].choices = Labels(items[i].choices)
    BY <1>3, ParsedFields, Zenon
  <2>2. items[i].kind = "object" /\ items[i].choices.kind = "array" /\ IsInjective(Labels(items[i].choices))
    BY <1>1 DEF ValidField, ValidChoices, Distinct
  <2>3. DOMAIN Labels(items[i].choices) \subseteq Nat
    <3>1. items[i].choices.items \in Seq(ToSet(items[i].choices.items))
      BY <1>1, <2>2, BodyAssumption, Zenon DEF Validated
    <3>2. DOMAIN items[i].choices.items \subseteq Nat
      BY <3>1
    <3> QED  BY <3>2 DEF Labels
  <2> QED  BY <2>1, <2>2, <2>3
<1> QED  BY <1>1, <1>3, <1>4, <1>5, <1>6

\* A handler starts before the validation.
LEMMA RequestStarts == Init => RInv
  BY DEF Init, RInv

\* Nothing after the validation changes what it let through.
LEMMA RequestKeeps == RInv /\ [Next]_vars => RInv'
<1> SUFFICES ASSUME RInv, [Next]_vars PROVE RInv'
  OBVIOUS
<1>1. CASE UNCHANGED vars
  BY <1>1 DEF vars, RInv, Validated, Compiled
<1>2. CASE Refuse \/ NoModel \/ CompileFails \/ TooManyTokens \/ CompileThrows \/ DecodeFails
  <2>1. UNCHANGED <<body, fields, response>> /\ at' = "replied"
        /\ at \in {"parsing", "compiling", "decoding"}
    BY <1>2 DEF Refuse, NoModel, CompileFails, TooManyTokens, CompileThrows, DecodeFails, Replies
  <2> QED  BY <2>1 DEF RInv, Validated
<1>3. CASE Accept
  <2>1. /\ UNCHANGED <<body, response>> /\ at' = "compiling" /\ at = "parsing"
        /\ ValidBody(body) /\ fields' = parse_decode_request(body)
    BY <1>3 DEF Accept
  <2>2. Validated' /\ response' = <<>>
    BY <2>1 DEF Validated, RInv
  <2> QED  BY <2>1, <2>2 DEF RInv
<1>4. CASE Compile
  <2>1. /\ UNCHANGED <<body, fields, response>> /\ at = "compiling" /\ at' = "decoding"
        /\ MarkedOnce(Rendered(fields))
        /\ compiled' = [key |-> canonical_schema(fields), prefix |-> TemplatePrefix(Rendered(fields))]
    BY <1>4 DEF Compile
  <2>2. Compiled'
    BY <2>1, Zenon DEF Compiled
  <2>3. Validated'
    BY <2>1 DEF RInv, Validated
  <2> QED  BY <2>1, <2>2, <2>3 DEF RInv
<1>5. CASE Answer
  <2>1. /\ UNCHANGED <<body, fields>> /\ at = "decoding" /\ at' = "replied"
        /\ \E winner :
             /\ \A i \in DOMAIN fields : winner[i] \in DOMAIN fields[i].choices
             /\ response' = <<winner, to_json_response(fields, winner)>>
    BY <1>5 DEF Answer, Replies
  <2>2. Validated /\ Validated'
    BY <2>1 DEF RInv, Validated
  <2> QED  BY <2>1, <2>2 DEF RInv
<1> QED  BY <1>1, <1>2, <1>3, <1>4, <1>5 DEF Next

\* The invariant holds of every behaviour.
THEOREM RequestInvariance == Spec => []RInv
  BY RequestStarts, RequestKeeps, PTL DEF Spec

\* No winner and no probability is lost in the objects of an answer: what the
\* code assigns by name (types.cpp:133 and 135), the validation keeps apart.
THEOREM AnswersAreWhole == Spec => []AnswerKeepsEveryEntry
<1>1. RInv => AnswerKeepsEveryEntry
  <2> SUFFICES ASSUME RInv, response # <<>>, NEW i \in DOMAIN fields
               PROVE  /\ response[2].values[fields[i].name] = fields[i].choices[response[1][i]]
                      /\ \A k \in DOMAIN fields[i].choices :
                           response[2].probabilities[i][fields[i].choices[k]] = k
    BY DEF AnswerKeepsEveryEntry
  <2>1. PICK winner :
          /\ \A j \in DOMAIN fields : winner[j] \in DOMAIN fields[j].choices
          /\ response = <<winner, to_json_response(fields, winner)>>
    BY DEF RInv
  <2>2. /\ DOMAIN fields \subseteq Nat
        /\ IsInjective([j \in DOMAIN fields |-> fields[j].name])
        /\ IsInjective(fields[i].choices) /\ DOMAIN fields[i].choices \subseteq Nat
    BY ValidatedDistinct DEF RInv
  <2> DEFINE names == [j \in DOMAIN fields |-> fields[j].name]
             values == [j \in DOMAIN fields |-> fields[j].choices[winner[j]]]
             labels == fields[i].choices
             numbers == [k \in DOMAIN labels |-> k]
  <2>3. response[2].values = Object(names, values) /\ response[1] = winner
    BY <2>1 DEF to_json_response
  <2>4. response[2].probabilities[i] = Object(labels, numbers)
    BY <2>1 DEF to_json_response
  <2>5. Object(names, values)[names[i]] = values[i]
    <3>1. IsInjective(names) /\ DOMAIN names \subseteq Nat /\ i \in DOMAIN names
      BY <2>2
    <3> HIDE DEF names, values
    <3> QED  BY <3>1, ObjectKeeps
  <2>6. ASSUME NEW k \in DOMAIN labels PROVE Object(labels, numbers)[labels[k]] = numbers[k]
    <3>1. IsInjective(labels) /\ DOMAIN labels \subseteq Nat
      BY <2>2
    <3> HIDE DEF labels, numbers
    <3> QED  BY <2>6, <3>1, ObjectKeeps
  <2> QED  BY <2>3, <2>4, <2>5, <2>6
<1> QED  BY <1>1, RequestInvariance, PTL

-----------------------------------------------------------------------------
\* Sequences, put together and flattened.

\* A set of naturals has a smallest element: what the inductions below rest on.
LEMMA Least ==
  ASSUME NEW T, T \subseteq Nat, T # {}
  PROVE  \E m \in T : \A n \in T : m <= n
<1>1. IsWellFoundedOn(OpToRel(<, Nat), Nat)
  BY NatLessThanWellFounded
<1>2. PICK m \in T : \A n \in T : <<n, m>> \notin OpToRel(<, Nat)
  BY <1>1, WFMin
<1>3. \A n \in T : ~(n < m)
  BY <1>2 DEF OpToRel
<1> QED  BY <1>3


\* Concatenation, where only its laws matter: <<>> is neutral, it may be
\* regrouped, and a sequence is its first item and the rest.
s ++ t == s \o t

\* A concatenation is a sequence, and <<>> is neutral.
LEMMA Joins ==
  ASSUME NEW S, NEW s \in Seq(S), NEW t \in Seq(S)
  PROVE  s ++ t \in Seq(S) /\ s ++ <<>> = s /\ <<>> ++ s = s
  BY ConcatProperties, ConcatEmptySeq DEF ++

\* It may be regrouped.
LEMMA Regroup ==
  ASSUME NEW S, NEW s \in Seq(S), NEW t \in Seq(S), NEW u \in Seq(S)
  PROVE  (s ++ t) ++ u = s ++ (t ++ u)
  BY ConcatAssociative, SMT DEF ++

Begins(s, S) == \E a \in S, t \in Seq(S) : s = <<a>> ++ t /\ Len(s) = Len(t) + 1

\* A sequence that is not empty has a first item and the rest.
LEMMA FirstAndRest ==
  ASSUME NEW S, NEW s \in Seq(S), s # <<>>
  PROVE  Begins(s, S)
<1>1. Len(s) \in Nat \ {0} /\ s[1] \in S
  BY EmptySeq, ElementOfSeq
<1>2. 1 \in 1 .. Len(s) /\ Len(s) \in 1 .. Len(s)
  BY <1>1
<1>3. SubSeq(s, 1, Len(s)) = <<s[1]>> \o SubSeq(s, 1 + 1, Len(s))
  BY <1>2, SubSeqRecursiveFirst
<1>4. SubSeq(s, 1, Len(s)) = s
  BY SubSeqFull
<1> DEFINE t == SubSeq(s, 1 + 1, Len(s))
<1>5. t \in Seq(S) /\ Len(t) + 1 = Len(s)
  <2>1. \A i \in 2 .. Len(s) : s[i] \in S
    BY <1>1, ElementOfSeq
  <2>2. /\ SubSeq(s, 2, Len(s)) \in Seq(S)
        /\ Len(SubSeq(s, 2, Len(s))) = IF 2 <= Len(s) THEN Len(s) - 2 + 1 ELSE 0
    BY <1>1, <2>1, SubSeqProperties
  <2> DEFINE u == SubSeq(s, 2, Len(s))
  <2>3. t = u
    OBVIOUS
  <2>4. u \in Seq(S) /\ Len(u) = IF 2 <= Len(s) THEN Len(s) - 2 + 1 ELSE 0
    BY <2>2
  <2> HIDE DEF t, u
  <2>5. Len(u) + 1 = Len(s)
    <3> DEFINE l == Len(s)
               m == Len(u)
    <3>1. l \in Nat \ {0} /\ m = IF 2 <= l THEN l - 2 + 1 ELSE 0
      BY <1>1, <2>4
    <3> HIDE DEF l, m
    <3>2. m + 1 = l
      BY <3>1
    <3> QED  BY <3>2 DEF l, m
  <2> QED  BY <2>3, <2>4, <2>5
<1> HIDE DEF t
<1>6. s = <<s[1]>> \o t
  BY <1>3, <1>4 DEF t
<1> QED  BY <1>1, <1>5, <1>6 DEF Begins, ++

\* Putting an item before a sequence loses neither.
LEMMA FirstAgree ==
  ASSUME NEW S, NEW a \in S, NEW b \in S, NEW s \in Seq(S), NEW t \in Seq(S),
         <<a>> ++ s = <<b>> ++ t
  PROVE  a = b /\ s = t
<1>0. <<a>> \o s = <<b>> \o t
  BY DEF ++
<1>1. <<a>> \in Seq(S) /\ <<b>> \in Seq(S) /\ Len(<<a>>) = 1 /\ Len(<<b>>) = 1
      /\ <<a>>[1] = a /\ <<b>>[1] = b
  OBVIOUS
<1>2. Len(s) \in Nat /\ Len(t) \in Nat
  BY LenProperties
<1>3. (<<a>> \o s)[1] = a
  BY <1>1, <1>2, ConcatProperties
<1>4. (<<b>> \o t)[1] = b
  BY <1>1, <1>2, ConcatProperties
<1>5. a = b
  BY <1>0, <1>3, <1>4
<1>6. s = t
  BY <1>0, <1>1, <1>5, ConcatSimplifications
<1> QED  BY <1>5, <1>6

\* The recursive function of FlattenSeq exists.
LEMMA FlattenDef ==
  ASSUME NEW blocks, Len(blocks) \in Nat \ {0}
  PROVE  \E g : /\ g = [i \in 1 .. Len(blocks) |->
                          IF i = 1 THEN blocks[i] ELSE g[i - 1] \o blocks[i]]
                /\ FlattenSeq(blocks) = g[Len(blocks)]
<1> DEFINE Solves(g, n) ==
             g = [i \in 1 .. n |-> IF i = 1 THEN blocks[i] ELSE g[i - 1] \o blocks[i]]
           bad == {n \in Nat \ {0} : ~ \E g : Solves(g, n)}
<1>1. bad = {}
  <2> SUFFICES ASSUME bad # {} PROVE FALSE
    OBVIOUS
  <2>1. PICK n \in bad : \A m \in bad : n <= m
    BY Least
  <2>2. CASE n = 1
    <3>1. Solves([i \in 1 .. 1 |-> blocks[i]], 1)
      OBVIOUS
    <3> QED  BY <2>1, <2>2, <3>1
  <2>3. CASE n # 1
    <3>0. n \in Nat \ {0} /\ n - 1 \in Nat \ {0} /\ ~(n <= n - 1)
      BY <2>1, <2>3
    <3>1. n - 1 \in Nat \ {0} /\ n - 1 \notin bad
      BY <2>1, <3>0, Zenon
    <3>2. PICK g : Solves(g, n - 1)
      BY <3>1
    <3> DEFINE h == [i \in 1 .. n |-> IF i = 1 THEN blocks[i] ELSE g[i - 1] \o blocks[i]]
    <3>3. \A i \in 1 .. n - 1 : h[i] = g[i]
      <4> TAKE i \in 1 .. n - 1
      <4>1. g[i] = IF i = 1 THEN blocks[i] ELSE g[i - 1] \o blocks[i]
        BY <3>2
      <4>2. i \in 1 .. n
        BY <3>0
      <4> QED  BY <4>1, <4>2
    <3>4. \A i \in 1 .. n : i # 1 => g[i - 1] = h[i - 1]
      <4> TAKE i \in 1 .. n
      <4>1. i # 1 => i - 1 \in 1 .. n - 1
        BY <3>0
      <4> HIDE DEF h
      <4> QED  BY <3>3, <4>1
    <3>5. Solves(h, n)
      <4>1. \A i \in 1 .. n : (IF i = 1 THEN blocks[i] ELSE g[i - 1] \o blocks[i])
                              = (IF i = 1 THEN blocks[i] ELSE h[i - 1] \o blocks[i])
        <5> HIDE DEF h
        <5> QED  BY <3>4, Zenon
      <4>2. h = [i \in 1 .. n |-> IF i = 1 THEN blocks[i] ELSE h[i - 1] \o blocks[i]]
        <5> DEFINE k == [i \in 1 .. n |-> IF i = 1 THEN blocks[i] ELSE h[i - 1] \o blocks[i]]
        <5>1. \A i \in 1 .. n : h[i] = k[i]
          BY <4>1, Zenon
        <5> QED  BY <5>1, Zenon
      <4> QED  BY <4>2, Zenon
    <3> QED  BY <2>1, <3>5
  <2> QED  BY <2>2, <2>3
<1>2. \E g : Solves(g, Len(blocks))
  BY <1>1
<1>3. FlattenSeq(blocks) = (CHOOSE g : Solves(g, Len(blocks)))[Len(blocks)]
  BY DEF FlattenSeq
<1> QED  BY <1>2, <1>3


\* ... and is the only one with its equations.
LEMMA FlattenIs ==
  ASSUME NEW blocks, Len(blocks) \in Nat \ {0}, NEW h, h[1] = blocks[1],
         \A i \in 2 .. Len(blocks) : h[i] = h[i - 1] \o blocks[i]
  PROVE  FlattenSeq(blocks) = h[Len(blocks)]
<1> DEFINE n == Len(blocks)
<1>1. PICK g : /\ g = [i \in 1 .. n |-> IF i = 1 THEN blocks[i] ELSE g[i - 1] \o blocks[i]]
               /\ FlattenSeq(blocks) = g[n]
  BY FlattenDef
<1> DEFINE bad == {i \in 1 .. n : g[i] # h[i]}
<1>2. ASSUME bad # {} PROVE FALSE
  <2>1. bad \subseteq Nat
    OBVIOUS
  <2>2. PICK i \in bad : \A j \in bad : i <= j
    <3> HIDE DEF bad
    <3> QED  BY <1>2, <2>1, Least
  <2>3. i \in 1 .. n /\ g[i] # h[i]
    BY <2>2
  <2>4. g[i] = IF i = 1 THEN blocks[i] ELSE g[i - 1] \o blocks[i]
    BY <1>1, <2>3
  <2>5. CASE i = 1
    BY <2>3, <2>4, <2>5
  <2>6. CASE i # 1
    <3>1. i \in 2 .. n /\ i - 1 \in 1 .. n /\ ~(i <= i - 1)
      BY <2>3, <2>6
    <3>2. g[i - 1] = h[i - 1]
      BY <2>2, <3>1
    <3>3. h[i] = h[i - 1] \o blocks[i]
      BY <3>1
    <3> QED  BY <2>3, <2>4, <2>6, <3>2, <3>3
  <2> QED  BY <2>5, <2>6
<1>3. n \in 1 .. n
  OBVIOUS
<1>4. g[n] = h[n]
  <2> HIDE DEF n
  <2> QED  BY <1>2, <1>3
<1> QED  BY <1>1, <1>4

\* What FlattenSeq does, block by block.
LEMMA FlattenFacts ==
  ASSUME NEW S, NEW blocks \in Seq(Seq(S)), NEW b \in Seq(S)
  PROVE  /\ FlattenSeq(<<>>) = <<>>
         /\ FlattenSeq(<<b>>) = b
         /\ blocks # <<>> => FlattenSeq(Append(blocks, b)) = FlattenSeq(blocks) \o b
<1>1. FlattenSeq(<<>>) = <<>>
  BY DEF FlattenSeq
<1>2. FlattenSeq(<<b>>) = b
  <2> DEFINE one == <<b>>
             h == [i \in 1 .. 1 |-> b]
  <2>1. Len(one) = 1 /\ one[1] = b /\ h[1] = b
    OBVIOUS
  <2> HIDE DEF one, h
  <2>2. \A i \in 2 .. Len(one) : h[i] = h[i - 1] \o one[i]
    BY <2>1
  <2>3. Len(one) \in Nat \ {0} /\ h[1] = one[1]
    BY <2>1
  <2>4. FlattenSeq(one) = h[Len(one)]
    BY <2>2, <2>3, FlattenIs, Zenon
  <2> QED  BY <2>1, <2>4 DEF one
<1>3. ASSUME blocks # <<>>
      PROVE  FlattenSeq(Append(blocks, b)) = FlattenSeq(blocks) \o b
  <2> DEFINE more == Append(blocks, b)
             n == Len(blocks)
  <2>1. /\ n \in Nat \ {0} /\ Len(more) = n + 1
        /\ \A i \in 1 .. n : more[i] = blocks[i]
        /\ more[n + 1] = b
    BY <1>3, EmptySeq, AppendProperties
  <2> HIDE DEF more, n
  <2>2. PICK g : /\ g = [i \in 1 .. n + 1 |-> IF i = 1 THEN more[i] ELSE g[i - 1] \o more[i]]
                 /\ FlattenSeq(more) = g[n + 1]
    <3>1. Len(more) \in Nat \ {0}
      BY <2>1
    <3> QED  BY <2>1, <3>1, FlattenDef
  <2>3. \A i \in 1 .. n + 1 : g[i] = IF i = 1 THEN more[i] ELSE g[i - 1] \o more[i]
    BY <2>2
  <2>4. g[1] = blocks[1] /\ g[n + 1] = g[n] \o b
    <3>1. 1 \in 1 .. n + 1 /\ n + 1 \in 1 .. n + 1 /\ n + 1 # 1 /\ n + 1 - 1 = n /\ 1 \in 1 .. n
      BY <2>1
    <3>2. g[1] = more[1]
      BY <2>3, <3>1
    <3> DEFINE k == n + 1
    <3>3. k \in 1 .. n + 1 /\ k # 1 /\ k - 1 = n /\ more[k] = b
      BY <2>1, <3>1
    <3> HIDE DEF k
    <3>4. g[k] = g[k - 1] \o more[k]
      BY <2>3, <3>3
    <3>5. g[k] = g[n] \o b
      BY <3>3, <3>4
    <3> QED  BY <2>1, <3>1, <3>2, <3>5 DEF k
  <2>5. \A i \in 2 .. n : g[i] = g[i - 1] \o blocks[i]
    <3> TAKE i \in 2 .. n
    <3>1. i \in 1 .. n + 1 /\ i # 1 /\ i \in 1 .. n
      BY <2>1
    <3> QED  BY <2>1, <2>3, <3>1
  <2>6. FlattenSeq(blocks) = g[n]
    BY <2>1, <2>4, <2>5, FlattenIs DEF n
  <2> QED  BY <2>2, <2>4, <2>6 DEF more
<1> QED  BY <1>1, <1>2, <1>3

\* Flattening a concatenation concatenates what the parts flatten to.
LEMMA FlattenCat ==
  ASSUME NEW S, NEW xs \in Seq(Seq(S)), NEW ys \in Seq(Seq(S))
  PROVE  /\ FlattenSeq(xs) \in Seq(S)
         /\ FlattenSeq(xs ++ ys) = FlattenSeq(xs) ++ FlattenSeq(ys)
<1> DEFINE T == Seq(S)
<1>0. \A bs \in Seq(T), b \in T : FlattenSeq(Append(bs, b)) = FlattenSeq(bs) \o b
  <2> TAKE bs \in Seq(T), b \in T
  <2>1. CASE bs # <<>>
    BY <2>1, FlattenFacts
  <2>2. CASE bs = <<>>
    <3>1. Append(bs, b) = <<b>>
      BY <2>2
    <3>2. FlattenSeq(<<>>) = <<>> /\ FlattenSeq(<<b>>) = b
      BY FlattenFacts
    <3>3. <<>> \o b = b
      BY ConcatEmptySeq
    <3> QED  BY <2>2, <3>1, <3>2, <3>3
  <2> QED  BY <2>1, <2>2
<1>1. ASSUME NEW zs \in Seq(T) PROVE FlattenSeq(zs) \in T
  <2> DEFINE bad == {n \in Nat : \E bs \in Seq(T) : Len(bs) = n /\ FlattenSeq(bs) \notin T}
  <2>1. ASSUME bad # {} PROVE FALSE
    <3>1. PICK n \in bad : \A m \in bad : n <= m
      <4>1. bad \subseteq Nat
        OBVIOUS
      <4> HIDE DEF bad
      <4> QED  BY <2>1, <4>1, Least
    <3>2. PICK bs \in Seq(T) : Len(bs) = n /\ FlattenSeq(bs) \notin T
      BY <3>1
    <3>3. bs # <<>>
      <4>1. FlattenSeq(<<>>) = <<>> /\ <<>> \in T
        BY FlattenFacts, EmptySeq DEF FlattenSeq
      <4> QED  BY <3>2, <4>1
    <3>4. PICK cs \in Seq(T), c \in T : bs = Append(cs, c)
      BY <3>3, SequenceEmptyOrAppend
    <3>5. Len(cs) \in Nat /\ n = Len(cs) + 1
      BY <3>2, <3>4, AppendProperties, LenProperties
    <3>6. FlattenSeq(cs) \in T
      <4>1. Len(cs) \notin bad
        <5> HIDE DEF bad
        <5> QED  BY <3>1, <3>5
      <4> QED  BY <3>5, <4>1
    <3>7. FlattenSeq(bs) = FlattenSeq(cs) \o c
      BY <1>0, <3>4
    <3> QED  BY <3>2, <3>6, <3>7, ConcatProperties
  <2>2. Len(zs) \in Nat
    BY LenProperties
  <2> QED  BY <2>1, <2>2
<1>2. ASSUME NEW zs \in Seq(T)
      PROVE  FlattenSeq(xs \o zs) = FlattenSeq(xs) \o FlattenSeq(zs)
  <2> DEFINE Good(bs) == FlattenSeq(xs \o bs) = FlattenSeq(xs) \o FlattenSeq(bs)
             bad == {n \in Nat : \E bs \in Seq(T) : Len(bs) = n /\ ~Good(bs)}
  <2>1. ASSUME bad # {} PROVE FALSE
    <3>1. PICK n \in bad : \A m \in bad : n <= m
      <4>1. bad \subseteq Nat
        OBVIOUS
      <4> HIDE DEF bad
      <4> QED  BY <2>1, <4>1, Least
    <3>2. PICK bs \in Seq(T) : Len(bs) = n /\ ~Good(bs)
      BY <3>1
    <3>3. bs # <<>>
      <4>1. FlattenSeq(<<>>) = <<>> /\ FlattenSeq(xs) \in T
        BY <1>1 DEF FlattenSeq
      <4>2. xs \o <<>> = xs /\ FlattenSeq(xs) \o <<>> = FlattenSeq(xs)
        BY <4>1, ConcatEmptySeq
      <4> QED  BY <3>2, <4>1, <4>2
    <3>4. PICK cs \in Seq(T), c \in T : bs = Append(cs, c)
      BY <3>3, SequenceEmptyOrAppend
    <3>5. Len(cs) \in Nat /\ n = Len(cs) + 1
      BY <3>2, <3>4, AppendProperties, LenProperties
    <3>6. Good(cs)
      <4>1. Len(cs) \notin bad
        <5> HIDE DEF bad
        <5> QED  BY <3>1, <3>5
      <4> HIDE DEF Good
      <4> QED  BY <3>5, <4>1
    <3>7. FlattenSeq(bs) = FlattenSeq(cs) \o c
      BY <1>0, <3>4
    <3>8. xs \o bs = Append(xs \o cs, c) /\ xs \o cs \in Seq(T)
      <4>1. bs = cs \o <<c>> /\ <<c>> \in Seq(T)
        BY <3>4, AppendIsConcat
      <4>2. xs \o cs \in Seq(T)
        BY ConcatProperties
      <4>3. Append(xs \o cs, c) = (xs \o cs) \o <<c>>
        BY <4>2, AppendIsConcat
      <4>4. (xs \o cs) \o <<c>> = xs \o (cs \o <<c>>)
        <5>1. xs \in Seq(T) /\ cs \in Seq(T) /\ <<c>> \in Seq(T)
          BY <4>1
        <5> DEFINE o == <<c>>
        <5>2. o \in Seq(T)
          BY <4>1
        <5> HIDE DEF T, o
        <5>3. (xs ++ cs) ++ o = xs ++ (cs ++ o)
          BY <5>1, <5>2, Regroup
        <5> QED  BY <5>3 DEF ++, o
      <4> QED  BY <4>1, <4>2, <4>3, <4>4
    <3>9. FlattenSeq(xs \o bs) = FlattenSeq(xs \o cs) \o c
      BY <1>0, <3>8
    <3>10. (FlattenSeq(xs) \o FlattenSeq(cs)) \o c = FlattenSeq(xs) \o (FlattenSeq(cs) \o c)
      <4>1. FlattenSeq(xs) \in Seq(S) /\ FlattenSeq(cs) \in Seq(S) /\ c \in Seq(S)
        BY <1>1
      <4>2. (FlattenSeq(xs) ++ FlattenSeq(cs)) ++ c = FlattenSeq(xs) ++ (FlattenSeq(cs) ++ c)
        BY <4>1, Regroup
      <4> QED  BY <4>2 DEF ++
    <3> QED  BY <3>2, <3>6, <3>7, <3>9, <3>10
  <2>2. Len(zs) \in Nat
    BY LenProperties
  <2> QED  BY <2>1, <2>2
<1> QED  BY <1>1, <1>2 DEF ++


-----------------------------------------------------------------------------
\* Texts written word by word.

\* The words enc has for the items of s, and all of them in a row.
Words(enc, s) == [i \in DOMAIN s |-> enc[s[i]]]
Coded(enc, s) == FlattenSeq(Words(enc, s))

Spells(words, enc, s) ==
  Len(words) = Len(s) /\ \A i \in 1 .. Len(s) : words[i] = enc[s[i]]

\* enc has a word for every item.
Encodes(enc, I, S) == \A a \in I : enc[a] \in Seq(S)

\* Each item has its word.
LEMMA WordsFacts ==
  ASSUME NEW T, NEW I, NEW enc, \A i \in I : enc[i] \in T, NEW s \in Seq(I)
  PROVE  Words(enc, s) \in Seq(T) /\ Spells(Words(enc, s), enc, s)
<1>1. Len(s) \in Nat /\ DOMAIN s = 1 .. Len(s) /\ \A i \in 1 .. Len(s) : s[i] \in I
  BY LenProperties, ElementOfSeq
<1>2. Words(enc, s) = [i \in 1 .. Len(s) |-> enc[s[i]]] /\ \A i \in 1 .. Len(s) : enc[s[i]] \in T
  BY <1>1 DEF Words
<1> QED  BY <1>1, <1>2 DEF Spells

\* Item by item, a concatenation's words are its parts' words.
LEMMA WordsCat ==
  ASSUME NEW I, NEW enc, NEW s \in Seq(I), NEW t \in Seq(I)
  PROVE  Words(enc, s ++ t) = Words(enc, s) ++ Words(enc, t)
<1> DEFINE T == {enc[i] : i \in I}
           r == s \o t
           a == Words(enc, r)
           b == Words(enc, s)
           c == Words(enc, t)
           d == b \o c
<1>1. /\ r \in Seq(I) /\ Len(r) = Len(s) + Len(t) /\ Len(s) \in Nat /\ Len(t) \in Nat
      /\ \A i \in 1 .. Len(s) + Len(t) : r[i] = IF i <= Len(s) THEN s[i] ELSE t[i - Len(s)]
  BY ConcatProperties, LenProperties
<1> HIDE DEF r
<1>0. /\ a \in Seq(T) /\ Spells(a, enc, r)
      /\ b \in Seq(T) /\ Spells(b, enc, s)
      /\ c \in Seq(T) /\ Spells(c, enc, t)
  <2>1. \A i \in I : enc[i] \in T
    OBVIOUS
  <2> HIDE DEF T
  <2> QED  BY <1>1, <2>1, WordsFacts, Zenon
<1> HIDE DEF a, b, c, T
<1>7. a \in Seq(T) /\ b \in Seq(T) /\ c \in Seq(T)
  BY <1>0
<1>2. /\ Len(a) = Len(r) /\ \A i \in 1 .. Len(r) : a[i] = enc[r[i]]
      /\ Len(b) = Len(s) /\ \A i \in 1 .. Len(s) : b[i] = enc[s[i]]
      /\ Len(c) = Len(t) /\ \A i \in 1 .. Len(t) : c[i] = enc[t[i]]
  BY <1>0, Zenon DEF Spells
<1>3. /\ d \in Seq(T) /\ Len(d) = Len(b) + Len(c)
      /\ \A i \in 1 .. Len(b) + Len(c) : d[i] = IF i <= Len(b) THEN b[i] ELSE c[i - Len(b)]
  BY <1>7, ConcatProperties
<1> HIDE DEF d
<1>4. \A i \in 1 .. Len(r) : a[i] = d[i]
  <2> TAKE i \in 1 .. Len(r)
  <2>1. i \in 1 .. Len(s) + Len(t) /\ i \in 1 .. Len(b) + Len(c)
    BY <1>1, <1>2
  <2>2. CASE i <= Len(s)
    <3>1. i \in 1 .. Len(s) /\ r[i] = s[i] /\ d[i] = b[i]
      BY <1>1, <1>2, <1>3, <2>1, <2>2
    <3> QED  BY <1>2, <3>1
  <2>3. CASE ~(i <= Len(s))
    <3>1. i - Len(s) \in 1 .. Len(t)
      BY <1>1, <2>1, <2>3
    <3>2. r[i] = t[i - Len(s)] /\ d[i] = c[i - Len(s)]
      BY <1>1, <1>2, <1>3, <2>1, <2>3
    <3> QED  BY <1>2, <3>1, <3>2
  <2> QED  BY <2>2, <2>3
<1>5. Len(a) = Len(d)
  BY <1>1, <1>2, <1>3
<1>6. a = d
  BY <1>7, <1>2, <1>3, <1>4, <1>5, SeqEqual
<1> QED  BY <1>6 DEF a, b, c, d, r, ++

\* What is written word by word.
LEMMA CodedFacts ==
  ASSUME NEW S, NEW I, NEW enc, Encodes(enc, I, S), NEW s \in Seq(I), NEW t \in Seq(I)
  PROVE  /\ Coded(enc, s) \in Seq(S)
         /\ Coded(enc, s ++ t) = Coded(enc, s) ++ Coded(enc, t)
<1> DEFINE b == Words(enc, s)
           c == Words(enc, t)
           T == Seq(S)
<1>1. Words(enc, s ++ t) = b ++ c
  BY WordsCat
<1>2. b \in Seq(T) /\ c \in Seq(T)
  <2>1. \A i \in I : enc[i] \in T
    BY DEF Encodes
  <2> HIDE DEF T
  <2> QED  BY <2>1, WordsFacts
<1> HIDE DEF b, c
<1>3. FlattenSeq(b) \in Seq(S) /\ FlattenSeq(b ++ c) = FlattenSeq(b) ++ FlattenSeq(c)
  BY <1>2, FlattenCat
<1> QED  BY <1>1, <1>3, Zenon DEF Coded, b, c

\* No items, no words.
LEMMA CodedNone ==
  ASSUME NEW enc
  PROVE  Coded(enc, <<>>) = <<>>
<1>1. Words(enc, <<>>) = <<>>
  BY DEF Words
<1> QED  BY <1>1 DEF Coded, FlattenSeq

\* One item, one word.
LEMMA CodedOne ==
  ASSUME NEW S, NEW I, NEW enc, Encodes(enc, I, S), NEW a \in I
  PROVE  Coded(enc, <<a>>) = enc[a]
<1> DEFINE b == enc[a]
<1>1. Words(enc, <<a>>) = <<b>> /\ b \in Seq(S)
  BY DEF Words, Encodes
<1> HIDE DEF b
<1>2. <<>> \in Seq(Seq(S))
  OBVIOUS
<1>3. FlattenSeq(<<b>>) = b
  BY <1>1, <1>2, FlattenFacts
<1> QED  BY <1>1, <1>3 DEF Coded, b

\* The first item's word comes first.
LEMMA CodedFirst ==
  ASSUME NEW S, NEW I, NEW enc, Encodes(enc, I, S), NEW a \in I, NEW s \in Seq(I), NEW z \in Seq(S)
  PROVE  /\ Coded(enc, <<a>> ++ s) ++ z = enc[a] ++ (Coded(enc, s) ++ z)
         /\ Coded(enc, s) ++ z \in Seq(S)
<1> DEFINE o == <<a>>
           w == enc[a]
           q == Coded(enc, s)
<1>1. o \in Seq(I) /\ w \in Seq(S)
  BY DEF Encodes
<1>2. Coded(enc, o) = w
  BY CodedOne
<1> HIDE DEF o, w
<1>3. Coded(enc, o ++ s) = Coded(enc, o) ++ q
  BY <1>1, CodedFacts
<1>4. q \in Seq(S)
  BY CodedFacts
<1> HIDE DEF q
<1>5. (w ++ q) ++ z = w ++ (q ++ z) /\ q ++ z \in Seq(S)
  BY <1>1, <1>4, Regroup, Joins
<1> QED  BY <1>2, <1>3, <1>5 DEF o, w, q

\* Reading on from the left, a word can be told from what follows it.
Delimited(enc, I, S) ==
  \A a, b \in I : \A x, y \in Seq(S) : enc[a] ++ x = enc[b] ++ y => a = b /\ x = y

\* No word begins as what ends a text does.
Avoids(enc, I, S, end) ==
  \A a \in I : \E h \in S : \E w \in Seq(S) : enc[a] = <<h>> ++ w /\ h # end

\* A text that begins with a word does not begin with the end.
LEMMA WordIsNotEnd ==
  ASSUME NEW S, NEW I, NEW enc, NEW end \in S, Avoids(enc, I, S, end),
         NEW a \in I, NEW x \in Seq(S), NEW z \in Seq(S)
  PROVE  enc[a] ++ x # <<end>> ++ z
<1>1. PICK h \in S : \E w \in Seq(S) : enc[a] = <<h>> ++ w /\ h # end
  BY DEF Avoids
<1>2. PICK w \in Seq(S) : enc[a] = <<h>> ++ w /\ h # end
  BY <1>1
<1> DEFINE o == <<h>>
           v == w ++ x
           e == enc[a]
<1>3. o \in Seq(S) /\ e = o ++ w
  BY <1>2
<1> HIDE DEF o, e
<1>4. e ++ x = o ++ v /\ v \in Seq(S)
  BY <1>3, Regroup, Joins
<1> HIDE DEF v
<1>5. <<h>> ++ v # <<end>> ++ z
  BY <1>2, <1>4, FirstAgree
<1> QED  BY <1>4, <1>5, Zenon DEF o, e

\* Two texts of which the second ends where it begins.
LEMMA ReadToTheEnd ==
  ASSUME NEW S, NEW I, NEW enc, Encodes(enc, I, S), NEW end \in S, Avoids(enc, I, S, end),
         NEW s \in Seq(I), NEW x \in Seq(S), NEW y \in Seq(S),
         Coded(enc, s) ++ (<<end>> ++ x) = <<end>> ++ y
  PROVE  s = <<>> /\ x = y
<1> DEFINE e == <<end>> ++ x
<1>1. e \in Seq(S)
  <2> DEFINE o == <<end>>
  <2>1. o \in Seq(S)
    OBVIOUS
  <2> HIDE DEF o
  <2>2. o ++ x \in Seq(S)
    BY <2>1, Joins
  <2> QED  BY <2>2 DEF o
<1>2. CASE s = <<>>
  <2>1. Coded(enc, s) ++ e = e
    <3> HIDE DEF e
    <3> QED  BY <1>1, <1>2, CodedNone, Joins
  <2>2. <<end>> ++ x = <<end>> ++ y
    BY <2>1
  <2> QED  BY <1>2, <2>2, FirstAgree
<1>3. CASE s # <<>>
  <2>0. Begins(s, I)
    BY <1>3, FirstAndRest
  <2>1. PICK a \in I, r \in Seq(I) : s = <<a>> ++ r
    BY <2>0 DEF Begins
  <2> HIDE DEF e
  <2> DEFINE f == Coded(enc, r) ++ e
  <2>2. Coded(enc, s) ++ e = enc[a] ++ f /\ f \in Seq(S)
    BY <1>1, <2>1, CodedFirst
  <2> HIDE DEF f
  <2>3. enc[a] ++ f # <<end>> ++ y
    BY <2>2, WordIsNotEnd
  <2> QED  BY <2>2, <2>3 DEF e
<1> QED  BY <1>2, <1>3

\* One item put before a sequence.
LEMMA JoinsFirst ==
  ASSUME NEW S, NEW a \in S, NEW s \in Seq(S)
  PROVE  <<a>> ++ s \in Seq(S)
<1> DEFINE o == <<a>>
<1>1. o \in Seq(S)
  OBVIOUS
<1> HIDE DEF o
<1>2. o ++ s \in Seq(S)
  BY <1>1, Joins
<1> QED  BY <1>2 DEF o

\* Two texts that are the same have the same first word, and go on the same.
LEMMA FirstWordsSame ==
  ASSUME NEW S, NEW I, NEW enc, Encodes(enc, I, S), Delimited(enc, I, S),
         NEW a \in I, NEW r \in Seq(I), NEW b \in I, NEW q \in Seq(I),
         NEW e \in Seq(S), NEW f \in Seq(S),
         Coded(enc, <<a>> ++ r) ++ e = Coded(enc, <<b>> ++ q) ++ f
  PROVE  a = b /\ Coded(enc, r) ++ e = Coded(enc, q) ++ f
<1> DEFINE j == Coded(enc, r) ++ e
           k == Coded(enc, q) ++ f
<1>1. Coded(enc, <<a>> ++ r) ++ e = enc[a] ++ j /\ j \in Seq(S)
  BY CodedFirst
<1>2. Coded(enc, <<b>> ++ q) ++ f = enc[b] ++ k /\ k \in Seq(S)
  BY CodedFirst
<1> HIDE DEF j, k
<1>3. enc[a] ++ j = enc[b] ++ k
  BY <1>1, <1>2
<1>4. \A x, y \in Seq(S) : enc[a] ++ x = enc[b] ++ y => a = b /\ x = y
  BY Zenon DEF Delimited
<1>5. a = b /\ j = k
  BY <1>1, <1>2, <1>3, <1>4
<1> QED  BY <1>5 DEF j, k

\* What is written with words that can be told apart can be read back, and so
\* can what follows it.
LEMMA Decodable ==
  ASSUME NEW S, NEW I, NEW enc, Encodes(enc, I, S), NEW end \in S,
         Delimited(enc, I, S), Avoids(enc, I, S, end),
         NEW s \in Seq(I), NEW t \in Seq(I), NEW x \in Seq(S), NEW y \in Seq(S),
         Coded(enc, s) ++ (<<end>> ++ x) = Coded(enc, t) ++ (<<end>> ++ y)
  PROVE  s = t /\ x = y
<1> DEFINE Same(r, q, u, v) == Coded(enc, r) ++ (<<end>> ++ u) = Coded(enc, q) ++ (<<end>> ++ v)
           bad == {n \in Nat : \E r, q \in Seq(I) : \E u, v \in Seq(S) :
                                 Len(r) = n /\ Same(r, q, u, v) /\ ~(r = q /\ u = v)}
<1>1. ASSUME NEW u \in Seq(S)
      PROVE  /\ <<end>> ++ u \in Seq(S)
             /\ Coded(enc, <<>>) ++ (<<end>> ++ u) = <<end>> ++ u
  <2> DEFINE e == <<end>> ++ u
  <2>1. e \in Seq(S)
    BY JoinsFirst
  <2> HIDE DEF e
  <2>2. Coded(enc, <<>>) ++ e = e
    BY <2>1, CodedNone, Joins
  <2> QED  BY <2>1, <2>2 DEF e
<1>2. ASSUME bad # {} PROVE FALSE
  <2>1. PICK n \in bad : \A m \in bad : n <= m
    <3>1. bad \subseteq Nat
      OBVIOUS
    <3> HIDE DEF bad
    <3> QED  BY <1>2, <3>1, Least
  <2>2. PICK r \in Seq(I), q \in Seq(I) : \E u, v \in Seq(S) :
          Len(r) = n /\ Same(r, q, u, v) /\ ~(r = q /\ u = v)
    BY <2>1
  <2>3. PICK u \in Seq(S), v \in Seq(S) : Len(r) = n /\ Same(r, q, u, v) /\ ~(r = q /\ u = v)
    BY <2>2
  <2>4. r # <<>> /\ q # <<>>
    <3>1. ASSUME r = <<>> PROVE FALSE
      <4>1. Coded(enc, q) ++ (<<end>> ++ v) = <<end>> ++ u
        BY <1>1, <2>3, <3>1
      <4>2. q = <<>> /\ v = u
        BY <4>1, ReadToTheEnd
      <4> QED  BY <2>3, <3>1, <4>2
    <3>2. ASSUME q = <<>> PROVE FALSE
      <4>1. Coded(enc, r) ++ (<<end>> ++ u) = <<end>> ++ v
        BY <1>1, <2>3, <3>2
      <4>2. r = <<>> /\ u = v
        BY <4>1, ReadToTheEnd
      <4> QED  BY <2>3, <3>2, <4>2
    <3> QED  BY <3>1, <3>2
  <2>5. Begins(r, I) /\ Begins(q, I)
    BY <2>4, FirstAndRest
  <2>6. PICK a \in I, r1 \in Seq(I) : r = <<a>> ++ r1 /\ Len(r) = Len(r1) + 1
    BY <2>5 DEF Begins
  <2>7. PICK b \in I, q1 \in Seq(I) : q = <<b>> ++ q1
    BY <2>5 DEF Begins
  <2> DEFINE e == <<end>> ++ u
             f == <<end>> ++ v
  <2>8. e \in Seq(S) /\ f \in Seq(S) /\ Coded(enc, r) ++ e = Coded(enc, q) ++ f
    BY <1>1, <2>3
  <2> HIDE DEF e, f
  <2>9. a = b /\ Coded(enc, r1) ++ e = Coded(enc, q1) ++ f
    <3> HIDE DEF Same, bad
    <3>1. Coded(enc, <<a>> ++ r1) ++ e = Coded(enc, <<b>> ++ q1) ++ f
      BY <2>6, <2>7, <2>8, Zenon
    <3> QED  BY <2>8, <3>1, FirstWordsSame
  <2>10. Same(r1, q1, u, v)
    BY <2>9 DEF e, f
  <2> HIDE DEF Same
  <2>11. Len(r1) \in Nat /\ n = Len(r1) + 1
    BY <2>3, <2>6, LenProperties
  <2>12. Len(r1) \notin bad
    <3> HIDE DEF bad
    <3> QED  BY <2>1, <2>11
  <2>13. r1 = q1 /\ u = v
    BY <2>10, <2>11, <2>12
  <2> QED  BY <2>3, <2>6, <2>7, <2>9, <2>13
<1>3. Len(s) \in Nat /\ Same(s, t, x, y)
  BY LenProperties
<1> HIDE DEF Same
<1>4. Len(s) \notin bad
  BY <1>2
<1> QED  BY <1>3, <1>4


-----------------------------------------------------------------------------
\* What JSON escapes and quotes.

\* All that texts are put together from.
Sym ==
  Byte \cup {Quote, Backslash, Marker, "u0001", ",", "[", "]", "enum", "boolean", "true", "false",
             "- ", ": ", ". Allowed values: ", "\n", ": <value>", ":", " ", "system", "user",
             "assistant"}

\* What json_escape writes for a byte, and Quoted for a text.
Escaped ==
  [b \in Byte |->
     CASE b \in {Quote, Backslash} -> <<Backslash, b>>
       [] b = Marker -> <<Backslash, "u0001">>
       [] OTHER -> <<b>>]
QuotedText == [t \in Seq(Byte) |-> Quoted(t)]

\* Two items, one after the other.
LEMMA TwoItems ==
  ASSUME NEW S, NEW a \in S, NEW b \in S
  PROVE  <<a>> ++ <<b>> = <<a, b>> /\ <<a>> \in Seq(S) /\ <<b>> \in Seq(S)
<1> DEFINE o == <<a>>
<1>1. o \in Seq(S) /\ <<b>> \in Seq(S)
  OBVIOUS
<1>2. <<a, b>> = Append(o, b)
  OBVIOUS
<1>3. \A q \in Seq(S) : Append(q, b) = q \o <<b>>
  BY AppendIsConcat
<1> HIDE DEF o
<1>4. <<a, b>> = o \o <<b>>
  BY <1>1, <1>2, <1>3, Zenon
<1> QED  BY <1>1, <1>4 DEF ++, o

\* Two items before a sequence.
LEMMA JoinsTwo ==
  ASSUME NEW S, NEW a \in S, NEW b \in S, NEW s \in Seq(S)
  PROVE  <<a, b>> ++ s = <<a>> ++ (<<b>> ++ s)
<1> DEFINE o == <<a>>
           p == <<b>>
<1>1. o \in Seq(S) /\ p \in Seq(S) /\ o ++ p = <<a, b>>
  BY TwoItems
<1> HIDE DEF o, p
<1>2. (o ++ p) ++ s = o ++ (p ++ s)
  BY <1>1, Regroup
<1> QED  BY <1>1, <1>2 DEF o, p

\* The bytes JSON escapes, and what they are escaped to.
Special == {Quote, Backslash, Marker}
Behind(b) == IF b = Marker THEN "u0001" ELSE b

\* An escaped byte begins with a backslash, any other with itself.
LEMMA EscapedFacts ==
  ASSUME NEW b \in Byte
  PROVE  /\ b \in Special => Escaped[b] = <<Backslash, Behind(b)>> /\ Behind(b) \in Sym
         /\ b \notin Special => Escaped[b] = <<b>> /\ b \in Sym
         /\ Backslash \in Sym
  BY DEF Escaped, Special, Behind, Sym, Quote, Backslash, Marker

\* The escapes of two bytes can be told apart, whatever follows.
LEMMA EscapedDelimited ==
  /\ Encodes(Escaped, Byte, Sym)
  /\ Delimited(Escaped, Byte, Sym)
  /\ Avoids(Escaped, Byte, Sym, Quote)
<1>1. Encodes(Escaped, Byte, Sym)
  <2> SUFFICES ASSUME NEW b \in Byte PROVE Escaped[b] \in Seq(Sym)
    BY DEF Encodes
  <2>1. \/ Escaped[b] = <<Backslash, Behind(b)>> /\ Behind(b) \in Sym /\ Backslash \in Sym
        \/ Escaped[b] = <<b>> /\ b \in Sym
    BY EscapedFacts
  <2>2. ASSUME NEW S, NEW c \in S, NEW d \in S PROVE <<c>> \in Seq(S) /\ <<c, d>> \in Seq(S)
    OBVIOUS
  <2>3. CASE Escaped[b] = <<b>> /\ b \in Sym
    BY <2>2, <2>3, Zenon
  <2>4. CASE Escaped[b] = <<Backslash, Behind(b)>> /\ Behind(b) \in Sym /\ Backslash \in Sym
    BY <2>2, <2>4, Zenon
  <2> QED  BY <2>1, <2>3, <2>4
<1>2. ASSUME NEW b \in Byte, NEW x \in Seq(Sym)
      PROVE  /\ b \in Special => Escaped[b] ++ x = <<Backslash>> ++ (<<Behind(b)>> ++ x)
             /\ b \notin Special => Escaped[b] ++ x = <<b>> ++ x
  <2>1. ASSUME b \in Special
        PROVE  <<Backslash, Behind(b)>> ++ x = <<Backslash>> ++ (<<Behind(b)>> ++ x)
    <3>1. Backslash \in Sym /\ Behind(b) \in Sym
      BY <2>1, EscapedFacts
    <3> QED  BY <3>1, JoinsTwo
  <2> QED  BY <2>1, EscapedFacts
<1>3. Delimited(Escaped, Byte, Sym)
  <2> SUFFICES ASSUME NEW a \in Byte, NEW b \in Byte, NEW x \in Seq(Sym), NEW y \in Seq(Sym),
                      Escaped[a] ++ x = Escaped[b] ++ y
               PROVE  a = b /\ x = y
    BY DEF Delimited
  <2>1. a \in Sym /\ b \in Sym /\ Backslash \in Sym
    BY DEF Sym
  <2>2. CASE a \notin Special /\ b \notin Special
    <3>1. <<a>> ++ x = <<b>> ++ y
      BY <1>2, <2>2
    <3> QED  BY <2>1, <3>1, FirstAgree
  <2>3. CASE a \in Special /\ b \in Special
    <3> DEFINE c == Behind(a)
               d == Behind(b)
               u == <<c>> ++ x
               v == <<d>> ++ y
    <3>1. c \in Sym /\ d \in Sym
      BY <2>3, EscapedFacts
    <3>2. <<Backslash>> ++ u = <<Backslash>> ++ v
      BY <1>2, <2>3
    <3> HIDE DEF c, d
    <3>3. u \in Seq(Sym) /\ v \in Seq(Sym)
      BY <3>1, JoinsFirst
    <3> HIDE DEF u, v
    <3>4. u = v
      BY <2>1, <3>2, <3>3, FirstAgree
    <3>5. <<c>> ++ x = <<d>> ++ y
      BY <3>4 DEF u, v
    <3>6. c = d /\ x = y
      BY <3>1, <3>5, FirstAgree
    <3> QED  BY <2>3, <3>6 DEF c, d, Behind, Special, Quote, Backslash, Marker
  <2>4. ASSUME NEW g \in Byte, NEW h \in Byte, NEW u \in Seq(Sym), NEW v \in Seq(Sym),
               g \in Special, h \notin Special, Escaped[g] ++ u = Escaped[h] ++ v
        PROVE  FALSE
    <3> DEFINE c == Behind(g)
               w == <<c>> ++ u
    <3>1. c \in Sym /\ h \in Sym
      BY <2>4, EscapedFacts
    <3>2. <<Backslash>> ++ w = <<h>> ++ v
      BY <1>2, <2>4
    <3> HIDE DEF c
    <3>3. w \in Seq(Sym)
      BY <3>1, JoinsFirst
    <3> HIDE DEF w
    <3>4. Backslash = h
      BY <2>1, <3>1, <3>2, <3>3, FirstAgree
    <3> QED  BY <2>4, <3>4 DEF Special
  <2> QED  BY <2>2, <2>3, <2>4
<1>4. Avoids(Escaped, Byte, Sym, Quote)
  <2> SUFFICES ASSUME NEW a \in Byte
               PROVE  \E h \in Sym : \E w \in Seq(Sym) : Escaped[a] = <<h>> ++ w /\ h # Quote
    BY DEF Avoids
  <2>1. CASE a \in Special
    <3> DEFINE w == <<Behind(a)>>
    <3>1. Backslash \in Sym /\ Behind(a) \in Sym /\ Escaped[a] = <<Backslash, Behind(a)>>
      BY <2>1, EscapedFacts
    <3> HIDE DEF Sym
    <3>2. w \in Seq(Sym) /\ <<Backslash, Behind(a)>> = <<Backslash>> \o w
      BY <3>1
    <3>3. Backslash # Quote
      BY DEF Backslash, Quote
    <3>4. Escaped[a] = <<Backslash>> ++ w
      BY <3>1, <3>2 DEF ++
    <3> HIDE DEF w
    <3> QED  BY <3>1, <3>2, <3>3, <3>4
  <2>2. CASE a \notin Special
    <3>1. a \in Sym /\ Escaped[a] = <<a>> /\ a # Quote
      BY <2>2, EscapedFacts DEF Special
    <3> HIDE DEF Sym
    <3>2. <<>> \in Seq(Sym) /\ <<a>> = <<a>> \o <<>>
      BY <3>1
    <3>3. Escaped[a] = <<a>> ++ <<>>
      BY <3>1, <3>2 DEF ++
    <3> QED  BY <3>1, <3>2, <3>3
  <2> QED  BY <2>1, <2>2
<1> QED  BY <1>1, <1>3, <1>4

\* json_escape goes byte by byte.
LEMMA EscapeIsCoded ==
  ASSUME NEW s \in Seq(Byte)
  PROVE  json_escape(s) = Coded(Escaped, s)
<1>1. \A i \in DOMAIN s : s[i] \in Byte
  BY LenProperties, ElementOfSeq
<1>2. [i \in DOMAIN s |-> CASE s[i] \in {Quote, Backslash} -> <<Backslash, s[i]>>
                            [] s[i] = Marker -> <<Backslash, "u0001">>
                            [] OTHER -> <<s[i]>>]
        = Words(Escaped, s)
  BY <1>1 DEF Words, Escaped
<1> QED  BY <1>2, Zenon DEF json_escape, Coded

\* A quoted text, part by part, before x.
LEMMA QuotedFacts ==
  ASSUME NEW s \in Seq(Byte), NEW x \in Seq(Sym)
  PROVE  /\ Quoted(s) ++ x = <<Quote>> ++ (json_escape(s) ++ (<<Quote>> ++ x))
         /\ json_escape(s) \in Seq(Sym)
         /\ Quoted(s) \in Seq(Sym)
         /\ Quoted(s) = <<Quote>> ++ (json_escape(s) ++ <<Quote>>)
         /\ json_escape(s) ++ <<Quote>> \in Seq(Sym)
<1> DEFINE e == json_escape(s)
           q == <<Quote>>
           z == Quoted(s)
<1>1. e \in Seq(Sym)
  <2>1. Coded(Escaped, s) \in Seq(Sym)
    BY EscapedDelimited, CodedFacts
  <2> QED  BY <2>1, EscapeIsCoded
<1>2. Quote \in Sym
  BY DEF Sym
<1> HIDE DEF Sym
<1>3. q \in Seq(Sym)
  BY <1>2
<1>4. z = (q ++ e) ++ q
  BY DEF Quoted, ++
<1> HIDE DEF e, q, z
<1>5. /\ q ++ e \in Seq(Sym) /\ e ++ q \in Seq(Sym) /\ q ++ x \in Seq(Sym)
      /\ (q ++ e) ++ q = q ++ (e ++ q) /\ (q ++ e) ++ q \in Seq(Sym)
  BY <1>1, <1>3, Joins, Regroup
<1>6. ((q ++ e) ++ q) ++ x = (q ++ e) ++ (q ++ x)
  BY <1>3, <1>5, Regroup
<1>7. (q ++ e) ++ (q ++ x) = q ++ (e ++ (q ++ x))
  <2> DEFINE y == q ++ x
  <2>1. y \in Seq(Sym)
    BY <1>5
  <2> HIDE DEF y
  <2>2. (q ++ e) ++ y = q ++ (e ++ y)
    BY <1>1, <1>3, <2>1, Regroup
  <2> QED  BY <2>2 DEF y
<1> QED  BY <1>1, <1>4, <1>5, <1>6, <1>7 DEF e, q, z

\* Quoted texts can be told apart, whatever follows.
LEMMA QuotedDelimited ==
  ASSUME NEW end \in Sym, end # Quote
  PROVE  /\ Encodes(QuotedText, Seq(Byte), Sym)
         /\ Delimited(QuotedText, Seq(Byte), Sym)
         /\ Avoids(QuotedText, Seq(Byte), Sym, end)
<1>0. <<>> \in Seq(Sym) /\ Quote \in Sym
  <2>1. Quote \in Sym
    BY DEF Sym
  <2>2. <<>> \in Seq(Sym)
    BY EmptySeq, Zenon
  <2> QED  BY <2>1, <2>2
<1>1. Encodes(QuotedText, Seq(Byte), Sym)
  BY <1>0, QuotedFacts DEF Encodes, QuotedText
<1>2. Delimited(QuotedText, Seq(Byte), Sym)
  <2> SUFFICES ASSUME NEW s \in Seq(Byte), NEW t \in Seq(Byte), NEW x \in Seq(Sym), NEW y \in Seq(Sym),
                      Quoted(s) ++ x = Quoted(t) ++ y
               PROVE  s = t /\ x = y
    BY DEF Delimited, QuotedText
  <2> DEFINE u == json_escape(s) ++ (<<Quote>> ++ x)
             v == json_escape(t) ++ (<<Quote>> ++ y)
  <2>1. <<Quote>> ++ u = <<Quote>> ++ v
    BY QuotedFacts
  <2>2. u \in Seq(Sym) /\ v \in Seq(Sym)
    <3> DEFINE f == <<Quote>> ++ x
               g == <<Quote>> ++ y
    <3>1. f \in Seq(Sym) /\ g \in Seq(Sym)
      BY <1>0, JoinsFirst
    <3>2. json_escape(s) \in Seq(Sym) /\ json_escape(t) \in Seq(Sym)
      BY QuotedFacts
    <3> HIDE DEF f, g, Sym
    <3>3. json_escape(s) ++ f \in Seq(Sym) /\ json_escape(t) ++ g \in Seq(Sym)
      BY <3>1, <3>2, Joins
    <3> QED  BY <3>3 DEF f, g
  <2> HIDE DEF u, v
  <2>3. u = v
    BY <1>0, <2>1, <2>2, FirstAgree
  <2>4. Coded(Escaped, s) ++ (<<Quote>> ++ x) = Coded(Escaped, t) ++ (<<Quote>> ++ y)
    BY <2>3, EscapeIsCoded, Zenon DEF u, v
  <2> QED  BY <1>0, <2>4, EscapedDelimited, Decodable
<1>3. Avoids(QuotedText, Seq(Byte), Sym, end)
  <2> SUFFICES ASSUME NEW s \in Seq(Byte)
               PROVE  \E h \in Sym : \E w \in Seq(Sym) : Quoted(s) = <<h>> ++ w /\ h # end
    BY DEF Avoids, QuotedText
  <2> DEFINE w == json_escape(s) ++ <<Quote>>
  <2>1. w \in Seq(Sym) /\ Quoted(s) = <<Quote>> ++ w
    BY <1>0, QuotedFacts
  <2> HIDE DEF w, Sym
  <2> QED  BY <1>0, <2>1
<1> QED  BY <1>1, <1>2, <1>3

\* A quoted text can be read back, and so can what follows it.
LEMMA QuotedReads ==
  ASSUME NEW s \in Seq(Byte), NEW t \in Seq(Byte), NEW x \in Seq(Sym), NEW y \in Seq(Sym),
         Quoted(s) ++ x = Quoted(t) ++ y
  PROVE  s = t /\ x = y
<1>1. Delimited(QuotedText, Seq(Byte), Sym)
  <2>1. Backslash \in Sym /\ Backslash # Quote
    BY DEF Sym, Backslash, Quote
  <2> QED  BY <2>1, QuotedDelimited
<1>2. \A p, q \in Seq(Sym) : QuotedText[s] ++ p = QuotedText[t] ++ q => s = t /\ p = q
  BY <1>1 DEF Delimited
<1>3. QuotedText[s] = Quoted(s) /\ QuotedText[t] = Quoted(t)
  BY DEF QuotedText
<1> QED  BY <1>2, <1>3


-----------------------------------------------------------------------------
\* Lists with commas.

Comma == ","

\* A comma before each word.
AfterComma(enc, I) == [a \in I |-> <<Comma>> ++ enc[a]]

\* Words after commas can be told apart if the words can.
LEMMA AfterCommaDelimited ==
  ASSUME NEW S, NEW I, NEW enc, Encodes(enc, I, S), Delimited(enc, I, S), Comma \in S,
         NEW end \in S, end # Comma
  PROVE  /\ Encodes(AfterComma(enc, I), I, S)
         /\ Delimited(AfterComma(enc, I), I, S)
         /\ Avoids(AfterComma(enc, I), I, S, end)
<1> DEFINE com == AfterComma(enc, I)
           o == <<Comma>>
<1>1. o \in Seq(S) /\ \A a \in I : enc[a] \in Seq(S)
  BY DEF Encodes
<1>2. \A a \in I : com[a] = o ++ enc[a]
  BY DEF AfterComma
<1> HIDE DEF com, o
<1>3. \A a \in I : com[a] \in Seq(S)
  <2> TAKE a \in I
  <2> DEFINE w == enc[a]
  <2>1. w \in Seq(S) /\ com[a] = o ++ w
    BY <1>1, <1>2
  <2> HIDE DEF w
  <2> QED  BY <1>1, <2>1, Joins
<1>4. ASSUME NEW a \in I, NEW x \in Seq(S)
      PROVE  com[a] ++ x = o ++ (enc[a] ++ x) /\ enc[a] ++ x \in Seq(S)
  <2> DEFINE w == enc[a]
  <2>1. w \in Seq(S) /\ com[a] = o ++ w
    BY <1>1, <1>2
  <2> HIDE DEF w
  <2>2. (o ++ w) ++ x = o ++ (w ++ x) /\ w ++ x \in Seq(S)
    BY <1>1, <2>1, Regroup, Joins
  <2> QED  BY <2>1, <2>2 DEF w
<1>5. ASSUME NEW a \in I, NEW b \in I, NEW x \in Seq(S), NEW y \in Seq(S),
             com[a] ++ x = com[b] ++ y
      PROVE  a = b /\ x = y
  <2> DEFINE u == enc[a] ++ x
             v == enc[b] ++ y
  <2>1. u \in Seq(S) /\ v \in Seq(S) /\ o ++ u = o ++ v
    BY <1>4, <1>5
  <2> HIDE DEF u, v
  <2>2. u = v
    BY <2>1, FirstAgree DEF o
  <2>3. \A p, z \in Seq(S) : enc[a] ++ p = enc[b] ++ z => a = b /\ p = z
    BY DEF Delimited
  <2> QED  BY <2>2, <2>3 DEF u, v
<1>6. Encodes(com, I, S)
  BY <1>3 DEF Encodes
<1>7. Delimited(com, I, S)
  BY <1>5 DEF Delimited
<1>8. Avoids(com, I, S, end)
  BY <1>1, <1>2 DEF Avoids, o
<1> QED  BY <1>6, <1>7, <1>8 DEF com

\* s is the item of o before r.
Follows(s, o, r, S) ==
  /\ s \in Seq(S) /\ Len(s) = 1 + Len(r) /\ Len(r) \in Nat
  /\ \A i \in 1 .. 1 + Len(r) : s[i] = IF i <= 1 THEN o[i] ELSE r[i - 1]

\* Where the items of such a concatenation are.
LEMMA OneBefore ==
  ASSUME NEW S, NEW o \in Seq(S), Len(o) = 1, NEW r \in Seq(S)
  PROVE  Follows(o \o r, o, r, S)
<1> DEFINE s == o \o r
<1>1. /\ s \in Seq(S) /\ Len(s) = Len(o) + Len(r)
      /\ \A i \in 1 .. Len(o) + Len(r) : s[i] = IF i <= Len(o) THEN o[i] ELSE r[i - Len(o)]
  BY ConcatProperties
<1>2. Len(r) \in Nat
  BY LenProperties
<1> HIDE DEF s
<1>3. Follows(s, o, r, S)
  BY <1>1, <1>2 DEF Follows
<1> QED  BY <1>3 DEF s

\* Joined writes the first word and then the others, each after a comma.
LEMMA JoinedIs ==
  ASSUME NEW S, NEW I, NEW enc, Encodes(enc, I, S), Comma \in S, NEW a \in I, NEW r \in Seq(I)
  PROVE  /\ Joined(Words(enc, <<a>> ++ r)) = enc[a] ++ Coded(AfterComma(enc, I), r)
         /\ Coded(AfterComma(enc, I), r) \in Seq(S)
         /\ Joined(Words(enc, <<a>> ++ r)) \in Seq(S)
<1> DEFINE com == AfterComma(enc, I)
           T == Seq(S)
           o == <<a>>
           s == o \o r
           e == enc[a]
           one == <<e>>
           items == Words(enc, s)
           rest == Words(com, r)
           block(i) == IF i = 1 THEN items[1] ELSE <<Comma>> \o items[i]
           blocks == [i \in DOMAIN items |-> block(i)]
           d == one \o rest
<1>1. e \in T /\ \A b \in I : enc[b] \in T
  BY DEF Encodes
<1>2. \A b \in I : com[b] = <<Comma>> \o enc[b]
  BY DEF AfterComma, ++
<1>3. \A b \in I : com[b] \in T
  <2> TAKE b \in I
  <2> DEFINE w == enc[b]
             c == <<Comma>>
  <2>1. w \in Seq(S) /\ com[b] = c \o w /\ c \in Seq(S)
    BY <1>1, <1>2
  <2> HIDE DEF w, c
  <2> QED  BY <2>1, ConcatProperties
<1> HIDE DEF T, e, com
<1>4. /\ o \in Seq(I) /\ Len(o) = 1 /\ o[1] = a
      /\ one \in Seq(T) /\ Len(one) = 1 /\ one[1] = e
  BY <1>1
<1> HIDE DEF o, one
<1>5. /\ s \in Seq(I) /\ Len(s) = 1 + Len(r) /\ Len(r) \in Nat
      /\ \A i \in 1 .. 1 + Len(r) : s[i] = IF i <= 1 THEN o[i] ELSE r[i - 1]
  BY <1>4, OneBefore DEF Follows
<1> HIDE DEF s
<1>6. items \in Seq(T) /\ Len(items) = Len(s) /\ \A i \in 1 .. Len(s) : items[i] = enc[s[i]]
  <2>1. items \in Seq(T) /\ Spells(items, enc, s)
    BY <1>1, <1>5, WordsFacts, Zenon
  <2> QED  BY <2>1, Zenon DEF Spells
<1>7. rest \in Seq(T) /\ Len(rest) = Len(r) /\ \A i \in 1 .. Len(r) : rest[i] = com[r[i]]
  <2>1. rest \in Seq(T) /\ Spells(rest, com, r)
    BY <1>3, WordsFacts, Zenon
  <2> QED  BY <2>1, Zenon DEF Spells
<1> HIDE DEF items, rest
<1>8. /\ d \in Seq(T) /\ Len(d) = 1 + Len(rest)
      /\ \A i \in 1 .. 1 + Len(rest) : d[i] = IF i <= 1 THEN one[i] ELSE rest[i - 1]
  BY <1>4, <1>7, OneBefore DEF Follows
<1> HIDE DEF d
<1>9. DOMAIN items = 1 .. Len(s) /\ DOMAIN d = 1 .. Len(s)
  <2>1. Len(d) = Len(s)
    BY <1>5, <1>7, <1>8
  <2> QED  BY <1>6, <1>8, <2>1, LenProperties
<1>10. \A i \in 1 .. Len(s) : block(i) = d[i]
  <2> TAKE i \in 1 .. Len(s)
  <2>1. CASE i = 1
    <3>1. 1 \in 1 .. Len(s) /\ 1 \in 1 .. 1 + Len(rest) /\ 1 \in 1 .. 1 + Len(r)
      BY <1>5, <1>7
    <3>2. items[1] = enc[s[1]] /\ s[1] = o[1] /\ d[1] = one[1]
      BY <1>5, <1>6, <1>8, <3>1
    <3> QED  BY <1>4, <2>1, <3>2 DEF e
  <2>2. CASE i # 1
    <3>1. i - 1 \in 1 .. Len(r) /\ i \in 1 .. 1 + Len(rest) /\ i \in 1 .. 1 + Len(r) /\ ~(i <= 1)
      BY <1>5, <1>7, <2>2
    <3>2. s[i] = r[i - 1] /\ d[i] = rest[i - 1] /\ items[i] = enc[s[i]]
      BY <1>5, <1>6, <1>8, <3>1
    <3>3. rest[i - 1] = com[r[i - 1]] /\ r[i - 1] \in I
      BY <1>7, <3>1, ElementOfSeq
    <3>4. com[r[i - 1]] = <<Comma>> \o enc[r[i - 1]]
      BY <1>2, <3>3
    <3> QED  BY <2>2, <3>2, <3>3, <3>4, Zenon
  <2> QED  BY <2>1, <2>2
<1>11. blocks = d
  <2>1. d = [i \in 1 .. Len(s) |-> d[i]]
    <3>1. d \in [1 .. Len(d) -> T] /\ Len(d) = Len(s)
      BY <1>5, <1>7, <1>8, LenProperties
    <3> HIDE DEF T
    <3> QED  BY <3>1
  <2>2. blocks = [i \in 1 .. Len(s) |-> d[i]]
    <3> HIDE DEF block
    <3> QED  BY <1>9, <1>10, Zenon
  <2> QED  BY <2>1, <2>2
<1>12. Joined(items) = FlattenSeq(d)
  BY <1>11, Zenon DEF Joined, Comma
<1>13. FlattenSeq(one ++ rest) = FlattenSeq(one) ++ FlattenSeq(rest) /\ FlattenSeq(rest) \in Seq(S)
  <2>1. one \in Seq(Seq(S)) /\ rest \in Seq(Seq(S))
    BY <1>4, <1>7 DEF T
  <2> QED  BY <2>1, FlattenCat
<1>14. FlattenSeq(one) = e
  <2>1. e \in Seq(S) /\ <<>> \in Seq(Seq(S))
    BY <1>1, EmptySeq DEF T
  <2> QED  BY <2>1, FlattenFacts DEF one
<1>15. Joined(items) = e ++ FlattenSeq(rest)
  BY <1>12, <1>13, <1>14 DEF d, ++
<1>16. FlattenSeq(rest) = Coded(com, r)
  BY DEF rest, Coded
<1>17. e ++ FlattenSeq(rest) \in Seq(S)
  <2> DEFINE f == FlattenSeq(rest)
  <2>1. f \in Seq(S) /\ e \in Seq(S)
    BY <1>1, <1>13 DEF T
  <2> HIDE DEF f
  <2>2. e ++ f \in Seq(S)
    BY <2>1, Joins
  <2> QED  BY <2>2 DEF f
<1>18. Joined(items) = Joined(Words(enc, <<a>> ++ r))
  BY DEF items, s, o, ++
<1> QED  BY <1>13, <1>15, <1>16, <1>17, <1>18 DEF e, com

\* A list of words with commas between them can be read back up to its end.
LEMMA JoinedReads ==
  ASSUME NEW S, NEW I, NEW enc, Encodes(enc, I, S), Delimited(enc, I, S), Comma \in S,
         NEW end \in S, end # Comma,
         NEW s \in Seq(I), NEW t \in Seq(I), s # <<>>, t # <<>>, NEW x \in Seq(S), NEW y \in Seq(S),
         Joined(Words(enc, s)) ++ (<<end>> ++ x) = Joined(Words(enc, t)) ++ (<<end>> ++ y)
  PROVE  s = t /\ x = y
<1> DEFINE com == AfterComma(enc, I)
           e == <<end>> ++ x
           f == <<end>> ++ y
<1>0. Encodes(com, I, S) /\ Delimited(com, I, S) /\ Avoids(com, I, S, end)
  BY AfterCommaDelimited
<1> HIDE DEF com
<1>1. Begins(s, I) /\ Begins(t, I)
  BY FirstAndRest
<1>2. PICK a \in I, r \in Seq(I) : s = <<a>> ++ r
  BY <1>1 DEF Begins
<1>3. PICK b \in I, q \in Seq(I) : t = <<b>> ++ q
  BY <1>1 DEF Begins
<1>4. e \in Seq(S) /\ f \in Seq(S)
  BY JoinsFirst
<1>5. Joined(Words(enc, s)) ++ e = Joined(Words(enc, t)) ++ f
  OBVIOUS
<1> HIDE DEF e, f
<1>6. ASSUME NEW c \in I, NEW z \in Seq(I), NEW g \in Seq(S)
      PROVE  /\ Joined(Words(enc, <<c>> ++ z)) ++ g = enc[c] ++ (Coded(com, z) ++ g)
             /\ Coded(com, z) ++ g \in Seq(S)
  <2> DEFINE w == enc[c]
             k == Coded(com, z)
  <2>1. Joined(Words(enc, <<c>> ++ z)) = w ++ k /\ k \in Seq(S) /\ w \in Seq(S)
    <3>1. w \in Seq(S)
      BY DEF Encodes
    <3>2. Joined(Words(enc, <<c>> ++ z)) = w ++ k /\ k \in Seq(S)
      BY JoinedIs, SMTT(30) DEF com
    <3> QED  BY <3>1, <3>2
  <2> HIDE DEF w, k
  <2>2. (w ++ k) ++ g = w ++ (k ++ g) /\ k ++ g \in Seq(S)
    BY <2>1, Regroup, Joins
  <2> QED  BY <2>1, <2>2 DEF w, k
<1> DEFINE u == Coded(com, r) ++ e
           v == Coded(com, q) ++ f
<1>7. enc[a] ++ u = enc[b] ++ v /\ u \in Seq(S) /\ v \in Seq(S)
  BY <1>2, <1>3, <1>4, <1>5, <1>6
<1> HIDE DEF u, v
<1>8. a = b /\ u = v
  <2>1. \A p, z \in Seq(S) : enc[a] ++ p = enc[b] ++ z => a = b /\ p = z
    BY DEF Delimited
  <2> QED  BY <1>7, <2>1
<1>9. Coded(com, r) ++ (<<end>> ++ x) = Coded(com, q) ++ (<<end>> ++ y)
  BY <1>8 DEF u, v, e, f
<1>10. r = q /\ x = y
  BY <1>0, <1>9, Decodable
<1> QED  BY <1>2, <1>3, <1>8, <1>10


-----------------------------------------------------------------------------
\* The fields of a schema.

Open == "["
Close == "]"

\* The labels of a boolean's choices, written as they are.
Truths == {<<"true">>, <<"false">>}
PlainText == [t \in Truths |-> t]

\* A field as parse_field makes it.
IsField(f) ==
  /\ f = [name |-> f.name, description |-> f.description, kind |-> f.kind, choices |-> f.choices]
  /\ f.name \in Seq(Byte) /\ f.description \in Seq(Byte)
  /\ \/ f.kind = "boolean" /\ f.choices \in Seq(Truths)
     \/ f.kind = "enum" /\ f.choices \in Seq(Seq(Byte))
  /\ f.choices # <<>>

\* Three parts before a fourth.
LEMMA Regroup3 ==
  ASSUME NEW S, NEW a \in Seq(S), NEW b \in Seq(S), NEW c \in Seq(S), NEW x \in Seq(S)
  PROVE  ((a ++ b) ++ c) ++ x = a ++ (b ++ (c ++ x)) /\ (a ++ b) ++ c \in Seq(S)
<1> DEFINE u == a ++ b
           v == c ++ x
<1>1. u \in Seq(S) /\ v \in Seq(S)
  BY Joins
<1>2. u ++ v = a ++ (b ++ v)
  <2> HIDE DEF v
  <2> QED  BY <1>1, Regroup DEF u
<1> HIDE DEF u
<1>3. (u ++ c) ++ x = u ++ v /\ u ++ c \in Seq(S)
  BY <1>1, Regroup, Joins
<1> QED  BY <1>2, <1>3 DEF u, v

\* Five parts before a sixth.
LEMMA Regroup5 ==
  ASSUME NEW S, NEW a \in Seq(S), NEW b \in Seq(S), NEW c \in Seq(S), NEW d \in Seq(S),
         NEW e \in Seq(S), NEW x \in Seq(S)
  PROVE  /\ ((((a ++ b) ++ c) ++ d) ++ e) ++ x = a ++ (b ++ (c ++ (d ++ (e ++ x))))
         /\ (((a ++ b) ++ c) ++ d) ++ e \in Seq(S)
<1> DEFINE u == (a ++ b) ++ c
           v == d ++ (e ++ x)
<1>1. u \in Seq(S)
  BY Regroup3
<1>2. v \in Seq(S)
  <2> DEFINE w == e ++ x
  <2>1. w \in Seq(S)
    BY Joins
  <2> HIDE DEF w
  <2>2. d ++ w \in Seq(S)
    BY <2>1, Joins
  <2> QED  BY <2>2 DEF w
<1>3. u ++ v = a ++ (b ++ (c ++ v))
  <2> HIDE DEF v
  <2> QED  BY <1>2, Regroup3 DEF u
<1> HIDE DEF u
<1>4. ((u ++ d) ++ e) ++ x = u ++ v /\ (u ++ d) ++ e \in Seq(S)
  BY <1>1, Regroup3
<1> QED  BY <1>3, <1>4 DEF u, v

\* Four items before a sequence.
LEMMA JoinsFour ==
  ASSUME NEW S, NEW a \in S, NEW b \in S, NEW c \in S, NEW d \in S, NEW x \in Seq(S)
  PROVE  /\ <<a, b, c, d>> ++ x = <<a>> ++ (<<b>> ++ (<<c>> ++ (<<d>> ++ x)))
         /\ <<a, b, c, d>> \in Seq(S)
<1> DEFINE o == <<a, b>>
           p == <<c, d>>
           q == <<a, b, c, d>>
           y == <<d>> ++ x
           z == <<c>> ++ y
<1>1. o \in Seq(S) /\ Len(o) = 2 /\ o[1] = a /\ o[2] = b
      /\ p \in Seq(S) /\ Len(p) = 2 /\ p[1] = c /\ p[2] = d
  OBVIOUS
<1>2. q \in Seq(S) /\ Len(q) = 4 /\ q[1] = a /\ q[2] = b /\ q[3] = c /\ q[4] = d
  OBVIOUS
<1>3. y \in Seq(S)
  BY JoinsFirst
<1>4. z \in Seq(S)
  <2> HIDE DEF y
  <2> QED  BY <1>3, JoinsFirst
<1> HIDE DEF o, p, q
<1>5. /\ o \o p \in Seq(S) /\ Len(o \o p) = 2 + 2
      /\ \A i \in 1 .. 2 + 2 : (o \o p)[i] = IF i <= 2 THEN o[i] ELSE p[i - 2]
  <2>1. /\ o \o p \in Seq(S) /\ Len(o \o p) = Len(o) + Len(p)
        /\ \A i \in 1 .. Len(o) + Len(p) : (o \o p)[i] = IF i <= Len(o) THEN o[i] ELSE p[i - Len(o)]
    BY <1>1, ConcatProperties
  <2> QED  BY <1>1, <2>1, Zenon
<1>6. q = o \o p
  <2> DEFINE r == o \o p
  <2>1. r \in Seq(S) /\ Len(r) = 4 /\ \A i \in 1 .. 4 : r[i] = IF i <= 2 THEN o[i] ELSE p[i - 2]
    BY <1>5
  <2> HIDE DEF r
  <2>2. r[1] = a /\ r[2] = b /\ r[3] = c /\ r[4] = d
    BY <1>1, <2>1
  <2>3. \A i \in 1 .. 4 : q[i] = r[i]
    BY <1>2, <2>2
  <2>4. Len(q) = Len(r) /\ \A i \in 1 .. Len(q) : q[i] = r[i]
    BY <1>2, <2>1, <2>3
  <2>5. q = r
    BY <1>2, <2>1, <2>4, SeqEqual
  <2> QED  BY <2>5 DEF r
<1>7. (o ++ p) ++ x = o ++ (p ++ x)
  BY <1>1, Regroup
<1>8. p ++ x = z
  BY JoinsTwo DEF p
<1> HIDE DEF z
<1>9. o ++ z = <<a>> ++ (<<b>> ++ z)
  BY <1>4, JoinsTwo DEF o
<1>10. q ++ x = <<a>> ++ (<<b>> ++ z)
  BY <1>6, <1>7, <1>8, <1>9 DEF ++
<1> QED  BY <1>2, <1>10 DEF q, z, y

\* Some of what texts are made of.
LEMMA Symbols ==
  /\ Quote \in Sym /\ Comma \in Sym /\ Open \in Sym /\ Close \in Sym
  /\ Close # Comma /\ Close # Quote
  /\ \A f : IsField(f) => f.kind \in Sym
  /\ Truths \subseteq Seq(Sym)
<1>1. /\ Quote \in Sym /\ Comma \in Sym /\ Open \in Sym /\ Close \in Sym
      /\ Close # Comma /\ Close # Quote
  BY DEF Sym, Comma, Open, Close, Quote
<1>2. \A f : IsField(f) => f.kind \in Sym
  BY DEF Sym, IsField
<1>3. Truths \subseteq Seq(Sym)
  <2>1. ASSUME NEW S, NEW c \in S PROVE <<c>> \in Seq(S)
    OBVIOUS
  <2>2. "true" \in Sym /\ "false" \in Sym
    BY DEF Sym
  <2>3. <<"true">> \in Seq(Sym) /\ <<"false">> \in Seq(Sym)
    BY <2>1, <2>2, Zenon
  <2> QED  BY <2>3, Zenon DEF Truths
<1> QED  BY <1>1, <1>2, <1>3

\* What a field's choices are written with.
Label(f) == IF f.kind = "boolean" THEN PlainText ELSE QuotedText
LabelOf(f) == IF f.kind = "boolean" THEN Truths ELSE Seq(Byte)

\* A field's choices are written with labels that can be told apart.
LEMMA LabelsDelimited ==
  ASSUME NEW f, IsField(f)
  PROVE  /\ f.choices \in Seq(LabelOf(f)) /\ f.choices # <<>>
         /\ Encodes(Label(f), LabelOf(f), Sym)
         /\ Delimited(Label(f), LabelOf(f), Sym)
         /\ Values(f) = Joined(Words(Label(f), f.choices))
<1>1. CASE f.kind = "boolean"
  <2>1. f.choices \in Seq(Truths) /\ f.choices # <<>>
    BY <1>1 DEF IsField
  <2>2. Encodes(PlainText, Truths, Sym)
    BY Symbols DEF Encodes, PlainText
  <2>3. Delimited(PlainText, Truths, Sym)
    <3> DEFINE yes == "true"
               no == "false"
    <3>1. yes \in Sym /\ no \in Sym /\ yes # no
      BY DEF Sym
    <3>2. Truths = {<<yes>>, <<no>>}
      BY DEF Truths
    <3> HIDE DEF yes, no
    <3>3. ASSUME NEW a \in Truths, NEW b \in Truths, NEW x \in Seq(Sym), NEW y \in Seq(Sym),
                 a ++ x = b ++ y
          PROVE  a = b /\ x = y
      <4>1. PICK c \in Sym : a = <<c>>
        BY <3>1, <3>2
      <4>2. PICK d \in Sym : b = <<d>>
        BY <3>1, <3>2
      <4>3. <<c>> ++ x = <<d>> ++ y
        BY <3>3, <4>1, <4>2
      <4>4. c = d /\ x = y
        BY <4>3, FirstAgree
      <4> QED  BY <4>1, <4>2, <4>4
    <3> QED  BY <3>3 DEF Delimited, PlainText
  <2>4. Values(f) = Joined(Words(PlainText, f.choices))
    <3>1. \A i \in DOMAIN f.choices : f.choices[i] \in Truths
      BY <2>1, LenProperties, ElementOfSeq
    <3>2. \A i \in DOMAIN f.choices : Value(f, f.choices[i]) = PlainText[f.choices[i]]
      BY <1>1, <3>1 DEF Value, PlainText
    <3>3. [i \in DOMAIN f.choices |-> Value(f, f.choices[i])] = Words(PlainText, f.choices)
      BY <3>2, Zenon DEF Words
    <3> QED  BY <3>3, Zenon DEF Values
  <2> QED  BY <1>1, <2>1, <2>2, <2>3, <2>4 DEF Label, LabelOf
<1>2. CASE f.kind # "boolean"
  <2>1. f.choices \in Seq(Seq(Byte)) /\ f.choices # <<>>
    BY <1>2 DEF IsField
  <2>2. Encodes(QuotedText, Seq(Byte), Sym) /\ Delimited(QuotedText, Seq(Byte), Sym)
    BY Symbols, QuotedDelimited
  <2>4. Values(f) = Joined(Words(QuotedText, f.choices))
    <3> DEFINE T == Seq(Byte)
    <3>0. f.choices \in Seq(T)
      BY <2>1
    <3> HIDE DEF T
    <3>1. \A i \in DOMAIN f.choices : f.choices[i] \in T
      BY <3>0, LenProperties, ElementOfSeq
    <3>2. \A i \in DOMAIN f.choices : Value(f, f.choices[i]) = QuotedText[f.choices[i]]
      BY <1>2, <3>1, Zenon DEF Value, QuotedText, T
    <3>3. [i \in DOMAIN f.choices |-> Value(f, f.choices[i])] = Words(QuotedText, f.choices)
      BY <3>2, Zenon DEF Words
    <3> QED  BY <3>3, Zenon DEF Values
  <2> QED  BY <1>2, <2>1, <2>2, <2>4 DEF Label, LabelOf
<1> QED  BY <1>1, <1>2


-----------------------------------------------------------------------------
\* The cache key.

\* Three parts, grouped the other way, before a fourth.
LEMMA RegroupIn ==
  ASSUME NEW S, NEW a \in Seq(S), NEW b \in Seq(S), NEW c \in Seq(S), NEW x \in Seq(S)
  PROVE  (a ++ (b ++ c)) ++ x = a ++ (b ++ (c ++ x))
<1>1. (a ++ b) ++ c = a ++ (b ++ c)
  BY Regroup
<1> QED  BY <1>1, Regroup3

\* What a field adds to the cache key.
FieldText(f) ==
  <<Open>> \o Joined(<<Quoted(f.name), Quoted(f.description)>>)
    \o <<Comma, f.kind, Comma, Open>> \o Values(f) \o <<Close, Close>>

\* Up to which f's choices are still to be read, before x.
ToRead(f, x) == Values(f) ++ (<<Close>> ++ (<<Close>> ++ x))
KindOn(f, x) == <<f.kind>> ++ (<<Comma>> ++ (<<Open>> ++ ToRead(f, x)))

\* The choices of a field are a text.
LEMMA ValuesText ==
  ASSUME NEW f, IsField(f)
  PROVE  Values(f) \in Seq(Sym)
<1> DEFINE s == f.choices
           I == LabelOf(f)
           enc == Label(f)
           v == Values(f)
<1>1. s \in Seq(I) /\ s # <<>> /\ Encodes(enc, I, Sym) /\ v = Joined(Words(enc, s))
  BY LabelsDelimited
<1>2. Comma \in Sym
  BY Symbols
<1> HIDE DEF s, I, enc, v
<1>3. Begins(s, I)
  BY <1>1, FirstAndRest
<1>4. PICK a \in I, r \in Seq(I) : s = <<a>> ++ r
  BY <1>3 DEF Begins
<1>5. v \in Seq(Sym)
  BY <1>1, <1>2, <1>4, JoinedIs
<1> QED  BY <1>5 DEF v

\* The field's text, part by part, before x.
LEMMA FieldTextIs ==
  ASSUME NEW f, IsField(f), NEW x \in Seq(Sym)
  PROVE  /\ ToRead(f, x) \in Seq(Sym)
         /\ FieldText(f) ++ x
              = <<Open>> ++ (Quoted(f.name) ++ (<<Comma>> ++ (Quoted(f.description)
                                                   ++ (<<Comma>> ++ KindOn(f, x)))))
         /\ FieldText(f) \in Seq(Sym)
<1> DEFINE n == Quoted(f.name)
           e == Quoted(f.description)
           o == <<Open>>
           c == <<Comma>>
           four == <<Comma, f.kind, Comma, Open>>
           v == Values(f)
           two == <<Close, Close>>
           J == Joined(<<n, e>>)
           last == <<Close>> ++ (<<Close>> ++ x)
           k == f.kind
<1>1. n \in Seq(Sym) /\ e \in Seq(Sym)
  BY QuotedFacts DEF IsField
<1>2. Comma \in Sym /\ Open \in Sym /\ Close \in Sym /\ k \in Sym
  BY Symbols
<1>3. v \in Seq(Sym)
  BY ValuesText
<1>4. J = n ++ (c ++ e)
  <2> DEFINE T == Seq(Byte)
             a == f.name
             b == f.description
             one == <<b>>
  <2>1. a \in T /\ b \in T
    BY DEF IsField
  <2>2. Encodes(QuotedText, T, Sym)
    BY <1>2, Symbols, QuotedDelimited
  <2>3. QuotedText[a] = n /\ QuotedText[b] = e
    BY <2>1 DEF QuotedText
  <2> HIDE DEF a, b, T, n, e
  <2>4. one \in Seq(T)
    BY <2>1
  <2>5. Joined(Words(QuotedText, <<a>> ++ one)) = n ++ Coded(AfterComma(QuotedText, T), one)
    <3> HIDE DEF one
    <3> QED  BY <1>2, <2>1, <2>2, <2>3, <2>4, JoinedIs
  <2>6. Coded(AfterComma(QuotedText, T), one) = c ++ e
    <3>1. Encodes(AfterComma(QuotedText, T), T, Sym)
      <4>1. Delimited(QuotedText, T, Sym)
        BY Symbols, QuotedDelimited DEF T
      <4> QED  BY <1>2, <2>2, <4>1, Symbols, AfterCommaDelimited
    <3>2. Coded(AfterComma(QuotedText, T), <<b>>) = AfterComma(QuotedText, T)[b]
      BY <2>1, <3>1, CodedOne
    <3> QED  BY <2>1, <2>3, <3>2, Zenon DEF AfterComma
  <2>7. Words(QuotedText, <<a>> ++ one) = <<n, e>>
    <3>1. <<a>> ++ one = <<a, b>>
      BY <2>1, TwoItems
    <3>2. Words(QuotedText, <<a, b>>) = <<QuotedText[a], QuotedText[b]>>
      BY DEF Words
    <3> QED  BY <2>3, <3>1, <3>2
  <2> QED  BY <2>5, <2>6, <2>7 DEF n, e
<1>5. four \in Seq(Sym)
  BY <1>2, JoinsFour
<1>6. two \in Seq(Sym) /\ two ++ x = last /\ last \in Seq(Sym)
  <2> DEFINE y == <<Close>> ++ x
  <2>1. y \in Seq(Sym)
    BY <1>2, JoinsFirst
  <2>2. <<Close>> ++ y \in Seq(Sym)
    <3> HIDE DEF y
    <3> QED  BY <1>2, <2>1, JoinsFirst
  <2>3. two ++ x = last
    BY <1>2, JoinsTwo
  <2>4. ASSUME NEW S, NEW g \in S PROVE <<g, g>> \in Seq(S)
    OBVIOUS
  <2>5. two \in Seq(Sym)
    BY <1>2, <2>4, Zenon
  <2> QED  BY <2>2, <2>3, <2>5
<1>7. o \in Seq(Sym) /\ c \in Seq(Sym)
  BY <1>2
<1>8. FieldText(f) = (((o ++ J) ++ four) ++ v) ++ two
  BY DEF FieldText, ++
<1>9. ToRead(f, x) = v ++ last
  BY DEF ToRead
<1>10. \A y \in Seq(Sym) : four ++ y = <<Comma>> ++ (<<k>> ++ (<<Comma>> ++ (<<Open>> ++ y)))
  BY <1>2, JoinsFour
<1>11. KindOn(f, x) = <<k>> ++ (<<Comma>> ++ (<<Open>> ++ ToRead(f, x)))
  BY DEF KindOn
<1> HIDE DEF n, e, o, c, four, v, two, J, last, k
<1>12. v ++ last \in Seq(Sym)
  BY <1>3, <1>6, Joins
<1>13. c ++ e \in Seq(Sym)
  BY <1>1, <1>7, Joins
<1>14. J \in Seq(Sym)
  <2> DEFINE ce == c ++ e
  <2>1. ce \in Seq(Sym) /\ J = n ++ ce
    BY <1>4, <1>13
  <2> HIDE DEF ce
  <2> QED  BY <1>1, <2>1, Joins
<1>15. ((((o ++ J) ++ four) ++ v) ++ two) ++ x = o ++ (J ++ (four ++ (v ++ (two ++ x))))
       /\ (((o ++ J) ++ four) ++ v) ++ two \in Seq(Sym)
  BY <1>3, <1>5, <1>6, <1>7, <1>14, Regroup5
<1> DEFINE y == v ++ last
           cz == c ++ KindOn(f, x)
<1>16. four ++ y = cz
  <2>1. four ++ y = <<Comma>> ++ (<<k>> ++ (<<Comma>> ++ (<<Open>> ++ y)))
    BY <1>10, <1>12
  <2> QED  BY <1>9, <1>11, <2>1 DEF c
<1>17. cz \in Seq(Sym)
  <2>1. y \in Seq(Sym)
    BY <1>12
  <2> HIDE DEF y, cz
  <2>2. four ++ y \in Seq(Sym)
    BY <1>5, <2>1, Joins
  <2> QED  BY <1>16, <2>2
<1> HIDE DEF cz
<1>18. J ++ cz = n ++ (c ++ (e ++ cz))
  <2>1. n \in Seq(Sym) /\ c \in Seq(Sym) /\ e \in Seq(Sym) /\ cz \in Seq(Sym)
    BY <1>1, <1>7, <1>17
  <2>2. (n ++ (c ++ e)) ++ cz = n ++ (c ++ (e ++ cz))
    BY <2>1, RegroupIn
  <2> QED  BY <1>4, <2>2
<1>19. FieldText(f) ++ x = o ++ (n ++ (c ++ (e ++ cz)))
  BY <1>6, <1>8, <1>15, <1>16, <1>18
<1> QED  BY <1>8, <1>9, <1>12, <1>15, <1>19 DEF n, e, o, c, cz

\* A field's text can be told from what follows.
LEMMA FieldTextReads ==
  ASSUME NEW f, IsField(f), NEW g, IsField(g), NEW x \in Seq(Sym), NEW y \in Seq(Sym),
         FieldText(f) ++ x = FieldText(g) ++ y
  PROVE  f = g /\ x = y
<1> DEFINE tail == KindOn(f, x)
           tail2 == KindOn(g, y)
           ct == <<Comma>> ++ tail
           ct2 == <<Comma>> ++ tail2
           de == Quoted(f.description) ++ ct
           de2 == Quoted(g.description) ++ ct2
           cd == <<Comma>> ++ de
           cd2 == <<Comma>> ++ de2
           na == Quoted(f.name) ++ cd
           na2 == Quoted(g.name) ++ cd2
<1>1. /\ Comma \in Sym /\ Open \in Sym /\ Close \in Sym /\ f.kind \in Sym /\ g.kind \in Sym
      /\ Close # Comma /\ Close # Quote
  BY Symbols
<1>2. ToRead(f, x) \in Seq(Sym) /\ ToRead(g, y) \in Seq(Sym)
  BY FieldTextIs
<1>3. <<Open>> ++ na = <<Open>> ++ na2
  BY FieldTextIs
<1>4. ASSUME NEW h, IsField(h), NEW z \in Seq(Sym)
      PROVE  /\ <<Open>> ++ ToRead(h, z) \in Seq(Sym)
             /\ <<Comma>> ++ (<<Open>> ++ ToRead(h, z)) \in Seq(Sym)
             /\ KindOn(h, z) \in Seq(Sym)
             /\ Quoted(h.name) \in Seq(Sym) /\ Quoted(h.description) \in Seq(Sym)
  <2> DEFINE p == ToRead(h, z)
             q == <<Open>> ++ p
             r == <<Comma>> ++ q
  <2>1. p \in Seq(Sym) /\ h.kind \in Sym
    BY <1>4, FieldTextIs, Symbols
  <2> HIDE DEF p
  <2>2. q \in Seq(Sym)
    BY <1>1, <2>1, JoinsFirst
  <2> HIDE DEF q
  <2>3. r \in Seq(Sym)
    BY <1>1, <2>2, JoinsFirst
  <2> HIDE DEF r
  <2>4. <<h.kind>> ++ r \in Seq(Sym)
    BY <2>1, <2>3, JoinsFirst
  <2>5. Quoted(h.name) \in Seq(Sym) /\ Quoted(h.description) \in Seq(Sym)
    BY <1>4, QuotedFacts DEF IsField
  <2> QED  BY <2>2, <2>3, <2>4, <2>5 DEF p, q, r, KindOn
<1>5. tail \in Seq(Sym) /\ tail2 \in Seq(Sym)
  BY <1>4
<1>6. ct \in Seq(Sym) /\ ct2 \in Seq(Sym)
  <2> HIDE DEF tail, tail2
  <2> QED  BY <1>1, <1>5, JoinsFirst
<1>7. de \in Seq(Sym) /\ de2 \in Seq(Sym)
  <2> HIDE DEF ct, ct2
  <2> DEFINE u == Quoted(f.description)
             v == Quoted(g.description)
  <2>1. u \in Seq(Sym) /\ v \in Seq(Sym)
    BY <1>4
  <2> HIDE DEF u, v
  <2>2. u ++ ct \in Seq(Sym) /\ v ++ ct2 \in Seq(Sym)
    BY <1>6, <2>1, Joins
  <2> QED  BY <2>2 DEF u, v
<1>8. cd \in Seq(Sym) /\ cd2 \in Seq(Sym)
  <2> HIDE DEF de, de2
  <2> QED  BY <1>1, <1>7, JoinsFirst
<1>9. na \in Seq(Sym) /\ na2 \in Seq(Sym)
  <2> HIDE DEF cd, cd2
  <2> DEFINE u == Quoted(f.name)
             v == Quoted(g.name)
  <2>1. u \in Seq(Sym) /\ v \in Seq(Sym)
    BY <1>4
  <2> HIDE DEF u, v
  <2>2. u ++ cd \in Seq(Sym) /\ v ++ cd2 \in Seq(Sym)
    BY <1>8, <2>1, Joins
  <2> QED  BY <2>2 DEF u, v
<1>11. na = na2
  <2> HIDE DEF na, na2
  <2> QED  BY <1>1, <1>3, <1>9, FirstAgree
<1>12. /\ f.name \in Seq(Byte) /\ g.name \in Seq(Byte)
       /\ f.description \in Seq(Byte) /\ g.description \in Seq(Byte)
  BY DEF IsField
<1>13. f.name = g.name /\ cd = cd2
  <2>1. Quoted(f.name) ++ cd = Quoted(g.name) ++ cd2
    BY <1>11
  <2> HIDE DEF cd, cd2
  <2> QED  BY <1>8, <1>12, <2>1, QuotedReads
<1>14. de = de2
  <2> HIDE DEF de, de2
  <2> QED  BY <1>1, <1>7, <1>13, FirstAgree DEF cd, cd2
<1>15. f.description = g.description /\ ct = ct2
  <2>1. Quoted(f.description) ++ ct = Quoted(g.description) ++ ct2
    BY <1>14
  <2> HIDE DEF ct, ct2
  <2> QED  BY <1>6, <1>12, <2>1, QuotedReads
<1>16. tail = tail2
  <2> HIDE DEF tail, tail2
  <2> QED  BY <1>1, <1>5, <1>15, FirstAgree DEF ct, ct2
<1> HIDE DEF na, na2, cd, cd2, de, de2, ct, ct2
<1> DEFINE p == ToRead(f, x)
           p2 == ToRead(g, y)
           q == <<Open>> ++ p
           q2 == <<Open>> ++ p2
           r == <<Comma>> ++ q
           r2 == <<Comma>> ++ q2
<1>17. /\ q \in Seq(Sym) /\ q2 \in Seq(Sym) /\ r \in Seq(Sym) /\ r2 \in Seq(Sym)
       /\ p \in Seq(Sym) /\ p2 \in Seq(Sym)
  BY <1>2, <1>4
<1>18. f.kind = g.kind /\ r = r2
  <2>1. <<f.kind>> ++ r = <<g.kind>> ++ r2
    BY <1>16 DEF KindOn
  <2> HIDE DEF r, r2
  <2> QED  BY <1>1, <1>17, <2>1, FirstAgree
<1>19. q = q2
  <2> HIDE DEF q, q2
  <2> QED  BY <1>1, <1>17, <1>18, FirstAgree DEF r, r2
<1>20. p = p2
  <2> HIDE DEF p, p2
  <2> QED  BY <1>1, <1>17, <1>19, FirstAgree DEF q, q2
<1> HIDE DEF tail, tail2, r, r2, q, q2
<1>21. f.choices = g.choices /\ <<Close>> ++ x = <<Close>> ++ y
  <2> DEFINE s == f.choices
             t == g.choices
             I == LabelOf(f)
             enc == Label(f)
             u == <<Close>> ++ x
             v == <<Close>> ++ y
  <2>1. /\ s \in Seq(I) /\ s # <<>> /\ Encodes(enc, I, Sym) /\ Delimited(enc, I, Sym)
        /\ Values(f) = Joined(Words(enc, s))
    BY LabelsDelimited
  <2>2. t \in Seq(LabelOf(g)) /\ t # <<>> /\ Values(g) = Joined(Words(Label(g), t))
    BY LabelsDelimited
  <2>3. t \in Seq(I) /\ Values(g) = Joined(Words(enc, t))
    BY <1>18, <2>2 DEF Label, LabelOf
  <2>4. u \in Seq(Sym) /\ v \in Seq(Sym)
    BY <1>1, JoinsFirst
  <2>5. Joined(Words(enc, s)) ++ (<<Close>> ++ u) = Joined(Words(enc, t)) ++ (<<Close>> ++ v)
    BY <1>20, <2>1, <2>3 DEF ToRead
  <2> HIDE DEF s, t, I, enc, u, v
  <2>6. s = t /\ u = v
    BY <1>1, <2>1, <2>2, <2>3, <2>4, <2>5, JoinedReads
  <2> QED  BY <2>6 DEF s, t, u, v
<1>22. x = y
  BY <1>1, <1>21, FirstAgree
<1>23. f = g
  <2>1. /\ f = [name |-> f.name, description |-> f.description, kind |-> f.kind, choices |-> f.choices]
        /\ g = [name |-> g.name, description |-> g.description, kind |-> g.kind, choices |-> g.choices]
    BY DEF IsField
  <2> QED  BY <1>13, <1>15, <1>18, <1>21, <2>1, Zenon
<1> QED  BY <1>22, <1>23

\* A list of fields as parse_decode_request makes it.
AreFields(fs) == fs \in Seq(ToSet(fs)) /\ fs # <<>> /\ \A f \in ToSet(fs) : IsField(f)

\* A sequence over a set is one over a larger set.
LEMMA Widened ==
  ASSUME NEW S, NEW T, S \subseteq T, NEW s \in Seq(S)
  PROVE  s \in Seq(T)
<1>1. Len(s) \in Nat /\ s \in [1 .. Len(s) -> S] /\ \A i \in 1 .. Len(s) : s[i] \in T
  BY LenProperties, ElementOfSeq
<1> QED  BY <1>1, SeqDef

\* Field by field.
LEMMA KeyIs ==
  ASSUME NEW fs, NEW I, fs \in Seq(I)
  PROVE  canonical_schema(fs) = Joined(Words([f \in I |-> FieldText(f)], fs))
<1> DEFINE enc == [f \in I |-> FieldText(f)]
<1>1. canonical_schema(fs) = Joined([i \in DOMAIN fs |-> FieldText(fs[i])])
  BY Zenon DEF canonical_schema, FieldText, Comma, Open, Close
<1>2. \A i \in DOMAIN fs : fs[i] \in I
  BY LenProperties, ElementOfSeq
<1>3. \A i \in DOMAIN fs : FieldText(fs[i]) = enc[fs[i]]
  BY <1>2, Zenon
<1>4. [i \in DOMAIN fs |-> FieldText(fs[i])] = Words(enc, fs)
  <2> HIDE DEF enc
  <2> QED  BY <1>3, Zenon DEF Words
<1> QED  BY <1>1, <1>4

\* Two lists of fields have one cache key only when they are the same.
LEMMA KeysDiffer ==
  ASSUME NEW fs, NEW gs, AreFields(fs), AreFields(gs), canonical_schema(fs) = canonical_schema(gs)
  PROVE  fs = gs
<1> DEFINE I == ToSet(fs) \cup ToSet(gs)
           enc == [f \in I |-> FieldText(f)]
           e == <<>>
<1>1. fs \in Seq(I) /\ gs \in Seq(I) /\ fs # <<>> /\ gs # <<>>
  <2>1. fs \in Seq(ToSet(fs)) /\ gs \in Seq(ToSet(gs)) /\ fs # <<>> /\ gs # <<>>
    BY DEF AreFields
  <2>2. ToSet(fs) \subseteq I /\ ToSet(gs) \subseteq I
    OBVIOUS
  <2> HIDE DEF I
  <2> QED  BY <2>1, <2>2, Widened
<1>2. \A f \in I : IsField(f)
  BY DEF AreFields
<1> HIDE DEF I
<1>3. e \in Seq(Sym)
  BY EmptySeq, Zenon
<1>4. Comma \in Sym /\ Close \in Sym /\ Close # Comma
  BY Symbols
<1>5. canonical_schema(fs) = Joined(Words(enc, fs)) /\ canonical_schema(gs) = Joined(Words(enc, gs))
  BY <1>1, KeyIs
<1>6. Encodes(enc, I, Sym)
  BY <1>2, <1>3, FieldTextIs DEF Encodes
<1>7. Delimited(enc, I, Sym)
  <2>1. ASSUME NEW f \in I, NEW g \in I, NEW x \in Seq(Sym), NEW y \in Seq(Sym),
               FieldText(f) ++ x = FieldText(g) ++ y
        PROVE  f = g /\ x = y
    BY <1>2, <2>1, FieldTextReads
  <2> QED  BY <2>1 DEF Delimited
<1> HIDE DEF enc, e
<1>8. Joined(Words(enc, fs)) ++ (<<Close>> ++ e) = Joined(Words(enc, gs)) ++ (<<Close>> ++ e)
  BY <1>5
<1>9. fs = gs /\ e = e
  BY <1>1, <1>3, <1>4, <1>6, <1>7, <1>8, JoinedReads
<1> QED  BY <1>9

\* What passes the validation is a list of fields.
LEMMA ParsedFacts ==
  ASSUME NEW b \in Body, ValidBody(b), NEW i \in DOMAIN b.fields.items
  PROVE  LET f == parse_field(b.fields.items[i]) IN
         /\ IsField(f)
         /\ IsInjective(f.choices)
         /\ f.kind = "boolean" => f.choices \in Seq(Truths)
<1> DEFINE item == b.fields.items[i]
           f == parse_field(item)
           choices == item.choices
           items == choices.items
<1>1. b.kind = "object" /\ b.fields.kind = "array" /\ ValidField(item)
  BY DEF ValidBody
<1>2. item.kind = "object" /\ choices.kind = "array" /\ ValidChoices(choices)
  BY <1>1 DEF ValidField, ValidChoices
<1>3. /\ WellFormed(item.name) /\ WellFormed(item.description)
      /\ items \in Seq(ToSet(items))
      /\ \A k \in DOMAIN items : WellFormed(items[k])
  BY <1>1, <1>2, BodyAssumption
<1>4. item.name.text \in Seq(Byte) /\ item.description.text \in Seq(Byte)
  BY <1>1, <1>3, Zenon DEF ValidField, IsString, WellFormed
<1>5. /\ f.name = item.name.text /\ f.description = item.description.text
      /\ f.kind = IF items[1].kind = "boolean" THEN "boolean" ELSE "enum"
      /\ f.choices = Labels(choices)
      /\ f = [name |-> f.name, description |-> f.description, kind |-> f.kind, choices |-> f.choices]
  BY Zenon DEF parse_field
<1>6. /\ items[1].kind \in {"boolean", "string"}
      /\ \A k \in DOMAIN items : items[k].kind = items[1].kind
      /\ Len(items) \in MinChoices .. MaxChoices
      /\ IsInjective(Labels(choices))
  BY <1>2 DEF ValidChoices, ValidCount, Distinct
<1>7. Len(items) \in Nat \ {0} /\ DOMAIN items = 1 .. Len(items)
  <2>1. Len(items) \in Nat /\ DOMAIN items = 1 .. Len(items)
    BY <1>3, LenProperties
  <2>2. Len(items) # 0
    <3> HIDE DEF items
    <3> QED  BY <1>6, LimitAssumption
  <2> QED  BY <2>1, <2>2
<1>8. Labels(choices) = [k \in 1 .. Len(items) |-> items[k].text]
  BY <1>7 DEF Labels
<1> HIDE DEF item, f, choices, items
<1>9. ASSUME NEW T, \A k \in DOMAIN items : items[k].text \in T
      PROVE  Labels(choices) \in Seq(T)
  BY <1>7, <1>8, <1>9
<1>10. Labels(choices) # <<>>
  <2>1. 1 \in DOMAIN Labels(choices)
    BY <1>7, <1>8
  <2>2. \A s : s = <<>> => DOMAIN s = {}
    OBVIOUS
  <2> QED  BY <2>1, <2>2, Zenon
<1>11. CASE items[1].kind = "boolean"
  <2>1. \A k \in DOMAIN items : items[k].text \in Truths
    BY <1>3, <1>6, <1>11 DEF WellFormed, Truths
  <2>2. Labels(choices) \in Seq(Truths) /\ f.kind = "boolean"
    BY <1>5, <1>9, <1>11, <2>1
  <2>3. IsField(f)
    BY <1>4, <1>5, <1>10, <2>2 DEF IsField
  <2> QED  BY <1>5, <1>6, <2>2, <2>3 DEF f, item
<1>12. CASE items[1].kind # "boolean"
  <2> DEFINE T == Seq(Byte)
  <2>1. \A k \in DOMAIN items : items[k].text \in T
    BY <1>3, <1>6, <1>12, Zenon DEF WellFormed
  <2>2. Labels(choices) \in Seq(T) /\ f.kind = "enum"
    <3> HIDE DEF T
    <3>1. Labels(choices) \in Seq(T)
      BY <1>9, <2>1, Zenon
    <3> QED  BY <1>5, <1>12, <3>1
  <2>3. IsField(f)
    BY <1>4, <1>5, <1>10, <2>2, Zenon DEF IsField
  <2> QED  BY <1>5, <1>6, <2>2, <2>3 DEF f, item
<1> QED  BY <1>11, <1>12

\* ... all of it, and at least one field.
LEMMA ParsedAreFields ==
  ASSUME NEW b \in Body, ValidBody(b)
  PROVE  AreFields(parse_decode_request(b))
<1> DEFINE items == b.fields.items
           fs == parse_decode_request(b)
           n == Len(items)
<1>1. /\ b.kind = "object" /\ b.fields.kind = "array" /\ n \in 1 .. MaxFields
  BY DEF ValidBody
<1>2. items \in Seq(ToSet(items))
  BY <1>1, BodyAssumption
<1>3. n \in Nat \ {0} /\ DOMAIN items = 1 .. n
  BY <1>1, <1>2, LimitAssumption, LenProperties
<1>4. \A i \in 1 .. n : IsField(parse_field(items[i]))
  BY <1>3, ParsedFacts
<1>5. fs = [i \in 1 .. n |-> parse_field(items[i])]
  BY <1>3, Zenon DEF parse_decode_request
<1> HIDE DEF fs, n, items
<1>6. DOMAIN fs = 1 .. n /\ \A i \in 1 .. n : fs[i] = parse_field(items[i])
  BY <1>5
<1>7. ToSet(fs) = {fs[i] : i \in 1 .. n}
  BY <1>6 DEF ToSet
<1>8. \A f \in ToSet(fs) : IsField(f)
  BY <1>4, <1>6, <1>7
<1>9. fs \in Seq(ToSet(fs))
  <2> DEFINE T == ToSet(fs)
  <2>1. \A i \in 1 .. n : fs[i] \in T
    BY <1>7
  <2>2. fs = [i \in 1 .. n |-> fs[i]]
    BY <1>5, <1>6
  <2> HIDE DEF T
  <2>3. fs \in [1 .. n -> T]
    BY <2>1, <2>2
  <2> QED  BY <1>3, <2>3 DEF T
<1>10. fs # <<>>
  <2>1. 1 \in DOMAIN fs
    BY <1>3, <1>6
  <2>2. \A s : s = <<>> => DOMAIN s = {}
    OBVIOUS
  <2> QED  BY <2>1, <2>2, Zenon
<1> QED  BY <1>8, <1>9, <1>10 DEF AreFields, fs


-----------------------------------------------------------------------------
\* The theorem about the key, and the one about the prefix.

\* Two compiled requests with one cache key have one prefix: the key contains
\* every part of every field, so that no other list of fields has it.
THEOREM OneKeyOnePrefix == Spec => []KeyDeterminesPrefix
<1>1. RInv => KeyDeterminesPrefix
  <2> SUFFICES ASSUME RInv, at = "decoding", NEW p \in Published, p.key = compiled.key
               PROVE  p.prefix = compiled.prefix
    BY DEF KeyDeterminesPrefix
  <2>1. PICK fs \in Schemas : p = [key |-> canonical_schema(fs), prefix |-> TemplatePrefix(Rendered(fs))]
    BY DEF Published
  <2>2. PICK b \in Body : ValidBody(b) /\ fs = parse_decode_request(b)
    BY DEF Schemas
  <2>3. /\ body \in Body /\ ValidBody(body) /\ fields = parse_decode_request(body)
        /\ compiled = [key |-> canonical_schema(fields), prefix |-> TemplatePrefix(Rendered(fields))]
    BY DEF RInv, Validated, Compiled
  <2>4. AreFields(fs) /\ AreFields(fields)
    BY <2>2, <2>3, ParsedAreFields
  <2>5. canonical_schema(fs) = canonical_schema(fields)
    BY <2>1, <2>3
  <2>6. fs = fields
    BY <2>4, <2>5, KeysDiffer
  <2> QED  BY <2>1, <2>3, <2>6
<1> QED  BY <1>1, RequestInvariance, PTL

\* A concatenation begins with its first part.
LEMMA CatBegins ==
  ASSUME NEW S, NEW q \in Seq(S), NEW w \in Seq(S)
  PROVE  SubSeq(q \o w, 1, Len(q)) = q
<1>1. Len(q) \in Nat
  BY LenProperties
<1>2. CASE Len(q) = 0
  <2>1. q = <<>>
    BY <1>2, EmptySeq
  <2>2. SubSeq(q \o w, 1, Len(q)) = <<>>
    BY <1>2, SubSeqEmpty
  <2> QED  BY <2>1, <2>2
<1>3. CASE Len(q) # 0
  <2>1. 1 \in 1 .. Len(q) /\ Len(q) \in 1 .. Len(q)
    BY <1>1, <1>3
  <2>2. SubSeq(q \o w, 1, Len(q)) = SubSeq(q, 1, Len(q))
    BY <2>1, SubSeqOfConcat1
  <2> QED  BY <2>2, SubSeqFull
<1> QED  BY <1>2, <1>3

\* The text before the only marker of a text is all there is before it.
LEMMA CutAtMarker ==
  ASSUME NEW S, NEW q \in Seq(S), NEW w \in Seq(S), Len(w) = 2, w[1] = Marker, MarkedOnce(q ++ w)
  PROVE  TemplatePrefix(q ++ w) = q
<1> DEFINE r == q \o w
           l == Len(q)
           m == l + 1
<1>1. /\ r \in Seq(S) /\ Len(r) = Len(q) + Len(w)
      /\ \A i \in 1 .. Len(q) + Len(w) : r[i] = IF i <= Len(q) THEN q[i] ELSE w[i - Len(q)]
      /\ l \in Nat
  BY ConcatProperties, LenProperties
<1> HIDE DEF r, l
<1>2. Len(r) = l + 2 /\ \A i \in 1 .. l + 2 : r[i] = IF i <= l THEN q[i] ELSE w[i - l]
  BY <1>1 DEF l
<1>3. r[m] = Marker /\ m \in 1 .. Len(r) /\ m - 1 = l /\ m \in Nat
  BY <1>1, <1>2
<1>4. m \in Markers(r)
  BY <1>1, <1>3, LenProperties DEF Markers
<1>5. Markers(r) = {m}
  BY <1>4 DEF MarkedOnce, r, ++
<1> HIDE DEF m
<1>6. (CHOOSE i \in Markers(r) : \A j \in Markers(r) : i <= j) = m
  BY <1>3, <1>5
<1>7. TemplatePrefix(r) = SubSeq(r, 1, l)
  BY <1>3, <1>6 DEF TemplatePrefix
<1>8. SubSeq(r, 1, l) = q
  BY CatBegins DEF r, l
<1> QED  BY <1>7, <1>8 DEF r, ++

\* The system prompt is a text, whatever the descriptions contain.
LEMMA PromptIsText ==
  ASSUME NEW fs, AreFields(fs)
  PROVE  schema_system_prompt(fs) \in Seq(Sym)
<1> DEFINE T == Seq(Sym)
           dash == <<"- ">>
           colon == <<": ">>
           allowed == <<". Allowed values: ">>
           newline == <<"\n">>
           value == <<": <value>">>
           Told(f) == IF f.description = <<>> THEN <<>> ELSE colon \o f.description
           Line(f) == dash \o Quoted(f.name) \o Told(f) \o allowed \o Values(f) \o newline
           Asked(f) == Quoted(f.name) \o value
           lines == [i \in DOMAIN fs |-> Line(fs[i])]
           asked == [i \in DOMAIN fs |-> Asked(fs[i])]
<1>1. dash \in T /\ colon \in T /\ allowed \in T /\ newline \in T /\ value \in T
  <2>1. ASSUME NEW S, NEW c \in S PROVE <<c>> \in Seq(S)
    OBVIOUS
  <2>2. "- " \in Sym /\ ": " \in Sym /\ ". Allowed values: " \in Sym /\ "\n" \in Sym /\ ": <value>" \in Sym
    BY DEF Sym
  <2> QED  BY <2>1, <2>2, Zenon
<1>2. schema_system_prompt(fs) = FlattenSeq(lines) \o FlattenSeq(asked)
  BY Zenon DEF schema_system_prompt
<1> HIDE DEF dash, colon, allowed, newline, value
<1>3. ASSUME NEW f, IsField(f)
      PROVE  Line(f) \in T /\ Asked(f) \in T
  <2> DEFINE n == Quoted(f.name)
             d == f.description
             t == Told(f)
             v == Values(f)
  <2>1. n \in T /\ v \in T
    BY <1>3, EmptySeq, QuotedFacts, ValuesText DEF IsField
  <2>2. d \in T
    <3>1. Byte \subseteq Sym
      BY DEF Sym
    <3>2. d \in Seq(Byte)
      BY <1>3 DEF IsField
    <3> HIDE DEF d
    <3> QED  BY <3>1, <3>2, Widened
  <2>3. t = IF d = <<>> THEN <<>> ELSE colon \o d
    OBVIOUS
  <2>4. Line(f) = ((((dash ++ n) ++ t) ++ allowed) ++ v) ++ newline /\ Asked(f) = n ++ value
    BY DEF ++
  <2> HIDE DEF n, d, t, v, Line, Asked
  <2>5. t \in T
    <3>1. colon ++ d \in Seq(Sym) /\ <<>> \in Seq(Sym)
      BY <1>1, <2>2, Joins, EmptySeq
    <3> QED  BY <2>3, <3>1 DEF ++
  <2>6. (((dash ++ n) ++ t) ++ allowed) ++ v \in T
    BY <1>1, <2>1, <2>5, Regroup5
  <2> DEFINE u == (((dash ++ n) ++ t) ++ allowed) ++ v
  <2> HIDE DEF u
  <2>7. u ++ newline \in T /\ n ++ value \in T
    BY <1>1, <2>1, <2>6, Joins DEF u
  <2> QED  BY <2>4, <2>7 DEF u
<1>4. fs \in Seq(ToSet(fs)) /\ \A i \in DOMAIN fs : IsField(fs[i])
  BY DEF AreFields, ToSet
<1>5. Len(fs) \in Nat /\ DOMAIN fs = 1 .. Len(fs)
  BY <1>4, LenProperties
<1> HIDE DEF T, Line, Asked
<1>6. lines \in Seq(T) /\ asked \in Seq(T)
  BY <1>3, <1>4, <1>5
<1> HIDE DEF lines, asked
<1> DEFINE p == FlattenSeq(lines)
           q == FlattenSeq(asked)
<1>7. p \in T /\ q \in T
  <2>1. lines \in Seq(Seq(Sym)) /\ asked \in Seq(Seq(Sym))
    BY <1>6 DEF T
  <2> QED  BY <2>1, FlattenCat DEF T
<1> HIDE DEF p, q
<1>8. p ++ q \in T
  BY <1>7, Joins DEF T
<1> QED  BY <1>2, <1>8 DEF p, q, ++, T

\* Three items, one after the other.
LEMMA ThreeItems ==
  ASSUME NEW S, NEW a \in S, NEW b \in S, NEW c \in S
  PROVE  <<a>> ++ <<b, c>> = <<a, b, c>>
<1> DEFINE o == <<a, b>>
           p == <<c>>
<1>1. o \in Seq(S) /\ p \in Seq(S)
  OBVIOUS
<1>2. <<a, b, c>> = Append(o, c)
  OBVIOUS
<1>3. \A q \in Seq(S) : Append(q, c) = q \o <<c>>
  BY AppendIsConcat
<1> HIDE DEF o
<1>4. <<a, b, c>> = o ++ p
  BY <1>1, <1>2, <1>3, Zenon DEF ++
<1>5. <<b>> ++ p = <<b, c>>
  BY TwoItems
<1> HIDE DEF p
<1>6. o ++ p = <<a>> ++ (<<b>> ++ p)
  BY <1>1, JoinsTwo DEF o
<1> QED  BY <1>4, <1>5, <1>6

\* Whatever a description contains, the cached prefix is the whole system
\* prompt: were the marker in it too, the schema would not have been compiled.
THEOREM PrefixIsThePrompt == Spec => []PrefixHoldsThePrompt
<1>1. RInv => PrefixHoldsThePrompt
  <2> SUFFICES ASSUME RInv, at = "decoding"
               PROVE  compiled.prefix = <<"system">> \o schema_system_prompt(fields) \o <<"user">>
    BY DEF PrefixHoldsThePrompt
  <2> DEFINE s == <<"system">>
             p == schema_system_prompt(fields)
             u == <<"user">>
             a == "assistant"
             w == <<Marker, a>>
             q == (s ++ p) ++ u
  <2>1. /\ body \in Body /\ ValidBody(body) /\ fields = parse_decode_request(body)
        /\ MarkedOnce(Rendered(fields))
        /\ compiled.prefix = TemplatePrefix(Rendered(fields))
    BY DEF RInv, Validated, Compiled
  <2>2. p \in Seq(Sym)
    BY <2>1, ParsedAreFields, PromptIsText
  <2>3. s \in Seq(Sym) /\ u \in Seq(Sym) /\ a \in Sym /\ Marker \in Sym
    <3>1. ASSUME NEW S, NEW c \in S PROVE <<c>> \in Seq(S)
      OBVIOUS
    <3>2. "system" \in Sym /\ "user" \in Sym /\ a \in Sym /\ Marker \in Sym
      BY DEF Sym
    <3> QED  BY <3>1, <3>2, Zenon
  <2>4. Rendered(fields) = (s ++ p) ++ <<"user", Marker, a>>
    BY DEF Rendered, ++
  <2>5. <<"user", Marker, a>> = u ++ w
    <3> DEFINE b == "user"
    <3>1. b \in Sym
      BY DEF Sym
    <3> HIDE DEF a, b
    <3>2. <<b>> ++ <<Marker, a>> = <<b, Marker, a>>
      BY <2>3, <3>1, ThreeItems
    <3> QED  BY <3>2 DEF b
  <2> HIDE DEF s, p, u, a
  <2>6. w \in Seq(Sym) /\ Len(w) = 2 /\ w[1] = Marker
    <3>1. ASSUME NEW S, NEW c \in S, NEW d \in S PROVE <<c, d>> \in Seq(S)
      OBVIOUS
    <3>2. Len(w) = 2 /\ w[1] = Marker
      OBVIOUS
    <3> QED  BY <2>3, <3>1, <3>2, Zenon
  <2> HIDE DEF w
  <2>7. (s ++ p) ++ (u ++ w) = q ++ w /\ q \in Seq(Sym)
    <3> DEFINE sp == s ++ p
    <3>1. sp \in Seq(Sym)
      BY <2>2, <2>3, Joins
    <3> HIDE DEF sp
    <3>2. (sp ++ u) ++ w = sp ++ (u ++ w) /\ sp ++ u \in Seq(Sym)
      BY <2>3, <2>6, <3>1, Regroup, Joins
    <3> QED  BY <3>2 DEF sp
  <2>8. Rendered(fields) = q ++ w
    BY <2>4, <2>5, <2>7
  <2> HIDE DEF q
  <2>9. TemplatePrefix(q ++ w) = q
    BY <2>1, <2>6, <2>7, <2>8, CutAtMarker
  <2> QED  BY <2>1, <2>8, <2>9 DEF q, s, p, u, ++
<1> QED  BY <1>1, RequestInvariance, PTL


-----------------------------------------------------------------------------
\* The common prefix of the choices.

\* Item by item: p is how s begins.
Heads(p, s) == Len(p) <= Len(s) /\ \A i \in 1 .. Len(p) : p[i] = s[i]

\* IsPrefix, item by item.
LEMMA HeadsIs ==
  ASSUME NEW S, NEW p \in Seq(S), NEW s \in Seq(S)
  PROVE  IsPrefix(p, s) <=> Heads(p, s)
<1> DEFINE n == Len(p)
           q == SubSeq(s, 1, n)
<1>1. n \in Nat /\ Len(s) \in Nat /\ SubSeq(p, 1, n) = p
  BY LenProperties, SubSeqFull
<1>2. CASE ~(n <= Len(s))
  BY <1>2 DEF IsPrefix, Heads
<1>3. CASE n <= Len(s)
  <2>1. \A i \in 1 .. n : s[i] \in S
    BY <1>1, <1>3, ElementOfSeq
  <2>2. /\ q \in Seq(S)
        /\ Len(q) = IF 1 <= n THEN n - 1 + 1 ELSE 0
        /\ \A i \in 1 .. n - 1 + 1 : q[i] = s[1 + i - 1]
    BY <1>1, <2>1, SubSeqProperties
  <2>3. IsPrefix(p, s) <=> p = q
    BY <1>1, <1>3 DEF IsPrefix
  <2> HIDE DEF q
  <2>4. Len(q) = n /\ \A i \in 1 .. n : q[i] = s[i]
    BY <1>1, <2>2
  <2>5. p = q <=> \A i \in 1 .. n : p[i] = s[i]
    <3>1. ASSUME \A i \in 1 .. n : p[i] = s[i] PROVE p = q
      BY <2>2, <2>4, <3>1, SeqEqual
    <3>2. ASSUME p = q PROVE \A i \in 1 .. n : p[i] = s[i]
      BY <2>4, <3>2
    <3> QED  BY <3>1, <3>2
  <2> QED  BY <1>3, <2>3, <2>5 DEF Heads
<1> QED  BY <1>2, <1>3

\* A bounded set of naturals has a largest element.
LEMMA Largest ==
  ASSUME NEW n \in Nat, NEW T, T \subseteq 0 .. n, T # {}
  PROVE  \E m \in T : \A k \in T : k <= m
<1> DEFINE U == {n - k : k \in T}
<1>1. U \subseteq Nat /\ U # {}
  <2>1. \A k \in T : k \in 0 .. n
    OBVIOUS
  <2>2. \A k \in T : n - k \in Nat
    BY <2>1
  <2> QED  BY <2>2
<1>2. PICK u \in U : \A v \in U : u <= v
  <2> HIDE DEF U
  <2> QED  BY <1>1, Least
<1>3. PICK m \in T : u = n - m
  BY <1>2
<1>4. \A k \in T : n - m <= n - k
  BY <1>2, <1>3
<1>5. \A k \in T : k \in Int /\ k <= m
  BY <1>3, <1>4
<1> QED  BY <1>5

\* What Shared returns begins both texts, and is as long as any text that does.
LEMMA SharedFacts ==
  ASSUME NEW S, NEW s \in Seq(S), NEW t \in Seq(S)
  PROVE  /\ Shared(s, t) \in Seq(S)
         /\ Heads(Shared(s, t), s) /\ Heads(Shared(s, t), t)
         /\ \A q \in Seq(S) : Heads(q, s) /\ Heads(q, t) => Heads(q, Shared(s, t))
<1> DEFINE same == {n \in 0 .. Len(s) : n <= Len(t) /\ \A i \in 1 .. n : s[i] = t[i]}
           m == CHOOSE n \in same : \A k \in same : k <= n
           p == SubSeq(s, 1, m)
<1>1. Len(s) \in Nat /\ Len(t) \in Nat
  BY LenProperties
<1>2. m \in same /\ \A k \in same : k <= m
  <2>1. 0 \in same /\ same \subseteq 0 .. Len(s)
    BY <1>1
  <2> HIDE DEF same
  <2>2. \E n \in same : \A k \in same : k <= n
    BY <1>1, <2>1, Largest
  <2> QED  BY <2>2
<1>3. m \in 0 .. Len(s) /\ m <= Len(t) /\ \A i \in 1 .. m : s[i] = t[i]
  BY <1>2
<1>4. \A n \in 0 .. Len(s) : n <= Len(t) /\ (\A i \in 1 .. n : s[i] = t[i]) => n <= m
  BY <1>2
<1>5. Shared(s, t) = p
  BY Zenon DEF Shared
<1> HIDE DEF same, m
<1>6. /\ p \in Seq(S) /\ Len(p) = IF 1 <= m THEN m - 1 + 1 ELSE 0
      /\ \A i \in 1 .. m - 1 + 1 : p[i] = s[1 + i - 1]
  <2>1. m \in Int /\ \A i \in 1 .. m : s[i] \in S
    BY <1>1, <1>3, ElementOfSeq
  <2> QED  BY <2>1, SubSeqProperties
<1> HIDE DEF p
<1>7. Len(p) = m /\ \A i \in 1 .. m : p[i] = s[i]
  BY <1>1, <1>3, <1>6
<1>8. Heads(p, s) /\ Heads(p, t)
  BY <1>1, <1>3, <1>7 DEF Heads
<1>9. ASSUME NEW q \in Seq(S), Heads(q, s), Heads(q, t)
      PROVE  Heads(q, p)
  <2> DEFINE n == Len(q)
  <2>1. n \in Nat /\ n <= Len(s) /\ n <= Len(t) /\ \A i \in 1 .. n : q[i] = s[i] /\ q[i] = t[i]
    BY <1>9, LenProperties DEF Heads
  <2>2. n <= m
    <3> HIDE DEF n
    <3>1. n \in 0 .. Len(s) /\ \A i \in 1 .. n : s[i] = t[i]
      BY <1>1, <2>1
    <3> QED  BY <1>4, <2>1, <3>1
  <2>3. \A i \in 1 .. n : i \in 1 .. m
    BY <1>1, <1>3, <2>1, <2>2
  <2> QED  BY <1>7, <2>1, <2>2, <2>3 DEF Heads
<1> QED  BY <1>5, <1>6, <1>8, <1>9

\* The recursive function of FoldLeft, over the subsets of the first n positions.
Folds(it, choices, n) ==
  it = [T \in SUBSET (1 .. n) |->
          IF T = {} THEN choices[1] ELSE Shared(it[T \ {Max(T)}], choices[Max(T)])]

\* Such a function exists: the one over fewer positions has one more added.
LEMMA FoldExists ==
  ASSUME NEW choices, NEW n \in Nat
  PROVE  \E it : Folds(it, choices, n)
<1> DEFINE bad == {k \in Nat : ~ \E it : Folds(it, choices, k)}
<1>1. ASSUME bad # {} PROVE FALSE
  <2>1. PICK k \in bad : \A j \in bad : k <= j
    <3>1. bad \subseteq Nat
      OBVIOUS
    <3> HIDE DEF bad
    <3> QED  BY <1>1, <3>1, Least
  <2>2. k \in Nat /\ ~ \E it : Folds(it, choices, k)
    BY <2>1
  <2>3. CASE k = 0
    <3> DEFINE it == [T \in SUBSET (1 .. 0) |-> choices[1]]
    <3>1. \A T \in SUBSET (1 .. 0) : T = {}
      OBVIOUS
    <3>2. it = [T \in SUBSET (1 .. 0) |->
                  IF T = {} THEN choices[1] ELSE Shared(it[T \ {Max(T)}], choices[Max(T)])]
      BY <3>1
    <3>3. Folds(it, choices, 0)
      BY <3>2, Zenon DEF Folds
    <3> QED  BY <2>2, <2>3, <3>3
  <2>4. CASE k # 0
    <3>1. k - 1 \in Nat /\ ~(k <= k - 1)
      BY <2>2, <2>4
    <3>2. k - 1 \notin bad
      <4> HIDE DEF bad
      <4> QED  BY <2>1, <3>1
    <3>3. PICK g : Folds(g, choices, k - 1)
      BY <3>1, <3>2
    <3> DEFINE P == SUBSET (1 .. k)
               Q == SUBSET (1 .. k - 1)
               it == [T \in P |-> IF k \in T THEN Shared(g[T \ {k}], choices[k]) ELSE g[T]]
               Next1(f, T) == IF T = {} THEN choices[1] ELSE Shared(f[T \ {Max(T)}], choices[Max(T)])
    <3>4. \A T \in Q : g[T] = Next1(g, T)
      BY <3>3, Zenon DEF Folds
    <3>5. \A T \in P : (k \in T => T \ {k} \in Q /\ Max(T) = k) /\ (k \notin T => T \in Q)
      <4> TAKE T \in P
      <4>1. \A i \in T : i \in Nat /\ i <= k /\ i \in 1 .. k
        BY <2>2
      <4>2. k \notin T => T \in Q
        BY <2>2, <4>1
      <4>3. k \in T => T \ {k} \in Q
        BY <2>2, <4>1
      <4>4. ASSUME k \in T PROVE Max(T) = k
        <5> DEFINE M(x) == x \in T /\ \A y \in T : x >= y
        <5>1. M(k)
          BY <2>2, <4>1, <4>4
        <5>2. \A x : M(x) => x = k
          BY <2>2, <4>1, <4>4
        <5>3. Max(T) = CHOOSE x \in T : \A y \in T : x >= y
          BY DEF Max
        <5> QED  BY <5>1, <5>2, <5>3
      <4> QED  BY <4>2, <4>3, <4>4
    <3>6. ASSUME NEW T \in P PROVE it[T] = Next1(it, T)
      <4>1. CASE k \in T
        <5> DEFINE U == T \ {k}
        <5>1. U \in Q /\ Max(T) = k /\ U \in P /\ k \notin U /\ T # {}
          BY <3>5, <4>1
        <5>2. it[U] = g[U]
          BY <5>1
        <5>3. it[T] = Shared(g[U], choices[k])
          BY <4>1
        <5> HIDE DEF it
        <5> QED  BY <5>1, <5>2, <5>3
      <4>2. CASE k \notin T
        <5>1. T \in Q /\ it[T] = g[T]
          BY <3>5, <4>2
        <5>2. g[T] = Next1(g, T)
          BY <3>4, <5>1
        <5> DEFINE U == T \ {Max(T)}
        <5>3. U \in P /\ k \notin U
          BY <4>2
        <5>4. it[U] = g[U]
          BY <5>3
        <5> HIDE DEF it
        <5> QED  BY <5>1, <5>2, <5>4
      <4> QED  BY <4>1, <4>2
    <3>7. it = [T \in P |-> Next1(it, T)]
      <4>1. it = [T \in P |-> it[T]]
        OBVIOUS
      <4> HIDE DEF it, Next1
      <4> QED  BY <3>6, <4>1, Zenon
    <3>8. Folds(it, choices, k)
      <4> HIDE DEF it
      <4> QED  BY <3>7, Zenon DEF Folds
    <3> QED  BY <2>2, <3>8
  <2> QED  BY <2>3, <2>4
<1> QED  BY <1>1

\* Choice by choice, in the order of the loop.
Loops(g, choices, n) ==
  /\ g[0] = choices[1]
  /\ \A k \in 1 .. n : g[k] = Shared(g[k - 1], choices[k])
  /\ common_prefix(choices) = g[n]

\* What FoldLeft computes is what the loop leaves after the last choice.
LEMMA FoldLoops ==
  ASSUME NEW choices, NEW n \in Nat, DOMAIN choices = 1 .. n
  PROVE  \E g : Loops(g, choices, n)
<1> DEFINE Solves(it) ==
             it = [T \in SUBSET DOMAIN choices |->
                     IF T = {} THEN choices[1] ELSE Shared(it[T \ {Max(T)}], choices[Max(T)])]
           it == CHOOSE it : Solves(it)
           g == [k \in 0 .. n |-> it[1 .. k]]
<1>1. common_prefix(choices) = it[DOMAIN choices]
  BY Zenon DEF common_prefix, FoldLeft, MapThenFoldSet
<1>2. Folds(it, choices, n)
  <2>1. PICK h : Folds(h, choices, n)
    BY FoldExists
  <2>3. Solves(h)
    BY <2>1, Zenon DEF Folds
  <2>2. Solves(it)
    BY <2>3, Zenon
  <2> QED  BY <2>2, Zenon DEF Folds
<1> HIDE DEF it
<1>3. \A T \in SUBSET (1 .. n) : it[T] = IF T = {} THEN choices[1]
                                        ELSE Shared(it[T \ {Max(T)}], choices[Max(T)])
  BY <1>2, Zenon DEF Folds
<1>4. g[0] = choices[1]
  <2>1. 1 .. 0 = {} /\ {} \in SUBSET (1 .. n) /\ 0 \in 0 .. n
    OBVIOUS
  <2>2. g[0] = it[{}]
    BY <2>1
  <2> QED  BY <1>3, <2>1, <2>2
<1>5. ASSUME NEW k \in 1 .. n PROVE g[k] = Shared(g[k - 1], choices[k])
  <2> DEFINE T == 1 .. k
  <2>1. /\ T \in SUBSET (1 .. n) /\ T # {} /\ T \ {k} = 1 .. k - 1
        /\ k \in 0 .. n /\ k - 1 \in 0 .. n
    <3>1. k \in T /\ k \in 0 .. n /\ k - 1 \in 0 .. n
      OBVIOUS
    <3>2. \A i \in T : i \in 1 .. n
      OBVIOUS
    <3>3. \A i : i \in T \ {k} <=> i \in 1 .. k - 1
      OBVIOUS
    <3> HIDE DEF T
    <3> QED  BY <3>1, <3>2, <3>3
  <2>2. Max(T) = k
    <3> DEFINE M(x) == x \in T /\ \A y \in T : x >= y
    <3>1. M(k)
      OBVIOUS
    <3>2. \A x : M(x) => x = k
      OBVIOUS
    <3>3. Max(T) = CHOOSE x \in T : \A y \in T : x >= y
      BY DEF Max
    <3> QED  BY <3>1, <3>2, <3>3
  <2>3. g[k] = it[T] /\ g[k - 1] = it[T \ {k}]
    BY <2>1
  <2> HIDE DEF T, g
  <2> QED  BY <1>3, <2>1, <2>2, <2>3
<1>6. common_prefix(choices) = g[n]
  BY <1>1
<1> QED  BY <1>4, <1>5, <1>6 DEF Loops

\* What begins a beginning begins the whole.
LEMMA HeadsTrans ==
  ASSUME NEW S, NEW p \in Seq(S), NEW q \in Seq(S), NEW s \in Seq(S), Heads(p, q), Heads(q, s)
  PROVE  Heads(p, s)
<1>1. Len(p) \in Nat /\ Len(q) \in Nat /\ Len(s) \in Nat
  BY LenProperties
<1>2. \A i \in 1 .. Len(p) : i \in 1 .. Len(q)
  BY <1>1 DEF Heads
<1> QED  BY <1>1, <1>2 DEF Heads

\* The common prefix begins every choice, and anything that does begins it.
LEMMA CommonPrefixFacts ==
  ASSUME NEW S, NEW choices \in Seq(Seq(S)), choices # <<>>
  PROVE  /\ common_prefix(choices) \in Seq(S)
         /\ \A i \in DOMAIN choices : choices[i] \in Seq(S) /\ Heads(common_prefix(choices), choices[i])
         /\ \A q \in Seq(S) : (\A i \in DOMAIN choices : Heads(q, choices[i]))
                                => Heads(q, common_prefix(choices))
<1> DEFINE n == Len(choices)
           T == Seq(S)
           All(q) == \A i \in 1 .. n : Heads(q, choices[i])
<1>1. n \in Nat \ {0} /\ DOMAIN choices = 1 .. n /\ \A i \in 1 .. n : choices[i] \in T
  <2>1. choices \in Seq(T)
    OBVIOUS
  <2> HIDE DEF T
  <2> QED  BY <2>1, LenProperties, ElementOfSeq, EmptySeq
<1>2. PICK g : Loops(g, choices, n)
  BY <1>1, FoldLoops
<1>3. /\ g[0] = choices[1] /\ common_prefix(choices) = g[n]
      /\ \A k \in 1 .. n : g[k] = Shared(g[k - 1], choices[k])
  BY <1>2 DEF Loops
<1> DEFINE Good(k) == /\ g[k] \in T
                      /\ \A i \in 1 .. k : Heads(g[k], choices[i])
                      /\ \A q \in T : All(q) => Heads(q, g[k])
           bad == {k \in 0 .. n : ~Good(k)}
<1> HIDE DEF n
<1>4. ASSUME bad # {} PROVE FALSE
  <2>1. PICK k \in bad : \A j \in bad : k <= j
    <3>1. bad \subseteq Nat
      BY <1>1
    <3> HIDE DEF bad
    <3> QED  BY <1>4, <3>1, Least
  <2>2. k \in 0 .. n /\ ~Good(k)
    BY <2>1
  <2>3. CASE k = 0
    <3>1. 1 \in 1 .. n
      BY <1>1
    <3>2. Good(0)
      <4> HIDE DEF T
      <4> QED  BY <1>1, <1>3, <3>1
    <3> QED  BY <2>2, <2>3, <3>2
  <2>4. CASE k # 0
    <3>1. k \in 1 .. n /\ k - 1 \in 0 .. n /\ ~(k <= k - 1) /\ k \in Nat /\ n \in Nat
      BY <1>1, <2>2, <2>4
    <3>2. k - 1 \notin bad
      <4> HIDE DEF bad
      <4> QED  BY <2>1, <3>1
    <3>3. Good(k - 1)
      BY <3>1, <3>2
    <3> DEFINE s == g[k - 1]
               t == choices[k]
               p == g[k]
    <3>4. s \in Seq(S) /\ t \in Seq(S) /\ p = Shared(s, t)
      BY <1>1, <1>3, <3>1, <3>3
    <3>5. /\ \A i \in 1 .. k - 1 : Heads(s, choices[i])
          /\ \A q \in T : All(q) => Heads(q, s)
      BY <3>3
    <3> HIDE DEF Good, s, p
    <3>6. /\ p \in Seq(S) /\ Heads(p, s) /\ Heads(p, t)
          /\ \A q \in Seq(S) : Heads(q, s) /\ Heads(q, t) => Heads(q, p)
      <4> HIDE DEF t
      <4> QED  BY <3>4, SharedFacts, Zenon
    <3>7. ASSUME NEW i \in 1 .. k PROVE Heads(p, choices[i])
      <4>1. CASE i = k
        BY <3>6, <4>1
      <4>2. CASE i # k
        <5>1. i \in 1 .. k - 1 /\ i \in 1 .. n
          BY <3>1, <4>2
        <5>2. Heads(s, choices[i]) /\ choices[i] \in Seq(S)
          BY <1>1, <3>5, <5>1
        <5> QED  BY <3>4, <3>6, <5>2, HeadsTrans
      <4> QED  BY <4>1, <4>2
    <3>8. ASSUME NEW q \in T, All(q) PROVE Heads(q, p)
      <4>1. Heads(q, s) /\ Heads(q, t)
        BY <3>1, <3>5, <3>8
      <4> QED  BY <3>6, <4>1
    <3>9. Good(k)
      BY <3>6, <3>7, <3>8 DEF Good, p
    <3> QED  BY <2>2, <3>9
  <2> QED  BY <2>3, <2>4
<1>5. Good(n)
  <2>1. n \in 0 .. n
    BY <1>1
  <2> HIDE DEF Good
  <2> QED  BY <1>4, <2>1
<1> QED  BY <1>1, <1>3, <1>5

\* The longest common prefix is the only one with both properties.
LEMMA LongestIs ==
  ASSUME NEW S, NEW choices \in Seq(Seq(S)), choices # <<>>
  PROVE  common_prefix(choices) = LongestCommonPrefix(ToSet(choices))
<1> DEFINE p == common_prefix(choices)
           C == CommonPrefixes(ToSet(choices))
           T == Seq(S)
           Longest(q) == q \in C /\ \A other \in C : Len(other) <= Len(q)
<1>1. /\ p \in Seq(S)
      /\ \A i \in DOMAIN choices : choices[i] \in Seq(S) /\ Heads(p, choices[i])
      /\ \A q \in Seq(S) : (\A i \in DOMAIN choices : Heads(q, choices[i])) => Heads(q, p)
  BY CommonPrefixFacts
<1> HIDE DEF p
<1>2. 1 \in DOMAIN choices
  <2>1. choices \in Seq(T)
    OBVIOUS
  <2> HIDE DEF T
  <2> QED  BY <2>1, LenProperties, EmptySeq
<1>3. \A q \in C : q \in Seq(S) /\ \A i \in DOMAIN choices : Heads(q, choices[i])
  <2> SUFFICES ASSUME NEW q \in C
               PROVE  q \in Seq(S) /\ \A i \in DOMAIN choices : Heads(q, choices[i])
    OBVIOUS
  <2>1. PICK s \in ToSet(choices) : q \in Prefixes(s)
    BY DEF CommonPrefixes
  <2>2. PICK l \in 0 .. Len(s) : q = SubSeq(s, 1, l)
    BY <2>1 DEF Prefixes
  <2>3. s \in Seq(S)
    BY <1>1, <2>1 DEF ToSet
  <2>4. q \in Seq(S)
    <3>1. Len(s) \in Nat /\ \A i \in 1 .. l : s[i] \in S
      BY <2>3, LenProperties, ElementOfSeq
    <3> QED  BY <2>2, <3>1, SubSeqProperties
  <2>5. ASSUME NEW i \in DOMAIN choices PROVE Heads(q, choices[i])
    <3>1. choices[i] \in ToSet(choices) /\ choices[i] \in Seq(S)
      BY <1>1 DEF ToSet
    <3>2. IsPrefix(q, choices[i])
      BY <3>1 DEF CommonPrefixes
    <3> QED  BY <2>4, <3>1, <3>2, HeadsIs
  <2> QED  BY <2>4, <2>5
<1>4. p \in C
  <2> DEFINE s == choices[1]
             l == Len(p)
  <2>1. s \in Seq(S) /\ Heads(p, s) /\ l \in Nat /\ Len(s) \in Nat
    BY <1>1, <1>2, LenProperties
  <2>2. l \in 0 .. Len(s) /\ p = SubSeq(s, 1, l)
    <3>1. IsPrefix(p, s)
      BY <1>1, <2>1, HeadsIs
    <3>2. SubSeq(p, 1, l) = p
      BY <1>1, SubSeqFull
    <3> QED  BY <2>1, <3>1, <3>2 DEF IsPrefix
  <2>3. p \in Prefixes(s) /\ s \in ToSet(choices)
    BY <1>2, <2>2 DEF Prefixes, ToSet
  <2>4. \A t \in ToSet(choices) : IsPrefix(p, t)
    <3> SUFFICES ASSUME NEW i \in DOMAIN choices PROVE IsPrefix(p, choices[i])
      BY DEF ToSet
    <3> QED  BY <1>1, HeadsIs
  <2> QED  BY <2>3, <2>4 DEF CommonPrefixes
<1>5. Longest(p)
  <2> SUFFICES ASSUME NEW other \in C PROVE Len(other) <= Len(p)
    BY <1>4
  <2>1. Heads(other, p)
    BY <1>1, <1>3
  <2> QED  BY <2>1 DEF Heads
<1>6. ASSUME NEW q, Longest(q) PROVE q = p
  <2>1. q \in Seq(S) /\ Heads(q, p)
    BY <1>1, <1>3, <1>6
  <2>2. Len(p) <= Len(q)
    BY <1>4, <1>6
  <2>3. Len(q) = Len(p)
    BY <1>1, <2>1, <2>2, LenProperties DEF Heads
  <2> QED  BY <1>1, <2>1, <2>3, SeqEqual DEF Heads
<1>7. LongestCommonPrefix(ToSet(choices)) = CHOOSE q : Longest(q)
  BY Zenon DEF LongestCommonPrefix
<1> HIDE DEF Longest
<1>8. (CHOOSE q : Longest(q)) = p
  BY <1>5, <1>6, Zenon
<1> QED  BY <1>7, <1>8 DEF p

\* The choices of an enum.
LEMMA EnumFacts ==
  ASSUME RInv, NEW i \in DOMAIN fields
  PROVE  LET f == fields[i] IN
         /\ IsField(f) /\ IsInjective(f.choices)
         /\ f.kind # "boolean" => /\ f.kind = "enum"
                                  /\ f.choices \in Seq(Seq(Byte)) /\ f.choices # <<>>
                                  /\ PrefixOf(f) = common_prefix(f.choices)
<1>1. fields # <<>>
  <2>1. \A s : s = <<>> => DOMAIN s = {}
    OBVIOUS
  <2> QED  BY <2>1, Zenon
<1>2. body \in Body /\ ValidBody(body) /\ fields = parse_decode_request(body)
  BY <1>1 DEF RInv, Validated
<1> DEFINE items == body.fields.items
           f == parse_field(items[i])
<1>3. i \in DOMAIN items /\ fields[i] = f
  BY <1>2, Zenon DEF parse_decode_request
<1>4. IsField(f) /\ IsInjective(f.choices)
  BY <1>2, <1>3, ParsedFacts
<1> HIDE DEF f
<1>5. f.kind # "boolean" => f.kind = "enum" /\ f.choices \in Seq(Seq(Byte)) /\ f.choices # <<>>
  BY <1>4 DEF IsField
<1>6. f.kind # "boolean" => PrefixOf(f) = common_prefix(f.choices)
  BY DEF PrefixOf
<1> QED  BY <1>3, <1>4, <1>5, <1>6

\* The loop over the choices leaves the longest prefix they have in common.
THEOREM PrefixIsLongest == Spec => []PrefixIsLongestCommon
<1>1. RInv => PrefixIsLongestCommon
  <2> SUFFICES ASSUME RInv, NEW i \in DOMAIN fields, fields[i].kind = "enum"
               PROVE  PrefixOf(fields[i]) = LongestCommonPrefix(ToSet(fields[i].choices))
    BY DEF PrefixIsLongestCommon, Enums
  <2>1. /\ fields[i].choices \in Seq(Seq(Byte)) /\ fields[i].choices # <<>>
        /\ PrefixOf(fields[i]) = common_prefix(fields[i].choices)
    BY EnumFacts
  <2> QED  BY <2>1, LongestIs
<1> QED  BY <1>1, RequestInvariance, PTL


-----------------------------------------------------------------------------
\* The texts that are scored.

\* What remains of a text after how it begins.
LEMMA RemainderFacts ==
  ASSUME NEW S, NEW p \in Seq(S), NEW s \in Seq(S), IsPrefix(p, s)
  PROVE  Remainder(s, p) \in Seq(S) /\ s = p ++ Remainder(s, p)
<1> DEFINE l == Len(p)
           n == Len(s)
           r == SubSeq(s, l + 1, n)
<1>1. l \in Nat /\ n \in Nat /\ l <= n /\ SubSeq(s, 1, l) = p
  BY SubSeqFull, LenProperties DEF IsPrefix
<1>2. r \in Seq(S)
  <2>1. \A i \in l + 1 .. n : s[i] \in S
    BY <1>1, ElementOfSeq
  <2> HIDE DEF l, n
  <2> QED  BY <1>1, <2>1, SubSeqProperties
<1>3. SubSeq(s, 1, l) \o r = SubSeq(s, 1, n)
  <2>1. 1 \in 1 .. n + 1 /\ l \in 1 - 1 .. n /\ n \in l .. n
    BY <1>1
  <2> QED  BY <2>1, ConcatAdjacentSubSeq
<1>4. SubSeq(s, 1, n) = s
  BY SubSeqFull
<1> QED  BY <1>1, <1>2, <1>3, <1>4 DEF Remainder, ++

\* json_escape works on the parts of a text.
LEMMA EscapeCat ==
  ASSUME NEW p \in Seq(Byte), NEW r \in Seq(Byte)
  PROVE  json_escape(p ++ r) = json_escape(p) ++ json_escape(r)
         /\ json_escape(p) \in Seq(Sym) /\ json_escape(r) \in Seq(Sym)
<1>1. p ++ r \in Seq(Byte)
  BY Joins
<1>2. Coded(Escaped, p ++ r) = Coded(Escaped, p) ++ Coded(Escaped, r)
      /\ Coded(Escaped, p) \in Seq(Sym) /\ Coded(Escaped, r) \in Seq(Sym)
  BY EscapedDelimited, CodedFacts
<1> QED  BY <1>1, <1>2, EscapeIsCoded

\* A choice of an enum: the common prefix and what remains.
LEMMA ChoiceFacts ==
  ASSUME RInv, NEW i \in DOMAIN fields, fields[i].kind # "boolean",
         NEW k \in DOMAIN fields[i].choices
  PROVE  LET c == fields[i].choices[k]
             p == PrefixOf(fields[i])
         IN /\ p \in Seq(Byte) /\ Remainder(c, p) \in Seq(Byte) /\ c \in Seq(Byte)
            /\ c = p ++ Remainder(c, p)
            /\ fields[i].name \in Seq(Byte)
<1> DEFINE choices == fields[i].choices
           p == PrefixOf(fields[i])
           c == choices[k]
<1>1. choices \in Seq(Seq(Byte)) /\ choices # <<>> /\ p = common_prefix(choices)
      /\ fields[i].name \in Seq(Byte)
  BY EnumFacts DEF IsField
<1>2. k \in DOMAIN choices
  OBVIOUS
<1> HIDE DEF choices, p
<1>3. p \in Seq(Byte) /\ c \in Seq(Byte) /\ Heads(p, c)
  BY <1>1, <1>2, CommonPrefixFacts
<1> HIDE DEF c
<1>4. Remainder(c, p) \in Seq(Byte) /\ c = p ++ Remainder(c, p)
  BY <1>3, HeadsIs, RemainderFacts
<1> QED  BY <1>1, <1>3, <1>4 DEF choices, p, c

\* Two ways to put six parts together.
LEMMA SamePieces ==
  ASSUME NEW S, NEW n \in Seq(S), NEW k \in Seq(S), NEW s \in Seq(S), NEW q \in Seq(S),
         NEW e \in Seq(S), NEW r \in Seq(S)
  PROVE  ((n ++ k) ++ ((s ++ q) ++ e)) ++ (r ++ q) = (n ++ (k ++ s)) ++ ((q ++ (e ++ r)) ++ q)
<1> DEFINE y == r ++ q
           x == (s ++ q) ++ e
           z == (q ++ (e ++ r)) ++ q
           w == x ++ y
<1>1. y \in Seq(S)
  BY Joins
<1>2. x \in Seq(S)
  BY Regroup3
<1>3. z = q ++ (e ++ y)
  BY RegroupIn
<1>4. w = s ++ (q ++ (e ++ y))
  <2> HIDE DEF y
  <2> QED  BY <1>1, Regroup3
<1>5. w \in Seq(S)
  <2> HIDE DEF x, y
  <2> QED  BY <1>1, <1>2, Joins
<1>6. w = s ++ z
  BY <1>3, <1>4
<1>7. z \in Seq(S)
  <2> DEFINE er == e ++ r
             qer == q ++ er
  <2>1. er \in Seq(S)
    BY Joins
  <2>2. qer \in Seq(S)
    <3> HIDE DEF er
    <3> QED  BY <2>1, Joins
  <2> HIDE DEF qer
  <2>3. qer ++ q \in Seq(S)
    BY <2>2, Joins
  <2> QED  BY <2>3 DEF qer
<1> HIDE DEF x, y, z
<1>8. ((n ++ k) ++ x) ++ y = n ++ (k ++ (x ++ y))
  BY <1>1, <1>2, Regroup3
<1>9. (n ++ (k ++ s)) ++ z = n ++ (k ++ (s ++ z))
  BY <1>7, RegroupIn
<1>10. ((n ++ k) ++ x) ++ y = (n ++ (k ++ s)) ++ z
  BY <1>6, <1>8, <1>9
<1> QED  BY <1>10 DEF x, y, z

\* However the common prefix was cut off, what is put before a choice and what
\* is scored for it spell the JSON member together.
THEOREM TextsSpellMembers == Spec => []TextsSpellTheMember
<1>1. RInv => TextsSpellTheMember
  <2> SUFFICES ASSUME RInv, NEW i \in DOMAIN fields, fields[i].kind = "enum",
                      NEW k \in DOMAIN fields[i].choices
               PROVE  LET f == fields[i] IN
                      field_suffix_text(f, PrefixOf(f)) \o candidate_text(f, PrefixOf(f), f.choices[k])
                        = Quoted(f.name) \o <<":", " ">> \o Quoted(f.choices[k])
    BY DEF TextsSpellTheMember, Enums
  <2> DEFINE f == fields[i]
             p == PrefixOf(f)
             c == f.choices[k]
             r == Remainder(c, p)
             n == Quoted(f.name)
             colon == ":"
             space == " "
             k1 == <<colon>>
             s1 == <<space>>
             q == <<Quote>>
             e == json_escape(p)
             h == json_escape(r)
  <2>1. f.kind # "boolean"
    OBVIOUS
  <2>2. p \in Seq(Byte) /\ r \in Seq(Byte) /\ c = p ++ r /\ f.name \in Seq(Byte)
    BY <2>1, ChoiceFacts
  <2>3. field_suffix_text(f, p) = (n ++ k1) ++ (<<space, Quote>> ++ e)
    BY <2>1, Zenon DEF field_suffix_text, ++
  <2>4. candidate_text(f, p, c) = h ++ q
    BY <2>1, Zenon DEF candidate_text, ++
  <2>5. Quoted(c) = (q ++ json_escape(c)) ++ q
    BY Zenon DEF Quoted, ++
  <2>6. colon \in Sym /\ space \in Sym /\ Quote \in Sym
    BY DEF Sym
  <2>7. n \in Seq(Sym)
    BY <2>2, EmptySeq, QuotedFacts
  <2>8. json_escape(c) = e ++ h /\ e \in Seq(Sym) /\ h \in Seq(Sym)
    <3> HIDE DEF p, r, c
    <3> QED  BY <2>2, EscapeCat
  <2> HIDE DEF colon, space, f, p, c, r, n, e, h
  <2>9. <<space, Quote>> = s1 ++ q /\ <<colon, space>> = k1 ++ s1
        /\ k1 \in Seq(Sym) /\ s1 \in Seq(Sym) /\ q \in Seq(Sym)
    BY <2>6, TwoItems
  <2> HIDE DEF k1, s1, q
  <2>10. ((n ++ k1) ++ ((s1 ++ q) ++ e)) ++ (h ++ q) = (n ++ (k1 ++ s1)) ++ ((q ++ (e ++ h)) ++ q)
    BY <2>7, <2>8, <2>9, SamePieces
  <2>11. field_suffix_text(f, p) ++ candidate_text(f, p, c) = (n ++ <<colon, space>>) ++ Quoted(c)
    BY <2>3, <2>4, <2>5, <2>8, <2>9, <2>10, Zenon
  <2> QED  BY <2>11 DEF ++, f, p, c, n, colon, space
<1> QED  BY <1>1, RequestInvariance, PTL

\* No candidate's text begins another's: JSON quoting ends each one with a quote
\* that nothing inside it can be taken for.
THEOREM TextsDiffer == Spec => []NoTextBeginsAnother
<1>1. RInv => NoTextBeginsAnother
  <2> SUFFICES ASSUME RInv, NEW i \in DOMAIN fields,
                      NEW k \in DOMAIN fields[i].choices, NEW l \in DOMAIN fields[i].choices, k # l,
                      IsPrefix(candidate_text(fields[i], PrefixOf(fields[i]), fields[i].choices[k]),
                               candidate_text(fields[i], PrefixOf(fields[i]), fields[i].choices[l]))
               PROVE  FALSE
    BY DEF NoTextBeginsAnother
  <2> DEFINE f == fields[i]
             p == PrefixOf(f)
             a == f.choices[k]
             b == f.choices[l]
             s == candidate_text(f, p, a)
             t == candidate_text(f, p, b)
             z == Remainder(t, s)
             none == <<>>
  <2>0. IsPrefix(s, t) /\ none \in Seq(Sym)
    BY EmptySeq
  <2>1. a # b
    BY EnumFacts DEF IsInjective
  <2>2. CASE f.kind = "boolean"
    <3> DEFINE space == " "
               o == <<space>>
    <3>1. a \in Truths /\ b \in Truths
      <4>1. f.choices \in Seq(Truths)
        BY <2>2, EnumFacts DEF IsField
      <4> QED  BY <4>1, LenProperties, ElementOfSeq
    <3>2. s = o ++ a /\ t = o ++ b
      BY <2>2, Zenon DEF candidate_text, ++
    <3>3. space \in Sym /\ a \in Seq(Sym) /\ b \in Seq(Sym)
      BY <3>1, Symbols DEF Sym
    <3> HIDE DEF space, s, t, a, b, none
    <3>4. o \in Seq(Sym)
      BY <3>3
    <3>5. s \in Seq(Sym) /\ t \in Seq(Sym)
      <4> HIDE DEF o
      <4> QED  BY <3>2, <3>3, <3>4, Joins
    <3>6. z \in Seq(Sym) /\ t = s ++ z
      BY <2>0, <3>5, RemainderFacts
    <3> HIDE DEF z
    <3>7. a ++ z \in Seq(Sym) /\ t = o ++ (a ++ z)
      <4> HIDE DEF o
      <4> QED  BY <3>2, <3>3, <3>4, <3>6, Joins, Regroup
    <3> DEFINE az == a ++ z
    <3>8. <<space>> ++ b = <<space>> ++ az /\ az \in Seq(Sym)
      BY <3>2, <3>7
    <3> HIDE DEF az
    <3>9. b = az
      BY <3>3, <3>8, FirstAgree
    <3>10. b ++ none = a ++ z
      BY <3>3, <3>9, Joins DEF az, none
    <3>11. Delimited(PlainText, Truths, Sym)
      <4>1. IsField(f) /\ Label(f) = PlainText /\ LabelOf(f) = Truths
        BY <2>2, EnumFacts DEF Label, LabelOf
      <4> QED  BY <4>1, LabelsDelimited
    <3>12. \A x, y \in Seq(Sym) : b ++ x = a ++ y => b = a /\ x = y
      BY <3>1, <3>11 DEF Delimited, PlainText
    <3> QED  BY <2>0, <2>1, <3>6, <3>10, <3>12
  <2>3. CASE f.kind # "boolean"
    <3> DEFINE q == <<Quote>>
               ra == Remainder(a, p)
               rb == Remainder(b, p)
               ea == json_escape(ra)
               eb == json_escape(rb)
    <3>1. /\ p \in Seq(Byte) /\ ra \in Seq(Byte) /\ a = p ++ ra
          /\ rb \in Seq(Byte) /\ b = p ++ rb
      BY <2>3, ChoiceFacts
    <3>2. s = ea ++ q /\ t = eb ++ q
      BY <2>3, Zenon DEF candidate_text, ++
    <3>3. Quote \in Sym
      BY DEF Sym
    <3> HIDE DEF a, b, p, ra, rb, s, t, none
    <3>4. ea \in Seq(Sym) /\ eb \in Seq(Sym)
      BY <3>1, EscapeCat
    <3>5. q \in Seq(Sym)
      BY <3>3
    <3> HIDE DEF ea, eb
    <3>6. s \in Seq(Sym) /\ t \in Seq(Sym)
      <4> HIDE DEF q
      <4> QED  BY <3>2, <3>4, <3>5, Joins
    <3>7. z \in Seq(Sym) /\ t = s ++ z
      BY <2>0, <3>6, RemainderFacts
    <3> HIDE DEF z
    <3>8. ea ++ (q ++ z) = eb ++ (q ++ none)
      <4> HIDE DEF q
      <4>1. (ea ++ q) ++ z = ea ++ (q ++ z)
        BY <3>4, <3>5, <3>7, Regroup
      <4>2. q ++ none = q
        BY <3>5, Joins DEF none
      <4> QED  BY <3>2, <3>7, <4>1, <4>2
    <3>9. Coded(Escaped, ra) ++ (<<Quote>> ++ z) = Coded(Escaped, rb) ++ (<<Quote>> ++ none)
      BY <3>1, <3>8, EscapeIsCoded, Zenon DEF ea, eb, q
    <3>10. ra = rb
      BY <2>0, <3>1, <3>3, <3>7, <3>9, EscapedDelimited, Decodable
    <3> QED  BY <2>1, <3>1, <3>10
  <2> QED  BY <2>2, <2>3
<1> QED  BY <1>1, RequestInvariance, PTL
=============================================================================
