--------------------------- MODULE MCDecodeRequest ---------------------------
(* Bodies for TLC: every list of up to two choices out of eleven values, and   *)
(* of three strings; names and descriptions that are missing, empty, escaped,  *)
(* too long or the marker; pairs of fields; bodies of another shape.           *)
EXTENDS DecodeRequest

MCByte == {"a", "b", ",", "true", Quote, Backslash, Lead, Marker} \cup Trail

String(t) == [kind |-> "string", text |-> t]
Missing == [kind |-> "missing", text |-> <<>>]
Other == [kind |-> "other", text |-> <<>>]
Array(s) == [kind |-> "array", items |-> s]
False == [kind |-> "boolean", text |-> <<"false">>]
True == [kind |-> "boolean", text |-> <<"true">>]

A == String(<<"a">>)
AB == String(<<"a", "b">>)
B == String(<<"b">>)
Plain == {A, AB, B, String(<<"a", Quote>>), String(<<"a", Backslash>>), String(<<Lead, "trail1">>)}
Odd == {False, True, Other, String(<<>>), String(<<Lead, "trail2">>), String(<<"true">>),
        String(<<"a", "a", "a">>)}

Field(n, d, c) == [kind |-> "object", name |-> n, description |-> d, choices |-> c]

ChoiceLists == BoundedSeq(Plain \cup Odd, 2) \cup [1 .. 3 -> Plain]
Names == {A, String(<<Quote>>), String(<<"a", Quote, ",", Quote, "a">>), String(<<>>), String(<<"a", "a", "a", "a", "a", "a">>),
          Missing, Other}
Descriptions == {String(<<>>), A, String(<<Marker>>), String(<<"a", "a">>), String(<<Quote, ",", Quote>>),
                 String(<<"a", "a", "a", "a">>), Missing}

Fields ==
  {Field(A, String(<<>>), Array(c)) : c \in ChoiceLists}
    \cup {Field(n, d, Array(<<A, B>>)) : n \in Names, d \in Descriptions}
    \cup {Field(A, A, Other), [kind |-> "other"]}
Pairs == [1 .. 2 -> {Field(n, d, Array(c)) :
                       n \in {A, B}, d \in {String(<<>>), A}, c \in {<<A, B>>, <<False, True>>}}]

MCBody ==
  {[kind |-> "object", context |-> A, fields |-> Array(<<f>>)] : f \in Fields}
    \cup {[kind |-> "object", context |-> A, fields |-> Array(p)] : p \in Pairs}
    \cup {[kind |-> "object", context |-> c, fields |-> Array(<<Field(A, A, Array(<<A, B>>))>>)] :
            c \in {Missing, String(<<>>), Other, String(<<"a", "a", "a">>)}}
    \cup {[kind |-> "object", context |-> A, fields |-> f] :
            f \in {Array(<<>>), [kind |-> "other"], Array([i \in 1 .. 3 |-> Field(A, A, Array(<<A, B>>))])}}
    \cup {[kind |-> "malformed"], [kind |-> "other"]}
=============================================================================
