---------------------------- MODULE MCRowSizing -----------------------------
(* Instances of RowSizing for TLC: every short valid string with a fast and a  *)
(* slow query, and one pair of strings with every duration.                    *)
EXTENDS RowSizing

CONSTANTS TextBytes, PlanBytes,    \* longest text and plan
          MaxParts,                \* parts of a duration behind the P
          MaxTicks                 \* longest duration that is written in seconds

Strings(bytes, n) == {s \in UNION {[1..k -> bytes] : k \in 0..n} : ValidUTF8(s)}

\* Quotes come in the plans, white space in the texts, where it matters.
AllTexts == Strings({"b", "s", "m", "c"}, TextBytes)

AllPlans == Strings({"q", "m", "c"}, PlanBytes)

Char(c) == [c |-> c, n |-> 0]
Number(n) == [c |-> "num", n |-> n]

\* A T, a number and its unit, and what is not complete.
Parts == {<<Char("T")>>, <<Char("S")>>, <<Char("x")>>, <<Number(1)>>, <<Char("bad"), Char("S")>>}
         \cup {<<Number(n), Char(u)>> : n \in {Second, Second + 9, -Second}, u \in DOMAIN Scale}

\* Runs that touch would be one run.
NoNeighbours(s) == \A i \in 2..Len(s) : ~ {s[i - 1].c, s[i].c} \subseteq {"num", "bad"}

Bodies == {s \in {FlattenSeq(p) : p \in UNION {[1..k -> Parts] : k \in 0..MaxParts}} :
                NoNeighbours(s)}

Isos == {<<>>} \cup {head \o body : head \in {<<>>, <<Char("P")>>, <<Char("-"), Char("P")>>,
                                             <<Char("+"), Char("P")>>, <<Char("-")>>},
                                    body \in Bodies}
        \cup {<<Char("P"), Char("T"), Number(n), Char("S")>> : n \in -MaxTicks..MaxTicks}

JSON(kind, text, n) == [json |-> kind, text |-> text, n |-> n]

AllDurations == {JSON(kind, <<>>, 0) : kind \in {"null", "other"}}
                \cup {JSON("string", s, 0) : s \in Isos}
                \cup {JSON("number", <<>>, n) : n \in -MaxTicks..MaxTicks}

AllEvents ==
    [plan : AllPlans, text : AllTexts, failed : BOOLEAN,
     wall : {JSON("number", <<>>, n) : n \in {0, MinWall + Millisecond}}]
    \cup [plan : {<<"q">>}, text : {<<"b">>}, failed : BOOLEAN, wall : AllDurations]
=============================================================================
