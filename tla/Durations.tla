----------------------------- MODULE Durations ------------------------------
(***************************************************************************)
(* How the times in an event become whole numbers: UnmarshalJSON,          *)
(* parseISO8601Duration and Millis (internal/event/duration.go).           *)
(*                                                                         *)
(* A text is a sequence of tokens [c |-> kind, n |-> number].  c is "num"  *)
(* for a run of digits, dots and minus signs that strconv.ParseFloat reads *)
(* as n / Second, "bad" for a run that it does not read, and otherwise the *)
(* character itself: "+", "-" (in front only), "P", "T", a unit or "x" for *)
(* anything else.  Two runs are never neighbours: they would be one.       *)
(*                                                                         *)
(* The code computes in float64.  The rounding is kept, at a smaller       *)
(* scale: a number has Bits binary digits and a second has Second ticks    *)
(* where the code has 53 digits and 10^9 nanoseconds.                      *)
(***************************************************************************)
EXTENDS Integers, SequencesExt

CONSTANTS Bits,                  \* binary digits of a float
          Millisecond, Second,   \* in ticks
          Minute, Hour, Day

ASSUME ScaleAssumption == /\ {Bits, Millisecond, Second} \subseteq Nat \ {0}
                          /\ Second % Millisecond = 0
                          /\ Minute % Second = 0 /\ Hour % Minute = 0 /\ Day % Hour = 0

Scale == [D |-> Day, H |-> Hour, M |-> Minute, S |-> Second]

-----------------------------------------------------------------------------
(* float64, for a and b that are not negative.                             *)

\* a / b to the nearest whole number, to the even one of two.
Rounded(a, b) ==
    LET q == a \div b  r == a % b
    IN  IF 2 * r > b \/ (2 * r = b /\ q % 2 = 1) THEN q + 1 ELSE q

\* The float next to a / b, as mant / 2^exp with a mantissa of Bits digits.
Float(a, b) ==
    LET exp == CHOOSE e \in 0..30 : a = 0 \/ 2 * a * 2 ^ e >= 2 ^ Bits * b
    IN  [mant |-> Rounded(a * 2 ^ exp, b), exp |-> exp]

\* time.Duration(num * float64(scale)): n / Second is rounded when it is parsed, the
\* product is rounded, and what is behind the point is dropped.
Ticks(n, scale) ==
    LET num  == Float(IF n < 0 THEN -n ELSE n, Second)
        prod == Float(num.mant * scale, 2 ^ num.exp)
    IN  (IF n < 0 THEN -1 ELSE 1) * (prod.mant \div 2 ^ prod.exp)

-----------------------------------------------------------------------------
(* The parser.                                                             *)

Failed == [err |-> TRUE, total |-> 0]

\* The loop, one token at a time.  num holds the number (or nothing) that was read
\* and still has to get its unit; an "H" and so on is good only after a "T".
Scan(acc, tok) ==
    CASE acc.err -> acc
      [] ~acc.err /\ acc.num = <<>> /\ tok.c = "T" -> [acc EXCEPT !.inTime = TRUE]
      [] ~acc.err /\ acc.num = <<>> /\ tok.c = "num" -> [acc EXCEPT !.num = <<tok.n>>]
      [] ~acc.err /\ acc.num # <<>> /\ tok.c \in DOMAIN Scale /\ (tok.c = "D" \/ acc.inTime) ->
            [acc EXCEPT !.num = <<>>, !.total = @ + Ticks(acc.num[1], Scale[tok.c])]
      [] OTHER -> [acc EXCEPT !.err = TRUE]

parseISO8601Duration(s) ==
    LET signed == s # <<>> /\ s[1].c \in {"-", "+"}
        rest   == IF signed THEN Tail(s) ELSE s
        scan   == FoldLeft(Scan, [err |-> FALSE, inTime |-> FALSE, num |-> <<>>, total |-> 0],
                           Tail(rest))
    IN  IF s = <<>> THEN [err |-> FALSE, total |-> 0]
        ELSE IF rest = <<>> \/ rest[1].c # "P" \/ scan.err \/ scan.num # <<>> THEN Failed
        ELSE [err |-> FALSE, total |-> IF s[1].c = "-" THEN -scan.total ELSE scan.total]

\* Mutant: the error is ignored, and what was read up to it is kept.
UnmarshalJSON_KeepsPart(v) ==
    IF v.json = "string"
    THEN LET scan == FoldLeft(Scan, [err |-> FALSE, inTime |-> FALSE, num |-> <<>>, total |-> 0],
                              SelectSeq(v.text, LAMBDA tok : tok.c \notin {"-", "+", "P"}))
         IN  scan.total
    ELSE 0

\* A JSON value [json, text, n]: null, a string, a number (n / Second seconds) or any
\* other.  It is never an error: what is not understood is 0.
UnmarshalJSON(v) ==
    CASE v.json = "string" -> parseISO8601Duration(v.text).total
      [] v.json = "number" -> Ticks(v.n, Second)
      [] OTHER -> 0

\* Integer division in Go drops the fraction, of negative numbers too.
Millis(d) == IF d < 0 THEN -((-d) \div Millisecond) ELSE d \div Millisecond

-----------------------------------------------------------------------------
(* What a text means, without the parser.                                  *)

\* A sign, a P, numbers that are each followed by their unit, and a T somewhere in
\* front of the first hour, minute or second.
WellFormed(s) ==
    LET p == IF s # <<>> /\ s[1].c \in {"-", "+"} THEN 2 ELSE 1
        body == p + 1..Len(s)
    IN  \/ s = <<>>
        \/ /\ Len(s) >= p /\ s[p].c = "P"
           /\ \A i \in body :
                /\ s[i].c \in {"num", "T"} \cup DOMAIN Scale
                /\ s[i].c = "num" => i < Len(s) /\ s[i + 1].c \in DOMAIN Scale
                /\ s[i].c \in DOMAIN Scale => i > p + 1 /\ s[i - 1].c = "num"
                /\ s[i].c \in {"H", "M", "S"} => \E j \in body : j < i /\ s[j].c = "T"

\* Its length, in ticks: the exact sum.
Exact(s) ==
    LET parts == FoldLeft(LAMBDA sum, i : sum + (s[i].n * Scale[s[i + 1].c]) \div Second, 0,
                          SelectSeq([i \in DOMAIN s |-> i], LAMBDA i : s[i].c = "num"))
    IN  IF s # <<>> /\ s[1].c = "-" THEN -parts ELSE parts
=============================================================================
