-------------------------- MODULE RowSizing_proofs --------------------------
(***************************************************************************)
(* Theorems about RowSizing, for all events, caps, budgets and bases: cut  *)
(* strings stay valid and within the caps, a preview is of the whole text, *)
(* and clampRow ends with a row that fits.                                 *)
(***************************************************************************)
EXTENDS RowSizing, FiniteSetTheorems, WellFoundedInduction, NaturalsInduction, TLAPS

-----------------------------------------------------------------------------
(* Digits.                                                                 *)

\* A set of numbers has a least element: the form in which induction is used here.
LEMMA Least ==
    ASSUME NEW T, T \subseteq Nat, T # {}
    PROVE  \E x \in T : \A y \in T : x <= y
  <1>. DEFINE R == OpToRel(<, Nat)
  <1>1. IsWellFoundedOn(R, Nat)
    BY NatLessThanWellFounded, Zenon
  <1>2. \A x, y \in Nat : y < x => <<y, x>> \in R
    BY Zenon DEF OpToRel
  <1>. HIDE DEF R
  <1>3. PICK x \in T : \A y \in T : ~(<<y, x>> \in R)
    BY <1>1, WFMin
  <1>4. \A y \in T : ~(y < x)
    BY <1>2, <1>3, Zenon
  <1>. QED
    BY <1>4

\* What the recursive function in Digits has to satisfy.
Fixed(b, f) == f = [m \in Nat |-> IF m < b THEN 1 ELSE 1 + f[m \div b]]

\* Division by a base: it goes down, and keeps the order.
LEMMA Quotient ==
    ASSUME NEW b \in Nat, b > 1, NEW m \in Nat
    PROVE  /\ m \div b \in Nat
           /\ m >= b => m \div b < m /\ m \div b >= 1
           /\ \A n \in Nat : m <= n => m \div b <= n \div b
  BY Z3

\* A solution of that recursion for the numbers up to n.
Upto(b, n, g) == /\ g \in [0..n -> Nat \ {0}]
                 /\ \A m \in 0..n : g[m] = IF m < b THEN 1 ELSE 1 + g[m \div b]

LEMMA UptoExists ==
    ASSUME NEW b \in Nat, b > 1, NEW n \in Nat
    PROVE  \E g : Upto(b, n, g)
  <1>. DEFINE T == {m \in Nat : ~ \E g : Upto(b, m, g)}
  <1>1. SUFFICES ASSUME T # {}
                 PROVE  FALSE
    OBVIOUS
  <1>2. PICK x \in T : \A y \in T : x <= y
    BY <1>1, Least
  <1>3. CASE x < b
    <2>1. Upto(b, x, [m \in 0..x |-> 1])
      BY <1>3 DEF Upto
    <2>. QED
      BY <2>1
  <1>4. CASE x >= b
    <2>1. x - 1 \in Nat /\ x - 1 \notin T
      BY <1>2, <1>4
    <2>2. PICK g : Upto(b, x - 1, g)
      BY <2>1
    <2>3. x \div b \in 0..x - 1
      BY <1>4, Quotient
    <2>. DEFINE h == [m \in 0..x |-> IF m = x THEN 1 + g[x \div b] ELSE g[m]]
    <2>4. h \in [0..x -> Nat \ {0}]
      <3>1. \A m \in 0..x - 1 : g[m] \in Nat \ {0}
        BY <2>2 DEF Upto
      <3>2. g[x \div b] \in Nat \ {0}
        BY <2>3, <3>1, Zenon
      <3>. DEFINE v == 1 + g[x \div b]
      <3>3. v \in Nat \ {0}
        BY <3>2
      <3>. HIDE DEF v
      <3>4. \A m \in 0..x : (IF m = x THEN v ELSE g[m]) \in Nat \ {0}
        <4>1. \A m \in 0..x : m # x => m \in 0..x - 1
          OBVIOUS
        <4>. QED
          BY <3>1, <3>3, <4>1, Zenon
      <3>. QED
        BY <3>4, Zenon DEF v
    <2>5. ASSUME NEW m \in 0..x
          PROVE  h[m] = IF m < b THEN 1 ELSE 1 + h[m \div b]
      <3>1. CASE m = x
        BY <1>4, <2>3, <3>1
      <3>2. CASE m # x
        <4>1. m \in 0..x - 1 /\ (m >= b => m \div b \in 0..x - 1)
          BY <3>2, Quotient
        <4>2. g[m] = IF m < b THEN 1 ELSE 1 + g[m \div b]
          BY <2>2, <4>1 DEF Upto
        <4>3. h[m] = g[m]
          BY <3>2
        <4>4. CASE m < b
          BY <4>2, <4>3, <4>4
        <4>5. CASE m >= b
          <5>. DEFINE q == m \div b
          <5>1. q \in 0..x - 1
            BY <4>1, <4>5
          <5>. HIDE DEF q
          <5>2. h[q] = g[q]
            BY <5>1
          <5>. HIDE DEF h
          <5>3. ~(m < b)
            BY <4>5
          <5>. QED
            BY <4>2, <4>3, <5>2, <5>3, Zenon DEF q
        <4>. QED
          BY <4>4, <4>5
      <3>. QED
        BY <3>1, <3>2
    <2>6. Upto(b, x, h)
      BY <2>4, <2>5 DEF Upto
    <2>. QED
      BY <2>6
  <1>. QED
    BY <1>3, <1>4

LEMMA UptoAgree ==
    ASSUME NEW b \in Nat, b > 1, NEW n \in Nat, NEW p \in Nat, NEW g, NEW h,
           Upto(b, n, g), Upto(b, p, h), NEW k \in Nat, k <= n, k <= p
    PROVE  g[k] = h[k]
  <1>. DEFINE T == {m \in Nat : m <= n /\ m <= p /\ g[m] # h[m]}
  <1>1. SUFFICES ASSUME T # {}
                 PROVE  FALSE
    OBVIOUS
  <1>2. PICK x \in T : \A y \in T : x <= y
    BY <1>1, Least
  <1>3. x \in 0..n /\ x \in 0..p
    OBVIOUS
  <1>4. CASE x < b
    BY <1>3, <1>4 DEF Upto
  <1>5. CASE x >= b
    <2>1. x \div b \in Nat /\ x \div b < x
      BY <1>5, Quotient
    <2>2. g[x \div b] = h[x \div b]
      BY <1>2, <2>1
    <2>. QED
      BY <1>3, <1>5, <2>1, <2>2 DEF Upto
  <1>. QED
    BY <1>4, <1>5

\* The recursion has a solution, so that Digits is what its definition says.
LEMMA DigitsStep ==
    ASSUME NEW b \in Nat, b > 1, NEW n \in Nat
    PROVE  /\ Digits(b, n) \in Nat \ {0}
           /\ Digits(b, n) = IF n < b THEN 1 ELSE 1 + Digits(b, n \div b)
  <1>. DEFINE g(m) == CHOOSE g : Upto(b, m, g)
              f == [m \in Nat |-> g(m)[m]]
  <1>1. \A m \in Nat : Upto(b, m, g(m))
    BY UptoExists, Zenon
  <1>. HIDE DEF g
  <1>2. \A m \in Nat : f[m] \in Nat \ {0}
    BY <1>1 DEF Upto
  <1>3. ASSUME NEW m \in Nat
        PROVE  f[m] = IF m < b THEN 1 ELSE 1 + f[m \div b]
    <2>1. m < b => g(m)[m] = 1
      <3>1. Upto(b, m, g(m)) /\ m \in 0..m
        BY <1>1
      <3>. QED
        BY <3>1, Zenon DEF Upto
    <2>2. ASSUME m >= b
          PROVE  g(m)[m] = 1 + g(m \div b)[m \div b]
      <3>1. m \div b \in Nat /\ m \div b < m
        BY <2>2, Quotient
      <3>2. g(m)[m] = 1 + g(m)[m \div b]
        BY <1>1, <2>2 DEF Upto
      <3>3. g(m)[m \div b] = g(m \div b)[m \div b]
        BY <1>1, <3>1, UptoAgree
      <3>. QED
        BY <3>2, <3>3
    <2>3. m \div b \in Nat
      BY Quotient
    <2>. QED
      BY <2>1, <2>2, <2>3
  <1>4. Fixed(b, f)
    BY <1>3, Zenon DEF Fixed
  <1>. HIDE DEF f
  <1>. DEFINE d == CHOOSE h : Fixed(b, h)
  <1>5. Fixed(b, d)
    BY <1>4, Zenon
  <1>6. \A m \in Nat : Digits(b, m) = d[m]
    BY Zenon DEF Digits, Fixed
  <1>. HIDE DEF d
  <1>7. \A m \in Nat : d[m] = IF m < b THEN 1 ELSE 1 + d[m \div b]
    BY <1>5 DEF Fixed
  <1>8. \A m \in Nat : Digits(b, m) = IF m < b THEN 1 ELSE 1 + Digits(b, m \div b)
    BY <1>6, <1>7, Quotient
  <1>9. \A m \in Nat : Digits(b, m) \in Nat \ {0}
    <2>. DEFINE T == {m \in Nat : Digits(b, m) \notin Nat \ {0}}
    <2>1. SUFFICES ASSUME T # {}
                   PROVE  FALSE
      OBVIOUS
    <2>2. PICK x \in T : \A y \in T : x <= y
      BY <2>1, Least
    <2>3. x >= b
      BY <1>8
    <2>4. x \div b \in Nat /\ x \div b \notin T
      BY <2>2, <2>3, Quotient
    <2>. QED
      BY <1>8, <2>3, <2>4
  <1>. QED
    BY <1>8, <1>9

\* A larger number has no fewer digits.
LEMMA DigitsGrow ==
    ASSUME NEW b \in Nat, b > 1, NEW m \in Nat, NEW n \in Nat, m <= n
    PROVE  Digits(b, m) <= Digits(b, n)
  <1>. DEFINE T == {k \in Nat : \E l \in Nat : l <= k /\ ~(Digits(b, l) <= Digits(b, k))}
  <1>1. SUFFICES ASSUME T # {}
                 PROVE  FALSE
    OBVIOUS
  <1>2. PICK x \in T : \A y \in T : x <= y
    BY <1>1, Least
  <1>3. PICK l \in Nat : l <= x /\ ~(Digits(b, l) <= Digits(b, x))
    BY <1>2
  <1>4. CASE l < b
    BY <1>3, <1>4, DigitsStep
  <1>5. CASE l >= b
    <2>1. /\ x >= b /\ x \div b \in Nat /\ x \div b < x /\ l \div b \in Nat
          /\ l \div b <= x \div b
      BY <1>3, <1>5, Quotient
    <2>2. Digits(b, l \div b) <= Digits(b, x \div b)
      BY <1>2, <2>1
    <2>3. /\ Digits(b, l) = 1 + Digits(b, l \div b) /\ Digits(b, x) = 1 + Digits(b, x \div b)
          /\ Digits(b, l \div b) \in Nat /\ Digits(b, x \div b) \in Nat
      <3>1. ~(l < b) /\ ~(x < b)
        BY <1>5, <2>1
      <3>. QED
        BY <2>1, <3>1, DigitsStep, Zenon
    <2>. QED
      BY <1>3, <2>2, <2>3
  <1>. QED
    BY <1>4, <1>5

-----------------------------------------------------------------------------
(* Strings.                                                                *)

Byte == {"b", "q", "s", "m", "c"}

LEMMA TextType ==
    ASSUME NEW s \in Text
    PROVE  /\ s \in Seq(Byte) /\ Len(s) \in Nat /\ DOMAIN s = 1..Len(s)
           /\ \A i \in 1..Len(s) :
                 /\ s[i] \in Byte
                 /\ s[i] = "m" => i < Len(s) /\ s[i + 1] = "c"
                 /\ s[i] = "c" => i > 1 /\ s[i - 1] = "m"
  <1>1. s \in Seq(Byte) /\ ValidUTF8(s)
    BY DEF Text, Byte
  <1>2. DOMAIN s = 1..Len(s)
    BY <1>1
  <1>3. \A i \in 1..Len(s) : s[i] \in Byte
    BY <1>1
  <1>4. \A i \in 1..Len(s) : /\ s[i] = "m" => i < Len(s) /\ s[i + 1] = "c"
                             /\ s[i] = "c" => i > 1 /\ s[i - 1] = "m"
    BY <1>1, <1>2, Zenon DEF ValidUTF8
  <1>. QED
    BY <1>1, <1>2, <1>3, <1>4

LEMMA IsText ==
    ASSUME NEW s \in Seq(Byte),
           \A i \in 1..Len(s) : /\ s[i] = "m" => i < Len(s) /\ s[i + 1] = "c"
                                /\ s[i] = "c" => i > 1 /\ s[i - 1] = "m"
    PROVE  s \in Text
  <1>1. DOMAIN s = 1..Len(s)
    OBVIOUS
  <1>2. ValidUTF8(s)
    BY <1>1 DEF ValidUTF8
  <1>. QED
    BY <1>2 DEF Text, Byte

LEMMA EmptyText == <<>> \in Text
  <1>. DEFINE e == <<>>
  <1>1. e \in Seq(Byte) /\ Len(e) = 0 /\ 1..0 = {}
    OBVIOUS
  <1>. HIDE DEF e
  <1>2. \A i \in 1..Len(e) : FALSE
    BY <1>1, Zenon
  <1>3. e \in Text
    BY <1>1, <1>2, IsText, Zenon
  <1>. QED
    BY <1>3, Zenon DEF e

\* runeSafeCut goes back by at most one byte, to the start of a rune.
LEMMA SafeCut ==
    ASSUME NEW s \in Text, NEW cut \in Nat, cut < Len(s)
    PROVE  /\ runeSafeCut(s, cut) \in 0..cut /\ runeSafeCut(s, cut) >= cut - 1
           /\ s[runeSafeCut(s, cut) + 1] # "c"
  <1>. DEFINE P(k) == /\ k = 0 \/ s[k + 1] # "c"
                      /\ \A l \in k + 1..cut : s[l + 1] = "c"
  <1>1. s[1] # "c"
    BY TextType
  <1>2. \E k \in 0..cut : P(k)
    <2>1. CASE s[cut + 1] # "c"
      <3>1. P(cut) /\ cut \in 0..cut
        BY <2>1
      <3>. QED
        BY <3>1
    <2>2. CASE s[cut + 1] = "c"
      <3>1. cut + 1 > 1 /\ s[cut] = "m" /\ cut - 1 \in 0..cut
        BY <2>2, TextType
      <3>2. P(cut - 1)
        BY <2>2, <3>1
      <3>. QED
        BY <3>1, <3>2
    <2>. QED
      BY <2>1, <2>2
  <1>. DEFINE r == CHOOSE k \in 0..cut : P(k)
  <1>3. r \in 0..cut /\ P(r)
    BY <1>2, Zenon
  <1>4. runeSafeCut(s, cut) = r
    BY DEF runeSafeCut
  <1>. HIDE DEF r
  <1>5. s[r + 1] # "c"
    BY <1>1, <1>3
  <1>6. r >= cut - 1
    <2>1. SUFFICES ASSUME r < cut - 1
                   PROVE  FALSE
      BY <1>3
    <2>2. /\ cut \in r + 1..cut /\ cut - 1 \in r + 1..cut /\ cut - 1 + 1 = cut
          /\ cut \in 1..Len(s) /\ cut + 1 \in 1..Len(s) /\ cut + 1 - 1 = cut
      BY <1>3, <2>1, TextType
    <2>3. s[cut + 1] = "c" /\ s[cut] = "c"
      BY <1>3, <2>2
    <2>. QED
      BY <2>2, <2>3, TextType
  <1>. QED
    BY <1>3, <1>4, <1>5, <1>6

LEMMA PrefixText ==
    ASSUME NEW s \in Text, NEW k \in 0..Len(s), k < Len(s) => s[k + 1] # "c"
    PROVE  /\ Prefix(s, k) \in Text /\ Len(Prefix(s, k)) = k
           /\ \A i \in 1..k : Prefix(s, k)[i] = s[i]
  <1>. DEFINE p == SubSeq(s, 1, k)
  <1>1. s \in Seq(Byte) /\ Len(s) \in Nat /\ k \in Nat /\ k <= Len(s)
    BY TextType
  <1>2. p \in Seq(Byte) /\ Len(p) = k /\ \A i \in 1..k : p[i] = s[i]
    BY <1>1
  <1>. HIDE DEF p
  <1>3. ASSUME NEW i \in 1..k
        PROVE  /\ p[i] = "m" => i < k /\ p[i + 1] = "c"
               /\ p[i] = "c" => i > 1 /\ p[i - 1] = "m"
    <2>1. i \in 1..Len(s) /\ i \in Nat /\ i <= k
      BY <1>1
    <2>2. /\ s[i] = "m" => i < Len(s) /\ s[i + 1] = "c"
          /\ s[i] = "c" => i > 1 /\ s[i - 1] = "m"
      BY <2>1, TextType
    <2>3. ASSUME s[i] = "m"
          PROVE  i < k
      BY <1>1, <2>1, <2>2, <2>3
    <2>. QED
      BY <1>2, <2>1, <2>2, <2>3
  <1>4. p \in Text
    BY <1>2, <1>3, IsText
  <1>. QED
    BY <1>2, <1>4 DEF p, Prefix

LEMMA ConcatText ==
    ASSUME NEW s \in Text, NEW t \in Text
    PROVE  /\ s \o t \in Text /\ Len(s \o t) = Len(s) + Len(t)
           /\ \A i \in 1..Len(s) : (s \o t)[i] = s[i]
           /\ \A i \in 1..Len(t) : (s \o t)[Len(s) + i] = t[i]
  <1>. DEFINE w == s \o t
  <1>1. s \in Seq(Byte) /\ t \in Seq(Byte) /\ Len(s) \in Nat /\ Len(t) \in Nat
    BY TextType
  <1>2. /\ w \in Seq(Byte) /\ Len(w) = Len(s) + Len(t)
        /\ \A i \in 1..Len(s) : w[i] = s[i]
        /\ \A i \in 1..Len(t) : w[Len(s) + i] = t[i]
    BY <1>1
  <1>. HIDE DEF w
  <1>3. ASSUME NEW i \in 1..Len(w)
        PROVE  /\ w[i] = "m" => i < Len(w) /\ w[i + 1] = "c"
               /\ w[i] = "c" => i > 1 /\ w[i - 1] = "m"
    <2>1. CASE i <= Len(s)
      <3>1. i \in 1..Len(s) /\ (i < Len(s) => i + 1 \in 1..Len(s)) /\ (i > 1 => i - 1 \in 1..Len(s))
        BY <1>1, <1>2, <2>1
      <3>2. /\ s[i] = "m" => i < Len(s) /\ s[i + 1] = "c"
            /\ s[i] = "c" => i > 1 /\ s[i - 1] = "m"
        BY <3>1, TextType, Zenon
      <3>3. w[i] = s[i]
        BY <1>2, <3>1
      <3>4. ASSUME w[i] = "m"
            PROVE  i < Len(w) /\ w[i + 1] = "c"
        <4>1. i < Len(s) /\ s[i + 1] = "c" /\ i + 1 \in 1..Len(s)
          BY <3>1, <3>2, <3>3, <3>4
        <4>2. w[i + 1] = "c"
          BY <1>2, <4>1, Zenon
        <4>. QED
          BY <1>1, <1>2, <4>1, <4>2
      <3>5. ASSUME w[i] = "c"
            PROVE  i > 1 /\ w[i - 1] = "m"
        <4>1. i > 1 /\ s[i - 1] = "m" /\ i - 1 \in 1..Len(s)
          BY <3>1, <3>2, <3>3, <3>5
        <4>. QED
          BY <1>2, <4>1, Zenon
      <3>. QED
        BY <3>4, <3>5
    <2>2. CASE i > Len(s)
      <3>. DEFINE j == i - Len(s)
      <3>1. /\ j \in 1..Len(t) /\ i = Len(s) + j
            /\ (j < Len(t) => j + 1 \in 1..Len(t)) /\ (j > 1 => j - 1 \in 1..Len(t))
            /\ i + 1 = Len(s) + (j + 1) /\ i - 1 = Len(s) + (j - 1)
        BY <1>1, <1>2, <2>2
      <3>. HIDE DEF j
      <3>2. /\ t[j] = "m" => j < Len(t) /\ t[j + 1] = "c"
            /\ t[j] = "c" => j > 1 /\ t[j - 1] = "m"
        BY <3>1, TextType
      <3>3. w[i] = t[j]
        BY <1>2, <3>1
      <3>4. ASSUME w[i] = "m"
            PROVE  i < Len(w) /\ w[i + 1] = "c"
        <4>1. j < Len(t) /\ t[j + 1] = "c" /\ j + 1 \in 1..Len(t)
          BY <3>1, <3>2, <3>3, <3>4
        <4>2. w[i + 1] = "c"
          BY <1>2, <3>1, <4>1, Zenon
        <4>. QED
          BY <1>1, <1>2, <3>1, <4>1, <4>2
      <3>5. ASSUME w[i] = "c"
            PROVE  i > 1 /\ w[i - 1] = "m"
        <4>1. j > 1 /\ t[j - 1] = "m" /\ j - 1 \in 1..Len(t)
          BY <3>1, <3>2, <3>3, <3>5
        <4>2. w[i - 1] = "m"
          BY <1>2, <3>1, <4>1, Zenon
        <4>. QED
          BY <1>1, <3>1, <4>1, <4>2
      <3>. QED
        BY <3>4, <3>5
    <2>. QED
      BY <1>1, <1>2, <2>1, <2>2
  <1>4. w \in Text
    BY <1>2, <1>3, IsText
  <1>. QED
    BY <1>2, <1>4 DEF w

\* The marker is valid UTF-8 without a quote in it.
LEMMA MarkerText ==
    ASSUME NEW n \in Nat
    PROVE  /\ Marker(n) \in Text /\ Len(Marker(n)) = 2 + Digits(Radix, n)
           /\ Digits(Radix, n) \in Nat
           /\ \A i \in 1..Len(Marker(n)) : Marker(n)[i] # "q"
  <1>. DEFINE d == Digits(Radix, n)
              a == <<"m", "c">>
              z == [i \in 1..d |-> "b"]
  <1>1. d \in Nat
    BY RadixAssumption, DigitsStep
  <1>. HIDE DEF d
  <1>2. a \in Seq(Byte) /\ Len(a) = 2 /\ a[1] = "m" /\ a[2] = "c"
    BY DEF Byte
  <1>3. z \in Seq(Byte) /\ Len(z) = d /\ \A i \in 1..d : z[i] = "b"
    BY <1>1 DEF Byte
  <1>. HIDE DEF a, z
  <1>4. a \in Text
    <2>1. ASSUME NEW i \in 1..Len(a)
          PROVE  /\ a[i] = "m" => i < Len(a) /\ a[i + 1] = "c"
                 /\ a[i] = "c" => i > 1 /\ a[i - 1] = "m"
      BY <1>2
    <2>. QED
      BY <1>2, <2>1, IsText
  <1>5. z \in Text
    <2>1. \A i \in 1..Len(z) : z[i] = "b"
      BY <1>3
    <2>2. \A i \in 1..Len(z) : z[i] # "m" /\ z[i] # "c"
      BY <2>1
    <2>. QED
      BY <1>3, <2>2, IsText
  <1>6. Marker(n) = a \o z
    BY DEF Marker, a, z, d
  <1>7. /\ a \o z \in Text /\ Len(a \o z) = 2 + d
        /\ \A i \in 1..2 : (a \o z)[i] = a[i]
        /\ \A i \in 1..d : (a \o z)[2 + i] = z[i]
    <2>1. /\ a \o z \in Text /\ Len(a \o z) = Len(a) + Len(z)
          /\ \A i \in 1..Len(a) : (a \o z)[i] = a[i]
          /\ \A i \in 1..Len(z) : (a \o z)[Len(a) + i] = z[i]
      BY <1>4, <1>5, ConcatText, Zenon
    <2>. QED
      BY <1>2, <1>3, <2>1, Zenon
  <1>8. ASSUME NEW i \in 1..2 + d
        PROVE  (a \o z)[i] # "q"
    <2>1. CASE i = 1 \/ i = 2
      BY <1>2, <1>7, <2>1
    <2>2. CASE i > 2
      <3>1. i - 2 \in 1..d /\ 2 + (i - 2) = i
        BY <1>1, <2>2
      <3>2. (a \o z)[2 + (i - 2)] = "b"
        BY <1>3, <1>7, <3>1, Zenon
      <3>. QED
        BY <3>1, <3>2
    <2>3. i = 1 \/ i = 2 \/ i > 2
      BY <1>1
    <2>. QED
      BY <2>1, <2>2, <2>3, Zenon
  <1>. QED
    BY <1>1, <1>6, <1>7, <1>8 DEF d

LEMMA IntervalCount ==
    ASSUME NEW n \in Nat
    PROVE  IsFiniteSet(1..n) /\ Cardinality(1..n) = n
  <1>1. 1 \in Int /\ n \in Int
    OBVIOUS
  <1>2. IsFiniteSet(1..n) /\ Cardinality(1..n) = IF 1 > n THEN 0 ELSE n - 1 + 1
    BY <1>1, FS_Interval, Zenon
  <1>. QED
    BY <1>2

LEMMA QuotesType ==
    ASSUME NEW s \in Text
    PROVE  /\ IsFiniteSet({i \in 1..Len(s) : s[i] = "q"})
           /\ Quotes(s) = Cardinality({i \in 1..Len(s) : s[i] = "q"})
           /\ Quotes(s) \in Nat /\ Quotes(s) <= Len(s)
  <1>. DEFINE Q == {i \in 1..Len(s) : s[i] = "q"}
  <1>1. DOMAIN s = 1..Len(s) /\ Len(s) \in Nat
    BY TextType
  <1>2. Quotes(s) = Cardinality(Q)
    BY <1>1 DEF Quotes
  <1>3. IsFiniteSet(1..Len(s)) /\ Cardinality(1..Len(s)) = Len(s)
    BY <1>1, IntervalCount, Zenon
  <1>4. IsFiniteSet(Q) /\ Cardinality(Q) <= Cardinality(1..Len(s))
    BY <1>3, FS_Subset
  <1>5. Cardinality(Q) \in Nat
    BY <1>4, FS_CardinalityType
  <1>. QED
    BY <1>2, <1>3, <1>4, <1>5

\* Where t has a quote s has one: t has no more of them.
LEMMA QuotesLess ==
    ASSUME NEW s \in Text, NEW t \in Text,
           \A i \in 1..Len(t) : t[i] = "q" => i \in 1..Len(s) /\ s[i] = "q"
    PROVE  Quotes(t) <= Quotes(s)
  <1>. DEFINE S == {i \in 1..Len(s) : s[i] = "q"}
              T == {i \in 1..Len(t) : t[i] = "q"}
  <1>1. T \in SUBSET S
    BY Zenon
  <1>2. IsFiniteSet(S) /\ Quotes(s) = Cardinality(S) /\ Quotes(t) = Cardinality(T)
    BY QuotesType, Zenon
  <1>. HIDE DEF S, T
  <1>3. Cardinality(T) <= Cardinality(S)
    BY <1>1, <1>2, FS_Subset
  <1>. QED
    BY <1>2, <1>3, Zenon

\* What truncate returns: something valid that is within the limit, no longer than
\* the string and without further quotes.
LEMMA Truncated ==
    ASSUME NEW s \in Text, NEW max \in Nat
    PROVE  /\ truncate(s, max) \in Text
           /\ Len(truncate(s, max)) <= max /\ Len(truncate(s, max)) <= Len(s)
           /\ Quotes(truncate(s, max)) <= Quotes(s)
           /\ Len(s) <= max => truncate(s, max) = s
  <1>0. Len(s) \in Nat /\ Quotes(s) \in Nat
    BY TextType, QuotesType
  <1>1. CASE Len(s) <= max
    <2>1. truncate(s, max) = s
      BY <1>1 DEF truncate
    <2>. QED
      BY <1>0, <1>1, <2>1
  <1>2. CASE Len(s) > max /\ max <= 0
    <2>1. truncate(s, max) = <<>>
      BY <1>0, <1>2 DEF truncate
    <2>2. Len(<<>>) = 0
      OBVIOUS
    <2>3. Quotes(<<>>) <= Quotes(s)
      <3>. DEFINE e == <<>>
      <3>1. e \in Text /\ Len(e) = 0
        BY EmptyText
      <3>. HIDE DEF e
      <3>2. Quotes(e) \in Nat /\ Quotes(e) <= 0
        BY <3>1, QuotesType
      <3>3. Quotes(e) <= Quotes(s)
        BY <1>0, <3>2
      <3>. QED
        BY <3>3, Zenon DEF e
    <2>. QED
      BY <1>0, <1>2, <2>1, <2>2, <2>3, EmptyText
  <1>. DEFINE room == max - Len(Marker(Len(s)))
              cut == runeSafeCut(s, room)
              low == runeSafeCut(s, max)
  <1>3. Len(Marker(Len(s))) = 2 + Digits(Radix, Len(s)) /\ Digits(Radix, Len(s)) \in Nat
    BY <1>0, MarkerText
  <1>4. CASE Len(s) > max /\ max > 0 /\ room <= 0
    <2>1. truncate(s, max) = Prefix(s, low)
      BY <1>0, <1>4 DEF truncate
    <2>2. low \in 0..max /\ s[low + 1] # "c"
      BY <1>0, <1>4, SafeCut
    <2>. HIDE DEF low
    <2>3. /\ Prefix(s, low) \in Text /\ Len(Prefix(s, low)) = low
          /\ \A i \in 1..low : Prefix(s, low)[i] = s[i]
      BY <1>0, <1>4, <2>2, PrefixText
    <2>4. \A i \in 1..low : i \in 1..Len(s)
      BY <1>0, <1>4, <2>2
    <2>5. Quotes(Prefix(s, low)) <= Quotes(s)
      BY <2>3, <2>4, QuotesLess
    <2>. QED
      BY <1>0, <1>4, <2>1, <2>2, <2>3, <2>5
  <1>5. CASE Len(s) > max /\ max > 0 /\ room > 0
    <2>. DEFINE m == Marker(Len(s) - cut)
                p == Prefix(s, cut)
    <2>1. truncate(s, max) = p \o m
      BY <1>0, <1>3, <1>5 DEF truncate
    <2>2. room \in Nat /\ room < Len(s) /\ max = room + 2 + Digits(Radix, Len(s))
      BY <1>0, <1>3, <1>5
    <2>. HIDE DEF room
    <2>3. cut \in 0..room /\ s[cut + 1] # "c"
      BY <1>0, <2>2, SafeCut
    <2>. HIDE DEF cut
    <2>4. Len(s) - cut \in Nat /\ Len(s) - cut <= Len(s)
      BY <1>0, <2>2, <2>3
    <2>5. p \in Text /\ Len(p) = cut /\ \A i \in 1..cut : p[i] = s[i]
      BY <1>0, <2>2, <2>3, PrefixText
    <2>6. /\ m \in Text /\ Len(m) = 2 + Digits(Radix, Len(s) - cut)
          /\ Digits(Radix, Len(s) - cut) \in Nat
          /\ \A i \in 1..Len(m) : m[i] # "q"
      BY <2>4, MarkerText
    <2>7. Digits(Radix, Len(s) - cut) <= Digits(Radix, Len(s))
      BY <1>0, <2>4, RadixAssumption, DigitsGrow
    <2>. HIDE DEF m, p
    <2>8. /\ p \o m \in Text /\ Len(p \o m) = cut + Len(m)
          /\ \A i \in 1..cut : (p \o m)[i] = p[i]
          /\ \A i \in 1..Len(m) : (p \o m)[cut + i] = m[i]
      BY <2>5, <2>6, ConcatText
    <2>9. ASSUME NEW i \in 1..Len(p \o m), (p \o m)[i] = "q"
          PROVE  i \in 1..Len(s) /\ s[i] = "q"
      <3>1. CASE i <= cut
        BY <1>0, <2>2, <2>3, <2>5, <2>8, <2>9, <3>1
      <3>2. CASE i > cut
        <4>1. i - cut \in 1..Len(m) /\ cut + (i - cut) = i
          BY <2>3, <2>6, <2>8, <3>2
        <4>2. (p \o m)[cut + (i - cut)] = m[i - cut]
          BY <2>8, <4>1, Zenon
        <4>. QED
          BY <2>6, <2>9, <4>1, <4>2
      <3>. QED
        BY <2>3, <3>1, <3>2
    <2>10. Quotes(p \o m) <= Quotes(s)
      BY <2>8, <2>9, QuotesLess
    <2>11. Len(p \o m) <= max
      BY <1>3, <2>2, <2>3, <2>6, <2>7, <2>8, SMTT(30)
    <2>. HIDE DEF low
    <2>. QED
      BY <1>0, <1>5, <2>1, <2>6, <2>8, <2>3, <2>10, <2>11
  <1>. QED
    BY <1>0, <1>1, <1>2, <1>3, <1>4, <1>5

-----------------------------------------------------------------------------
(* Squeeze.                                                                *)

\* How many of the positions in K are not behind k.
UpTo(K, k) == {j \in K : j <= k}
Place(K, k) == Cardinality(UpTo(K, k))

LEMMA PlaceType ==
    ASSUME NEW l \in Nat, NEW K \in SUBSET (1..l), NEW k \in K
    PROVE  /\ IsFiniteSet(K) /\ Cardinality(K) \in Nat
           /\ IsFiniteSet(UpTo(K, k)) /\ Place(K, k) \in 1..Cardinality(K)
  <1>1. IsFiniteSet(K) /\ Cardinality(K) \in Nat
    <2>1. IsFiniteSet(1..l)
      BY IntervalCount
    <2>2. IsFiniteSet(K)
      BY <2>1, FS_Subset, Zenon
    <2>. QED
      BY <2>2, FS_CardinalityType, Zenon
  <1>2. UpTo(K, k) \in SUBSET K /\ k \in UpTo(K, k)
    BY DEF UpTo
  <1>3. IsFiniteSet(UpTo(K, k)) /\ Cardinality(UpTo(K, k)) <= Cardinality(K)
    BY <1>1, <1>2, FS_Subset
  <1>4. Cardinality(UpTo(K, k)) \in Nat /\ Cardinality(UpTo(K, k)) # 0
    BY <1>2, <1>3, FS_CardinalityType, FS_EmptySet
  <1>. QED
    BY <1>1, <1>3, <1>4 DEF Place

LEMMA PlaceGrows ==
    ASSUME NEW l \in Nat, NEW K \in SUBSET (1..l), NEW j \in K, NEW k \in K, j < k
    PROVE  Place(K, j) < Place(K, k)
  <1>1. UpTo(K, j) \in SUBSET UpTo(K, k)
    <2>1. \A i \in K : i <= j => i <= k
      OBVIOUS
    <2>. QED
      BY <2>1, Zenon DEF UpTo
  <1>2. k \in UpTo(K, k) /\ k \notin UpTo(K, j)
    BY DEF UpTo
  <1>3. /\ IsFiniteSet(UpTo(K, k)) /\ Cardinality(K) \in Nat
        /\ Place(K, j) \in 1..Cardinality(K) /\ Place(K, k) \in 1..Cardinality(K)
    BY PlaceType
  <1>4. Place(K, j) <= Place(K, k) /\ Place(K, j) # Place(K, k)
    BY <1>1, <1>2, <1>3, FS_Subset DEF Place
  <1>. QED
    BY <1>3, <1>4

LEMMA PlaceUnique ==
    ASSUME NEW l \in Nat, NEW K \in SUBSET (1..l), NEW j \in K, NEW k \in K,
           Place(K, j) = Place(K, k)
    PROVE  j = k
  <1>1. /\ Cardinality(K) \in Nat
        /\ Place(K, j) \in 1..Cardinality(K) /\ Place(K, k) \in 1..Cardinality(K)
    BY PlaceType
  <1>2. ASSUME j < k
        PROVE  FALSE
    <2>1. Place(K, j) < Place(K, k)
      BY <1>2, PlaceGrows
    <2>. QED
      BY <1>1, <2>1
  <1>3. ASSUME k < j
        PROVE  FALSE
    <2>1. Place(K, k) < Place(K, j)
      BY <1>3, PlaceGrows
    <2>. QED
      BY <1>1, <2>1
  <1>4. j \in Int /\ k \in Int
    OBVIOUS
  <1>. QED
    BY <1>2, <1>3, <1>4

\* Every place is taken.
LEMMA PlaceTaken ==
    ASSUME NEW l \in Nat, NEW K \in SUBSET (1..l), NEW p \in 1..Cardinality(K)
    PROVE  \E k \in K : Place(K, k) = p
  <1>. DEFINE n == Cardinality(K)
              f == [k \in K |-> Place(K, k)]
  <1>1. IsFiniteSet(K) /\ n \in Nat
    <2>1. IsFiniteSet(1..l)
      BY IntervalCount
    <2>2. IsFiniteSet(K)
      BY <2>1, FS_Subset, Zenon
    <2>. QED
      BY <2>2, FS_CardinalityType, Zenon
  <1>2. \A k \in K : Place(K, k) \in 1..n
    BY PlaceType
  <1>3. \A j, k \in K : Place(K, j) = Place(K, k) => j = k
    BY PlaceUnique
  <1>4. f \in [K -> 1..n] /\ \A j, k \in K : f[j] = f[k] => j = k
    BY <1>2, <1>3
  <1>5. f \in Injection(K, 1..n)
    <2>. HIDE DEF f, n
    <2>. QED
      BY <1>4 DEF Injection, IsInjective
  <1>6. IsFiniteSet(1..n) /\ Cardinality(1..n) = n
    BY <1>1, IntervalCount
  <1>7. f \in Surjection(K, 1..n)
    <2>. HIDE DEF f
    <2>. QED
      BY <1>1, <1>5, <1>6, FS_Injection
  <1>8. \E k \in K : f[k] = p
    <2>. HIDE DEF f
    <2>. QED
      BY <1>7 DEF Surjection
  <1>. QED
    BY <1>8

\* Neighbours that are both kept stay neighbours.
LEMMA PlaceNext ==
    ASSUME NEW l \in Nat, NEW K \in SUBSET (1..l), NEW k \in K, k + 1 \in K
    PROVE  Place(K, k + 1) = Place(K, k) + 1
  <1>1. UpTo(K, k + 1) = UpTo(K, k) \cup {k + 1}
    <2>1. \A i \in K : i <= k + 1 <=> i <= k \/ i = k + 1
      OBVIOUS
    <2>. QED
      BY <2>1, Zenon DEF UpTo
  <1>2. k + 1 \notin UpTo(K, k)
    BY DEF UpTo
  <1>3. IsFiniteSet(UpTo(K, k))
    BY PlaceType
  <1>4. Cardinality(UpTo(K, k) \cup {k + 1}) = Cardinality(UpTo(K, k)) + 1
    BY <1>2, <1>3, FS_AddElement
  <1>. QED
    BY <1>1, <1>4 DEF Place

\* Squeezing drops white space only, so that no rune is torn.
LEMMA Squeezed ==
    ASSUME NEW s \in Text
    PROVE  Squeeze(s) \in Text
  <1>. DEFINE Word(i) == s[i] # "s"
              K == {k \in DOMAIN s :
                       \/ Word(k)
                       \/ /\ k < Len(s) /\ Word(k + 1)
                          /\ \E i \in 1..k : Word(i)}
              n == Cardinality(K)
              at(p) == CHOOSE k \in K : Place(K, k) = p
              w == [p \in 1..n |-> s[at(p)]]
  <1>1. Len(s) \in Nat /\ DOMAIN s = 1..Len(s)
    BY TextType
  <1>2. K \in SUBSET (1..Len(s)) /\ \A k \in 1..Len(s) : s[k] # "s" => k \in K
    BY <1>1
  <1>3. Squeeze(s) = w
    BY Zenon DEF Squeeze, Place, UpTo
  <1>. HIDE DEF K
  <1>4. n \in Nat
    <2>1. IsFiniteSet(1..Len(s))
      BY <1>1, IntervalCount
    <2>2. IsFiniteSet(K)
      BY <1>2, <2>1, FS_Subset, Zenon
    <2>. QED
      BY <2>2, FS_CardinalityType, Zenon
  <1>5. ASSUME NEW p \in 1..n
        PROVE  at(p) \in K /\ Place(K, at(p)) = p
    <2>1. \E k \in K : Place(K, k) = p
      BY <1>1, <1>2, PlaceTaken
    <2>. QED
      BY <2>1, Zenon
  <1>6. \A p \in 1..n : s[at(p)] \in Byte
    BY <1>2, <1>5, TextType
  <1>. HIDE DEF at, n
  <1>7. w \in Seq(Byte) /\ Len(w) = n
    BY <1>4, <1>6
  <1>8. ASSUME NEW p \in 1..n
        PROVE  /\ w[p] = "m" => p < n /\ w[p + 1] = "c"
               /\ w[p] = "c" => p > 1 /\ w[p - 1] = "m"
    <2>. DEFINE k == at(p)
    <2>1. k \in K /\ Place(K, k) = p /\ k \in 1..Len(s) /\ w[p] = s[k]
      BY <1>2, <1>5
    <2>. HIDE DEF k
    <2>2. /\ s[k] = "m" => k < Len(s) /\ s[k + 1] = "c"
          /\ s[k] = "c" => k > 1 /\ s[k - 1] = "m"
      BY <2>1, TextType, Zenon
    <2>3. ASSUME s[k] = "m"
          PROVE  p < n /\ w[p + 1] = "c"
      <3>1. k + 1 \in 1..Len(s) /\ s[k + 1] = "c"
        BY <1>1, <2>1, <2>2, <2>3
      <3>2. k + 1 \in K
        BY <1>2, <3>1
      <3>3. Place(K, k + 1) = p + 1
        BY <1>1, <1>2, <2>1, <3>2, PlaceNext
      <3>4. Place(K, k + 1) \in 1..n
        BY <1>1, <1>2, <3>2, PlaceType DEF n
      <3>5. p + 1 \in 1..n
        BY <3>3, <3>4
      <3>6. at(p + 1) \in K /\ Place(K, at(p + 1)) = p + 1
        BY <1>5, <3>5
      <3>7. at(p + 1) = k + 1
        BY <1>1, <1>2, <3>2, <3>3, <3>6, PlaceUnique
      <3>. QED
        BY <1>4, <3>1, <3>5, <3>7
    <2>4. ASSUME s[k] = "c"
          PROVE  p > 1 /\ w[p - 1] = "m"
      <3>1. k - 1 \in 1..Len(s) /\ s[k - 1] = "m" /\ k - 1 + 1 = k
        BY <1>1, <2>1, <2>2, <2>4
      <3>2. k - 1 \in K
        BY <1>2, <3>1
      <3>3. Place(K, k) = Place(K, k - 1) + 1
        BY <1>1, <1>2, <2>1, <3>1, <3>2, PlaceNext
      <3>4. Place(K, k - 1) \in 1..n
        BY <1>1, <1>2, <3>2, PlaceType DEF n
      <3>5. p - 1 \in 1..n /\ Place(K, k - 1) = p - 1
        BY <1>4, <2>1, <3>3, <3>4
      <3>6. at(p - 1) \in K /\ Place(K, at(p - 1)) = p - 1
        BY <1>5, <3>5
      <3>7. at(p - 1) = k - 1
        BY <1>1, <1>2, <3>2, <3>5, <3>6, PlaceUnique
      <3>. QED
        BY <1>4, <3>1, <3>5, <3>7
    <2>. QED
      BY <2>1, <2>3, <2>4
  <1>. HIDE DEF w
  <1>9. w \in Text
    BY <1>7, <1>8, IsText
  <1>. QED
    BY <1>3, <1>9

-----------------------------------------------------------------------------
(* Rows.                                                                   *)

Fields == {"plan", "text", "preview"}

IsRow(r) == Fields \subseteq DOMAIN r /\ \A f \in Fields : r[f] \in Text

Capped(r) == /\ Len(r.plan) <= MaxField /\ Len(r.text) <= MaxField
             /\ Len(r.preview) <= Smaller(MaxField, SmallField)

\* The preview of a text, before it is truncated.
PreviewOf(t) == LET whole == Squeeze(t) IN
                IF Len(whole) > PreviewBytes
                THEN Prefix(whole, runeSafeCut(whole, PreviewBytes))
                ELSE whole

LEMMA PreviewText ==
    ASSUME NEW t \in Text
    PROVE  /\ Squeeze(t) \in Text /\ PreviewOf(t) \in Text
           /\ Len(PreviewOf(t)) <= Smaller(PreviewBytes, Len(Squeeze(t)))
           /\ PreviewOf(t) = Prefix(Squeeze(t), Len(PreviewOf(t)))
           /\ Len(Squeeze(t)) > PreviewBytes => Len(PreviewOf(t)) >= PreviewBytes - 1
  <1>. DEFINE whole == Squeeze(t)
              cut == runeSafeCut(whole, PreviewBytes)
  <1>1. whole \in Text
    BY Squeezed
  <1>2. PreviewOf(t) = IF Len(whole) > PreviewBytes THEN Prefix(whole, cut) ELSE whole
    BY DEF PreviewOf
  <1>3. whole = Squeeze(t)
    OBVIOUS
  <1>. HIDE DEF whole
  <1>4. Len(whole) \in Nat /\ PreviewBytes \in Nat /\ PreviewBytes # 0
    BY <1>1, TextType, PreviewAssumption
  <1>5. CASE Len(whole) > PreviewBytes
    <2>1. cut \in 0..PreviewBytes /\ cut >= PreviewBytes - 1 /\ whole[cut + 1] # "c"
      BY <1>1, <1>4, <1>5, SafeCut
    <2>. HIDE DEF cut
    <2>2. Prefix(whole, cut) \in Text /\ Len(Prefix(whole, cut)) = cut
      BY <1>1, <1>4, <1>5, <2>1, PrefixText
    <2>3. PreviewOf(t) = Prefix(whole, cut)
      BY <1>2, <1>5
    <2>. QED
      BY <1>1, <1>3, <1>4, <1>5, <2>1, <2>2, <2>3 DEF Smaller
  <1>6. CASE Len(whole) <= PreviewBytes
    <2>1. PreviewOf(t) = whole
      BY <1>2, <1>4, <1>6
    <2>2. whole = Prefix(whole, Len(whole))
      BY <1>1, TextType DEF Prefix
    <2>. QED
      BY <1>1, <1>3, <1>4, <1>6, <2>1, <2>2 DEF Smaller
  <1>. QED
    BY <1>4, <1>5, <1>6

\* The row of an event, field by field.
LEMMA Pipeline ==
    ASSUME NEW e \in Events
    PROVE  /\ Fields \subseteq DOMAIN Ingested(e)
           /\ Ingested(e).plan = truncate(IF keepsPlans(RowFromEvent(e)) THEN e.plan ELSE <<>>,
                                          MaxField)
           /\ Ingested(e).text = truncate(e.text, MaxField)
           /\ Ingested(e).preview = truncate(PreviewOf(e.text), Smaller(MaxField, SmallField))
           /\ Ingested(e).wallMS = Millis(UnmarshalJSON(e.wall))
  <1>. DEFINE a == RowFromEvent(e)
              b == ApplyPlanPolicy(a)
              c == WithPreview(b)
              d == TruncateFields(c)
              All == {"plan", "text", "preview", "wallMS", "failed"}
              p == IF keepsPlans(a) THEN e.plan ELSE <<>>
  <1>1. /\ DOMAIN a = All /\ a.plan = e.plan /\ a.text = e.text
        /\ a.wallMS = Millis(UnmarshalJSON(e.wall))
    BY DEF RowFromEvent
  <1>2. DOMAIN b = All /\ b.plan = p /\ b.text = a.text /\ b.wallMS = a.wallMS
    <2>. HIDE DEF a
    <2>1. CASE keepsPlans(a)
      BY <1>1, <2>1 DEF ApplyPlanPolicy
    <2>2. CASE ~keepsPlans(a)
      BY <1>1, <2>2 DEF ApplyPlanPolicy
    <2>. QED
      BY <2>1, <2>2
  <1>3. /\ DOMAIN c = All /\ c.plan = b.plan /\ c.text = b.text /\ c.wallMS = b.wallMS
        /\ c.preview = PreviewOf(b.text)
    <2>. HIDE DEF b
    <2>1. WithPreview(b) = [b EXCEPT !.preview = PreviewOf(b.text)]
      BY DEF WithPreview, PreviewOf
    <2>. QED
      BY <1>2, <2>1
  <1>4. /\ DOMAIN d = All /\ d.plan = truncate(c.plan, MaxField)
        /\ d.text = truncate(c.text, MaxField) /\ d.wallMS = c.wallMS
        /\ d.preview = truncate(c.preview, Smaller(MaxField, SmallField))
    <2>. HIDE DEF c
    <2>. QED
      BY <1>3 DEF TruncateFields
  <1>5. Ingested(e) = d
    BY DEF Ingested
  <1>. HIDE DEF d, c, b
  <1>. QED
    BY <1>1, <1>2, <1>3, <1>4, <1>5 DEF Fields

LEMMA IngestedRow ==
    ASSUME NEW e \in Events
    PROVE  IsRow(Ingested(e)) /\ Capped(Ingested(e))
  <1>. DEFINE p == IF keepsPlans(RowFromEvent(e)) THEN e.plan ELSE <<>>
              small == Smaller(MaxField, SmallField)
  <1>1. e.plan \in Text /\ e.text \in Text /\ p \in Text
    BY EventsAssumption, EmptyText
  <1>2. PreviewOf(e.text) \in Text
    BY <1>1, PreviewText
  <1>3. MaxField \in Nat /\ small \in Nat
    BY CapsAssumption DEF Smaller
  <1>4. /\ Fields \subseteq DOMAIN Ingested(e)
        /\ Ingested(e).plan = truncate(p, MaxField)
        /\ Ingested(e).text = truncate(e.text, MaxField)
        /\ Ingested(e).preview = truncate(PreviewOf(e.text), small)
    BY Pipeline, Zenon
  <1>. HIDE DEF p, small
  <1>5. /\ truncate(p, MaxField) \in Text /\ Len(truncate(p, MaxField)) <= MaxField
        /\ truncate(e.text, MaxField) \in Text /\ Len(truncate(e.text, MaxField)) <= MaxField
        /\ truncate(PreviewOf(e.text), small) \in Text
        /\ Len(truncate(PreviewOf(e.text), small)) <= small
    BY <1>1, <1>2, <1>3, Truncated
  <1>6. IsRow(Ingested(e))
    BY <1>4, <1>5 DEF IsRow, Fields
  <1>7. Capped(Ingested(e))
    BY <1>4, <1>5, Zenon DEF Capped, small
  <1>. QED
    BY <1>6, <1>7

-----------------------------------------------------------------------------
(* Estimates.                                                              *)

LEMMA Tagged ==
    ASSUME NEW f, NEW S, IsFiniteSet(S)
    PROVE  /\ IsFiniteSet({f} \X S) /\ Cardinality({f} \X S) = Cardinality(S)
           /\ Cardinality(S) \in Nat
  <1>1. IsFiniteSet({f}) /\ Cardinality({f}) = 1
    BY FS_Singleton
  <1>2. IsFiniteSet({f} \X S) /\ Cardinality({f} \X S) = Cardinality({f}) * Cardinality(S)
    BY <1>1, FS_Product
  <1>3. Cardinality(S) \in Nat
    BY FS_CardinalityType
  <1>. QED
    BY <1>1, <1>2, <1>3

\* The positions of three fields, each marked with the name of its field.
Marked(S, T, U) == ({"plan"} \X S) \cup ({"text"} \X T) \cup ({"preview"} \X U)

LEMMA MarkedCount ==
    ASSUME NEW S, NEW T, NEW U, IsFiniteSet(S), IsFiniteSet(T), IsFiniteSet(U)
    PROVE  Cardinality(Marked(S, T, U)) = Cardinality(S) + Cardinality(T) + Cardinality(U)
  <1>. DEFINE A == {"plan"} \X S
              B == {"text"} \X T
              C == {"preview"} \X U
  <1>1. /\ IsFiniteSet(A) /\ Cardinality(A) = Cardinality(S) /\ Cardinality(S) \in Nat
        /\ IsFiniteSet(B) /\ Cardinality(B) = Cardinality(T) /\ Cardinality(T) \in Nat
        /\ IsFiniteSet(C) /\ Cardinality(C) = Cardinality(U) /\ Cardinality(U) \in Nat
    BY Tagged
  <1>2. A \cap B = {} /\ (A \cup B) \cap C = {}
    OBVIOUS
  <1>3. Marked(S, T, U) = (A \cup B) \cup C
    BY DEF Marked
  <1>. HIDE DEF A, B, C
  <1>4. Cardinality({}) = 0
    BY FS_EmptySet
  <1>5. IsFiniteSet(A \cup B) /\ Cardinality(A \cup B) = Cardinality(A) + Cardinality(B)
    <2>1. /\ IsFiniteSet(A \cup B)
          /\ Cardinality(A \cup B) = Cardinality(A) + Cardinality(B) - Cardinality(A \cap B)
      BY <1>1, FS_Union, Zenon
    <2>2. Cardinality(A \cap B) = 0
      BY <1>2, <1>4, Zenon
    <2>. QED
      BY <1>1, <2>1, <2>2
  <1>6. Cardinality((A \cup B) \cup C) = Cardinality(A \cup B) + Cardinality(C)
    <2>. DEFINE D == A \cup B
    <2>. HIDE DEF D
    <2>1. Cardinality(D \cup C) = Cardinality(D) + Cardinality(C) - Cardinality(D \cap C)
      BY <1>1, <1>5, FS_Union, Zenon DEF D
    <2>2. Cardinality(D \cap C) = 0
      BY <1>2, <1>4, Zenon DEF D
    <2>3. Cardinality(D) \in Nat
      BY <1>1, <1>5 DEF D
    <2>4. Cardinality(D \cup C) = Cardinality(D) + Cardinality(C)
      BY <1>1, <2>1, <2>2, <2>3
    <2>. QED
      BY <2>4 DEF D
  <1>. QED
    BY <1>1, <1>3, <1>5, <1>6

\* estimateRowBytes counts the bytes that are written.
LEMMA EstimateIsExact ==
    ASSUME NEW r, IsRow(r), Capped(r)
    PROVE  Serialized(r) = estimateRowBytes(r)
  <1>. DEFINE P == r.plan
              T == r.text
              V == r.preview
              Q(s) == {i \in 1..Len(s) : s[i] = "q"}
              Bytes == {b \in {"plan", "text", "preview"} \X (1..MaxField) : b[2] <= Len(r[b[1]])}
              InQuotes == {b \in Bytes : r[b[1]][b[2]] = "q"}
  <1>1. P \in Text /\ T \in Text /\ V \in Text
    BY DEF IsRow, Fields
  <1>2. /\ Len(P) \in 0..MaxField /\ Len(T) \in 0..MaxField /\ Len(V) \in 0..MaxField
        /\ MaxField \in Nat
    BY <1>1, TextType, CapsAssumption DEF Capped, Smaller
  <1>3. ASSUME NEW f \in Fields, NEW i
        PROVE  <<f, i>> \in Bytes <=> i \in 1..Len(r[f])
    BY <1>2 DEF Fields
  <1>4. \A b \in Bytes : \E f \in Fields : \E i \in 1..MaxField : b = <<f, i>>
    BY DEF Fields
  <1>5. Bytes = Marked(1..Len(P), 1..Len(T), 1..Len(V))
    <2>. HIDE DEF Bytes
    <2>1. ASSUME NEW b \in Bytes
          PROVE  b \in Marked(1..Len(P), 1..Len(T), 1..Len(V))
      <3>1. PICK f \in Fields, i \in 1..MaxField : b = <<f, i>>
        BY <1>4
      <3>2. i \in 1..Len(r[f])
        BY <1>3, <2>1, <3>1
      <3>. QED
        BY <3>1, <3>2 DEF Fields, Marked
    <2>2. ASSUME NEW b \in Marked(1..Len(P), 1..Len(T), 1..Len(V))
          PROVE  b \in Bytes
      <3>1. PICK f \in Fields : \E i \in 1..Len(r[f]) : b = <<f, i>>
        BY <2>2 DEF Fields, Marked
      <3>. QED
        BY <1>3, <3>1
    <2>. QED
      BY <2>1, <2>2
  <1>6. InQuotes = Marked(Q(P), Q(T), Q(V))
    <2>1. \A b \in Bytes : b \in InQuotes <=> r[b[1]][b[2]] = "q"
      OBVIOUS
    <2>2. InQuotes \subseteq Bytes
      OBVIOUS
    <2>3. \A f \in Fields : \A i : <<f, i>> \in InQuotes <=> i \in Q(r[f])
      <3>. HIDE DEF Bytes
      <3>. QED
        BY <1>3
    <2>. HIDE DEF Bytes, InQuotes, Q
    <2>4. ASSUME NEW b \in InQuotes
          PROVE  b \in Marked(Q(P), Q(T), Q(V))
      <3>1. PICK f \in Fields, i \in 1..MaxField : b = <<f, i>>
        BY <1>4, <2>2
      <3>2. i \in Q(r[f])
        BY <2>3, <2>4, <3>1
      <3>. QED
        BY <3>1, <3>2 DEF Fields, Marked
    <2>5. ASSUME NEW b \in Marked(Q(P), Q(T), Q(V))
          PROVE  b \in InQuotes
      <3>1. PICK f \in Fields : \E i \in Q(r[f]) : b = <<f, i>>
        BY <2>5 DEF Fields, Marked
      <3>. QED
        BY <2>3, <3>1
    <2>. QED
      BY <2>4, <2>5
  <1>7. Serialized(r) = Framing + Cardinality(Bytes) + Cardinality(InQuotes)
    BY Zenon DEF Serialized
  <1>8. Cardinality(Bytes) = Len(P) + Len(T) + Len(V)
    <2>. HIDE DEF Bytes, P, T, V
    <2>1. /\ IsFiniteSet(1..Len(P)) /\ Cardinality(1..Len(P)) = Len(P)
          /\ IsFiniteSet(1..Len(T)) /\ Cardinality(1..Len(T)) = Len(T)
          /\ IsFiniteSet(1..Len(V)) /\ Cardinality(1..Len(V)) = Len(V)
      BY <1>2, IntervalCount
    <2>. QED
      BY <1>5, <2>1, MarkedCount, SMTT(30)
  <1>9. Cardinality(InQuotes) = Quotes(P) + Quotes(T) + Quotes(V)
    <2>1. /\ IsFiniteSet(Q(P)) /\ Quotes(P) = Cardinality(Q(P))
          /\ IsFiniteSet(Q(T)) /\ Quotes(T) = Cardinality(Q(T))
          /\ IsFiniteSet(Q(V)) /\ Quotes(V) = Cardinality(Q(V))
      BY <1>1, QuotesType, Zenon
    <2>. HIDE DEF InQuotes, P, T, V, Q
    <2>. QED
      BY <1>6, <2>1, MarkedCount
  <1>10. /\ Quotes(P) \in Nat /\ Quotes(T) \in Nat /\ Quotes(V) \in Nat
         /\ Framing \in Nat
    BY <1>1, QuotesType, BudgetAssumption
  <1>11. estimateRowBytes(r) = Framing + (Len(P) + Quotes(P)) + (Len(T) + Quotes(T))
                                       + (Len(V) + Quotes(V))
    BY DEF estimateRowBytes, estimateArgBytes
  <1>. HIDE DEF Bytes, InQuotes, P, T, V
  <1>. QED
    BY <1>2, <1>7, <1>8, <1>9, <1>10, <1>11, SMTT(30)

\* The rounds in which a field of n bytes can be halved, and those of a row.
Rounds(n) == IF n = 0 THEN 0 ELSE Digits(2, n)
RowRounds(r) == Rounds(Len(r.plan)) + Rounds(Len(r.text)) + Rounds(Len(r.preview))

LEMMA RoundsType ==
    ASSUME NEW n \in Nat
    PROVE  Rounds(n) \in Nat /\ (n # 0 => Rounds(n) >= 1)
  <1>1. Digits(2, n) \in Nat \ {0}
    BY DigitsStep
  <1>. QED
    BY <1>1 DEF Rounds

LEMMA RoundsBound ==
    ASSUME NEW n \in Nat, NEW m \in Nat, n <= m
    PROVE  Rounds(n) <= Digits(2, m)
  <1>1. Digits(2, n) \in Nat \ {0} /\ Digits(2, m) \in Nat \ {0} /\ Digits(2, n) <= Digits(2, m)
    BY DigitsStep, DigitsGrow
  <1>. QED
    BY <1>1 DEF Rounds

LEMMA HalvedRounds ==
    ASSUME NEW n \in Nat, n # 0, NEW m \in Nat, m <= n \div 2
    PROVE  Rounds(m) + 1 <= Rounds(n)
  <1>1. Digits(2, n) \in Nat \ {0} /\ Rounds(n) = Digits(2, n)
    BY DigitsStep DEF Rounds
  <1>2. CASE m = 0
    BY <1>1, <1>2 DEF Rounds
  <1>3. CASE m # 0
    <2>1. n \div 2 \in Nat /\ ~(n < 2)
      BY <1>3
    <2>2. Digits(2, n) = 1 + Digits(2, n \div 2)
      BY <2>1, DigitsStep
    <2>3. Rounds(m) <= Digits(2, n \div 2) /\ Rounds(m) \in Nat /\ Digits(2, n \div 2) \in Nat
      BY <2>1, RoundsBound, RoundsType, DigitsStep
    <2>. QED
      BY <1>1, <2>2, <2>3
  <1>. QED
    BY <1>2, <1>3

\* Field f of r is replaced by t.
Replaced(q, r, f, t) == q = [r EXCEPT ![f] = t]

\* It gets shorter, with no more quotes: so does the row.
LEMMA Shrunk ==
    ASSUME NEW r, IsRow(r), NEW f \in Fields, NEW t \in Text,
           Len(t) <= Len(r[f]), Quotes(t) <= Quotes(r[f]),
           NEW q, Replaced(q, r, f, t)
    PROVE  /\ IsRow(q) /\ q[f] = t
           /\ \A g \in Fields \ {f} : q[g] = r[g]
           /\ estimateRowBytes(r) \in Nat /\ estimateRowBytes(q) \in Nat
           /\ estimateRowBytes(q) <= estimateRowBytes(r) - (Len(r[f]) - Len(t))
           /\ RowRounds(r) \in Nat /\ RowRounds(q) \in Nat
           /\ RowRounds(q) = RowRounds(r) - Rounds(Len(r[f])) + Rounds(Len(t))
  <1>1. q[f] = t /\ (\A g \in Fields \ {f} : q[g] = r[g]) /\ DOMAIN q = DOMAIN r
    BY DEF IsRow, Replaced
  <1>2. IsRow(q)
    BY <1>1 DEF IsRow
  <1>3. ASSUME NEW x, IsRow(x)
        PROVE  \A g \in Fields : /\ Len(x[g]) \in Nat /\ Quotes(x[g]) \in Nat
                                 /\ Rounds(Len(x[g])) \in Nat
    <2>1. ASSUME NEW g \in Fields
          PROVE  /\ Len(x[g]) \in Nat /\ Quotes(x[g]) \in Nat
                 /\ Rounds(Len(x[g])) \in Nat
      <3>1. x[g] \in Text
        BY <1>3 DEF IsRow
      <3>2. Len(x[g]) \in Nat
        BY <3>1, TextType, Zenon
      <3>. QED
        BY <3>1, <3>2, QuotesType, RoundsType, Zenon
    <2>. QED
      BY <2>1
  <1>4. \A g \in Fields : /\ Len(r[g]) \in Nat /\ Quotes(r[g]) \in Nat
                          /\ Rounds(Len(r[g])) \in Nat
    BY <1>3
  <1>5. \A g \in Fields : /\ Len(q[g]) \in Nat /\ Quotes(q[g]) \in Nat
                          /\ Rounds(Len(q[g])) \in Nat
    BY <1>2, <1>3
  <1>6. Framing \in Nat
    BY BudgetAssumption
  <1>. DEFINE E(x, g) == estimateArgBytes(x[g])
              W(x, g) == Rounds(Len(x[g]))
  <1>7. \A x : /\ estimateRowBytes(x) = Framing + E(x, "plan") + E(x, "text") + E(x, "preview")
               /\ RowRounds(x) = W(x, "plan") + W(x, "text") + W(x, "preview")
    BY DEF estimateRowBytes, RowRounds
  <1>8. \A g \in Fields : E(r, g) \in Nat /\ W(r, g) \in Nat /\ E(q, g) \in Nat /\ W(q, g) \in Nat
    BY <1>4, <1>5, SMTT(30) DEF estimateArgBytes
  <1>9. \A g \in Fields \ {f} : E(q, g) = E(r, g) /\ W(q, g) = W(r, g)
    BY <1>1
  <1>. DEFINE by == Len(r[f]) - Len(t)
  <1>10. by \in Nat /\ E(q, f) <= E(r, f) - by
    <2>1. Len(r[f]) \in Nat /\ Len(t) \in Nat /\ Quotes(r[f]) \in Nat /\ Quotes(t) \in Nat
      BY <1>4, TextType, QuotesType
    <2>2. E(q, f) = Len(t) + Quotes(t) /\ E(r, f) = Len(r[f]) + Quotes(r[f])
      BY <1>1 DEF estimateArgBytes
    <2>. HIDE DEF E
    <2>. QED
      BY <2>1, <2>2
  <1>11. W(q, f) = Rounds(Len(t)) /\ W(r, f) = Rounds(Len(r[f]))
    BY <1>1
  <1>. HIDE DEF E, W, by
  <1>. DEFINE a == E(r, "plan")     x == E(q, "plan")     k == W(r, "plan")     u == W(q, "plan")
              b == E(r, "text")     y == E(q, "text")     l == W(r, "text")     v == W(q, "text")
              c == E(r, "preview")  z == E(q, "preview")  m == W(r, "preview")  w == W(q, "preview")
  <1>12. a \in Nat /\ b \in Nat /\ c \in Nat /\ x \in Nat /\ y \in Nat /\ z \in Nat
    BY <1>8 DEF Fields
  <1>13. k \in Nat /\ l \in Nat /\ m \in Nat /\ u \in Nat /\ v \in Nat /\ w \in Nat
    BY <1>8 DEF Fields
  <1>14. /\ estimateRowBytes(r) = Framing + a + b + c /\ RowRounds(r) = k + l + m
         /\ estimateRowBytes(q) = Framing + x + y + z /\ RowRounds(q) = u + v + w
    BY <1>7, Zenon
  <1>15. \/ /\ x <= a - by /\ y = b /\ z = c /\ v = l /\ w = m /\ W(r, f) = k /\ W(q, f) = u
         \/ /\ y <= b - by /\ x = a /\ z = c /\ u = k /\ w = m /\ W(r, f) = l /\ W(q, f) = v
         \/ /\ z <= c - by /\ x = a /\ y = b /\ u = k /\ v = l /\ W(r, f) = m /\ W(q, f) = w
    <2>1. CASE f = "plan"
      BY <1>9, <1>10, <2>1 DEF Fields
    <2>2. CASE f = "text"
      BY <1>9, <1>10, <2>2 DEF Fields
    <2>3. CASE f = "preview"
      BY <1>9, <1>10, <2>3 DEF Fields
    <2>. QED
      BY <2>1, <2>2, <2>3, Zenon DEF Fields
  <1>. HIDE DEF a, b, c, x, y, z, k, l, m, u, v, w
  <1>16. /\ estimateRowBytes(r) \in Nat /\ estimateRowBytes(q) \in Nat
         /\ estimateRowBytes(q) <= estimateRowBytes(r) - by
    BY <1>6, <1>10, <1>12, <1>14, <1>15
  <1>17. /\ RowRounds(r) \in Nat /\ RowRounds(q) \in Nat
         /\ RowRounds(q) = RowRounds(r) - W(r, f) + W(q, f)
    BY <1>13, <1>14, <1>15, SMTT(30)
  <1>. QED
    BY <1>1, <1>2, <1>11, <1>16, <1>17 DEF by

-----------------------------------------------------------------------------
(* The invariant.                                                          *)

\* The row, however far it is.
RowInv ==
    /\ event \in Events /\ pc \in {"received", "buffered", "clamping", "clamped"}
    /\ IsRow(row) /\ Capped(row)
    /\ pc = "buffered" => row = Ingested(event)

\* What clampRow has done to it: it only shortens, and an earlier field first.
CutInv ==
    /\ pc \in {"clamping", "clamped"} =>
            \A f \in Fields : Len(row[f]) <= Len(Ingested(event)[f])
    /\ EarlierFieldsFirst

\* The loop of clampRow: while the row is too large there are rounds left to halve
\* each of its fields until it is empty.
ClampInv ==
    /\ pc \in {"clamping", "clamped"} => est = estimateRowBytes(row)
    /\ pc = "clamping" =>
            iter \in Nat /\ (est > Budget => iter + RowRounds(row) <= ClampMaxIterations)
    /\ pc = "clamped" => est <= Budget

Inv == RowInv /\ CutInv /\ ClampInv

LEMMA RowNumbers ==
    ASSUME NEW r, IsRow(r)
    PROVE  /\ \A f \in Fields : Len(r[f]) \in Nat /\ Quotes(r[f]) \in Nat
           /\ estimateRowBytes(r) \in Nat /\ RowRounds(r) \in Nat
  <1>1. ASSUME NEW f \in Fields
        PROVE  r[f] \in Text /\ Len(r[f]) \in Nat /\ Quotes(r[f]) \in Nat
    <2>1. r[f] \in Text
      BY DEF IsRow
    <2>. QED
      BY <2>1, TextType, QuotesType, Zenon
  <1>2. "plan" \in Fields
    BY DEF Fields
  <1>3. Len(r["plan"]) <= Len(r["plan"]) /\ Quotes(r["plan"]) <= Quotes(r["plan"])
    BY <1>1, <1>2
  <1>4. Replaced([r EXCEPT !["plan"] = r["plan"]], r, "plan", r["plan"])
    BY Zenon DEF Replaced
  <1>5. estimateRowBytes(r) \in Nat /\ RowRounds(r) \in Nat
    BY <1>1, <1>2, <1>3, <1>4, Shrunk, Zenon
  <1>. QED
    BY <1>1, <1>5

\* A row whose fields are empty fits; any other one can be halved.
LEMMA EmptyFits ==
    ASSUME NEW r, IsRow(r)
    PROVE  /\ (\A f \in Fields : r[f] = <<>>) => estimateRowBytes(r) <= Budget
           /\ \A f \in Fields : r[f] # <<>> => RowRounds(r) >= 1 /\ Len(r[f]) # 0
  <1>1. ASSUME \A f \in Fields : r[f] = <<>>
        PROVE  estimateRowBytes(r) <= Budget
    <2>. DEFINE e == <<>>
    <2>1. e \in Text /\ Len(e) = 0
      BY EmptyText
    <2>2. r.plan = e /\ r.text = e /\ r.preview = e
      BY <1>1 DEF Fields
    <2>. HIDE DEF e
    <2>3. Quotes(e) = 0
      <3>1. Quotes(e) \in Nat /\ Quotes(e) <= Len(e)
        BY <2>1, QuotesType, Zenon
      <3>. QED
        BY <2>1, <3>1
    <2>4. estimateArgBytes(e) = 0
      BY <2>1, <2>3 DEF estimateArgBytes
    <2>5. estimateRowBytes(r) = Framing + 0 + 0 + 0
      BY <2>2, <2>4, Zenon DEF estimateRowBytes
    <2>. QED
      BY <2>5, BudgetAssumption
  <1>2. ASSUME NEW f \in Fields, r[f] # <<>>
        PROVE  RowRounds(r) >= 1 /\ Len(r[f]) # 0
    <2>1. r[f] \in Seq(Byte)
      BY TextType DEF IsRow
    <2>2. Len(r[f]) # 0
      BY <1>2, <2>1
    <2>. DEFINE W(g) == Rounds(Len(r[g]))
    <2>3. \A g \in Fields : W(g) \in Nat
      BY RowNumbers, RoundsType
    <2>4. W(f) >= 1
      BY <2>2, RowNumbers, RoundsType
    <2>5. RowRounds(r) = W("plan") + W("text") + W("preview")
      BY DEF RowRounds
    <2>. HIDE DEF W
    <2>6. RowRounds(r) >= 1
      <3>1. W("plan") \in Nat /\ W("text") \in Nat /\ W("preview") \in Nat
        BY <2>3 DEF Fields
      <3>2. W("plan") >= 1 \/ W("text") >= 1 \/ W("preview") >= 1
        BY <2>4 DEF Fields
      <3>. QED
        BY <2>5, <3>1, <3>2
    <2>. QED
      BY <2>2, <2>6
  <1>. QED
    BY <1>1, <1>2

LEMMA FieldNames ==
    /\ \A i \in 1..3 : stringFields[i] \in Fields
    /\ \A f \in Fields : \E i \in 1..3 : f = stringFields[i]
    /\ \A i, j \in 1..3 : stringFields[i] = stringFields[j] => i = j
  <1>1. stringFields[1] = "plan" /\ stringFields[2] = "text" /\ stringFields[3] = "preview"
    BY DEF stringFields
  <1>2. \A i \in 1..3 : i = 1 \/ i = 2 \/ i = 3
    OBVIOUS
  <1>. QED
    BY <1>1, <1>2 DEF Fields

\* One round: the field gets shorter, and at least by half if the row is still too large.
LEMMA Round ==
    ASSUME Inv, NEW i \in 1..3, clampRow(i)
    PROVE  \E t \in Text :
              LET f == stringFields[i] IN
              /\ f \in Fields /\ pc = "clamping" /\ Replaced(row', row, f, t)
              /\ Len(row[f]) \in Nat /\ Len(row[f]) # 0
              /\ Len(t) < Len(row[f]) /\ Quotes(t) <= Quotes(row[f])
              /\ est' = estimateRowBytes(row') /\ est' \in Nat /\ pc' = "clamping"
              /\ est' > Budget => Len(t) <= Len(row[f]) \div 2
  <1>. DEFINE f == stringFields[i]
              n == Len(row[f])
              target == Larger(n - (est - Budget), n \div 2)
              t == truncate(row[f], target)
  <1>1. /\ pc = "clamping" /\ est > Budget /\ row[f] # <<>> /\ iter < ClampMaxIterations
        /\ Replaced(row', row, f, t) /\ est' = estimateRowBytes(row')
        /\ pc' = IF est' < est THEN "clamping" ELSE "clamped"
    BY Zenon DEF clampRow, Replaced
  <1>2. f \in Fields
    BY FieldNames
  <1>3. IsRow(row) /\ est = estimateRowBytes(row)
    BY <1>1 DEF Inv, RowInv, ClampInv
  <1>4. row[f] \in Text /\ n \in Nat /\ n # 0 /\ est \in Nat /\ Budget \in Nat
    BY <1>1, <1>2, <1>3, RowNumbers, EmptyFits, BudgetAssumption DEF IsRow
  <1>. HIDE DEF f
  <1>5. target \in Nat /\ target < n /\ (target = n - (est - Budget) \/ target = n \div 2)
    <2>. HIDE DEF n
    <2>. QED
      BY <1>1, <1>4 DEF Larger
  <1>. HIDE DEF target
  <1>6. t \in Text /\ Len(t) <= target /\ Quotes(t) <= Quotes(row[f]) /\ Len(t) \in Nat
    BY <1>4, <1>5, Truncated, TextType
  <1>. HIDE DEF t
  <1>7. Len(t) < n /\ Len(t) <= Len(row[f])
    BY <1>4, <1>5, <1>6
  <1>8. est' \in Nat /\ est' <= est - (n - Len(t))
    BY <1>1, <1>2, <1>3, <1>6, <1>7, Shrunk
  <1>. HIDE DEF n
  <1>9. est' < est
    BY <1>4, <1>6, <1>7, <1>8
  <1>10. ASSUME est' > Budget
         PROVE  Len(t) <= n \div 2
    BY <1>4, <1>5, <1>6, <1>8, <1>10
  <1>11. pc' = "clamping"
    BY <1>1, <1>9
  <1>. QED
    BY <1>1, <1>2, <1>4, <1>6, <1>7, <1>8, <1>10, <1>11 DEF f, n

\* A step leaves the row whole and within the caps.
LEMMA RowKept ==
    ASSUME Inv, Next
    PROVE  RowInv'
  <1>1. CASE Ingest
    BY <1>1, IngestedRow DEF Inv, RowInv, Ingest
  <1>2. CASE SplitBatch
    BY <1>2 DEF Inv, RowInv, SplitBatch, IsRow, Capped
  <1>3. CASE ClampEnds
    BY <1>3 DEF Inv, RowInv, ClampEnds, IsRow, Capped
  <1>4. CASE Clamped
    BY <1>4 DEF Inv, RowInv, Clamped, vars, IsRow, Capped
  <1>5. ASSUME NEW i \in 1..3, clampRow(i)
        PROVE  RowInv'
    <2>. DEFINE f == stringFields[i]
    <2>1. PICK t \in Text :
              /\ f \in Fields /\ Replaced(row', row, f, t) /\ pc' = "clamping"
              /\ Len(row[f]) \in Nat /\ Len(t) < Len(row[f]) /\ Quotes(t) <= Quotes(row[f])
      BY <1>5, Round
    <2>. HIDE DEF f
    <2>2. IsRow(row) /\ Capped(row) /\ event \in Events
      BY DEF Inv, RowInv
    <2>3. Len(t) \in Nat /\ Len(t) <= Len(row[f])
      BY <2>1, TextType
    <2>4. IsRow(row') /\ row'[f] = t /\ \A g \in Fields \ {f} : row'[g] = row[g]
      BY <2>1, <2>2, <2>3, Shrunk
    <2>5. \A g \in Fields : Len(row'[g]) \in Nat /\ Len(row[g]) \in Nat /\ Len(row'[g]) <= Len(row[g])
      BY <2>2, <2>3, <2>4, RowNumbers
    <2>6. MaxField \in Nat /\ Smaller(MaxField, SmallField) \in Nat
      BY CapsAssumption DEF Smaller
    <2>7. Capped(row')
      BY <2>2, <2>5, <2>6, SMTT(30) DEF Capped, Fields
    <2>8. event' = event
      BY <1>5 DEF clampRow
    <2>. QED
      BY <2>1, <2>2, <2>4, <2>7, <2>8 DEF RowInv
  <1>. QED
    BY <1>1, <1>2, <1>3, <1>4, <1>5 DEF Next

LEMMA CutKept ==
    ASSUME Inv, Next
    PROVE  CutInv'
  <1>1. CASE Ingest
    BY <1>1 DEF CutInv, EarlierFieldsFirst, Ingest
  <1>2. CASE SplitBatch
    <2>1. row' = Ingested(event)' /\ event \in Events
      BY <1>2 DEF SplitBatch, Inv, RowInv
    <2>2. row' = Ingested(event') /\ event' \in Events
      BY <1>2, <2>1 DEF SplitBatch
    <2>3. IsRow(row') /\ \A f \in Fields : Len(row'[f]) \in Nat
      BY <2>2, IngestedRow, RowNumbers
    <2>. QED
      BY <2>2, <2>3, FieldNames DEF CutInv, EarlierFieldsFirst
  <1>3. CASE ClampEnds
    BY <1>3 DEF Inv, CutInv, EarlierFieldsFirst, ClampEnds
  <1>4. CASE Clamped
    BY <1>4 DEF Inv, CutInv, EarlierFieldsFirst, Clamped, vars
  <1>5. ASSUME NEW i \in 1..3, clampRow(i)
        PROVE  CutInv'
    <2>. DEFINE f == stringFields[i]
                I == Ingested(event)
    <2>1. PICK t \in Text :
              /\ f \in Fields /\ pc = "clamping" /\ Replaced(row', row, f, t) /\ pc' = "clamping"
              /\ Len(row[f]) \in Nat /\ Len(t) < Len(row[f]) /\ Quotes(t) <= Quotes(row[f])
      BY <1>5, Round
    <2>2. IsRow(row) /\ IsRow(I)
      BY IngestedRow DEF Inv, RowInv
    <2>3. Len(t) \in Nat /\ Len(t) <= Len(row[f])
      BY <2>1, TextType
    <2>4. IsRow(row') /\ row'[f] = t /\ \A g \in Fields \ {f} : row'[g] = row[g]
      BY <2>1, <2>2, <2>3, Shrunk
    <2>5. \A g \in Fields : Len(row'[g]) \in Nat /\ Len(row[g]) \in Nat /\ Len(row'[g]) <= Len(row[g])
                            /\ Len(I[g]) \in Nat
      BY <2>2, <2>3, <2>4, RowNumbers, SMTT(30)
    <2>6. event' = event /\ Ingested(event)' = I
      BY <1>5 DEF clampRow
    <2>7. \A g \in Fields : Len(row[g]) <= Len(I[g])
      BY <2>1 DEF Inv, CutInv
    <2>8. Largest(row, i)
      BY <1>5 DEF clampRow
    <2>9. \A j, k \in 1..3 : j < k /\ row[stringFields[k]] # I[stringFields[k]] =>
                Len(row[stringFields[j]]) < Len(I[stringFields[k]])
      BY <2>1 DEF Inv, CutInv, EarlierFieldsFirst
    <2>. HIDE DEF I
    <2>10. \A g \in Fields : Len(row'[g]) <= Len(I[g])
      BY <2>5, <2>7
    <2>11. ASSUME NEW j \in 1..3, NEW k \in 1..3, j < k,
                  row'[stringFields[k]] # I[stringFields[k]]
           PROVE  Len(row'[stringFields[j]]) < Len(I[stringFields[k]])
      <3>. DEFINE a == stringFields[j]
                  b == stringFields[k]
      <3>1. a \in Fields /\ b \in Fields
        BY FieldNames
      <3>2. CASE k = i
        <4>1. Len(row[a]) < Len(row[b])
          BY <2>8, <2>11, <3>2 DEF Largest
        <4>. HIDE DEF a, b
        <4>2. Len(row'[a]) < Len(I[b])
          BY <2>5, <2>7, <3>1, <4>1
        <4>. QED
          BY <4>2 DEF a, b
      <3>3. CASE k # i
        <4>1. b # f
          BY <3>3, FieldNames
        <4>2. row'[b] = row[b]
          BY <2>4, <3>1, <4>1
        <4>3. Len(row[a]) < Len(I[b])
          BY <2>9, <2>11, <4>2
        <4>. HIDE DEF a, b
        <4>4. Len(row'[a]) < Len(I[b])
          BY <2>5, <3>1, <4>3
        <4>. QED
          BY <4>4 DEF a, b
      <3>. QED
        BY <3>2, <3>3
    <2>. QED
      BY <2>6, <2>10, <2>11 DEF CutInv, EarlierFieldsFirst
  <1>. QED
    BY <1>1, <1>2, <1>3, <1>4, <1>5 DEF Next

LEMMA ClampKept ==
    ASSUME Inv, Next
    PROVE  ClampInv'
  <1>1. CASE Ingest
    BY <1>1 DEF ClampInv, Ingest
  <1>2. CASE SplitBatch
    <2>1. IsRow(row) /\ Capped(row)
      BY DEF Inv, RowInv
    <2>2. /\ Len(row.plan) \in Nat /\ Len(row.text) \in Nat /\ Len(row.preview) \in Nat
          /\ MaxField \in Nat
          /\ Len(row.plan) <= MaxField /\ Len(row.text) <= MaxField /\ Len(row.preview) <= MaxField
      BY <2>1, RowNumbers, CapsAssumption DEF Capped, Smaller, Fields
    <2>. DEFINE D == Digits(2, MaxField)
                a == Rounds(Len(row.plan))
                b == Rounds(Len(row.text))
                c == Rounds(Len(row.preview))
    <2>3. a <= D /\ b <= D /\ c <= D /\ a \in Nat /\ b \in Nat /\ c \in Nat
      BY <2>2, RoundsBound, RoundsType
    <2>4. D \in Nat /\ ClampMaxIterations \in Nat /\ 3 * D <= ClampMaxIterations
      BY <2>2, DigitsStep, IterationsAssumption
    <2>5. RowRounds(row) = a + b + c
      BY DEF RowRounds
    <2>. HIDE DEF D, a, b, c
    <2>6. 0 + RowRounds(row) <= ClampMaxIterations
      BY <2>3, <2>4, <2>5
    <2>. QED
      BY <1>2, <2>6 DEF ClampInv, SplitBatch
  <1>3. CASE ClampEnds
    <2>1. /\ pc = "clamping" /\ pc' = "clamped" /\ row' = row /\ est' = est
          /\ est > Budget /\ iter < ClampMaxIterations =>
                 \A i \in 1..3 : row[stringFields[i]] = <<>>
      BY <1>3 DEF ClampEnds
    <2>2. /\ IsRow(row) /\ est = estimateRowBytes(row) /\ iter \in Nat
          /\ est > Budget => iter + RowRounds(row) <= ClampMaxIterations
      BY <2>1 DEF Inv, RowInv, ClampInv
    <2>3. RowRounds(row) \in Nat /\ est \in Nat /\ Budget \in Nat /\ ClampMaxIterations \in Nat
      BY <2>2, RowNumbers, BudgetAssumption, IterationsAssumption
    <2>4. ASSUME est > Budget
          PROVE  FALSE
      <3>1. ~ \A f \in Fields : row[f] = <<>>
        BY <2>2, <2>3, <2>4, EmptyFits
      <3>2. RowRounds(row) >= 1
        BY <2>2, <3>1, EmptyFits
      <3>3. iter < ClampMaxIterations
        BY <2>2, <2>3, <2>4, <3>2
      <3>4. \A f \in Fields : row[f] = <<>>
        BY <2>1, <2>4, <3>3, FieldNames
      <3>. QED
        BY <3>1, <3>4
    <2>5. est <= Budget
      BY <2>3, <2>4
    <2>. QED
      BY <2>1, <2>2, <2>5 DEF ClampInv
  <1>4. CASE Clamped
    BY <1>4 DEF Inv, ClampInv, Clamped, vars
  <1>5. ASSUME NEW i \in 1..3, clampRow(i)
        PROVE  ClampInv'
    <2>. DEFINE f == stringFields[i]
    <2>1. PICK t \in Text :
              /\ f \in Fields /\ pc = "clamping" /\ Replaced(row', row, f, t)
              /\ Len(row[f]) \in Nat /\ Len(row[f]) # 0
              /\ Len(t) < Len(row[f]) /\ Quotes(t) <= Quotes(row[f])
              /\ est' = estimateRowBytes(row') /\ est' \in Nat /\ pc' = "clamping"
              /\ est' > Budget => Len(t) <= Len(row[f]) \div 2
      BY <1>5, Round
    <2>. HIDE DEF f
    <2>2. /\ IsRow(row) /\ iter \in Nat
          /\ est > Budget => iter + RowRounds(row) <= ClampMaxIterations
      BY <2>1 DEF Inv, RowInv, ClampInv
    <2>3. est > Budget /\ iter' = iter + 1
      BY <1>5 DEF clampRow
    <2>4. Len(t) \in Nat /\ Len(t) <= Len(row[f])
      BY <2>1, TextType
    <2>5. /\ RowRounds(row) \in Nat /\ RowRounds(row') \in Nat
          /\ RowRounds(row') = RowRounds(row) - Rounds(Len(row[f])) + Rounds(Len(t))
      BY <2>1, <2>2, <2>4, Shrunk
    <2>6. ASSUME est' > Budget
          PROVE  iter' + RowRounds(row') <= ClampMaxIterations
      <3>1. Rounds(Len(t)) + 1 <= Rounds(Len(row[f]))
        BY <2>1, <2>4, <2>6, HalvedRounds
      <3>2. Rounds(Len(t)) \in Nat /\ Rounds(Len(row[f])) \in Nat /\ ClampMaxIterations \in Nat
        BY <2>1, <2>4, RoundsType, IterationsAssumption
      <3>. QED
        BY <2>2, <2>3, <2>5, <3>1, <3>2, SMTT(30)
    <2>7. iter' \in Nat
      BY <2>2, <2>3
    <2>. QED
      BY <2>1, <2>6, <2>7 DEF ClampInv
  <1>. QED
    BY <1>1, <1>2, <1>3, <1>4, <1>5 DEF Next

LEMMA Invariance == Spec => []Inv
  <1>1. Init => Inv
    <2>1. SUFFICES ASSUME Init
                   PROVE  Inv
      OBVIOUS
    <2>. DEFINE e == <<>>
    <2>2. e \in Text /\ Len(e) = 0
      BY EmptyText
    <2>3. row = [plan |-> e, text |-> e, preview |-> e, wallMS |-> 0, failed |-> FALSE]
      BY <2>1, Zenon DEF Init
    <2>. HIDE DEF e
    <2>4. IsRow(row) /\ row.plan = e /\ row.text = e /\ row.preview = e
      BY <2>2, <2>3 DEF IsRow, Fields
    <2>5. Capped(row)
      BY <2>2, <2>4, CapsAssumption DEF Capped, Smaller
    <2>6. event \in Events /\ pc = "received"
      BY <2>1 DEF Init
    <2>7. pc \notin {"buffered", "clamping", "clamped"}
      BY <2>6
    <2>8. RowInv
      BY <2>4, <2>5, <2>6, <2>7 DEF RowInv
    <2>9. CutInv
      BY <2>7, Zenon DEF CutInv, EarlierFieldsFirst
    <2>10. ClampInv
      BY <2>7, Zenon DEF ClampInv
    <2>. QED
      BY <2>8, <2>9, <2>10 DEF Inv
  <1>2. Inv /\ [Next]_vars => Inv'
    <2>1. ASSUME Inv, Next
          PROVE  Inv'
      BY <2>1, RowKept, CutKept, ClampKept DEF Inv
    <2>2. ASSUME Inv, UNCHANGED vars
          PROVE  Inv'
      BY <2>2 DEF Inv, RowInv, CutInv, ClampInv, EarlierFieldsFirst, IsRow, Capped, vars
    <2>. QED
      BY <2>1, <2>2
  <1>. QED
    BY <1>1, <1>2, PTL DEF Spec

-----------------------------------------------------------------------------
(* Theorems.                                                               *)

\* Whatever strings an event has and however often clampRow cuts them, truncate and
\* runeSafeCut leave valid UTF-8 within MAX_FIELD_BYTES and maxSmallFieldBytes, the
\* marker with its count included.
THEOREM FieldsStayValid == Spec => []FieldsValidAndCapped
  <1>1. Inv => FieldsValidAndCapped
    <2>1. SUFFICES ASSUME Inv
                   PROVE  FieldsValidAndCapped
      OBVIOUS
    <2>2. \A i \in 1..3 : row[stringFields[i]] \in Text
      <3>1. IsRow(row)
        BY <2>1 DEF Inv, RowInv
      <3>. QED
        BY <3>1, FieldNames, Zenon DEF IsRow
    <2>3. \A i \in 1..3 : ValidUTF8(row[stringFields[i]])
      BY <2>2, Zenon DEF Text
    <2>4. Capped(row)
      BY <2>1 DEF Inv, RowInv
    <2>. QED
      BY <2>3, <2>4, Zenon DEF Capped, FieldsValidAndCapped
  <1>. QED
    BY <1>1, Invariance, PTL

\* The preview that WithPreview takes before TruncateFields cuts the text is the
\* beginning of the whole text, for every text.
THEOREM PreviewIsOfWholeText == Spec => []PreviewOfWholeText
  <1>1. Inv => PreviewOfWholeText
    <2>1. SUFFICES ASSUME Inv, pc = "buffered", PreviewBytes <= Smaller(MaxField, SmallField)
                   PROVE  LET whole == Squeeze(event.text) IN
                          /\ Len(row.preview) <= Smaller(PreviewBytes, Len(whole))
                          /\ row.preview = Prefix(whole, Len(row.preview))
                          /\ Len(whole) > PreviewBytes => Len(row.preview) >= PreviewBytes - 1
      BY DEF PreviewOfWholeText
    <2>. DEFINE small == Smaller(MaxField, SmallField)
                p == PreviewOf(event.text)
    <2>2. event \in Events /\ row = Ingested(event)
      BY <2>1 DEF Inv, RowInv
    <2>3. event.text \in Text
      BY <2>2, EventsAssumption
    <2>4. row.preview = truncate(p, small)
      BY <2>2, Pipeline
    <2>5. /\ p \in Text /\ Squeeze(event.text) \in Text
          /\ Len(p) <= Smaller(PreviewBytes, Len(Squeeze(event.text)))
          /\ p = Prefix(Squeeze(event.text), Len(p))
          /\ Len(Squeeze(event.text)) > PreviewBytes => Len(p) >= PreviewBytes - 1
      BY <2>3, PreviewText
    <2>6. /\ Len(p) \in Nat /\ Len(Squeeze(event.text)) \in Nat /\ small \in Nat
          /\ PreviewBytes \in Nat
      BY <2>5, TextType, CapsAssumption, PreviewAssumption DEF Smaller
    <2>. HIDE DEF p
    <2>7. Len(p) <= small
      BY <2>1, <2>5, <2>6 DEF Smaller
    <2>8. truncate(p, small) = p
      BY <2>5, <2>6, <2>7, Truncated
    <2>. QED
      BY <2>4, <2>5, <2>8
  <1>. QED
    BY <1>1, Invariance, PTL

\* clampRow's guarantee: whatever quotes, runes and lengths the fields of a row have,
\* the loop ends with a row that fits the budget, within clampMaxIterations rounds.
THEOREM ClampedRowFits == Spec => []ClampFits
  <1>1. Inv => ClampFits
    BY EstimateIsExact DEF Inv, RowInv, ClampInv, ClampFits
  <1>. QED
    BY <1>1, Invariance, PTL

\* largeFields' order: a field that clampRow cut was longer than what is left of the
\* ones before it.
THEOREM EarlierFieldsCutFirst == Spec => []EarlierFieldsFirst
  <1>1. Inv => EarlierFieldsFirst
    BY DEF Inv, CutInv
  <1>. QED
    BY <1>1, Invariance, PTL

LEMMA MillisGrow ==
    ASSUME NEW m \in Nat, NEW d \in Int
    PROVE  /\ Millis(d) \in Int /\ Millis(m) \in Nat
           /\ d >= m + Millisecond => Millis(d) >= Millis(m) + 1
  <1>. DEFINE b == Millisecond
  <1>1. b \in Nat /\ b > 0
    BY ScaleAssumption
  <1>. HIDE DEF b
  <1>2. \A n \in Nat : n \div b \in Nat
    BY <1>1, Z3
  <1>3. \A n \in Nat : n >= m + b => n \div b >= m \div b + 1
    BY <1>1, Z3
  <1>4. CASE d < 0
    <2>1. -d \in Nat /\ (-d) \div b \in Nat /\ m \div b \in Nat
      BY <1>2, <1>4
    <2>2. Millis(d) = -((-d) \div b) /\ Millis(m) = m \div b
      BY <1>4 DEF Millis, b
    <2>3. ~(d >= m + b)
      BY <1>1, <1>4
    <2>. DEFINE k == (-d) \div b
    <2>. HIDE DEF k
    <2>4. Millis(d) \in Int
      BY <2>1, <2>2 DEF k
    <2>. QED
      BY <2>1, <2>2, <2>3, <2>4 DEF b
  <1>5. CASE d >= 0
    <2>1. d \in Nat /\ d \div b \in Nat /\ m \div b \in Nat
      BY <1>2, <1>5
    <2>2. Millis(d) = d \div b /\ Millis(m) = m \div b
      BY <1>5 DEF Millis, b
    <2>3. d >= m + b => d \div b >= m \div b + 1
      BY <1>3, <2>1
    <2>. QED
      BY <2>1, <2>2, <2>3 DEF b
  <1>. QED
    BY <1>4, <1>5

\* The plan policy, given what the parser and its floats do: as long as wall_ms is the
\* wall time to the millisecond, keepsPlans keeps the plan of whatever ran a
\* millisecond longer than PLAN_CAPTURE_MIN_WALL and of nothing that ran shorter.
\* A threshold of 0 is left out: there -1 ms counts as 0.
THEOREM PlansKeptIfTimeIsExact ==
    ASSUME Millis(MinWall) > 0
    PROVE  Spec /\ []WallTimeToTheMillisecond => []SlowPlansKept
  <1>1. Inv /\ WallTimeToTheMillisecond => SlowPlansKept
    <2>1. SUFFICES ASSUME Inv, WallTimeToTheMillisecond, pc = "buffered",
                          Capture = "slow_or_failed"
                   PROVE  /\ event.failed \/ WallTicks(event.wall) >= MinWall + Millisecond =>
                                row.plan = truncate(event.plan, MaxField)
                          /\ ~event.failed /\ Millis(WallTicks(event.wall)) < Millis(MinWall) =>
                                row.plan = <<>>
      BY Zenon DEF SlowPlansKept
    <2>. DEFINE keeps == keepsPlans(RowFromEvent(event))
                ticks == WallTicks(event.wall)
                ms == Millis(ticks)
    <2>2. event \in Events /\ row = Ingested(event) /\ MinWall \in Nat
      BY <2>1, MinWallAssumption DEF Inv, RowInv
    <2>3. /\ row.plan = truncate(IF keeps THEN event.plan ELSE <<>>, MaxField)
          /\ row.wallMS = Millis(UnmarshalJSON(event.wall))
      BY <2>2, Pipeline, Zenon
    <2>4. keeps <=> event.failed \/ row.wallMS >= Millis(MinWall)
      <3>1. /\ RowFromEvent(event).failed = event.failed
            /\ RowFromEvent(event).wallMS = row.wallMS
        BY <2>3 DEF RowFromEvent
      <3>2. Capture # "all"
        BY <2>1
      <3>. QED
        BY <2>1, <3>1, <3>2, Zenon DEF keepsPlans
    <2>5. ticks \in Int
      BY <2>2, WallAssumption
    <2>6. /\ ms \in Int /\ Millis(MinWall) \in Nat
          /\ ticks >= MinWall + Millisecond => ms >= Millis(MinWall) + 1
      BY <2>2, <2>5, MillisGrow, Zenon
    <2>7. /\ ms >= 0 => row.wallMS \in {ms, ms - 1} \cap Nat
          /\ ms < 0 => row.wallMS \in {ms, ms + 1}
      BY <2>1, Zenon DEF WallTimeToTheMillisecond
    <2>8. truncate(<<>>, MaxField) = <<>>
      <3>. DEFINE e == <<>>
      <3>1. e \in Text /\ Len(e) <= MaxField /\ MaxField \in Nat
        BY EmptyText, CapsAssumption
      <3>. HIDE DEF e
      <3>2. truncate(e, MaxField) = e
        BY <3>1, Truncated, Zenon
      <3>. QED
        BY <3>2, Zenon DEF e
    <2>. HIDE DEF keeps, ticks, ms
    <2>9. ticks >= MinWall + Millisecond => row.wallMS >= Millis(MinWall)
      BY <2>6, <2>7
    <2>10. ms < Millis(MinWall) => ~(row.wallMS >= Millis(MinWall))
      BY <2>6, <2>7
    <2>11. event.failed \/ ticks >= MinWall + Millisecond => row.plan = truncate(event.plan, MaxField)
      BY <2>3, <2>4, <2>9, Zenon
    <2>12. ~event.failed /\ ms < Millis(MinWall) => row.plan = <<>>
      BY <2>3, <2>4, <2>8, <2>10, Zenon
    <2>. QED
      BY <2>11, <2>12, Zenon DEF ticks, ms
  <1>. QED
    BY <1>1, Invariance, PTL
=============================================================================
