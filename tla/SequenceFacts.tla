---------------------------- MODULE SequenceFacts ----------------------------
(***************************************************************************)
(* Facts about sequences without repetitions, such as the queues of the    *)
(* kernel, and the sets of their elements; and the least number principle. *)
(***************************************************************************)
EXTENDS Integers, Sequences, Functions, WellFoundedInduction, TLAPS

\* The elements of a sequence over S are in S.
LEMMA RangeType ==
    ASSUME NEW S, NEW s \in Seq(S)
    PROVE  Range(s) \subseteq S
<1>1. \A i \in DOMAIN s : s[i] \in S
  OBVIOUS
<1> QED BY <1>1 DEF Range

\* Appending an element that is not in a sequence repeats none.
LEMMA AppendFacts ==
    ASSUME NEW S, NEW s \in Seq(S), NEW e \in S
    PROVE  /\ Append(s, e) \in Seq(S)
           /\ Len(Append(s, e)) = Len(s) + 1
           /\ Range(Append(s, e)) = Range(s) \cup {e}
           /\ IsInjective(s) /\ e \notin Range(s) => IsInjective(Append(s, e))
<1> DEFINE r == Append(s, e)
<1>1. r \in Seq(S) /\ Len(r) = Len(s) + 1 /\ DOMAIN r = 1 .. Len(s) + 1 /\ DOMAIN s = 1 .. Len(s)
  OBVIOUS
<1>2. \A i \in 1 .. Len(s) : r[i] = s[i]
  OBVIOUS
<1>3. r[Len(s) + 1] = e
  OBVIOUS
<1>4. Len(s) \in Nat
  OBVIOUS
<1> HIDE DEF r
<1>5. Range(r) = Range(s) \cup {e}
  <2>1. ASSUME NEW x \in Range(r) PROVE x \in Range(s) \cup {e}
    BY <1>1, <1>2, <1>3, <1>4 DEF Range
  <2>2. ASSUME NEW x \in Range(s) \cup {e} PROVE x \in Range(r)
    BY <1>1, <1>2, <1>3, <1>4 DEF Range
  <2> QED BY <2>1, <2>2
<1>6. IsInjective(s) /\ e \notin Range(s) => IsInjective(r)
  BY <1>1, <1>2, <1>3, <1>4 DEF Range, IsInjective
<1> QED BY <1>1, <1>5, <1>6 DEF r

\* Removing one entry of a sequence without repetitions removes its element.
LEMMA RemoveFacts ==
    ASSUME NEW S, NEW s \in Seq(S), NEW k \in 1 .. Len(s)
    PROVE  LET r == SubSeq(s, 1, k - 1) \o SubSeq(s, k + 1, Len(s))
           IN  /\ r \in Seq(S) /\ Len(r) = Len(s) - 1
               /\ IsInjective(s) => Range(r) = Range(s) \ {s[k]} /\ IsInjective(r)
<1> DEFINE r == SubSeq(s, 1, k - 1) \o SubSeq(s, k + 1, Len(s))
           a == SubSeq(s, 1, k - 1)
           b == SubSeq(s, k + 1, Len(s))
<1>4. Len(s) \in Nat /\ k \in Nat /\ k >= 1 /\ k <= Len(s)
  OBVIOUS
<1>a. a \in Seq(S) /\ Len(a) = k - 1 /\ \A i \in 1 .. k - 1 : a[i] = s[i]
  BY <1>4
<1>b. b \in Seq(S) /\ Len(b) = Len(s) - k /\ \A i \in 1 .. Len(s) - k : b[i] = s[k + i]
  BY <1>4
<1>c. r = a \o b
  OBVIOUS
<1> HIDE DEF r, a, b
<1>2. r \in Seq(S) /\ Len(r) = Len(s) - 1 /\ DOMAIN r = 1 .. Len(s) - 1 /\ DOMAIN s = 1 .. Len(s)
  <2> a \in Seq(S) /\ b \in Seq(S) BY <1>a, <1>b
  <2>1. r \in Seq(S) /\ Len(r) = Len(a) + Len(b)
    BY <1>c
  <2>2. Len(r) = Len(s) - 1
    BY <2>1, <1>a, <1>b, <1>4
  <2> QED BY <2>1, <2>2
<1>3. \A i \in 1 .. Len(s) - 1 : r[i] = s[IF i < k THEN i ELSE i + 1]
  <2> SUFFICES ASSUME NEW i \in 1 .. Len(s) - 1
               PROVE  r[i] = s[IF i < k THEN i ELSE i + 1]
    OBVIOUS
  <2>1. r[i] = IF i <= Len(a) THEN a[i] ELSE b[i - Len(a)]
    BY <1>a, <1>b, <1>c, <1>4
  <2>2. CASE i < k
    BY <2>1, <2>2, <1>a, <1>4
  <2>3. CASE ~(i < k)
    <3>1. i - Len(a) \in 1 .. Len(s) - k /\ k + (i - Len(a)) = i + 1
      BY <2>3, <1>a, <1>4
    <3> QED BY <2>1, <2>3, <3>1, <1>a, <1>b, <1>4
  <2> QED BY <2>2, <2>3
<1>5. ASSUME IsInjective(s) PROVE Range(r) = Range(s) \ {s[k]}
  <2>1. ASSUME NEW x \in Range(r) PROVE x \in Range(s) \ {s[k]}
    <3>1. PICK i \in 1 .. Len(s) - 1 : x = r[i]
      BY <1>2 DEF Range
    <3>2. x = s[IF i < k THEN i ELSE i + 1]
      BY <3>1, <1>3
    <3>3. (IF i < k THEN i ELSE i + 1) \in DOMAIN s \ {k} /\ k \in DOMAIN s
      BY <1>2, <1>4
    <3> QED BY <3>2, <3>3, <1>5 DEF Range, IsInjective
  <2>2. ASSUME NEW x \in Range(s) \ {s[k]} PROVE x \in Range(r)
    <3>1. PICK i \in 1 .. Len(s) : x = s[i] /\ i # k
      BY <1>2 DEF Range
    <3>2. x = r[IF i < k THEN i ELSE i - 1] /\ (IF i < k THEN i ELSE i - 1) \in 1 .. Len(s) - 1
      BY <3>1, <1>3, <1>4
    <3> QED BY <3>2, <1>2 DEF Range
  <2> QED BY <2>1, <2>2
<1>6. ASSUME IsInjective(s) PROVE IsInjective(r)
  <2> SUFFICES ASSUME NEW i \in 1 .. Len(s) - 1, NEW j \in 1 .. Len(s) - 1, r[i] = r[j]
               PROVE  i = j
    BY <1>2 DEF IsInjective
  <2>1. /\ (IF i < k THEN i ELSE i + 1) \in DOMAIN s
        /\ (IF j < k THEN j ELSE j + 1) \in DOMAIN s
    BY <1>2, <1>4
  <2>2. (IF i < k THEN i ELSE i + 1) = (IF j < k THEN j ELSE j + 1)
    BY <2>1, <1>3, <1>6 DEF IsInjective
  <2> QED BY <2>2, <1>4
<1> QED BY Zenon, <1>2, <1>5, <1>6 DEF r

\* Dropping the last entry of a sequence without repetitions removes its element.
LEMMA FrontFacts ==
    ASSUME NEW S, NEW s \in Seq(S), s # <<>>, IsInjective(s)
    PROVE  /\ SubSeq(s, 1, Len(s) - 1) \in Seq(S) /\ IsInjective(SubSeq(s, 1, Len(s) - 1))
           /\ s[Len(s)] \in Range(s) /\ s[Len(s)] \in S
           /\ Range(SubSeq(s, 1, Len(s) - 1)) = Range(s) \ {s[Len(s)]}
<1> DEFINE r == SubSeq(s, 1, Len(s) - 1)
<1>1. Len(s) \in Nat /\ Len(s) > 0
  OBVIOUS
<1>2. /\ r \in Seq(S) /\ DOMAIN r = 1 .. Len(s) - 1 /\ DOMAIN s = 1 .. Len(s)
      /\ \A i \in 1 .. Len(s) - 1 : r[i] = s[i]
  BY <1>1
<1>3. s[Len(s)] = s[Len(s)] /\ s[Len(s)] \in S
  BY <1>1
<1> HIDE DEF r
<1>4. s[Len(s)] \in Range(s)
  BY <1>1, <1>2, <1>3 DEF Range
<1>5. IsInjective(r)
  BY <1>1, <1>2 DEF IsInjective
<1>6. Range(r) = Range(s) \ {s[Len(s)]}
  <2>1. ASSUME NEW x \in Range(r) PROVE x \in Range(s) \ {s[Len(s)]}
    BY <1>1, <1>2, <1>3 DEF Range, IsInjective
  <2>2. ASSUME NEW x \in Range(s) \ {s[Len(s)]} PROVE x \in Range(r)
    BY <1>1, <1>2, <1>3 DEF Range
  <2> QED BY <2>1, <2>2
<1> QED BY <1>2, <1>3, <1>4, <1>5, <1>6 DEF r

\* Appending a sequence of other elements repeats none.
LEMMA ConcatFacts ==
    ASSUME NEW S, NEW s \in Seq(S), NEW r \in Seq(S)
    PROVE  /\ s \o r \in Seq(S)
           /\ Range(s \o r) = Range(s) \cup Range(r)
           /\ IsInjective(s) /\ IsInjective(r) /\ Range(s) \cap Range(r) = {}
                => IsInjective(s \o r)
<1> DEFINE c == s \o r
<1>1. /\ c \in Seq(S) /\ Len(c) = Len(s) + Len(r)
      /\ \A i \in 1 .. Len(s) + Len(r) : c[i] = IF i <= Len(s) THEN s[i] ELSE r[i - Len(s)]
  OBVIOUS
<1>2. /\ DOMAIN c = 1 .. Len(s) + Len(r) /\ DOMAIN s = 1 .. Len(s) /\ DOMAIN r = 1 .. Len(r)
      /\ Len(s) \in Nat /\ Len(r) \in Nat
  BY <1>1
<1> HIDE DEF c
<1>3. ASSUME NEW i \in DOMAIN c
      PROVE  \/ i \in DOMAIN s /\ c[i] = s[i]
             \/ i \notin DOMAIN s /\ i - Len(s) \in DOMAIN r /\ c[i] = r[i - Len(s)]
  BY <1>1, <1>2
<1>4. Range(c) = Range(s) \cup Range(r)
  <2>1. ASSUME NEW x \in Range(c) PROVE x \in Range(s) \cup Range(r)
    BY <1>3 DEF Range
  <2>2. ASSUME NEW x \in Range(s) PROVE x \in Range(c)
    <3>1. PICK i \in DOMAIN s : x = s[i]
      BY DEF Range
    <3>2. i \in DOMAIN c /\ c[i] = s[i]
      BY <1>1, <1>2
    <3> QED BY <3>1, <3>2 DEF Range
  <2>3. ASSUME NEW x \in Range(r) PROVE x \in Range(c)
    <3>1. PICK i \in DOMAIN r : x = r[i]
      BY DEF Range
    <3>2. Len(s) + i \in DOMAIN c /\ c[Len(s) + i] = r[i]
      <4>1. Len(s) + i \in 1 .. Len(s) + Len(r) /\ ~(Len(s) + i <= Len(s))
            /\ (Len(s) + i) - Len(s) = i
        BY <1>2
      <4> QED BY <4>1, <1>1, <1>2
    <3> QED BY <3>1, <3>2 DEF Range
  <2> QED BY <2>1, <2>2, <2>3
<1>5. ASSUME IsInjective(s), IsInjective(r), Range(s) \cap Range(r) = {}
      PROVE  IsInjective(c)
  <2> SUFFICES ASSUME NEW i \in DOMAIN c, NEW j \in DOMAIN c, c[i] = c[j] PROVE i = j
    BY DEF IsInjective
  <2>1. CASE i \in DOMAIN s /\ j \in DOMAIN s
    BY <2>1, <1>3, <1>5 DEF IsInjective
  <2>2. CASE i \in DOMAIN s /\ j \notin DOMAIN s
    BY <2>2, <1>3, <1>5 DEF Range
  <2>3. CASE i \notin DOMAIN s /\ j \in DOMAIN s
    BY <2>3, <1>3, <1>5 DEF Range
  <2>4. CASE i \notin DOMAIN s /\ j \notin DOMAIN s
    <3>1. i - Len(s) = j - Len(s)
      BY <2>4, <1>3, <1>5 DEF IsInjective
    <3> QED BY <3>1, <1>2
  <2> QED BY <2>1, <2>2, <2>3, <2>4
<1> QED BY <1>1, <1>4, <1>5 DEF c

\* A nonempty set of natural numbers has a least element.
LEMMA LeastNatural ==
    ASSUME NEW T \in SUBSET Nat, T # {}
    PROVE  \E x \in T : \A y \in T : x <= y
<1> DEFINE R == OpToRel(<, Nat)
<1>1. IsWellFoundedOn(R, Nat)
  BY Zenon, NatLessThanWellFounded
<1>2. \A x, y \in Nat : y < x => <<y, x>> \in R
  BY DEF OpToRel
<1> HIDE DEF R
<1>3. PICK x \in T : \A y \in T : ~(<<y, x>> \in R)
  BY Zenon, <1>1, WFMin
<1>4. \A y \in T : ~(y < x)
  BY Zenon, <1>2, <1>3
<1> QED BY <1>4
=============================================================================
