----------------------------- MODULE DataProofs -----------------------------
(***************************************************************************)
(* Lemmas about numbers and sequences that the proofs about the components *)
(* share.                                                                  *)
(***************************************************************************)
EXTENDS Integers, SequencesExt, WellFoundedInduction, TLAPS

\* Every nonempty set of natural numbers has a least element: the form in
\* which the proofs use induction (the least counterexample).
LEMMA LeastElement ==
  ASSUME NEW T \in SUBSET Nat, T # {}
  PROVE  \E x \in T : \A y \in T : x <= y
<1> DEFINE R == OpToRel(<, Nat)
<1>1. IsWellFoundedOn(R, Nat)
  BY NatLessThanWellFounded
<1>2. \A x, y \in Nat : y < x => <<y, x>> \in R
  <2>1. R = {ss \in Nat \X Nat : ss[1] < ss[2]}
    BY DEF OpToRel
  <2>2. ASSUME NEW x \in Nat, NEW y \in Nat, y < x
        PROVE  <<y, x>> \in {ss \in Nat \X Nat : ss[1] < ss[2]}
    BY <2>2
  <2> HIDE DEF R
  <2> QED BY <2>1, <2>2
<1> HIDE DEF R
<1>3. PICK x \in T : \A y \in T : ~ (<<y, x>> \in R)
  BY <1>1, WFMin
<1>4. \A y \in T : x <= y
  <2> SUFFICES ASSUME NEW y \in T, ~(x <= y) PROVE FALSE
    OBVIOUS
  <2>1. y < x /\ y \in Nat /\ x \in Nat
    OBVIOUS
  <2> QED BY <2>1, <1>2, <1>3
<1> QED BY <1>4

\* What Min returns.
LEMMA MinIsLeast ==
  ASSUME NEW T \in SUBSET Nat, T # {}
  PROVE  Min(T) \in T /\ \A y \in T : Min(T) <= y
<1>1. \E x \in T : \A y \in T : x <= y
  BY LeastElement
<1> QED BY <1>1 DEF Min

\* What Max returns.
LEMMA MaxIsGreatest ==
  ASSUME NEW n \in Nat, NEW T \in SUBSET (1 .. n), T # {}
  PROVE  Max(T) \in T /\ \A y \in T : y <= Max(T)
<1> DEFINE D == {n - x : x \in T}
<1>1. D \in SUBSET Nat /\ D # {}
  <2>1. ASSUME NEW x \in T PROVE n - x \in Nat
    <3>1. x \in 1 .. n
      OBVIOUS
    <3> QED BY <3>1
  <2>2. PICK x \in T : TRUE
    OBVIOUS
  <2>3. n - x \in D
    OBVIOUS
  <2> QED BY <2>1, <2>3
<1>2. PICK d \in D : \A y \in D : d <= y
  BY <1>1, LeastElement
<1>3. PICK x \in T : d = n - x
  BY <1>2
<1>4. ASSUME NEW y \in T PROVE x >= y
  <2>1. d <= n - y
    BY <1>2
  <2> QED BY <1>3, <2>1
<1>5. \E z \in T : \A y \in T : z >= y
  BY <1>4
<1>6. Max(T) \in T /\ \A y \in T : Max(T) >= y
  BY <1>5 DEF Max
<1> QED BY <1>6

\* Remainders of numbers below twice the divisor.
LEMMA Remainder ==
  \A n \in Nat \ {0} : \A x \in 0 .. 2 * n - 1 : x % n = IF x < n THEN x ELSE x - n
OBVIOUS

\* The distance between two indices of a ring of n slots.
LEMMA RingDistance ==
  ASSUME NEW n \in Nat \ {0}, NEW h \in 0 .. n - 1, NEW t \in 0 .. n - 1
  PROVE  (h - t + n) % n = IF h >= t THEN h - t ELSE h - t + n
<1> DEFINE x == h - t + n
           y == x % n
<1>1. x \in 0 .. 2 * n - 1
  OBVIOUS
<1>2. y = IF x < n THEN x ELSE x - n
  <2> HIDE DEF x
  <2> QED BY <1>1, Remainder
<1> HIDE DEF y
<1> QED BY <1>2 DEF y

\* The index k slots on.
LEMMA RingIndex ==
  ASSUME NEW n \in Nat \ {0}, NEW t \in 0 .. n - 1, NEW k \in 0 .. n
  PROVE  (t + k) % n = IF t + k < n THEN t + k ELSE t + k - n
<1> DEFINE x == t + k
<1>1. x \in 0 .. 2 * n - 1
  OBVIOUS
<1> HIDE DEF x
<1>2. x % n = IF x < n THEN x ELSE x - n
  BY <1>1, Remainder
<1> QED BY <1>2 DEF x

\* r is s without its p-th element.
WithoutAt(s, p, r) ==
  /\ Len(r) = Len(s) - 1
  /\ \A i \in 1 .. Len(s) - 1 : r[i] = IF i < p THEN s[i] ELSE s[i + 1]

\* The indices of a sequence with one more element.
LEMMA OneMore == \A k \in Nat : \A n \in 1 .. k + 1 : n = k + 1 \/ n \in 1 .. k
OBVIOUS

\* A sequence with one more element.
LEMMA AppendFields ==
  ASSUME NEW X, NEW a \in Seq(X), NEW e \in X, NEW b, b = Append(a, e)
  PROVE  /\ b \in Seq(X) /\ Len(a) \in Nat /\ Len(b) = Len(a) + 1 /\ b # << >>
         /\ DOMAIN a = 1 .. Len(a) /\ DOMAIN b = 1 .. Len(a) + 1
         /\ b[Len(a) + 1] = e /\ \A n \in 1 .. Len(a) : b[n] = a[n]
OBVIOUS

\* A third member.
LEMMA AppendThird ==
  ASSUME NEW f \in Nat, NEW x \in Nat, NEW y \in Nat
  PROVE  Append(<<f, x>>, y) = <<f, x, y>>
<1> DEFINE s == <<f, x>>
           e == Append(s, y)
<1>1. s \in Seq(Nat)
  OBVIOUS
<1>2. Len(s) = 2 /\ s[1] = f /\ s[2] = x
  OBVIOUS
<1> HIDE DEF s, e
<1>3. /\ e \in Seq(Nat) /\ Len(e) = Len(s) + 1
      /\ e[Len(s) + 1] = y /\ \A n \in 1 .. Len(s) : e[n] = s[n]
  BY <1>1, AppendFields DEF e
<1>4. Len(e) = 3 /\ e[3] = y /\ e[1] = s[1] /\ e[2] = s[2]
  BY <1>2, <1>3
<1>5. e = <<f, x, y>>
  BY <1>2, <1>3, <1>4
<1> QED BY <1>5 DEF s, e

\* A second member.
LEMMA AppendSecond ==
  ASSUME NEW f \in Nat, NEW x \in Nat
  PROVE  Append(<<f>>, x) = <<f, x>>
<1> DEFINE s == <<f>>
           e == Append(s, x)
<1>1. s \in Seq(Nat)
  OBVIOUS
<1>2. Len(s) = 1 /\ s[1] = f
  OBVIOUS
<1> HIDE DEF s, e
<1>3. /\ e \in Seq(Nat) /\ Len(e) = Len(s) + 1
      /\ e[Len(s) + 1] = x /\ \A n \in 1 .. Len(s) : e[n] = s[n]
  BY <1>1, AppendFields DEF e
<1>4. Len(e) = 2 /\ e[2] = x /\ e[1] = s[1]
  BY <1>2, <1>3
<1>5. e = <<f, x>>
  BY <1>2, <1>3, <1>4
<1> QED BY <1>5 DEF s, e

\* Two sequences in a row.
LEMMA ConcatFields ==
  ASSUME NEW X, NEW a \in Seq(X), NEW b \in Seq(X)
  PROVE  /\ (a \o b) \in Seq(X) /\ Len(a \o b) = Len(a) + Len(b)
         /\ \A i \in 1 .. Len(a) + Len(b) :
              (a \o b)[i] = IF i <= Len(a) THEN a[i] ELSE b[i - Len(a)]
OBVIOUS

\* What RemoveAt returns.
LEMMA RemoveAtFields ==
  ASSUME NEW X, NEW s \in Seq(X), NEW p \in 1 .. Len(s)
  PROVE  RemoveAt(s, p) \in Seq(X) /\ WithoutAt(s, p, RemoveAt(s, p))
<1> DEFINE a == SubSeq(s, 1, p - 1)
           b == SubSeq(s, p + 1, Len(s))
           r == RemoveAt(s, p)
<1>1. Len(s) \in Nat /\ r = a \o b
  BY DEF RemoveAt
<1>2. a \in Seq(X) /\ Len(a) = p - 1 /\ \A i \in 1 .. p - 1 : a[i] = s[i]
  BY <1>1
<1>3. b \in Seq(X) /\ Len(b) = Len(s) - p /\ \A i \in 1 .. Len(s) - p : b[i] = s[i + p]
  BY <1>1
<1> HIDE DEF a, b, r
<1>4. r \in Seq(X) /\ Len(r) = Len(s) - 1
  <2>1. (a \o b) \in Seq(X) /\ Len(a \o b) = Len(a) + Len(b)
    BY <1>2, <1>3, ConcatFields
  <2>2. Len(a \o b) = Len(s) - 1
    BY <1>1, <1>2, <1>3, <2>1
  <2> QED BY <1>1, <2>1, <2>2
<1>5. ASSUME NEW i \in 1 .. Len(s) - 1 PROVE r[i] = IF i < p THEN s[i] ELSE s[i + 1]
  <2>1. CASE i < p
    BY <1>1, <1>2, <1>3, <2>1
  <2>2. CASE ~(i < p)
    <3>1. r[i] = b[i - (p - 1)] /\ i - (p - 1) \in 1 .. Len(s) - p
      BY <1>1, <1>2, <1>3, <2>2
    <3>2. b[i - (p - 1)] = s[(i - (p - 1)) + p]
      BY <1>3, <3>1
    <3>3. (i - (p - 1)) + p = i + 1
      BY <1>1
    <3> QED BY <2>2, <3>1, <3>2, <3>3
  <2> QED BY <2>1, <2>2
<1> QED BY <1>4, <1>5 DEF WithoutAt, r

\* r has the members of s but e.
MembersWithout(s, e, r) ==
  \A x : (\E i \in DOMAIN r : r[i] = x) <=> x # e /\ \E i \in DOMAIN s : s[i] = x

\* RemoveFirst takes a member out of its place.
LEMMA RemovedAt ==
  ASSUME NEW X, NEW s \in Seq(X), NEW e,
         \E i \in DOMAIN s : s[i] = e, NEW r, r = RemoveFirst(s, e)
  PROVE  r \in Seq(X) /\ \E p \in 1 .. Len(s) : s[p] = e /\ WithoutAt(s, p, r)
<1> DEFINE I == {i \in 1 .. Len(s) : s[i] = e}
           p == Min(I)
<1>0. Len(s) \in Nat /\ DOMAIN s = 1 .. Len(s)
  OBVIOUS
<1>1. I # {} /\ I \in SUBSET Nat
  OBVIOUS
<1>2. r = RemoveAt(s, p)
  BY <1>0, <1>1 DEF RemoveFirst, SelectInSeq
<1>3. p \in I
  BY <1>1, MinIsLeast
<1>4. p \in 1 .. Len(s) /\ s[p] = e
  BY <1>3
<1> HIDE DEF I, p
<1>5. r \in Seq(X) /\ WithoutAt(s, p, r)
  BY <1>2, <1>4, RemoveAtFields
<1> QED BY <1>4, <1>5

\* RemoveFirst takes a member out of a sequence without repetitions.
LEMMA RemoveMember ==
  ASSUME NEW X, NEW s \in Seq(X), NEW e,
         \E i \in DOMAIN s : s[i] = e,
         IsInjective(s), NEW r, r = RemoveFirst(s, e)
  PROVE  r \in Seq(X) /\ IsInjective(r) /\ MembersWithout(s, e, r)
<1>0. Len(s) \in Nat /\ DOMAIN s = 1 .. Len(s) /\ \A i, j \in DOMAIN s : s[i] = s[j] => i = j
  BY DEF IsInjective
<1>3. r \in Seq(X) /\ \E p \in 1 .. Len(s) : s[p] = e /\ WithoutAt(s, p, r)
  BY RemovedAt
<1>4. PICK p \in 1 .. Len(s) : s[p] = e /\ WithoutAt(s, p, r)
  BY <1>3
<1>5. /\ r \in Seq(X) /\ Len(r) = Len(s) - 1
      /\ \A i \in 1 .. Len(s) - 1 : r[i] = IF i < p THEN s[i] ELSE s[i + 1]
  BY <1>3, <1>4 DEF WithoutAt
<1>6. DOMAIN r = 1 .. Len(s) - 1
  BY <1>5
<1>7. ASSUME NEW i \in DOMAIN r, NEW j \in DOMAIN r, r[i] = r[j] PROVE i = j
  <2> DEFINE at(n) == IF n < p THEN n ELSE n + 1
  <2>1. /\ at(i) \in DOMAIN s /\ r[i] = s[at(i)]
        /\ at(j) \in DOMAIN s /\ r[j] = s[at(j)]
    BY <1>0, <1>4, <1>5, <1>6
  <2>2. at(i) = at(j)
    BY <1>0, <1>7, <2>1
  <2> QED BY <1>0, <1>4, <1>6, <2>2
<1>8. ASSUME NEW i \in DOMAIN r PROVE r[i] # e /\ \E j \in DOMAIN s : s[j] = r[i]
  <2> DEFINE j == IF i < p THEN i ELSE i + 1
  <2>1. j \in DOMAIN s /\ j # p /\ r[i] = s[j]
    BY <1>0, <1>4, <1>5, <1>6
  <2> QED BY <1>0, <1>4, <2>1
<1>9. ASSUME NEW j \in DOMAIN s, s[j] # e PROVE \E i \in DOMAIN r : r[i] = s[j]
  <2> DEFINE i == IF j < p THEN j ELSE j - 1
  <2>1. j # p
    BY <1>4, <1>9
  <2>2. i \in DOMAIN r /\ r[i] = s[j]
    BY <1>0, <1>4, <1>5, <1>6, <2>1
  <2> QED BY <2>2
<1>10. MembersWithout(s, e, r)
  BY <1>8, <1>9 DEF MembersWithout
<1> QED BY <1>5, <1>7, <1>10 DEF IsInjective

\* The members of a sequence.
LEMMA InRange ==
  ASSUME NEW s
  PROVE  \A x : x \in Range(s) <=> \E i \in DOMAIN s : s[i] = x
BY DEF Range

LEMMA ContainsIs ==
  ASSUME NEW X, NEW s \in Seq(X), NEW e
  PROVE  Contains(s, e) <=> e \in Range(s)
<1>1. DOMAIN s = 1 .. Len(s)
  OBVIOUS
<1> QED BY <1>1, InRange DEF Contains

\* The members of a sequence with one more, and with one less.
LEMMA AppendRange ==
  ASSUME NEW X, NEW s \in Seq(X), NEW e \in X
  PROVE  /\ Range(Append(s, e)) = Range(s) \cup {e}
         /\ IsInjective(s) /\ e \notin Range(s) => IsInjective(Append(s, e))
<1> DEFINE r == Append(s, e)
<1> SUFFICES /\ Range(r) = Range(s) \cup {e}
             /\ IsInjective(s) /\ e \notin Range(s) => IsInjective(r)
  BY Zenon
<1>0. r = Append(s, e)
  OBVIOUS
<1> HIDE DEF r
<1>1. /\ r \in Seq(X) /\ Len(s) \in Nat
      /\ DOMAIN s = 1 .. Len(s) /\ DOMAIN r = 1 .. Len(s) + 1
      /\ r[Len(s) + 1] = e /\ \A n \in 1 .. Len(s) : r[n] = s[n]
  BY <1>0, AppendFields
<1>2. \A n \in 1 .. Len(s) + 1 : n = Len(s) + 1 \/ n \in 1 .. Len(s)
  BY <1>1, OneMore
<1>3. ASSUME NEW x PROVE x \in Range(r) <=> x \in Range(s) \cup {e}
  <2>1. x \in Range(r) <=> \E i \in 1 .. Len(s) + 1 : r[i] = x
    <3>1. x \in Range(r) <=> \E i \in DOMAIN r : r[i] = x
      BY InRange
    <3> QED BY <1>1, <3>1, Zenon
  <2>2. x \in Range(s) <=> \E i \in 1 .. Len(s) : s[i] = x
    BY <1>1, InRange
  <2> QED BY <1>1, <1>2, <2>1, <2>2
<1>4. ASSUME IsInjective(s), e \notin Range(s),
             NEW i \in DOMAIN r, NEW j \in DOMAIN r, r[i] = r[j]
      PROVE  i = j
  <2>1. \A n \in 1 .. Len(s) : s[n] # e
    BY <1>1, <1>4, InRange
  <2>2. \A a, b \in 1 .. Len(s) : s[a] = s[b] => a = b
    BY <1>1, <1>4 DEF IsInjective
  <2> QED BY <1>1, <1>2, <1>4, <2>1, <2>2
<1> QED BY <1>1, <1>3, <1>4 DEF IsInjective

LEMMA RemoveRange ==
  ASSUME NEW X, NEW s \in Seq(X), NEW e \in Range(s), IsInjective(s),
         NEW r, r = RemoveFirst(s, e)
  PROVE  r \in Seq(X) /\ IsInjective(r) /\ Range(r) = Range(s) \ {e}
<1>1. \E i \in DOMAIN s : s[i] = e
  BY InRange
<1>2. r \in Seq(X) /\ IsInjective(r) /\ MembersWithout(s, e, r)
  BY <1>1, RemoveMember
<1>3. ASSUME NEW x PROVE x \in Range(r) <=> x \in Range(s) \ {e}
  <2>1. x \in Range(r) <=> \E i \in DOMAIN r : r[i] = x
    BY InRange
  <2>2. x \in Range(s) <=> \E i \in DOMAIN s : s[i] = x
    BY InRange
  <2> QED BY <1>2, <2>1, <2>2 DEF MembersWithout
<1> QED BY <1>2, <1>3

\* What Tail leaves.
LEMMA TailFields ==
  ASSUME NEW X, NEW s \in Seq(X), s # << >>
  PROVE  /\ Tail(s) \in Seq(X) /\ Len(s) \in Nat \ {0} /\ Len(Tail(s)) = Len(s) - 1
         /\ DOMAIN s = 1 .. Len(s) /\ DOMAIN Tail(s) = 1 .. Len(s) - 1
         /\ \A i \in 1 .. Len(s) - 1 : Tail(s)[i] = s[i + 1]
         /\ Head(s) = s[1] /\ Head(s) \in X /\ Tail(s) # s
OBVIOUS
=============================================================================
