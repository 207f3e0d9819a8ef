---------------------------- MODULE CommonTheorems -----------------------------
(***************************************************************************)
(* What the proofs of several parts need of data: what joining, leaving and *)
(* being served do to a line in which nobody stands twice, and to whatever  *)
(* else is kept as a sequence of distinct members; how a count divides into *)
(* days and pages; and what two sets apart count together.                 *)
(***************************************************************************)
EXTENDS SequencesExt, SequenceTheorems, FiniteSetTheorems, WellFoundedInduction, TLAPS

(* The first goes.                                                          *)
LEMMA TailOfQueue ==
    ASSUME NEW T, NEW s \in Seq(T), s # <<>>, IsInjective(s)
    PROVE  /\ Head(s) \in T /\ Tail(s) \in Seq(T)
           /\ Len(Tail(s)) = Len(s) - 1 /\ IsInjective(Tail(s))
           /\ ToSet(Tail(s)) = ToSet(s) \ {Head(s)}
<1>1. /\ Head(s) = s[1] /\ Len(s) \in Nat /\ Len(s) > 0 /\ DOMAIN s = 1..Len(s)
      /\ Tail(s) \in Seq(T) /\ Len(Tail(s)) = Len(s) - 1
      /\ DOMAIN Tail(s) = 1..(Len(s) - 1)
      /\ \A i \in 1..(Len(s) - 1) : Tail(s)[i] = s[i + 1]
  OBVIOUS
<1>2. Head(s) \in T
  BY <1>1
<1>3. IsInjective(Tail(s))
  BY <1>1 DEF IsInjective
<1>4. ASSUME NEW i \in 1..Len(s), i # 1
      PROVE  i - 1 \in 1..(Len(s) - 1) /\ Tail(s)[i - 1] = s[i] /\ s[i] # s[1]
  BY <1>1, <1>4 DEF IsInjective
<1>5. ToSet(s) \ {Head(s)} \subseteq ToSet(Tail(s))
  <2>1. \A i \in 1..Len(s) : s[i] # Head(s) => \E j \in DOMAIN Tail(s) : Tail(s)[j] = s[i]
    BY <1>1, <1>4
  <2> QED BY <1>1, <2>1 DEF ToSet
<1>6. ToSet(Tail(s)) \subseteq ToSet(s) \ {Head(s)}
  BY <1>1 DEF ToSet, IsInjective
<1> QED BY <1>1, <1>2, <1>3, <1>5, <1>6

(* One that was not in it comes to its end.                                *)
LEMMA AppendToQueue ==
    ASSUME NEW T, NEW s \in Seq(T), IsInjective(s), NEW r \in T, r \notin ToSet(s)
    PROVE  /\ Append(s, r) \in Seq(T)
           /\ Len(Append(s, r)) = Len(s) + 1 /\ IsInjective(Append(s, r))
           /\ ToSet(Append(s, r)) = ToSet(s) \cup {r}
           /\ s # <<>> => Head(Append(s, r)) = Head(s)
<1>1. /\ Len(s) \in Nat /\ DOMAIN s = 1..Len(s)
      /\ Append(s, r) \in Seq(T) /\ DOMAIN Append(s, r) = 1..(Len(s) + 1)
      /\ Append(s, r)[Len(s) + 1] = r
      /\ \A i \in 1..Len(s) : Append(s, r)[i] = s[i]
  OBVIOUS
<1>2. \A i \in 1..Len(s) : s[i] # r
  BY <1>1 DEF ToSet
<1>3. IsInjective(Append(s, r))
  BY <1>1, <1>2 DEF IsInjective
<1>4. ToSet(Append(s, r)) = ToSet(s) \cup {r}
  BY <1>1 DEF ToSet
<1>5. s # <<>> => Head(Append(s, r)) = Head(s)
  BY <1>1
<1> QED BY <1>1, <1>3, <1>4, <1>5

(* What is left when one goes from anywhere.                                *)
LEMMA RemovedFromSequence ==
    ASSUME NEW T, NEW s \in Seq(T), NEW i \in 1..Len(s)
    PROVE  /\ RemoveAt(s, i) \in Seq(T) /\ Len(RemoveAt(s, i)) = Len(s) - 1
           /\ DOMAIN RemoveAt(s, i) = 1..(Len(s) - 1)
           /\ \A j \in 1..(Len(s) - 1) : RemoveAt(s, i)[j] = IF j < i THEN s[j] ELSE s[j + 1]
<1> DEFINE u == RemoveAt(s, i)
           a == SubSeq(s, 1, i - 1)
           b == SubSeq(s, i + 1, Len(s))
<1>1. Len(s) \in Nat /\ DOMAIN s = 1..Len(s) /\ i \in 1..Len(s)
  OBVIOUS
<1>2. /\ a \in Seq(T) /\ Len(a) = i - 1 /\ b \in Seq(T) /\ Len(b) = Len(s) - i
      /\ \A j \in 1..(i - 1) : a[j] = s[j]
      /\ \A j \in 1..(Len(s) - i) : b[j] = s[j + i]
  BY <1>1
<1>3. u = a \o b
  BY DEF RemoveAt
<1> HIDE DEF a, b, u
<1>4. u \in Seq(T) /\ Len(u) = Len(s) - 1
  <2>1. u \in Seq(T) /\ Len(u) = Len(a) + Len(b)
    BY <1>2, <1>3, ConcatProperties
  <2>2. i \in Nat /\ Len(s) \in Nat
    BY <1>1
  <2> QED BY <1>2, <2>1, <2>2
<1>5. DOMAIN u = 1..(Len(s) - 1)
  BY <1>4
<1>6. ASSUME NEW j \in 1..(Len(s) - 1)
      PROVE  u[j] = IF j < i THEN s[j] ELSE s[j + 1]
  <2>1. u[j] = IF j <= Len(a) THEN a[j] ELSE b[j - Len(a)]
    BY <1>1, <1>2, <1>3, ConcatProperties
  <2>2. CASE j < i
    BY <1>1, <1>2, <2>1, <2>2
  <2>3. CASE ~(j < i)
    <3>1. j - (i - 1) \in 1..(Len(s) - i) /\ (j - (i - 1)) + i = j + 1
      BY <1>1, <2>3
    <3>2. b[j - (i - 1)] = s[j + 1]
      BY <1>2, <3>1
    <3> QED BY <1>1, <1>2, <2>1, <2>3, <3>2
  <2> QED BY <2>2, <2>3
<1> QED BY <1>4, <1>5, <1>6 DEF u

(* One goes from anywhere.                                                 *)
LEMMA RemoveFromQueue ==
    ASSUME NEW T, NEW s \in Seq(T), IsInjective(s), NEW i \in DOMAIN s
    PROVE  /\ RemoveAt(s, i) \in Seq(T)
           /\ Len(RemoveAt(s, i)) = Len(s) - 1 /\ IsInjective(RemoveAt(s, i))
           /\ ToSet(RemoveAt(s, i)) = ToSet(s) \ {s[i]}
           /\ s[i] # Head(s) => Head(RemoveAt(s, i)) = Head(s)
<1> DEFINE u == RemoveAt(s, i)
<1>1. Len(s) \in Nat /\ DOMAIN s = 1..Len(s) /\ i \in 1..Len(s)
  OBVIOUS
<1>2. /\ u \in Seq(T) /\ Len(u) = Len(s) - 1 /\ DOMAIN u = 1..(Len(s) - 1)
      /\ \A j \in 1..(Len(s) - 1) : u[j] = IF j < i THEN s[j] ELSE s[j + 1]
  BY <1>1, RemovedFromSequence
<1> HIDE DEF u
<1>3. IsInjective(u)
  <2> SUFFICES ASSUME NEW a \in 1..(Len(s) - 1), NEW b \in 1..(Len(s) - 1), u[a] = u[b]
               PROVE  a = b
    BY <1>2 DEF IsInjective
  <2> DEFINE at(j) == IF j < i THEN j ELSE j + 1
  <2>1. at(a) \in 1..Len(s) /\ at(b) \in 1..Len(s)
    BY <1>1
  <2>2. u[a] = s[at(a)] /\ u[b] = s[at(b)]
    BY <1>2
  <2>3. at(a) = at(b)
    BY <1>1, <2>1, <2>2 DEF IsInjective
  <2> QED BY <1>1, <2>3
<1>4. ToSet(u) \subseteq ToSet(s) \ {s[i]}
  BY <1>1, <1>2 DEF ToSet, IsInjective
<1>5. ASSUME NEW j \in 1..Len(s), s[j] # s[i]
      PROVE  s[j] \in ToSet(u)
  <2>1. CASE j < i
    BY <1>1, <1>2, <2>1 DEF ToSet
  <2>2. CASE j > i
    <3>1. j - 1 \in 1..(Len(s) - 1) /\ u[j - 1] = s[j]
      BY <1>1, <1>2, <2>2
    <3> QED BY <1>2, <3>1 DEF ToSet
  <2> QED BY <1>1, <1>5, <2>1, <2>2
<1>6. ToSet(s) \ {s[i]} \subseteq ToSet(u)
  BY <1>1, <1>5 DEF ToSet
<1>7. s[i] # Head(s) => Head(u) = Head(s)
  <2> SUFFICES ASSUME s[i] # Head(s) PROVE Head(u) = Head(s)
    OBVIOUS
  <2>1. Head(s) = s[1] /\ i > 1
    BY <1>1
  <2>2. 1 \in 1..(Len(s) - 1) /\ u[1] = s[1]
    BY <1>1, <1>2, <2>1
  <2>3. u # <<>> /\ Head(u) = u[1]
    BY <1>2, <2>2
  <2> QED BY <2>1, <2>2, <2>3
<1> QED BY <1>2, <1>3, <1>4, <1>6, <1>7 DEF u

(* The first few go.                                                       *)
LEMMA RestOfQueue ==
    ASSUME NEW T, NEW s \in Seq(T), IsInjective(s), NEW n \in 0..Len(s)
    PROVE  /\ SubSeq(s, n + 1, Len(s)) \in Seq(T)
           /\ Len(SubSeq(s, n + 1, Len(s))) = Len(s) - n
           /\ IsInjective(SubSeq(s, n + 1, Len(s)))
           /\ ToSet(SubSeq(s, n + 1, Len(s))) \subseteq ToSet(s)
<1> DEFINE u == SubSeq(s, n + 1, Len(s))
<1>1. Len(s) \in Nat /\ DOMAIN s = 1..Len(s) /\ n \in Nat
  OBVIOUS
<1>2. /\ u \in Seq(T) /\ Len(u) = Len(s) - n /\ DOMAIN u = 1..(Len(s) - n)
      /\ \A j \in 1..(Len(s) - n) : u[j] = s[j + n]
  BY <1>1
<1> HIDE DEF u
<1>3. IsInjective(u)
  <2> SUFFICES ASSUME NEW a \in 1..(Len(s) - n), NEW b \in 1..(Len(s) - n), u[a] = u[b]
               PROVE  a = b
    BY <1>2 DEF IsInjective
  <2>1. a + n \in DOMAIN s /\ b + n \in DOMAIN s /\ s[a + n] = s[b + n]
    BY <1>1, <1>2
  <2>2. a + n = b + n
    BY <2>1 DEF IsInjective
  <2> QED BY <1>1, <2>2
<1>4. ToSet(u) \subseteq ToSet(s)
  BY <1>1, <1>2 DEF ToSet
<1> QED BY <1>2, <1>3, <1>4 DEF u

(* Nobody stands in an empty line, and the first of another is in it.       *)
LEMMA HeadOfQueue ==
    ASSUME NEW T, NEW s \in Seq(T)
    PROVE  /\ s = <<>> => IsInjective(s) /\ ToSet(s) = {}
           /\ s # <<>> => Head(s) \in T /\ Head(s) \in ToSet(s)
           /\ \A x : x \in ToSet(s) <=> \E i \in DOMAIN s : s[i] = x
BY DEF IsInjective, ToSet

(* A sequence one longer.                                                   *)
LEMMA AppendIsLonger ==
    ASSUME NEW T, NEW s \in Seq(T), NEW e \in T, NEW L, L = Len(s)
    PROVE  /\ Append(s, e) \in Seq(T) /\ Len(Append(s, e)) = L + 1
           /\ DOMAIN Append(s, e) = 1..(L + 1)
           /\ Append(s, e)[L + 1] = e /\ \A i \in 1..L : Append(s, e)[i] = s[i]
OBVIOUS

(* The first of a sequence leaves it.                                      *)
LEMMA FirstLeaves ==
    ASSUME NEW T, NEW s \in Seq(T), s # <<>>
    PROVE  RemoveAt(s, 1) = Tail(s)
<1>1. /\ Len(s) \in Nat /\ 1 \in 1..Len(s)
      /\ Tail(s) \in Seq(T) /\ Len(Tail(s)) = Len(s) - 1
      /\ \A j \in 1..(Len(s) - 1) : Tail(s)[j] = s[j + 1]
  OBVIOUS
<1>2. /\ RemoveAt(s, 1) \in Seq(T) /\ Len(RemoveAt(s, 1)) = Len(s) - 1
      /\ \A j \in 1..(Len(s) - 1) : RemoveAt(s, 1)[j] = IF j < 1 THEN s[j] ELSE s[j + 1]
  BY <1>1, RemovedFromSequence
<1>3. \A j \in 1..(Len(s) - 1) : RemoveAt(s, 1)[j] = Tail(s)[j]
  BY <1>1, <1>2
<1> QED BY <1>1, <1>2, <1>3, SeqEqual

(* The members of a sequence are of its type.                               *)
LEMMA RangeWithin == ASSUME NEW T, NEW q \in Seq(T) PROVE Range(q) \subseteq T
<1>1. \A i \in DOMAIN q : q[i] \in T
  OBVIOUS
<1> QED BY <1>1 DEF Range

(* One line after another.                                                  *)
LEMMA JoinedFacts ==
    ASSUME NEW T, NEW a \in Seq(T), NEW b \in Seq(T), NEW n, n = Len(a)
    PROVE  /\ a \o b \in Seq(T) /\ n \in Nat /\ DOMAIN a = 1..n
           /\ \A i \in DOMAIN (a \o b) :
                \/ i \in DOMAIN a /\ (a \o b)[i] = a[i]
                \/ i \notin DOMAIN a /\ i - n \in DOMAIN b /\ (a \o b)[i] = b[i - n]
           /\ Range(a \o b) = Range(a) \cup Range(b)
<1>1. /\ a \o b \in Seq(T) /\ Len(a \o b) = n + Len(b)
      /\ \A i \in 1..(n + Len(b)) : (a \o b)[i] = IF i <= n THEN a[i] ELSE b[i - n]
  BY ConcatProperties
<1>2. n \in Nat /\ Len(b) \in Nat /\ DOMAIN a = 1..n /\ DOMAIN b = 1..Len(b)
  OBVIOUS
<1> DEFINE c == a \o b
<1>3. /\ c \in Seq(T) /\ DOMAIN c = 1..(n + Len(b))
      /\ \A i \in 1..(n + Len(b)) : c[i] = IF i <= n THEN a[i] ELSE b[i - n]
  BY <1>1
<1> HIDE DEF c
<1>4. \A i \in DOMAIN c : \/ i \in DOMAIN a /\ c[i] = a[i]
                          \/ i \notin DOMAIN a /\ i - n \in DOMAIN b /\ c[i] = b[i - n]
  BY <1>2, <1>3
<1>5. \A i \in DOMAIN a : i \in DOMAIN c /\ c[i] = a[i]
  BY <1>2, <1>3
<1>6. \A i \in DOMAIN b : i + n \in DOMAIN c /\ c[i + n] = b[i]
  <2>1. \A i \in DOMAIN b : i + n \in 1..(n + Len(b)) /\ ~(i + n <= n) /\ (i + n) - n = i
    BY <1>2
  <2> QED BY <1>3, <2>1
<1>7. Range(c) = Range(a) \cup Range(b)
  BY <1>4, <1>5, <1>6 DEF Range
<1> QED BY <1>2, <1>3, <1>4, <1>7 DEF c

(* Two lines that share nobody, in neither of which somebody stands twice.   *)
LEMMA JoinedOnce ==
    ASSUME NEW T, NEW a \in Seq(T), NEW b \in Seq(T), IsInjective(a), IsInjective(b),
           Range(a) \cap Range(b) = {}
    PROVE  IsInjective(a \o b)
<1> DEFINE n == Len(a)
           c == a \o b
<1>1. /\ n \in Nat /\ DOMAIN c \subseteq Int
      /\ \A i \in DOMAIN c : \/ i \in DOMAIN a /\ c[i] = a[i]
                             \/ i \notin DOMAIN a /\ i - n \in DOMAIN b /\ c[i] = b[i - n]
  BY JoinedFacts
<1> HIDE DEF n, c
<1>2. \A i \in DOMAIN a, j \in DOMAIN b : a[i] # b[j]
  BY DEF Range
<1>3. \A i, j \in DOMAIN c : i - n = j - n => i = j
  BY <1>1
<1>4. ASSUME NEW i \in DOMAIN c, NEW j \in DOMAIN c, c[i] = c[j] PROVE i = j
  BY <1>1, <1>2, <1>3, <1>4 DEF IsInjective
<1> QED BY <1>4 DEF IsInjective, c

(* A line cut in two.                                                       *)
LEMMA CutFacts ==
    ASSUME NEW T, NEW q \in Seq(T), NEW i \in 1..(Len(q) + 1)
    PROVE  /\ SubSeq(q, 1, i - 1) \in Seq(T) /\ DOMAIN SubSeq(q, 1, i - 1) = 1..(i - 1)
           /\ SubSeq(q, i, Len(q)) \in Seq(T) /\ DOMAIN SubSeq(q, i, Len(q)) = 1..(Len(q) - i + 1)
           /\ \A j \in 1..(i - 1) : j \in DOMAIN q /\ SubSeq(q, 1, i - 1)[j] = q[j]
           /\ \A j \in 1..(Len(q) - i + 1) :
                j + i - 1 \in DOMAIN q /\ SubSeq(q, i, Len(q))[j] = q[j + i - 1]
           /\ Range(SubSeq(q, 1, i - 1)) = {q[j] : j \in 1..(i - 1)}
           /\ Range(SubSeq(q, i, Len(q))) = {q[j] : j \in i..Len(q)}
<1> DEFINE a == SubSeq(q, 1, i - 1)
           b == SubSeq(q, i, Len(q))
           n == Len(q)
<1>1. n \in Nat /\ DOMAIN q = 1..n /\ i \in 1..(n + 1)
  OBVIOUS
<1>2. /\ a \in Seq(T) /\ DOMAIN a = 1..(i - 1) /\ \A j \in 1..(i - 1) : a[j] = q[j]
      /\ b \in Seq(T) /\ DOMAIN b = 1..(n - i + 1) /\ \A j \in 1..(n - i + 1) : b[j] = q[j + i - 1]
  BY <1>1
<1> HIDE DEF a, b, n
<1>3. /\ \A j \in 1..(i - 1) : j \in 1..n
      /\ \A j \in 1..(n - i + 1) : j + i - 1 \in i..n /\ j + i - 1 \in 1..n
      /\ \A j \in i..n : j - i + 1 \in 1..(n - i + 1) /\ (j - i + 1) + i - 1 = j
  BY <1>1
<1>4. Range(a) = {q[j] : j \in 1..(i - 1)}
  BY <1>2 DEF Range
<1>5. Range(b) = {q[j] : j \in i..n}
  <2>1. \A j \in i..n : b[j - i + 1] = q[j]
    BY <1>2, <1>3
  <2> QED BY <1>2, <1>3, <2>1 DEF Range
<1> QED BY <1>1, <1>2, <1>3, <1>4, <1>5 DEF a, b, n

(* A part of a line, and the next one.                                      *)
LEMMA SubSeqFacts ==
    ASSUME NEW T, NEW q \in Seq(T), NEW a \in Nat, NEW b \in Nat, a <= b, b <= Len(q)
    PROVE  /\ SubSeq(q, a + 1, b) \in Seq(T) /\ Len(SubSeq(q, a + 1, b)) = b - a
           /\ \A i \in 1..(b - a) : SubSeq(q, a + 1, b)[i] = q[a + i]
<1> DEFINE s == SubSeq(q, a + 1, b)
<1>1. Len(q) \in Nat /\ DOMAIN q = 1..Len(q)
  OBVIOUS
<1>2. s \in Seq(T) /\ Len(s) = b - a /\ \A i \in 1..(b - a) : s[i] = q[i + a]
  BY <1>1
<1>3. \A i \in 1..(b - a) : i + a = a + i
  OBVIOUS
<1> HIDE DEF s
<1> QED BY <1>2, <1>3 DEF s

(* The same members, the same line.                                        *)
LEMMA SameLine ==
    ASSUME NEW T, NEW p \in Seq(T), NEW q \in Seq(T), NEW n \in Nat, Len(p) = n, Len(q) = n,
           \A i \in 1..n : p[i] = q[i]
    PROVE  p = q
<1>1. p = [i \in 1..n |-> p[i]] /\ q = [i \in 1..n |-> q[i]]
  OBVIOUS
<1> QED BY <1>1

-----------------------------------------------------------------------------
(* Finite sets.                                                            *)

(* A part of a finite set has fewer members, unless it is the whole.        *)
LEMMA Fewer ==
    ASSUME NEW S, IsFiniteSet(S), NEW T, T \subseteq S
    PROVE  /\ IsFiniteSet(T) /\ Cardinality(T) \in Nat /\ Cardinality(S) \in Nat
           /\ Cardinality(T) <= Cardinality(S) /\ (T # S => Cardinality(T) < Cardinality(S))
<1>1. /\ IsFiniteSet(T) /\ Cardinality(T) <= Cardinality(S)
      /\ Cardinality(S) = Cardinality(T) => S = T
  BY FS_Subset
<1>2. Cardinality(T) \in Nat /\ Cardinality(S) \in Nat
  BY <1>1, FS_CardinalityType
<1> QED BY <1>1, <1>2

(* The first numbers, counted from 1 and from 0.                           *)
LEMMA FirstNumbers ==
    ASSUME NEW n \in Nat
    PROVE  /\ IsFiniteSet(1..n) /\ Cardinality(1..n) = n
           /\ IsFiniteSet(0..(n - 1)) /\ Cardinality(0..(n - 1)) = n
<1>1. \A a, b \in Int : IsFiniteSet(a..b) /\ Cardinality(a..b) = IF a > b THEN 0 ELSE b - a + 1
  BY FS_Interval
<1> QED BY <1>1

(* How many of S have a lower number; and that each of S has so a place of  *)
(* its own, and every place its member.                                    *)
RankIn(S, f, i) == Cardinality({j \in S : f[j] < f[i]})

RankedApart(S, f) ==
    /\ Cardinality(S) \in Nat
    /\ \A i \in S : RankIn(S, f, i) \in 0..(Cardinality(S) - 1)
    /\ \A i, j \in S : f[i] < f[j] <=> RankIn(S, f, i) < RankIn(S, f, j)
    /\ \A i, j \in S : RankIn(S, f, i) = RankIn(S, f, j) => i = j
    /\ \A n \in 1..Cardinality(S) : \E i \in S : RankIn(S, f, i) = n - 1

(* Numbered apart, the members of a finite set are ranked.                  *)
LEMMA RanksFill ==
    ASSUME NEW S, IsFiniteSet(S), NEW f, \A i \in S : f[i] \in Int,
           \A i, j \in S : f[i] = f[j] => i = j
    PROVE  RankedApart(S, f)
<1> DEFINE L == Cardinality(S)
           Lower(i) == {j \in S : f[j] < f[i]}
           Rank(i) == RankIn(S, f, i)
<1>1. L \in Nat
  BY FS_CardinalityType
<1>2. ASSUME NEW i \in S
      PROVE  IsFiniteSet(Lower(i)) /\ Rank(i) \in 0..(L - 1)
  <2>1. Lower(i) \subseteq S /\ i \notin Lower(i) /\ i \in S
    OBVIOUS
  <2>2. /\ IsFiniteSet(Lower(i)) /\ Cardinality(Lower(i)) \in Nat
        /\ Cardinality(Lower(i)) < Cardinality(S)
    BY <2>1, Fewer, Zenon
  <2> QED BY <1>1, <2>2 DEF RankIn
<1>3. ASSUME NEW i \in S, NEW j \in S, f[i] < f[j]
      PROVE  Rank(i) < Rank(j)
  <2>1. Lower(i) \subseteq Lower(j) /\ i \in Lower(j) /\ i \notin Lower(i)
    BY <1>3
  <2>2. IsFiniteSet(Lower(j)) /\ Lower(i) # Lower(j)
    BY <1>2, <2>1
  <2>3. Cardinality(Lower(i)) < Cardinality(Lower(j))
    BY <2>1, <2>2, Fewer, Zenon
  <2> QED BY <2>3 DEF RankIn
<1>4. \A i \in S : Rank(i) \in 0..(L - 1)
  BY <1>2
<1> HIDE DEF L, Rank
<1>5. \A i, j \in S : i # j => f[i] < f[j] \/ f[j] < f[i]
  OBVIOUS
<1>6. \A i, j \in S : Rank(i) = Rank(j) => i = j
  BY <1>1, <1>3, <1>4, <1>5
<1>7. ASSUME NEW i \in S, NEW j \in S PROVE f[i] < f[j] <=> Rank(i) < Rank(j)
  <2>1. Rank(i) \in Nat /\ Rank(j) \in Nat /\ f[i] \in Int /\ f[j] \in Int
    BY <1>1, <1>4
  <2>2. f[j] < f[i] => Rank(j) < Rank(i)
    BY <1>3
  <2>3. f[i] < f[j] => Rank(i) < Rank(j)
    BY <1>3
  <2>4. i # j => f[i] < f[j] \/ f[j] < f[i]
    BY <1>5
  <2> QED BY <2>1, <2>2, <2>3, <2>4
<1>8. \A n \in 1..L : \E i \in S : Rank(i) = n - 1
  <2> DEFINE place == [i \in S |-> Rank(i)]
  <2>1. IsFiniteSet(0..(L - 1)) /\ Cardinality(0..(L - 1)) = L
    BY <1>1, FirstNumbers
  <2>2. place \in Injection(S, 0..(L - 1))
    BY <1>4, <1>6 DEF Injection, IsInjective
  <2>3. place \in Surjection(S, 0..(L - 1))
    BY <2>1, <2>2, FS_Injection DEF L
  <2>4. \A m \in 0..(L - 1) : \E i \in S : place[i] = m
    BY <2>3 DEF Surjection
  <2>5. \A n \in 1..L : n - 1 \in 0..(L - 1)
    BY <1>1
  <2> QED BY <2>4, <2>5
<1> QED BY <1>1, <1>4, <1>6, <1>7, <1>8 DEF RankedApart, L, Rank

(* The sequence made of a finite set.                                       *)
LEMMA ListedOnce ==
    ASSUME NEW S, IsFiniteSet(S)
    PROVE  SetToSeq(S) \in Seq(S) /\ IsInjective(SetToSeq(S)) /\ Range(SetToSeq(S)) = S
<1> DEFINE n == Cardinality(S)
           q == SetToSeq(S)
<1>1. n \in Nat /\ ExistsBijection(1..n, S)
  BY FS_CardinalityType
<1>2. IsFiniteSet(1..n) /\ Cardinality(1..n) = n
  BY <1>1, FirstNumbers
<1> HIDE DEF n
<1>3. \E f \in [1..n -> S] : IsInjective(f)
  BY <1>1 DEF ExistsBijection, Bijection, Injection
<1>4. q \in [1..n -> S] /\ IsInjective(q)
  BY <1>3 DEF SetToSeq, n
<1> HIDE DEF q
<1>5. q \in Injection(1..n, S)
  BY <1>4 DEF Injection
<1>6. q \in Surjection(1..n, S)
  BY <1>2, <1>5, FS_Injection DEF n
<1>7. Range(q) = S
  BY <1>4, <1>6 DEF Surjection, Range
<1>8. q \in Seq(S)
  BY <1>1, <1>4
<1> QED BY <1>4, <1>7, <1>8 DEF q

(* A sequence has finitely many members.                                    *)
LEMMA FinitelyMany ==
    ASSUME NEW T, NEW q \in Seq(T)
    PROVE  IsFiniteSet(Range(q))
<1>1. DOMAIN q = 1..Len(q) /\ Len(q) \in Nat
  OBVIOUS
<1>2. IsFiniteSet(DOMAIN q)
  BY <1>1, FirstNumbers
<1>3. q \in Surjection(DOMAIN q, Range(q))
  BY <1>1 DEF Surjection, Range
<1> QED BY <1>2, <1>3, FS_Surjection

-----------------------------------------------------------------------------
(* Division.                                                               *)

(* Of some numbers, one is the least.                                      *)
LEMMA LeastOf == ASSUME NEW S \in SUBSET Nat, S # {} PROVE \E i \in S : \A j \in S : i <= j
<1> DEFINE R == {ss \in Nat \X Nat : ss[1] < ss[2]}
<1>1. IsWellFoundedOn(R, Nat)
  BY NatLessThanWellFounded DEF OpToRel
<1>2. \A i, j \in Nat : j < i => <<j, i>> \in R
  OBVIOUS
<1> HIDE DEF R
<1>3. PICK i \in S : \A j \in S : ~ (<<j, i>> \in R)
  BY <1>1, WFMin
<1>4. \A j \in S : ~ (j < i)
  BY <1>2, <1>3
<1> QED BY <1>4

(* More, times as many.                                                    *)
LEMMA TimesMore == ASSUME NEW a \in Nat, NEW b \in Nat, NEW c \in Nat, a <= b PROVE a * c <= b * c
<1>1. PICK e \in Nat : b = a + e
  <2>1. b - a \in Nat /\ b = a + (b - a)
    OBVIOUS
  <2> QED BY <2>1
<1>2. b * c = a * c + e * c /\ e * c >= 0 /\ a * c \in Nat
  BY <1>1
<1> QED BY <1>2

(* Half of a positive number is less than it.                               *)
LEMMA HalfIsLess == \A n \in Nat \ {0} : n \div 2 \in Nat /\ n \div 2 < n
OBVIOUS

LEMMA QuotientIsExact ==
    ASSUME NEW d \in Nat \ {0}, NEW h \in Int
    PROVE  h \div d \in Int /\ d * (h \div d) <= h /\ h < d * (h \div d) + d
OBVIOUS

(* A day is over when all its hours are.                                    *)
LEMMA DaysOfHours ==
    ASSUME NEW d \in Nat \ {0}, NEW h \in Int, NEW n \in Int
    PROVE  n * d <= h <=> n <= h \div d
<1>1. PICK q \in Int : q = h \div d /\ d * q <= h /\ h < d * q + d
  BY QuotientIsExact
<1>2. ASSUME n <= q PROVE n * d <= h
  <2>1. d * (q - n) >= 0
    BY <1>2
  <2> QED BY <1>1, <2>1
<1>3. ASSUME n * d <= h PROVE n <= q
  <2> SUFFICES ASSUME n >= q + 1 PROVE FALSE
    BY <1>1
  <2>1. d * (n - (q + 1)) >= 0
    OBVIOUS
  <2> QED BY <1>1, <1>3, <2>1
<1> QED BY <1>1, <1>2, <1>3

(* A list of n has room on its pages for whoever has fewer before him.      *)
LEMMA PagesHold ==
    ASSUME NEW d \in Nat \ {0}, NEW n \in Nat, NEW m \in Nat, m < n
    PROVE  m \div d + 1 \in Nat \ {0} /\ m \div d + 1 <= (n + d - 1) \div d
<1>1. PICK q \in Int : q = m \div d /\ d * q <= m /\ m < d * q + d
  BY QuotientIsExact
<1>2. q >= 0
  <2> SUFFICES ASSUME q + 1 <= 0 PROVE FALSE
    BY <1>1
  <2>1. d * (0 - (q + 1)) >= 0
    OBVIOUS
  <2> QED BY <1>1, <2>1
<1>3. (q + 1) * d <= n + d - 1
  BY <1>1
<1>4. q + 1 <= (n + d - 1) \div d
  BY <1>3, DaysOfHours
<1> QED BY <1>1, <1>2, <1>4

(* The pages that are full, and the one after.                              *)
LEMMA FullPages ==
    ASSUME NEW limit \in Nat \ {0}, NEW total \in Nat
    PROVE  \E h \in Nat : /\ h = total \div limit
                          /\ h * limit <= total /\ total < (h + 1) * limit
<1>1. PICK h \in Int : h = total \div limit /\ limit * h <= total /\ total < limit * h + limit
  BY QuotientIsExact
<1>2. limit * h = h * limit /\ (h + 1) * limit = limit * h + limit
  BY <1>1
<1>3. h \in Nat
  <2> SUFFICES ASSUME h + 1 <= 0 PROVE FALSE
    BY <1>1
  <2>1. limit * (h + 1) <= 0
    OBVIOUS
  <2>2. limit * (h + 1) = limit * h + limit
    BY <1>1
  <2> QED BY <1>1, <2>1, <2>2
<1> QED BY <1>1, <1>2, <1>3

(* A sequence is of what is in it.                                         *)
LEMMA OfItsRange == ASSUME NEW T, NEW s \in Seq(T) PROVE s \in Seq(Range(s))
<1>1. Len(s) \in Nat /\ s = [i \in 1..Len(s) |-> s[i]] /\ DOMAIN s = 1..Len(s)
  OBVIOUS
<1>2. s \in [1..Len(s) -> Range(s)]
  BY <1>1 DEF Range
<1> QED BY <1>1, <1>2

(* Two sets that share nothing.                                             *)
LEMMA CountedApartly ==
    ASSUME NEW A, IsFiniteSet(A), NEW B, IsFiniteSet(B), A \cap B = {}
    PROVE  Cardinality(A \cup B) = Cardinality(A) + Cardinality(B)
<1>1. Cardinality(A \cup B) = Cardinality(A) + Cardinality(B) - Cardinality(A \cap B)
  BY FS_Union
<1>2. Cardinality(A) \in Nat /\ Cardinality(B) \in Nat /\ Cardinality(A \cap B) = 0
  BY FS_CardinalityType, FS_EmptySet
<1> QED BY <1>1, <1>2

(* As many as there are, each but once, are all.                            *)
LEMMA AllOnce ==
    ASSUME NEW S, IsFiniteSet(S), NEW q \in Seq(S), IsInjective(q), Len(q) = Cardinality(S)
    PROVE  Range(q) = S
<1> DEFINE n == Len(q)
<1>1. n \in Nat /\ DOMAIN q = 1..n /\ q \in [1..n -> S]
  OBVIOUS
<1>2. IsFiniteSet(1..n) /\ Cardinality(1..n) = n
  BY <1>1, FirstNumbers
<1>3. q \in Injection(1..n, S)
  BY <1>1 DEF Injection
<1> HIDE DEF n
<1>4. q \in Surjection(1..n, S)
  BY <1>2, <1>3, FS_Injection DEF n
<1> QED BY <1>1, <1>4 DEF Surjection, Range

=============================================================================
