--------------------------- MODULE SequenceLemmas ---------------------------
(* Induction over the natural numbers, as far as the provers can use it,   *)
(* and what it gives: a recursion over 0..N has a value, and a list of     *)
(* lists flattens to what is in them.  Then what taking, replacing,        *)
(* removing and inserting entries makes of a list, and where each of them  *)
(* is then.                                                                *)
EXTENDS SequencesExt, Integers, WellFoundedInduction, FiniteSetTheorems,
        SequenceTheorems, TLAPS

-----------------------------------------------------------------------------
(* Induction.                                                              *)

\* A set of natural numbers has a least one.
LEMMA LeastNat ==
    ASSUME NEW T, T \subseteq Nat, T # {}
    PROVE  \E n \in T : \A m \in T : n <= m
<1>1. IsWellFoundedOn(OpToRel(<, Nat), Nat)
  BY NatLessThanWellFounded
<1>2. PICK n \in T : \A m \in T : <<m, n>> \notin OpToRel(<, Nat)
  BY <1>1, WFMin
<1>3. ASSUME NEW m \in T PROVE n <= m
  <2>1. <<m, n>> \in Nat \X Nat
    OBVIOUS
  <2>2. m < n => <<m, n>> \in OpToRel(<, Nat)
    BY <2>1 DEF OpToRel
  <2>3. ~(m < n)
    BY <1>2, <2>2, Zenon
  <2> QED
    BY <2>3
<1> QED
  BY <1>3

\* What holds of 0 and goes from n-1 to n holds up to N.
LEMMA Induction ==
    ASSUME NEW N \in Nat, NEW G, 0 \in G, \A n \in 1..N : n - 1 \in G => n \in G
    PROVE  0..N \subseteq G
<1> DEFINE Bad == {n \in 0..N : n \notin G}
<1> SUFFICES ASSUME Bad # {} PROVE FALSE
  OBVIOUS
<1>1. Bad \subseteq Nat
  OBVIOUS
<1>2. PICK n \in Bad : \A m \in Bad : n <= m
  BY <1>1, LeastNat
<1>3. n \in 1..N /\ n - 1 \in 0..N /\ ~(n <= n - 1)
  BY <1>2
<1>4. n - 1 \in G
  BY <1>2, <1>3
<1> QED
  BY <1>2, <1>3, <1>4

\* The values of a recursion: from base, the n-th step applies g[n].
IsIteration(f, N, base, g) == f = [n \in 0..N |-> IF n = 0 THEN base ELSE g[n][f[n - 1]]]

\* A recursion over 0..N whose n-th step applies g[n] has a value in S.
LEMMA IterationExists ==
    ASSUME NEW N \in Nat, NEW S, NEW base \in S, NEW g \in [1..N -> [S -> S]]
    PROVE  \E f \in [0..N -> S] : IsIteration(f, N, base, g)
<1> DEFINE Has(n) == \E f \in [0..n -> S] : IsIteration(f, n, base, g)
           G == {n \in 0..N : Has(n)}
<1>1. 0 \in G
  <2>1. PICK f : f = [n \in 0..0 |-> base]
    OBVIOUS
  <2>2. f \in [0..0 -> S] /\ IsIteration(f, 0, base, g)
    BY <2>1 DEF IsIteration
  <2> QED
    BY <2>2
<1>2. ASSUME NEW n \in 1..N, n - 1 \in G PROVE n \in G
  <2>1. PICK h \in [0..(n - 1) -> S] : IsIteration(h, n - 1, base, g)
    BY <1>2
  <2>2. PICK f : f = [m \in 0..n |-> IF m = n THEN g[n][h[n - 1]] ELSE h[m]]
    OBVIOUS
  <2>3. h[n - 1] \in S /\ g[n] \in [S -> S]
    BY <2>1
  <2>4. f \in [0..n -> S]
    <3>1. g[n][h[n - 1]] \in S
      BY <2>3
    <3> QED
      BY <2>1, <2>2, <3>1
  <2>5. ASSUME NEW m \in 0..n
        PROVE  f[m] = IF m = 0 THEN base ELSE g[m][f[m - 1]]
    <3>1. CASE m = n
      <4>1. f[n - 1] = h[n - 1] /\ n # 0
        BY <2>2
      <4> QED
        BY <2>2, <3>1, <4>1
    <3>2. CASE m # n
      <4>1. m \in 0..(n - 1) /\ (m # 0 => m - 1 \in 0..(n - 1))
        BY <3>2
      <4>2. h[m] = IF m = 0 THEN base ELSE g[m][h[m - 1]]
        BY <2>1, <4>1 DEF IsIteration
      <4>3. f[m] = h[m] /\ (m # 0 => f[m - 1] = h[m - 1])
        BY <2>2, <3>2, <4>1
      <4> QED
        BY <4>2, <4>3
    <3> QED
      BY <3>1, <3>2
  <2>6. IsIteration(f, n, base, g)
    BY <2>4, <2>5 DEF IsIteration
  <2> QED
    BY <2>4, <2>6
<1>3. 0..N \subseteq G
  <2> HIDE DEF G
  <2> QED
    BY <1>1, <1>2, Induction
<1> QED
  BY <1>3

-----------------------------------------------------------------------------
(* Lists of lists.                                                         *)

\* Two lists in one hold what either holds.
LEMMA ConcatEntries ==
    ASSUME NEW T, NEW s \in Seq(T), NEW t \in Seq(T)
    PROVE  s \o t \in Seq(T) /\ ToSet(s \o t) = ToSet(s) \cup ToSet(t)
<1>1. s \o t \in Seq(T) /\ Len(s \o t) = Len(s) + Len(t) /\ Len(s) \in Nat /\ Len(t) \in Nat
  OBVIOUS
<1>2. ASSUME NEW i \in DOMAIN (s \o t) PROVE (s \o t)[i] \in ToSet(s) \cup ToSet(t)
  <2>1. i \in 1..(Len(s) + Len(t))
    BY <1>1
  <2>2. CASE i <= Len(s)
    BY <2>1, <2>2, <1>1 DEF ToSet
  <2>3. CASE i > Len(s)
    <3>1. i - Len(s) \in DOMAIN t /\ (s \o t)[i] = t[i - Len(s)]
      BY <2>1, <2>3, <1>1
    <3> QED
      BY <3>1 DEF ToSet
  <2> QED
    BY <2>1, <2>2, <2>3, <1>1
<1>3. ASSUME NEW i \in DOMAIN s PROVE s[i] \in ToSet(s \o t)
  <2>1. i \in DOMAIN (s \o t) /\ (s \o t)[i] = s[i]
    BY <1>1
  <2> QED
    BY <2>1 DEF ToSet
<1>4. ASSUME NEW i \in DOMAIN t PROVE t[i] \in ToSet(s \o t)
  <2>1. Len(s) + i \in DOMAIN (s \o t) /\ (s \o t)[Len(s) + i] = t[i]
    BY <1>1
  <2> QED
    BY <2>1 DEF ToSet
<1> QED
  BY <1>1, <1>2, <1>3, <1>4 DEF ToSet

IsFlattening(f, ss) ==
    f = [i \in 1..Len(ss) |-> IF i = 1 THEN ss[i] ELSE f[i - 1] \o ss[i]]

\* The recursion by which the library flattens a list of lists has a value.
LEMMA FlatteningExists ==
    ASSUME NEW T, NEW ss \in Seq(Seq(T)), Len(ss) # 0
    PROVE  \E f : IsFlattening(f, ss)
<1> DEFINE N == Len(ss) - 1
           g == [n \in 1..N |-> [s \in Seq(T) |-> s \o ss[n + 1]]]
<1>1. Len(ss) \in Nat /\ N \in Nat /\ \A i \in 1..Len(ss) : ss[i] \in Seq(T)
  OBVIOUS
<1>2. g \in [1..N -> [Seq(T) -> Seq(T)]]
  <2>1. \A n \in 1..N : ss[n + 1] \in Seq(T)
    BY <1>1
  <2> QED
    BY <2>1
<1>3. PICK h \in [0..N -> Seq(T)] : IsIteration(h, N, ss[1], g)
  <2> HIDE DEF N, g
  <2>1. ss[1] \in Seq(T)
    OBVIOUS
  <2> QED
    BY <1>1, <1>2, <2>1, IterationExists
<1>4. PICK f : f = [i \in 1..Len(ss) |-> h[i - 1]]
  OBVIOUS
<1>5. ASSUME NEW i \in 1..Len(ss)
      PROVE  f[i] = IF i = 1 THEN ss[i] ELSE f[i - 1] \o ss[i]
  <2>1. i - 1 \in 0..N /\ f[i] = h[i - 1]
    BY <1>1, <1>4
  <2>2. CASE i = 1
    BY <2>1, <2>2, <1>3 DEF IsIteration
  <2>3. CASE i # 1
    <3>1. i - 1 \in 1..N /\ i - 2 \in 0..N /\ (i - 1) - 1 = i - 2 /\ (i - 1) + 1 = i
          /\ i - 1 \in 1..Len(ss)
      BY <1>1, <2>3
    <3>2. h[i - 1] = g[i - 1][h[i - 2]] /\ h[i - 2] \in Seq(T)
      <4> HIDE DEF N, g
      <4>1. \A k \in 1..N : h[k] = g[k][h[k - 1]]
        BY <1>1, <1>3 DEF IsIteration
      <4>2. h[i - 1] = g[i - 1][h[(i - 1) - 1]]
        BY <3>1, <4>1
      <4> QED
        BY <1>3, <3>1, <4>2
    <3>3. g[i - 1][h[i - 2]] = h[i - 2] \o ss[i]
      <4>1. g[i - 1] = [s \in Seq(T) |-> s \o ss[(i - 1) + 1]]
        BY <3>1
      <4> HIDE DEF g
      <4>2. g[i - 1] = [s \in Seq(T) |-> s \o ss[i]]
        BY <3>1, <4>1
      <4> QED
        BY <3>2, <4>2
    <3>4. f[i - 1] = h[i - 2]
      BY <1>4, <3>1
    <3> QED
      BY <2>1, <2>3, <3>2, <3>3, <3>4
  <2> QED
    BY <2>2, <2>3
<1>6. f = [i \in 1..Len(ss) |-> f[i]]
  BY <1>4
<1> HIDE DEF g, N
<1>7. IsFlattening(f, ss)
  BY <1>5, <1>6, Zenon DEF IsFlattening
<1> QED
  BY <1>7

\* ... and it is the value the library chooses.
LEMMA FlattenSeqIs ==
    ASSUME NEW T, NEW ss \in Seq(Seq(T)), Len(ss) # 0
    PROVE  \E f : IsFlattening(f, ss) /\ FlattenSeq(ss) = f[Len(ss)]
<1> DEFINE flatten == CHOOSE f : IsFlattening(f, ss)
<1>1. IsFlattening(flatten, ss)
  BY FlatteningExists
<1>2. FlattenSeq(ss) = flatten[Len(ss)]
  BY DEF FlattenSeq, IsFlattening
<1> QED
  BY <1>1, <1>2

\* The entries of a list of lists are those of its lists.
LEMMA FlattenSeqEntries ==
    ASSUME NEW T, NEW ss \in Seq(Seq(T))
    PROVE  /\ FlattenSeq(ss) \in Seq(T)
           /\ ToSet(FlattenSeq(ss)) = UNION {ToSet(ss[i]) : i \in DOMAIN ss}
<1>1. CASE Len(ss) = 0
  BY <1>1 DEF FlattenSeq, ToSet
<1>2. CASE Len(ss) # 0
  <2>1. PICK f : IsFlattening(f, ss) /\ FlattenSeq(ss) = f[Len(ss)]
    BY <1>2, FlattenSeqIs
  <2> DEFINE Upto(n) == UNION {ToSet(ss[i]) : i \in 1..n}
             G == {n \in 0..Len(ss) : n = 0 \/ (f[n] \in Seq(T) /\ ToSet(f[n]) = Upto(n))}
  <2>2. Len(ss) \in Nat /\ 0 \in G /\ \A i \in 1..Len(ss) : ss[i] \in Seq(T)
    OBVIOUS
  <2>3. ASSUME NEW n \in 1..Len(ss), n - 1 \in G PROVE n \in G
    <3>1. f[n] = IF n = 1 THEN ss[n] ELSE f[n - 1] \o ss[n]
      BY <2>1 DEF IsFlattening
    <3>2. CASE n = 1
      BY <2>2, <3>1, <3>2
    <3>3. CASE n # 1
      <4>1. n - 1 # 0 /\ f[n - 1] \in Seq(T) /\ ToSet(f[n - 1]) = Upto(n - 1)
        BY <2>3, <3>3
      <4>2. f[n] = f[n - 1] \o ss[n] /\ ss[n] \in Seq(T)
        BY <2>2, <3>1, <3>3
      <4>3. f[n] \in Seq(T) /\ ToSet(f[n]) = ToSet(f[n - 1]) \cup ToSet(ss[n])
        BY <4>1, <4>2, ConcatEntries
      <4>4. 1..n = (1..(n - 1)) \cup {n}
        OBVIOUS
      <4>5. Upto(n) = Upto(n - 1) \cup ToSet(ss[n])
        BY <4>4
      <4> HIDE DEF Upto
      <4>6. ToSet(f[n]) = Upto(n)
        BY <4>1, <4>3, <4>5
      <4> QED
        BY <4>3, <4>6, <2>2
    <3> QED
      BY <3>2, <3>3
  <2>4. Len(ss) \in G
    <3> HIDE DEF G
    <3>1. 0..Len(ss) \subseteq G
      BY <2>2, <2>3, Induction
    <3> QED
      BY <2>2, <3>1
  <2>5. DOMAIN ss = 1..Len(ss)
    OBVIOUS
  <2> QED
    BY <1>2, <2>1, <2>4, <2>5
<1> QED
  BY <1>1, <1>2

-----------------------------------------------------------------------------
(* What the edits of a list leave in it.                                   *)

\* A list is a list of its own entries.
LEMMA OwnEntries ==
    ASSUME NEW T, NEW s \in Seq(T)
    PROVE  s \in Seq(ToSet(s)) /\ ToSet(s) \subseteq T
<1>1. Len(s) \in Nat /\ DOMAIN s = 1..Len(s) /\ \A i \in 1..Len(s) : s[i] \in T
  OBVIOUS
<1>2. \A i \in 1..Len(s) : s[i] \in ToSet(s)
  BY <1>1 DEF ToSet
<1>3. s \in Seq(ToSet(s))
  <2>1. s = [i \in 1..Len(s) |-> s[i]]
    OBVIOUS
  <2>2. s \in [1..Len(s) -> ToSet(s)]
    BY <1>2, <2>1
  <2> QED
    BY <1>1, <2>2
<1> QED
  BY <1>1, <1>3 DEF ToSet

\* The list of one entry.
LEMMA SingletonEntries ==
    ASSUME NEW T, NEW e \in T PROVE <<e>> \in Seq(T) /\ ToSet(<<e>>) = {e}
  BY DEF ToSet

\* The list of two entries.
LEMMA PairEntries ==
    ASSUME NEW T, NEW a \in T, NEW b \in T PROVE <<a, b>> \in Seq(T)
  OBVIOUS

\* A function on 1..n is a list of length n.
LEMMA FunctionEntries ==
    ASSUME NEW T, NEW n \in Nat, NEW f \in [1..n -> T]
    PROVE  f \in Seq(T) /\ Len(f) = n /\ DOMAIN f = 1..n
  OBVIOUS

\* One entry is replaced.
ReplacedAt(s, i, e) == [s EXCEPT ![i] = e]

\* One entry replaced: the others keep their places.
LEMMA ReplacedEntries ==
    ASSUME NEW T, NEW s \in Seq(T), NEW i \in DOMAIN s, NEW e \in T
    PROVE  /\ ReplacedAt(s, i, e) \in Seq(T) /\ DOMAIN ReplacedAt(s, i, e) = DOMAIN s
           /\ ReplacedAt(s, i, e)[i] = e
           /\ \A k \in DOMAIN s \ {i} : ReplacedAt(s, i, e)[k] = s[k]
<1>1. Len(s) \in Nat /\ DOMAIN s = 1..Len(s) /\ s \in [1..Len(s) -> T]
  OBVIOUS
<1>2. [s EXCEPT ![i] = e] \in [1..Len(s) -> T]
  BY <1>1
<1>3. [s EXCEPT ![i] = e] \in Seq(T)
  BY <1>1, <1>2, FunctionEntries
<1> QED
  BY <1>1, <1>3 DEF ReplacedAt

\* What the first i entries hold.
LEMMA PrefixEntries ==
    ASSUME NEW T, NEW s \in Seq(T), NEW i \in 0..Len(s)
    PROVE  /\ SubSeq(s, 1, i) \in Seq(T)
           /\ ToSet(SubSeq(s, 1, i)) = {s[k] : k \in 1..i}
<1>1. Len(s) \in Nat /\ DOMAIN s = 1..Len(s)
  OBVIOUS
<1>2. /\ SubSeq(s, 1, i) \in Seq(T) /\ Len(SubSeq(s, 1, i)) = i
      /\ \A k \in 1..i : SubSeq(s, 1, i)[k] = s[k]
  BY <1>1
<1>3. DOMAIN SubSeq(s, 1, i) = 1..i
  BY <1>2
<1> QED
  BY <1>2, <1>3 DEF ToSet

\* What the entries from the i-th on hold.
LEMMA SuffixEntries ==
    ASSUME NEW T, NEW s \in Seq(T), NEW i \in 1..(Len(s) + 1)
    PROVE  /\ SubSeq(s, i, Len(s)) \in Seq(T)
           /\ ToSet(SubSeq(s, i, Len(s))) = {s[k] : k \in i..Len(s)}
<1> DEFINE t == SubSeq(s, i, Len(s))
           n == Len(s) - i + 1
<1>1. Len(s) \in Nat /\ DOMAIN s = 1..Len(s) /\ n \in Nat
  OBVIOUS
<1>2. t \in Seq(T) /\ Len(t) = n /\ \A k \in 1..n : t[k] = s[i + k - 1]
  BY <1>1
<1>3. DOMAIN t = 1..n
  BY <1>2
<1> HIDE DEF t
<1>4. \A k \in 1..n : i + k - 1 \in i..Len(s)
  BY <1>1
<1>5. ASSUME NEW k \in i..Len(s) PROVE \E l \in 1..n : s[k] = t[l]
  <2>1. k - i + 1 \in 1..n /\ i + (k - i + 1) - 1 = k
    BY <1>1
  <2>2. t[k - i + 1] = s[i + (k - i + 1) - 1]
    BY <1>2, <2>1
  <2> QED
    BY <2>1, <2>2
<1>6. ToSet(t) = {s[k] : k \in i..Len(s)}
  <2>1. \A k \in 1..n : t[k] \in {s[l] : l \in i..Len(s)}
    BY <1>2, <1>4
  <2>2. \A k \in i..Len(s) : s[k] \in ToSet(t)
    BY <1>3, <1>5 DEF ToSet
  <2>3. ToSet(t) \subseteq {s[k] : k \in i..Len(s)}
    BY <1>3, <2>1 DEF ToSet
  <2> QED
    BY <2>2, <2>3
<1> QED
  BY <1>2, <1>6 DEF t

\* One entry taken out: nothing else goes.
LEMMA RemoveAtEntries ==
    ASSUME NEW T, NEW s \in Seq(T), NEW i \in DOMAIN s
    PROVE  /\ RemoveAt(s, i) \in Seq(T) /\ Len(RemoveAt(s, i)) = Len(s) - 1
           /\ ToSet(s) = ToSet(RemoveAt(s, i)) \cup {s[i]}
<1> DEFINE a == SubSeq(s, 1, i - 1)
           b == SubSeq(s, i + 1, Len(s))
<1>1. Len(s) \in Nat /\ DOMAIN s = 1..Len(s) /\ i - 1 \in 0..Len(s) /\ i + 1 \in 1..(Len(s) + 1)
  OBVIOUS
<1>2. a \in Seq(T) /\ ToSet(a) = {s[k] : k \in 1..(i - 1)}
  <2> HIDE DEF a
  <2> QED
    BY <1>1, PrefixEntries DEF a
<1>3. b \in Seq(T) /\ ToSet(b) = {s[k] : k \in (i + 1)..Len(s)}
  <2> HIDE DEF b
  <2> QED
    BY <1>1, SuffixEntries DEF b
<1>4. RemoveAt(s, i) = a \o b
  BY DEF RemoveAt
<1>8. Len(a) = i - 1 /\ Len(b) = Len(s) - i
  BY <1>1
<1> HIDE DEF a, b
<1>9. Len(a \o b) = Len(s) - 1
  <2>1. Len(a \o b) = Len(a) + Len(b)
    BY <1>2, <1>3
  <2> QED
    BY <1>1, <1>8, <2>1
<1>5. a \o b \in Seq(T) /\ ToSet(a \o b) = ToSet(a) \cup ToSet(b)
  BY <1>2, <1>3, ConcatEntries
<1>6. DOMAIN s = 1..(i - 1) \cup {i} \cup (i + 1)..Len(s)
  BY <1>1
<1>7. ToSet(s) = {s[k] : k \in 1..(i - 1)} \cup {s[i]} \cup {s[k] : k \in (i + 1)..Len(s)}
  BY <1>6 DEF ToSet
<1> QED
  BY <1>4, <1>5, <1>2, <1>3, <1>7, <1>9

\* One entry put in: nothing else comes or goes.
LEMMA InsertAtEntries ==
    ASSUME NEW T, NEW s \in Seq(T), NEW i \in 1..(Len(s) + 1), NEW e \in T
    PROVE  InsertAt(s, i, e) \in Seq(T) /\ ToSet(InsertAt(s, i, e)) = ToSet(s) \cup {e}
<1> DEFINE a == SubSeq(s, 1, i - 1)
           b == SubSeq(s, i, Len(s))
<1>1. Len(s) \in Nat /\ DOMAIN s = 1..Len(s) /\ i - 1 \in 0..Len(s)
  OBVIOUS
<1>2. a \in Seq(T) /\ ToSet(a) = {s[k] : k \in 1..(i - 1)}
  <2> HIDE DEF a
  <2> QED
    BY <1>1, PrefixEntries DEF a
<1>3. b \in Seq(T) /\ ToSet(b) = {s[k] : k \in i..Len(s)}
  <2> HIDE DEF b
  <2> QED
    BY <1>1, SuffixEntries DEF b
<1> DEFINE one == <<e>>
<1>4. InsertAt(s, i, e) = a \o one \o b /\ one \in Seq(T) /\ ToSet(one) = {e}
  BY DEF InsertAt, ToSet
<1> HIDE DEF a, b, one
<1>5. a \o one \in Seq(T) /\ ToSet(a \o one) = ToSet(a) \cup {e}
  BY <1>2, <1>4, ConcatEntries
<1> DEFINE c == a \o one
<1> HIDE DEF c
<1>6. InsertAt(s, i, e) \in Seq(T) /\ ToSet(InsertAt(s, i, e)) = ToSet(a) \cup {e} \cup ToSet(b)
  <2>1. c \in Seq(T) /\ ToSet(c) = ToSet(a) \cup {e}
    BY <1>5 DEF c
  <2>2. c \o b \in Seq(T) /\ ToSet(c \o b) = ToSet(c) \cup ToSet(b)
    BY <1>3, <2>1, ConcatEntries
  <2> QED
    BY <1>4, <2>1, <2>2 DEF c
<1>7. DOMAIN s = 1..(i - 1) \cup i..Len(s)
  BY <1>1
<1>8. ToSet(s) = {s[k] : k \in 1..(i - 1)} \cup {s[k] : k \in i..Len(s)}
  BY <1>7 DEF ToSet
<1> QED
  BY <1>2, <1>3, <1>6, <1>8

\* One entry added at the end.
LEMMA AppendEntries ==
    ASSUME NEW T, NEW s \in Seq(T), NEW e \in T
    PROVE  Append(s, e) \in Seq(T) /\ ToSet(Append(s, e)) = ToSet(s) \cup {e}
<1> DEFINE one == <<e>>
<1>1. one \in Seq(T) /\ ToSet(one) = {e}
  BY DEF ToSet
<1>2. Append(s, e) = s \o one
  OBVIOUS
<1> HIDE DEF one
<1> QED
  BY <1>1, <1>2, ConcatEntries

\* A finite set is listed in some order, each element once.
LEMMA SetToSeqEntries ==
    ASSUME NEW S, IsFiniteSet(S)
    PROVE  SetToSeq(S) \in Seq(S) /\ ToSet(SetToSeq(S)) = S
<1> DEFINE N == Cardinality(S)
           f == SetToSeq(S)
<1>1. N \in Nat
  BY FS_CardinalityType
<1>2. PICK n \in Nat : ExistsBijection(1..n, S)
  BY FS_NatBijection
<1>3. n = N
  BY <1>2, FS_CountingElements
<1>4. \E g \in [1..N -> S] : IsInjective(g)
  BY <1>2, <1>3 DEF ExistsBijection, Bijection, Injection
<1>5. f \in [1..N -> S] /\ IsInjective(f)
  BY <1>4 DEF SetToSeq
<1> HIDE DEF f
<1>6. IsFiniteSet(1..N) /\ Cardinality(1..N) = N
  <2>1. 1 \in Int /\ N \in Int
    BY <1>1
  <2> HIDE DEF N
  <2> QED
    BY <1>1, <2>1, FS_Interval
<1>7. f \in Surjection(1..N, S)
  <2>1. f \in Injection(1..N, S)
    BY <1>5 DEF Injection
  <2> QED
    BY <1>6, <2>1, FS_Injection
<1>8. f \in Seq(S)
  BY <1>1, <1>5
<1>9. ToSet(f) = S
  BY <1>5, <1>7 DEF ToSet, Surjection
<1> QED
  BY <1>8, <1>9 DEF f

-----------------------------------------------------------------------------
(* What stands where in lists put together, cut and edited.               *)

\* What stands where in two lists put together.
LEMMA ConcatPlaces ==
    ASSUME NEW T
    PROVE  \A s, t \in Seq(T) :
              /\ s \o t \in Seq(T) /\ Len(s \o t) = Len(s) + Len(t)
              /\ \A k \in 1..Len(s) : (s \o t)[k] = s[k]
              /\ \A k \in 1..Len(t) : (s \o t)[Len(s) + k] = t[k]
  OBVIOUS

\* Putting lists together is associative.
LEMMA ConcatThree ==
    ASSUME NEW T PROVE \A s, t, u \in Seq(T) : (s \o t) \o u = s \o (t \o u)
  BY ConcatAssociative

\* The lists that the flattening recursion passes through are lists of the same entries.
LEMMA FlatteningType ==
    ASSUME NEW T, NEW ss \in Seq(Seq(T)), NEW f, IsFlattening(f, ss)
    PROVE  \A n \in 1..Len(ss) : f[n] \in Seq(T)
<1> DEFINE G == {n \in 0..Len(ss) : n = 0 \/ f[n] \in Seq(T)}
<1>1. Len(ss) \in Nat /\ 0 \in G /\ \A i \in 1..Len(ss) : ss[i] \in Seq(T)
  OBVIOUS
<1>2. ASSUME NEW n \in 1..Len(ss), n - 1 \in G PROVE n \in G
  <2>1. f[n] = IF n = 1 THEN ss[n] ELSE f[n - 1] \o ss[n]
    BY DEF IsFlattening
  <2>2. CASE n = 1
    BY <1>1, <2>1, <2>2
  <2>3. CASE n # 1
    <3>1. f[n - 1] \in Seq(T)
      <4>1. n - 1 # 0
        BY <2>3
      <4> QED
        BY <1>2, <4>1
    <3>3. ss[n] \in Seq(T) /\ f[n] = f[n - 1] \o ss[n]
      BY <1>1, <2>1, <2>3
    <3>2. f[n] \in Seq(T)
      BY <3>1, <3>3
    <3> QED
      BY <1>1, <3>2
  <2> QED
    BY <2>2, <2>3
<1> HIDE DEF G
<1>3. 0..Len(ss) \subseteq G
  BY <1>1, <1>2, Induction
<1>4. ASSUME NEW n \in 1..Len(ss) PROVE f[n] \in Seq(T)
  <2>1. n \in 0..Len(ss) /\ n # 0
    BY <1>1
  <2>2. n \in G
    BY <1>3, <2>1
  <2> QED
    BY <2>1, <2>2 DEF G
<1> QED
  BY <1>4

\* Two lists of lists, one after the other, flatten one after the other.
LEMMA FlattenSeqConcat ==
    ASSUME NEW T, NEW a \in Seq(Seq(T)), NEW b \in Seq(Seq(T))
    PROVE  FlattenSeq(a \o b) = FlattenSeq(a) \o FlattenSeq(b)
<1> DEFINE c == a \o b
           m == Len(a)
<1>c. \A s, t, u \in Seq(T) : (s \o t) \o u = s \o (t \o u)
  BY ConcatThree
<1>1. /\ m \in Nat /\ Len(b) \in Nat /\ c \in Seq(Seq(T)) /\ Len(c) = m + Len(b)
      /\ \A n \in 1..m : a[n] \in Seq(T) /\ c[n] = a[n]
      /\ \A n \in 1..Len(b) : b[n] \in Seq(T) /\ c[m + n] = b[n]
  OBVIOUS
<1>2. FlattenSeq(a) \in Seq(T) /\ FlattenSeq(b) \in Seq(T)
  BY FlattenSeqEntries
<1>3. CASE m = 0
  <2>1. a = <<>> /\ c = b
    BY <1>3
  <2>2. FlattenSeq(a) = <<>>
    BY <2>1 DEF FlattenSeq
  <2> QED
    BY <1>2, <2>1, <2>2
<1>4. CASE Len(b) = 0
  <2>1. b = <<>> /\ c = a
    BY <1>4
  <2>2. FlattenSeq(b) = <<>>
    BY <2>1 DEF FlattenSeq
  <2> QED
    BY <1>2, <2>1, <2>2
<1>5. CASE m # 0 /\ Len(b) # 0
  <2>1. Len(c) # 0
    BY <1>1, <1>5
  <2> HIDE DEF c
  <2>2. PICK f : IsFlattening(f, a) /\ FlattenSeq(a) = f[m]
    BY <1>5, FlattenSeqIs
  <2>3. PICK g : IsFlattening(g, b) /\ FlattenSeq(b) = g[Len(b)]
    BY <1>5, FlattenSeqIs
  <2>4. PICK h : IsFlattening(h, c) /\ FlattenSeq(c) = h[Len(c)]
    BY <1>1, <2>1, FlattenSeqIs
  <2>5. /\ \A n \in 1..m : f[n] \in Seq(T) /\ f[n] = IF n = 1 THEN a[n] ELSE f[n - 1] \o a[n]
        /\ \A n \in 1..Len(b) : g[n] \in Seq(T) /\ g[n] = IF n = 1 THEN b[n] ELSE g[n - 1] \o b[n]
        /\ \A n \in 1..Len(c) : h[n] = IF n = 1 THEN c[n] ELSE h[n - 1] \o c[n]
    BY <2>2, <2>3, <2>4, FlatteningType DEF IsFlattening
  <2> DEFINE F == {n \in 0..m : n = 0 \/ h[n] = f[n]}
             G == {n \in 0..Len(b) : n = 0 \/ h[m + n] = f[m] \o g[n]}
  <2> HIDE DEF m
  <2>6. 0..m \subseteq F
    <3>1. 0 \in F
      BY <1>1
    <3>2. ASSUME NEW n \in 1..m, n - 1 \in F PROVE n \in F
      <4>1. n \in 1..Len(c) /\ n \in 0..m
        BY <1>1
      <4>2. h[n] = IF n = 1 THEN a[n] ELSE h[n - 1] \o a[n]
        BY <1>1, <2>5, <4>1
      <4>3. n # 1 => h[n - 1] = f[n - 1]
        BY <3>2
      <4>4. f[n] = IF n = 1 THEN a[n] ELSE f[n - 1] \o a[n]
        BY <2>5
      <4>5. h[n] = f[n]
        BY <4>2, <4>3, <4>4
      <4> QED
        BY <4>1, <4>5
    <3> HIDE DEF F
    <3> QED
      BY <1>1, <3>1, <3>2, Induction
  <2>7. h[m] = f[m] /\ f[m] \in Seq(T)
    BY <1>1, <1>5, <2>5, <2>6
  <2>8. 0..Len(b) \subseteq G
    <3>1. 0 \in G
      BY <1>1
    <3>2. ASSUME NEW n \in 1..Len(b), n - 1 \in G PROVE n \in G
      <4>1. m + n \in 1..Len(c) /\ m + n # 1 /\ n \in 0..Len(b) /\ (m + n) - 1 = m + (n - 1)
        BY <1>1, <1>5
      <4>2. h[m + n] = h[m + (n - 1)] \o b[n]
        BY <1>1, <2>5, <4>1
      <4>3. CASE n = 1
        <5>1. m + (n - 1) = m /\ g[n] = b[n]
          BY <1>1, <2>5, <4>3
        <5> QED
          BY <2>7, <4>1, <4>2, <5>1
      <4>4. CASE n # 1
        <5>1. n - 1 \in 1..Len(b)
          BY <1>1, <4>4
        <5>2. h[m + (n - 1)] = f[m] \o g[n - 1] /\ g[n] = g[n - 1] \o b[n]
              /\ g[n - 1] \in Seq(T) /\ b[n] \in Seq(T)
          <6>1. n - 1 # 0
            BY <4>4
          <6>2. h[m + (n - 1)] = f[m] \o g[n - 1]
            BY <3>2, <6>1
          <6>3. g[n - 1] \in Seq(T) /\ b[n] \in Seq(T)
            BY <1>1, <2>5, <5>1
          <6> QED
            BY <2>5, <4>4, <6>2, <6>3
        <5>3. (f[m] \o g[n - 1]) \o b[n] = f[m] \o (g[n - 1] \o b[n])
          <6> DEFINE x == f[m]
                     y == g[n - 1]
                     z == b[n]
          <6>1. x \in Seq(T) /\ y \in Seq(T) /\ z \in Seq(T)
            BY <2>7, <5>2
          <6> HIDE DEF x, y, z
          <6>2. (x \o y) \o z = x \o (y \o z)
            BY <6>1, <1>c, Zenon
          <6> QED
            BY <6>2 DEF x, y, z
        <5> QED
          BY <4>1, <4>2, <5>2, <5>3
      <4> QED
        BY <4>3, <4>4
    <3> HIDE DEF G
    <3> QED
      BY <1>1, <3>1, <3>2, Induction
  <2>9. h[m + Len(b)] = f[m] \o g[Len(b)]
    <3>1. Len(b) \in 0..Len(b)
      BY <1>1
    <3>2. Len(b) \in G
      BY <2>8, <3>1
    <3> QED
      BY <1>5, <3>2
  <2> QED
    BY <1>1, <2>2, <2>3, <2>4, <2>9 DEF c, m
<1> QED
  BY <1>3, <1>4, <1>5

\* What stands where in a part of a list.
LEMMA SubSeqPlaces ==
    ASSUME NEW T, NEW s \in Seq(T), NEW m \in 1..(Len(s) + 1), NEW n \in (m - 1)..Len(s)
    PROVE  /\ SubSeq(s, m, n) \in Seq(T) /\ Len(SubSeq(s, m, n)) = n - m + 1
           /\ \A k \in 1..(n - m + 1) : SubSeq(s, m, n)[k] = s[m + k - 1]
<1>1. Len(s) \in Nat /\ m \in Nat /\ n \in Nat /\ m >= 1 /\ n <= Len(s) /\ m <= n + 1
  OBVIOUS
<1>2. SubSeq(s, m, n) \in Seq(T) /\ Len(SubSeq(s, m, n)) = n - m + 1
  <2>1. CASE m = n + 1
    BY <1>1, <2>1
  <2>2. CASE m <= n
    BY <1>1, <2>2
  <2> QED
    BY <1>1, <2>1, <2>2
<1>3. \A k \in 1..(n - m + 1) : SubSeq(s, m, n)[k] = s[m + k - 1]
  BY <1>1
<1> QED
  BY <1>2, <1>3

\* One entry taken out: those after it move up one place.
LEMMA RemoveAtPlaces ==
    ASSUME NEW T, NEW s \in Seq(T), NEW i \in DOMAIN s
    PROVE  /\ Len(RemoveAt(s, i)) = Len(s) - 1
           /\ \A k \in 1..(i - 1) : RemoveAt(s, i)[k] = s[k]
           /\ \A k \in (i + 1)..Len(s) : RemoveAt(s, i)[k - 1] = s[k]
<1> DEFINE a == SubSeq(s, 1, i - 1)
           b == SubSeq(s, i + 1, Len(s))
<1>c. \A v, w \in Seq(T) :
        /\ v \o w \in Seq(T) /\ Len(v \o w) = Len(v) + Len(w)
        /\ \A k \in 1..Len(v) : (v \o w)[k] = v[k]
        /\ \A k \in 1..Len(w) : (v \o w)[Len(v) + k] = w[k]
  BY ConcatPlaces
<1>1. Len(s) \in Nat /\ i \in 1..Len(s) /\ RemoveAt(s, i) = a \o b
  BY DEF RemoveAt
<1>2. a \in Seq(T) /\ Len(a) = i - 1 /\ \A k \in 1..(i - 1) : a[k] = s[k]
  BY <1>1
<1>3. /\ b \in Seq(T) /\ Len(b) = Len(s) - i
      /\ \A k \in 1..(Len(s) - i) : b[k] = s[i + k]
  <2>1. i + 1 \in 1..(Len(s) + 1) /\ Len(s) \in ((i + 1) - 1)..Len(s) /\ Len(s) - (i + 1) + 1 = Len(s) - i
    BY <1>1
  <2>2. /\ b \in Seq(T) /\ Len(b) = Len(s) - i
        /\ \A k \in 1..(Len(s) - i) : b[k] = s[(i + 1) + k - 1]
    <3> HIDE DEF b
    <3> QED
      BY <2>1, SubSeqPlaces DEF b
  <2> HIDE DEF b
  <2>3. ASSUME NEW k \in 1..(Len(s) - i) PROVE b[k] = s[i + k]
    <3>1. (i + 1) + k - 1 = i + k
      BY <1>1
    <3>2. b[k] = s[(i + 1) + k - 1]
      BY <2>2
    <3> QED
      BY <3>1, <3>2
  <2> QED
    BY <2>2, <2>3
<1> HIDE DEF a, b
<1>4. /\ Len(a \o b) = Len(s) - 1
      /\ \A k \in 1..(i - 1) : (a \o b)[k] = s[k]
      /\ \A k \in 1..(Len(s) - i) : (a \o b)[(i - 1) + k] = s[i + k]
  <2>1. /\ Len(a \o b) = Len(a) + Len(b)
        /\ \A k \in 1..Len(a) : (a \o b)[k] = a[k]
        /\ \A k \in 1..Len(b) : (a \o b)[Len(a) + k] = b[k]
    BY <1>2, <1>3, <1>c, Zenon
  <2> DEFINE c == a \o b
  <2>2. Len(c) = Len(s) - 1
    BY <1>1, <1>2, <1>3, <2>1
  <2>3. ASSUME NEW k \in 1..(i - 1) PROVE c[k] = s[k]
    BY <1>2, <2>1, <2>3
  <2>4. ASSUME NEW k \in 1..(Len(s) - i) PROVE c[(i - 1) + k] = s[i + k]
    BY <1>2, <1>3, <2>1, <2>4
  <2> QED
    BY <2>2, <2>3, <2>4
<1>5. ASSUME NEW k \in (i + 1)..Len(s) PROVE (a \o b)[k - 1] = s[k]
  <2>1. k - i \in 1..(Len(s) - i)
    BY <1>1
  <2>2. (i - 1) + (k - i) = k - 1 /\ i + (k - i) = k
    BY <1>1
  <2> QED
    BY <1>4, <2>1, <2>2
<1> QED
  BY <1>1, <1>4, <1>5

\* One entry put in: it is where it was put, and those from there on move down one place.
LEMMA InsertAtPlaces ==
    ASSUME NEW T, NEW s \in Seq(T), NEW i \in 1..(Len(s) + 1), NEW e \in T
    PROVE  /\ Len(InsertAt(s, i, e)) = Len(s) + 1 /\ InsertAt(s, i, e)[i] = e
           /\ \A k \in 1..(i - 1) : InsertAt(s, i, e)[k] = s[k]
           /\ \A k \in i..Len(s) : InsertAt(s, i, e)[k + 1] = s[k]
<1> DEFINE a == SubSeq(s, 1, i - 1)
           one == <<e>>
           b == SubSeq(s, i, Len(s))
           c == a \o one
<1>c. \A v, w \in Seq(T) :
        /\ v \o w \in Seq(T) /\ Len(v \o w) = Len(v) + Len(w)
        /\ \A k \in 1..Len(v) : (v \o w)[k] = v[k]
        /\ \A k \in 1..Len(w) : (v \o w)[Len(v) + k] = w[k]
  BY ConcatPlaces
<1>1. Len(s) \in Nat /\ i \in Nat /\ i >= 1 /\ i <= Len(s) + 1 /\ InsertAt(s, i, e) = c \o b
  BY DEF InsertAt
<1>2. a \in Seq(T) /\ Len(a) = i - 1 /\ \A k \in 1..(i - 1) : a[k] = s[k]
  <2>1. 1 \in 1..(Len(s) + 1) /\ i - 1 \in (1 - 1)..Len(s) /\ (i - 1) - 1 + 1 = i - 1
    BY <1>1
  <2>2. a \in Seq(T) /\ Len(a) = i - 1 /\ \A k \in 1..(i - 1) : a[k] = s[1 + k - 1]
    <3> HIDE DEF a
    <3> QED
      BY <2>1, SubSeqPlaces DEF a
  <2>3. \A k \in Nat : 1 + k - 1 = k
    OBVIOUS
  <2> QED
    BY <1>1, <2>2, <2>3
<1>3. /\ b \in Seq(T) /\ Len(b) = Len(s) - i + 1
      /\ \A k \in 1..(Len(s) - i + 1) : b[k] = s[i + k - 1]
  <2>1. Len(s) \in (i - 1)..Len(s)
    BY <1>1
  <2> HIDE DEF b
  <2> QED
    BY <2>1, SubSeqPlaces DEF b
<1>4. one \in Seq(T) /\ Len(one) = 1 /\ one[1] = e
  OBVIOUS
<1> HIDE DEF a, b, one
<1>5. c \in Seq(T) /\ Len(c) = i /\ c[i] = e /\ \A k \in 1..(i - 1) : c[k] = s[k]
  <2>1. /\ c \in Seq(T) /\ Len(c) = Len(a) + Len(one)
        /\ \A k \in 1..Len(a) : c[k] = a[k]
        /\ \A k \in 1..Len(one) : c[Len(a) + k] = one[k]
    BY <1>2, <1>4, <1>c, Zenon
  <2>2. (i - 1) + 1 = i /\ 1 \in 1..1
    BY <1>1
  <2> HIDE DEF c
  <2> QED
    BY <1>2, <1>4, <2>1, <2>2
<1> HIDE DEF c
<1>6. /\ Len(c \o b) = Len(s) + 1
      /\ \A k \in 1..i : (c \o b)[k] = c[k]
      /\ \A k \in 1..(Len(s) - i + 1) : (c \o b)[i + k] = s[i + k - 1]
  <2>1. /\ Len(c \o b) = Len(c) + Len(b)
        /\ \A k \in 1..Len(c) : (c \o b)[k] = c[k]
        /\ \A k \in 1..Len(b) : (c \o b)[Len(c) + k] = b[k]
    BY <1>3, <1>5, <1>c, Zenon
  <2> DEFINE d == c \o b
  <2>2. Len(d) = Len(s) + 1
    BY <1>1, <1>3, <1>5, <2>1
  <2>3. ASSUME NEW k \in 1..i PROVE d[k] = c[k]
    BY <1>5, <2>1, <2>3
  <2>4. ASSUME NEW k \in 1..(Len(s) - i + 1) PROVE d[i + k] = s[i + k - 1]
    BY <1>3, <1>5, <2>1, <2>4
  <2> QED
    BY <2>2, <2>3, <2>4
<1>7. ASSUME NEW k \in i..Len(s) PROVE (c \o b)[k + 1] = s[k]
  <2>1. k - i + 1 \in 1..(Len(s) - i + 1)
    BY <1>1
  <2>2. i + (k - i + 1) = k + 1 /\ i + (k - i + 1) - 1 = k
    BY <1>1
  <2> QED
    BY <1>6, <2>1, <2>2
<1>8. i \in 1..i /\ 1..(i - 1) \subseteq 1..i
  BY <1>1
<1> QED
  BY <1>1, <1>5, <1>6, <1>7, <1>8

\* Lists with the same entries are the same.
LEMMA EqualEntries ==
    ASSUME NEW T
    PROVE  \A s, t \in Seq(T) : Len(s) = Len(t) /\ (\A n \in 1..Len(s) : s[n] = t[n]) => s = t
  BY SeqEqual

\* A list is what stands before a place and what stands from there on.
LEMMA SplitBefore ==
    ASSUME NEW T, NEW s \in Seq(T), NEW i \in 1..(Len(s) + 1)
    PROVE  s = SubSeq(s, 1, i - 1) \o SubSeq(s, i, Len(s))
<1>1. Len(s) \in Nat
  OBVIOUS
<1> DEFINE k == i - 1
           n == Len(s)
<1>2. 1 \in 1..(Len(s) + 1) /\ k \in (1 - 1)..Len(s) /\ n \in k..Len(s) /\ k + 1 = i
  BY <1>1
<1> HIDE DEF k, n
<1>3. SubSeq(s, 1, k) \o SubSeq(s, k + 1, n) = SubSeq(s, 1, n)
  BY <1>2, ConcatAdjacentSubSeq
<1>4. SubSeq(s, 1, Len(s)) = s
  BY SubSeqFull
<1> QED
  BY <1>2, <1>3, <1>4 DEF k, n

\* A list is what stands before an entry, the entry, and what stands behind it.
LEMMA SplitAround ==
    ASSUME NEW T, NEW s \in Seq(T), NEW i \in DOMAIN s
    PROVE  s = (SubSeq(s, 1, i - 1) \o <<s[i]>>) \o SubSeq(s, i + 1, Len(s))
<1>1. Len(s) \in Nat /\ i \in 1..Len(s) /\ 1 \in 1..Len(s)
  OBVIOUS
<1>2. i + 1 \in 1..(Len(s) + 1) /\ (i + 1) - 1 = i
  BY <1>1
<1>3. SubSeq(s, 1, i) = SubSeq(s, 1, i - 1) \o <<s[i]>>
  BY <1>1, SubSeqRecursiveSecond
<1> DEFINE k == i + 1
<1>4. s = SubSeq(s, 1, k - 1) \o SubSeq(s, k, Len(s))
  <2>1. k \in 1..(Len(s) + 1)
    BY <1>2
  <2> HIDE DEF k
  <2> QED
    BY <2>1, SplitBefore
<1> QED
  BY <1>2, <1>3, <1>4
=============================================================================
