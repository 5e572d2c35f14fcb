----------------------- MODULE QuestionnaireEditorProofs -----------------------
(***************************************************************************)
(* The editor's questionnaire, for any questionnaires loaded, any texts    *)
(* typed and any number of edits.  A loaded questionnaire satisfies the    *)
(* save rules; an edit may break most of them, and the invariant is what   *)
(* none does break: every question is well formed, a question with         *)
(* branches is no matrix, and the branches' choices are its options.  From *)
(* it, the edits of options and of branches keep what other questions      *)
(* refer to, and a move keeps every question and the order of the others.  *)
(***************************************************************************)
EXTENDS QuestionnaireEditor, SequenceLemmas, TLAPS

-----------------------------------------------------------------------------
(* Lists of options: parts, duplicates, moves; the union of the branches.  *)

\* Taking the entries at some places takes exactly those.
LEMMA EntriesIs ==
    ASSUME NEW T, NEW s \in Seq(T), NEW I
    PROVE  Entries(s, I) \in Seq(T) /\ ToSet(Entries(s, I)) = {s[n] : n \in DOMAIN s \cap I}
<1> DEFINE ss == [n \in DOMAIN s |-> IF n \in I THEN <<s[n]>> ELSE <<>>]
<1>1. Len(s) \in Nat /\ DOMAIN s = 1..Len(s) /\ \A n \in DOMAIN s : s[n] \in T
  OBVIOUS
<1>2. ss \in Seq(Seq(T)) /\ DOMAIN ss = DOMAIN s
  <2>1. \A n \in DOMAIN s : (IF n \in I THEN <<s[n]>> ELSE <<>>) \in Seq(T)
    BY <1>1
  <2>2. ss \in [1..Len(s) -> Seq(T)]
    BY <1>1, <2>1
  <2> QED
    BY <1>1, <2>2
<1>3. \A n \in DOMAIN s : ToSet(ss[n]) = IF n \in I THEN {s[n]} ELSE {}
  BY DEF ToSet
<1>4. Entries(s, I) = FlattenSeq(ss)
  BY DEF Entries
<1> HIDE DEF ss
<1>5. Entries(s, I) \in Seq(T) /\ ToSet(Entries(s, I)) = UNION {ToSet(ss[n]) : n \in DOMAIN s}
  BY <1>2, <1>4, FlattenSeqEntries
<1>6. ASSUME NEW e, NEW n \in DOMAIN s, e \in ToSet(ss[n]) PROVE n \in I /\ e = s[n]
  BY <1>3, <1>6
<1>7. ASSUME NEW n \in DOMAIN s \cap I PROVE s[n] \in ToSet(ss[n])
  BY <1>3
<1> QED
  BY <1>5, <1>6, <1>7

\* Dropping duplicates loses no text.
LEMMA UniqEntries ==
    ASSUME NEW T, NEW s \in Seq(T) PROVE Uniq(s) \in Seq(T) /\ ToSet(Uniq(s)) = ToSet(s)
<1> DEFINE I == {n \in DOMAIN s : \A m \in 1..(n - 1) : s[m] # s[n]}
<1>1. Len(s) \in Nat /\ DOMAIN s = 1..Len(s)
  OBVIOUS
<1>2. Uniq(s) \in Seq(T) /\ ToSet(Uniq(s)) = {s[n] : n \in DOMAIN s \cap I}
  <2> HIDE DEF I
  <2> QED
    BY EntriesIs DEF Uniq, I
<1>3. ASSUME NEW n \in DOMAIN s PROVE \E m \in I : s[m] = s[n]
  <2> DEFINE same == {m \in DOMAIN s : s[m] = s[n]}
  <2>1. PICK m \in same : \A k \in same : m <= k
    <3>1. same \subseteq Nat /\ same # {}
      BY <1>1
    <3> HIDE DEF same
    <3> QED
      BY <3>1, LeastNat
  <2>2. \A k \in 1..(m - 1) : k \in DOMAIN s /\ ~(m <= k)
    BY <1>1, <2>1
  <2>3. \A k \in 1..(m - 1) : s[k] # s[m]
    BY <2>1, <2>2
  <2> QED
    BY <2>1, <2>3
<1> DEFINE entries == {s[n] : n \in DOMAIN s}
<1>4. ToSet(s) = entries
  BY DEF ToSet
<1>5. entries = {s[n] : n \in DOMAIN s \cap I}
  <2>1. I \subseteq DOMAIN s
    OBVIOUS
  <2> HIDE DEF I
  <2> QED
    BY <1>3, <2>1
<1> QED
  BY <1>2, <1>4, <1>5

\* Dropping the blank texts drops nothing else.
LEMMA NonBlankEntries ==
    ASSUME NEW T, NEW s \in Seq(T)
    PROVE  NonBlank(s) \in Seq(T) /\ ToSet(NonBlank(s)) = ToSet(s) \ {Blank}
<1> DEFINE I == {n \in DOMAIN s : s[n] # Blank}
<1>1. NonBlank(s) \in Seq(T) /\ ToSet(NonBlank(s)) = {s[n] : n \in DOMAIN s \cap I}
  <2> HIDE DEF I
  <2> QED
    BY EntriesIs DEF NonBlank, I
<1> QED
  BY <1>1 DEF ToSet

\* ... both at once.
LEMMA NonBlankStringsEntries ==
    ASSUME NEW T, NEW s \in Seq(T)
    PROVE  NonBlankStrings(s) \in Seq(T) /\ ToSet(NonBlankStrings(s)) = ToSet(s) \ {Blank}
  BY NonBlankEntries, UniqEntries DEF NonBlankStrings

\* Moving an entry neither loses nor adds one.
LEMMA MoveInArrayEntries ==
    ASSUME NEW T, NEW s \in Seq(T), NEW from, NEW to
    PROVE  MoveInArray(s, from, to) \in Seq(T) /\ ToSet(MoveInArray(s, from, to)) = ToSet(s)
<1>1. CASE from = to \/ ~({from, to} \subseteq DOMAIN s)
  BY <1>1 DEF MoveInArray
<1>2. CASE ~(from = to \/ ~({from, to} \subseteq DOMAIN s))
  <2> DEFINE r == RemoveAt(s, from)
  <2>1. /\ MoveInArray(s, from, to) = InsertAt(r, to, s[from])
        /\ from \in DOMAIN s /\ to \in DOMAIN s /\ s[from] \in T
    BY <1>2 DEF MoveInArray
  <2>2. r \in Seq(T) /\ Len(r) = Len(s) - 1 /\ ToSet(s) = ToSet(r) \cup {s[from]}
    BY <2>1, RemoveAtEntries
  <2>3. to \in 1..(Len(r) + 1)
    BY <2>1, <2>2
  <2> HIDE DEF r
  <2> QED
    BY <2>1, <2>2, <2>3, InsertAtEntries
<1> QED
  BY <1>1, <1>2

\* Branches: finitely many answers, each with a list of texts.
ChoicesOK(c) ==
    IsFiniteSet(DOMAIN c) /\ DOMAIN c \subseteq STRING /\ c \in [DOMAIN c -> Seq(STRING)]

Offered(c) == (UNION {ToSet(c[a]) : a \in DOMAIN c}) \ {Blank}

\* The branches' lists joined, in whatever order, hold what the branches offer.
LEMMA ChoicesInOrder ==
    ASSUME NEW c, ChoicesOK(c), NEW order \in Seq(DOMAIN c)
    PROVE  /\ FlattenSeq([n \in DOMAIN order |-> c[order[n]]]) \in Seq(STRING)
           /\ ToSet(FlattenSeq([n \in DOMAIN order |-> c[order[n]]]))
                 = UNION {ToSet(c[a]) : a \in ToSet(order)}
<1> DEFINE lists == [n \in DOMAIN order |-> c[order[n]]]
<1>1. Len(order) \in Nat /\ DOMAIN order = 1..Len(order)
  OBVIOUS
<1>2. lists \in Seq(Seq(STRING)) /\ DOMAIN lists = DOMAIN order
  <2>1. lists \in [1..Len(order) -> Seq(STRING)]
    BY <1>1 DEF ChoicesOK
  <2> QED
    BY <1>1, <2>1
<1>3. {ToSet(lists[n]) : n \in DOMAIN lists} = {ToSet(c[a]) : a \in ToSet(order)}
  BY <1>2 DEF ToSet
<1> HIDE DEF lists
<1>4. /\ FlattenSeq(lists) \in Seq(STRING)
      /\ ToSet(FlattenSeq(lists)) = UNION {ToSet(lists[n]) : n \in DOMAIN lists}
  BY <1>2, FlattenSeqEntries
<1> QED
  BY <1>2, <1>3, <1>4 DEF lists

\* The choices of all branches are the texts they offer, the blank one aside.
LEMMA ChoiceUnionEntries ==
    ASSUME NEW c, ChoicesOK(c)
    PROVE  ChoiceUnion(c) \in Seq(STRING) /\ ToSet(ChoiceUnion(c)) = Offered(c)
<1> DEFINE answers == SetToSeq(DOMAIN c)
           all == FlattenSeq([n \in DOMAIN answers |-> c[answers[n]]])
<1>1. answers \in Seq(DOMAIN c) /\ ToSet(answers) = DOMAIN c
  BY SetToSeqEntries DEF ChoicesOK
<1>2. all \in Seq(STRING) /\ ToSet(all) = UNION {ToSet(c[a]) : a \in DOMAIN c}
  <2> DEFINE flat(o) == FlattenSeq([n \in DOMAIN o |-> c[o[n]]])
  <2>1. \A o \in Seq(DOMAIN c) : /\ flat(o) \in Seq(STRING)
                                /\ ToSet(flat(o)) = UNION {ToSet(c[a]) : a \in ToSet(o)}
    BY ChoicesInOrder
  <2>2. all = flat(answers)
    OBVIOUS
  <2> HIDE DEF answers, all, flat
  <2> QED
    BY <1>1, <2>1, <2>2
<1>3. ChoiceUnion(c) = NonBlankStrings(all)
  BY DEF ChoiceUnion
<1> HIDE DEF all, answers
<1>4. NonBlankStrings(all) \in Seq(STRING) /\ ToSet(NonBlankStrings(all)) = ToSet(all) \ {Blank}
  BY <1>2, NonBlankStringsEntries
<1> QED
  BY <1>2, <1>3, <1>4 DEF Offered

\* The flat options hold everything some branch offers.
LEMMA SynchronizedOffer ==
    ASSUME NEW current \in Seq(STRING), NEW previous, ChoicesOK(previous), NEW next, ChoicesOK(next),
           NEW from, NEW to
    PROVE  /\ SynchronizedFlatOptions(current, previous, next, from, to) \in Seq(STRING)
           /\ Offered(next) \subseteq ToSet(SynchronizedFlatOptions(current, previous, next, from, to))
<1> DEFINE before == ToSet(ChoiceUnion(previous))
           after == ChoiceUnion(next)
           Kept(t) == IF t = from /\ to # Blank /\ Contains(after, to) THEN <<to>>
                      ELSE IF t \in before /\ ~Contains(after, t) THEN <<>> ELSE <<t>>
           lists == [n \in DOMAIN current |-> Kept(current[n])]
           flat == FlattenSeq(lists)
<1>1. after \in Seq(STRING) /\ ToSet(after) = Offered(next)
  BY ChoiceUnionEntries
<1>2. lists \in Seq(Seq(STRING))
  <2>1. Contains(after, to) => to \in STRING
    BY <1>1 DEF Contains
  <2>2. \A n \in DOMAIN current : Kept(current[n]) \in Seq(STRING)
    <3> HIDE DEF after, before
    <3>1. \A t \in STRING : Kept(t) \in Seq(STRING)
      <4>1. \A t \in STRING : <<t>> \in Seq(STRING)
        BY SingletonEntries
      <4>2. Contains(after, to) => <<to>> \in Seq(STRING)
        BY <2>1, <4>1
      <4>3. <<>> \in Seq(STRING)
        OBVIOUS
      <4> QED
        BY <4>1, <4>2, <4>3
    <3>2. \A n \in DOMAIN current : current[n] \in STRING
      OBVIOUS
    <3> HIDE DEF Kept
    <3> QED
      BY <3>1, <3>2
  <2>3. lists \in [1..Len(current) -> Seq(STRING)] /\ Len(current) \in Nat
    <3> HIDE DEF Kept
    <3> QED
      BY <2>2
  <2> QED
    BY <2>3
<1>3. flat \in Seq(STRING)
  <2> HIDE DEF lists
  <2> QED
    BY <1>2, FlattenSeqEntries
<1>4. SynchronizedFlatOptions(current, previous, next, from, to) = Uniq(flat \o after)
  BY DEF SynchronizedFlatOptions
<1> HIDE DEF flat, after
<1>5. flat \o after \in Seq(STRING) /\ ToSet(flat \o after) = ToSet(flat) \cup ToSet(after)
  BY <1>1, <1>3, ConcatEntries
<1> DEFINE whole == flat \o after
<1>6. Uniq(whole) \in Seq(STRING) /\ ToSet(Uniq(whole)) = ToSet(whole)
  <2> HIDE DEF whole
  <2> QED
    BY <1>5, UniqEntries DEF whole
<1> QED
  BY <1>1, <1>4, <1>5, <1>6

\* Branches follow the options of their source.
LEMMA NextChoicesAre ==
    ASSUME NEW choices, ChoicesOK(choices), NEW options \in Seq(STRING), NEW from, NEW to
    PROVE  /\ ChoicesOK(NextChoices(choices, options, from, to))
           /\ DOMAIN NextChoices(choices, options, from, to) \subseteq ToSet(options)
<1> DEFINE NextAnswer(a) == IF a = from THEN to ELSE a
           sources(b) == {a \in DOMAIN choices : NextAnswer(a) = b}
           kept == {b \in ToSet(NonBlank(options)) : sources(b) # {}}
           order(b) == SetToSeq(sources(b))
           Merged(b) == IF Len(order(b)) = 1 THEN choices[order(b)[1]]
                        ELSE Uniq(FlattenSeq([n \in DOMAIN order(b) |-> choices[order(b)[n]]]))
<1>1. NextChoices(choices, options, from, to) = [b \in kept |-> Merged(b)]
  BY DEF NextChoices
<1>2. kept \subseteq ToSet(options)
  BY NonBlankEntries
<1>3. IsFiniteSet(ToSet(options)) /\ ToSet(options) \subseteq STRING
  <2>1. Len(options) \in Nat /\ DOMAIN options = 1..Len(options) /\ IsFiniteSet(1..Len(options))
    BY FS_Interval
  <2>2. options \in Surjection(1..Len(options), ToSet(options))
    <3>1. \A i \in 1..Len(options) : options[i] \in ToSet(options)
      BY DEF ToSet
    <3> QED
      BY <2>1, <3>1 DEF Surjection, ToSet
  <2> QED
    BY <2>1, <2>2, FS_Surjection, OwnEntries
<1>4. IsFiniteSet(kept)
  BY <1>2, <1>3, FS_Subset
<1>5. ASSUME NEW b \in kept PROVE Merged(b) \in Seq(STRING)
  <2>1. IsFiniteSet(sources(b)) /\ sources(b) \subseteq DOMAIN choices
    BY FS_Subset DEF ChoicesOK
  <2>2. order(b) \in Seq(sources(b)) /\ order(b) \in Seq(DOMAIN choices)
    <3> DEFINE A == sources(b)
    <3>1. IsFiniteSet(A) /\ A \subseteq DOMAIN choices
      BY <2>1
    <3> HIDE DEF A
    <3>2. SetToSeq(A) \in Seq(A)
      BY <3>1, SetToSeqEntries
    <3>3. SetToSeq(A) \in Seq(DOMAIN choices)
      BY <3>1, <3>2
    <3> QED
      BY <3>2, <3>3 DEF A
  <2> DEFINE o == order(b)
             flat == FlattenSeq([n \in DOMAIN o |-> choices[o[n]]])
  <2>3. o \in Seq(DOMAIN choices)
    BY <2>2
  <2> HIDE DEF o, order
  <2>4. flat \in Seq(STRING)
    BY <2>3, ChoicesInOrder
  <2>5. Uniq(flat) \in Seq(STRING)
    <3> HIDE DEF flat
    <3> QED
      BY <2>4, UniqEntries
  <2>6. ASSUME Len(o) = 1 PROVE choices[o[1]] \in Seq(STRING)
    <3>1. \A i \in 1..Len(o) : o[i] \in DOMAIN choices
      BY <2>3
    <3>2. o[1] \in DOMAIN choices
      BY <2>6, <3>1
    <3> QED
      BY <3>2 DEF ChoicesOK
  <2>7. Merged(b) = IF Len(o) = 1 THEN choices[o[1]] ELSE Uniq(flat)
    BY DEF o
  <2> HIDE DEF flat, Merged
  <2> QED
    BY <2>5, <2>6, <2>7
<1> HIDE DEF Merged, kept
<1> QED
  BY <1>1, <1>2, <1>3, <1>4, <1>5 DEF ChoicesOK

-----------------------------------------------------------------------------
(* The invariant of a questionnaire, and replacing one part of it.         *)

\* What every edit keeps of a question.
QuestionOK(q) ==
    /\ QuestionShaped(q)
    /\ Dependency(q) # NULL => /\ q.type # "matrix"
                               /\ Offered(Dependency(q).choices) \subseteq ToSet(OrEmpty(q.options))

SectionOK(x) ==
    /\ x = [id |-> x.id, questions |-> x.questions]
    /\ x.questions \in Seq(ToSet(x.questions))
    /\ \A q \in ToSet(x.questions) : QuestionOK(q)

SectionsOK(S) == S \in Seq(ToSet(S)) /\ \A x \in ToSet(S) : SectionOK(x)

\* A list of well-formed sections.
LEMMA ListOfSections ==
    ASSUME NEW T, NEW S \in Seq(T), \A x \in T : SectionOK(x) PROVE SectionsOK(S)
  BY OwnEntries DEF SectionsOK

\* What stands at a place of a well-formed questionnaire.
LEMMA PlacesAre ==
    ASSUME NEW S, SectionsOK(S), NEW p \in Places(S)
    PROVE  /\ p = <<p[1], p[2]>> /\ p[1] \in DOMAIN S /\ p[2] \in DOMAIN S[p[1]].questions
           /\ SectionOK(S[p[1]]) /\ QuestionOK(At(S, p))
<1>1. /\ p = <<p[1], p[2]>> /\ p[1] \in DOMAIN S /\ p[2] \in DOMAIN S[p[1]].questions
  BY DEF Places
<1>2. S[p[1]] \in ToSet(S) /\ S[p[1]].questions[p[2]] \in ToSet(S[p[1]].questions)
  BY <1>1 DEF ToSet
<1> QED
  BY <1>1, <1>2 DEF SectionsOK, SectionOK, At

\* A section index and a question index in range are a place.
LEMMA PlacesOf ==
    ASSUME NEW S, NEW i \in DOMAIN S, NEW j \in DOMAIN S[i].questions
    PROVE  <<i, j>> \in Places(S)
  BY DEF Places

\* The list of questions of a section is replaced.
Questioned(S, i, list) == [S EXCEPT ![i].questions = list]

\* The questions of one section replaced: the other sections are as before.
LEMMA QuestionedOK ==
    ASSUME NEW S, SectionsOK(S), NEW i \in DOMAIN S,
           NEW T, NEW list \in Seq(T), \A q \in T : QuestionOK(q)
    PROVE  /\ SectionsOK(Questioned(S, i, list)) /\ DOMAIN Questioned(S, i, list) = DOMAIN S
           /\ Questioned(S, i, list)[i].questions = list
           /\ \A k \in DOMAIN S \ {i} : Questioned(S, i, list)[k] = S[k]
<1> DEFINE x == [S[i] EXCEPT !.questions = list]
           next == ReplacedAt(S, i, x)
<1>1. S \in Seq(ToSet(S))
  BY DEF SectionsOK
<1>2. SectionOK(S[i])
  BY DEF SectionsOK, ToSet
<1>3. x = [id |-> S[i].id, questions |-> list]
  BY <1>2 DEF SectionOK
<1>4. SectionOK(x)
  <2>1. x.id = S[i].id /\ x.questions = list /\ x = [id |-> x.id, questions |-> x.questions]
    BY <1>3
  <2> HIDE DEF x
  <2> QED
    BY <2>1, OwnEntries DEF SectionOK
<1>5. Questioned(S, i, list) = next
  BY <1>2, <1>3 DEF SectionOK, Questioned, ReplacedAt
<1>6. x.questions = list
  BY <1>3
<1> HIDE DEF x
<1> DEFINE X == ToSet(S) \cup {x}
<1>7. S \in Seq(X) /\ x \in X
  BY <1>1
<1>8. /\ next \in Seq(X) /\ DOMAIN next = DOMAIN S /\ next[i] = x
      /\ \A k \in DOMAIN S \ {i} : next[k] = S[k]
  <2> HIDE DEF X
  <2> QED
    BY <1>7, ReplacedEntries
<1>9. SectionsOK(next)
  <2>1. \A y \in X : SectionOK(y)
    BY <1>4 DEF SectionsOK
  <2> HIDE DEF X, next
  <2> QED
    BY <1>8, <2>1, ListOfSections
<1> HIDE DEF next
<1> QED
  BY <1>5, <1>6, <1>8, <1>9

\* One question replaced: the other places are as before.
LEMMA PutOK ==
    ASSUME NEW S, SectionsOK(S), NEW p \in Places(S), NEW q, QuestionOK(q)
    PROVE  /\ SectionsOK(Put(S, p, q)) /\ Places(Put(S, p, q)) = Places(S)
           /\ At(Put(S, p, q), p) = q
           /\ \A r \in Places(S) \ {p} : At(Put(S, p, q), r) = At(S, r)
<1> DEFINE i == p[1]
           j == p[2]
           old == S[i].questions
           list == ReplacedAt(old, j, q)
           next == Questioned(S, i, list)
           T == ToSet(old) \cup {q}
<1>1. p = <<i, j>> /\ i \in DOMAIN S /\ j \in DOMAIN old /\ SectionOK(S[i])
  BY PlacesAre
<1>2. old \in Seq(ToSet(old)) /\ \A y \in ToSet(old) : QuestionOK(y)
  BY <1>1 DEF SectionOK
<1>3. \A y \in T : QuestionOK(y)
  BY <1>2
<1>4. /\ list \in Seq(T) /\ DOMAIN list = DOMAIN old
      /\ list[j] = q /\ \A k \in DOMAIN old \ {j} : list[k] = old[k]
  <2>1. old \in Seq(T) /\ q \in T
    BY <1>2
  <2> HIDE DEF old, T
  <2> QED
    BY <1>1, <2>1, ReplacedEntries
<1>6. /\ SectionsOK(next) /\ DOMAIN next = DOMAIN S /\ next[i].questions = list
      /\ \A k \in DOMAIN S \ {i} : next[k] = S[k]
  <2> HIDE DEF list, T, i
  <2> QED
    BY <1>1, <1>3, <1>4, QuestionedOK
<1>7. Put(S, p, q) = next
  BY DEF Put, Questioned, ReplacedAt
<1>8. \A k \in DOMAIN S : DOMAIN next[k].questions = DOMAIN S[k].questions
  BY <1>4, <1>6
<1>9. list[j] = q /\ \A k \in DOMAIN old \ {j} : list[k] = old[k]
  BY <1>4
<1> HIDE DEF next, list
<1>10. Places(next) = Places(S)
  BY <1>6, <1>8 DEF Places
<1>11. At(next, p) = q
  BY <1>6, <1>9 DEF At
<1>12. ASSUME NEW r \in Places(S) \ {p} PROVE At(next, r) = At(S, r)
  <2>1. r = <<r[1], r[2]>> /\ r[1] \in DOMAIN S /\ r[2] \in DOMAIN S[r[1]].questions
    BY PlacesAre
  <2>2. CASE r[1] # i
    BY <1>6, <2>1, <2>2 DEF At
  <2>3. CASE r[1] = i
    <3>1. r[2] # j
      BY <1>1, <2>1, <2>3
    <3> QED
      BY <1>6, <1>9, <2>1, <2>3, <3>1 DEF At
  <2> QED
    BY <2>2, <2>3
<1> QED
  BY <1>6, <1>7, <1>10, <1>11, <1>12

-----------------------------------------------------------------------------
(* One question: its options, its branches and its condition replaced.     *)

\* The options of a question are a list of texts, if only the empty one.
LEMMA ListIsOptions ==
    ASSUME NEW q, QuestionShaped(q) PROVE OrEmpty(q.options) \in Seq(STRING)
<1>1. <<>> \in Seq(STRING)
  OBVIOUS
<1> QED
  BY <1>1 DEF QuestionShaped, OrEmpty

\* Only the options of a question replaced.
LEMMA OptionsReplaced ==
    ASSUME NEW q, QuestionShaped(q), NEW options
    PROVE  LET n == [q EXCEPT !.options = options]
           IN  /\ n = [id |-> q.id, type |-> q.type, options |-> options, config |-> q.config]
               /\ n.id = q.id /\ n.type = q.type /\ n.options = options /\ n.config = q.config
<1>1. q = [id |-> q.id, type |-> q.type, options |-> q.options, config |-> q.config]
  BY DEF QuestionShaped
<1> QED
  BY <1>1

\* New options that hold everything the branches offer.
LEMMA OptionsOK ==
    ASSUME NEW q, QuestionOK(q), NEW options \in Seq(STRING) \cup {NULL},
           Dependency(q) # NULL => Offered(Dependency(q).choices) \subseteq ToSet(OrEmpty(options))
    PROVE  QuestionOK([q EXCEPT !.options = options])
<1> DEFINE n == [q EXCEPT !.options = options]
<1>1. /\ n = [id |-> q.id, type |-> q.type, options |-> options, config |-> q.config]
      /\ n.id = q.id /\ n.type = q.type /\ n.options = options /\ n.config = q.config
  BY OptionsReplaced DEF QuestionOK
<1> HIDE DEF n
<1>2. QuestionShaped(n)
  BY <1>1 DEF QuestionOK, QuestionShaped, Dependency, Condition
<1>3. QuestionOK(n)
  BY <1>1, <1>2 DEF QuestionOK, Dependency
<1> QED
  BY <1>3 DEF n

\* The dependency of a question: a source and lists of choices.
LEMMA DependencyOK ==
    ASSUME NEW q, QuestionShaped(q), Dependency(q) # NULL
    PROVE  /\ Dependency(q) = [question_key |-> Dependency(q).question_key,
                               choices |-> Dependency(q).choices]
           /\ ChoicesOK(Dependency(q).choices)
  BY DEF QuestionShaped, ChoicesOK

\* New branches take their flat options with them and leave the rest of the question.
LEMMA BranchesReplaced ==
    ASSUME NEW q, QuestionOK(q), Dependency(q) # NULL, NEW choices, ChoicesOK(choices), NEW from, NEW to
    PROVE  LET n == QuestionWithDependentChoices(q, choices, from, to)
           IN  /\ QuestionOK(n)
               /\ n.type = q.type /\ Key(n) = Key(q) /\ Condition(n) = Condition(q)
               /\ Dependency(n) = [question_key |-> Dependency(q).question_key, choices |-> choices]
<1> DEFINE n == QuestionWithDependentChoices(q, choices, from, to)
           d == Dependency(q)
           D == [question_key |-> d.question_key, choices |-> choices]
           config == [q.config EXCEPT !.options_by_answer = D]
           flat == SynchronizedFlatOptions(OrEmpty(q.options), d.choices, choices, from, to)
<1>1. q = [id |-> q.id, type |-> q.type, options |-> q.options, config |-> q.config]
  BY DEF QuestionOK, QuestionShaped
<1>2. q.config = [key \in ConfigKeys |-> q.config[key]]
  BY DEF QuestionOK, QuestionShaped
<1>3. d = [question_key |-> d.question_key, choices |-> d.choices] /\ ChoicesOK(d.choices)
  BY DependencyOK DEF QuestionOK
<1>4. flat \in Seq(STRING) /\ Offered(choices) \subseteq ToSet(flat)
  BY <1>3, ListIsOptions, SynchronizedOffer DEF QuestionOK
<1>5. [d EXCEPT !.choices = choices] = D
  BY <1>3
<1>6. n = [id |-> q.id, type |-> q.type, options |-> flat, config |-> config]
  <2>1. n = [q EXCEPT !.options = flat,
                      !.config = [q.config EXCEPT !.options_by_answer = [d EXCEPT !.choices = choices]]]
    BY <1>1, <1>2 DEF QuestionWithDependentChoices, Dependency
  <2> HIDE DEF flat, d, D
  <2> QED
    BY <1>1, <1>5, <2>1
<1>7. /\ config = [key \in ConfigKeys |-> config[key]]
      /\ config.options_by_answer = D
      /\ \A key \in ConfigKeys \ {"options_by_answer"} : config[key] = q.config[key]
  <2> HIDE DEF D
  <2> QED
    BY <1>2 DEF ConfigKeys
<1> HIDE DEF n, flat, config
<1>8. n.id = q.id /\ n.type = q.type /\ n.options = flat /\ n.config = config
  BY <1>6
<1>9. Key(n) = Key(q) /\ Condition(n) = Condition(q) /\ Dependency(n) = D
  BY <1>7, <1>8 DEF Key, Condition, Dependency, ConfigKeys
<1>10. D.question_key = d.question_key /\ D.choices = choices
  OBVIOUS
<1> HIDE DEF D, d
<1>11. QuestionShaped(n)
  <2>1. Condition(n) # NULL => Condition(n) = [question_key |-> Condition(n).question_key,
                                               one_of |-> Condition(n).one_of]
    BY <1>9 DEF QuestionOK, QuestionShaped
  <2>2. D = [question_key |-> D.question_key, choices |-> D.choices]
    BY DEF D
  <2> QED
    BY <1>4, <1>6, <1>7, <1>8, <1>9, <1>10, <2>1, <2>2 DEF QuestionShaped, ChoicesOK
<1>12. q.type # "matrix"
  BY DEF QuestionOK
<1>13. OrEmpty(flat) = flat
  BY <1>4, TextAssumption DEF OrEmpty
<1>14. QuestionOK(n)
  BY <1>4, <1>8, <1>9, <1>10, <1>11, <1>12, <1>13 DEF QuestionOK
<1> QED
  BY <1>8, <1>9, <1>14 DEF n, D, d

\* What a step of the dependants does to one question.
Branched(q, key, options, from, to) ==
    IF Dependency(q) # NULL /\ Dependency(q).question_key = key
    THEN QuestionWithDependentChoices(q, NextChoices(Dependency(q).choices, options, from, to), NULL, NULL)
    ELSE q

Shown(q, key, from, to) ==
    IF Condition(q) # NULL /\ Condition(q).question_key = key
    THEN [q EXCEPT !.config.visible_when = NextCondition(@, from, to)]
    ELSE q

Followed(q, key, options, from, to) == Shown(Branched(q, key, options, from, to), key, from, to)

\* A question whose branches follow the edit of a source's options.
LEMMA BranchedOK ==
    ASSUME NEW q, QuestionOK(q), NEW key, NEW options \in Seq(STRING), NEW from, NEW to
    PROVE  LET n == Branched(q, key, options, from, to)
           IN  /\ QuestionOK(n)
               /\ Key(n) = Key(q) /\ Condition(n) = Condition(q)
               /\ Dependency(q) = NULL => n = q
               /\ Dependency(n) # NULL =>
                     /\ Dependency(q) # NULL /\ Dependency(n).question_key = Dependency(q).question_key
                     /\ Dependency(q).question_key # key => n = q
                     /\ Dependency(q).question_key = key =>
                           DOMAIN Dependency(n).choices \subseteq ToSet(options)
<1> DEFINE n == Branched(q, key, options, from, to)
           d == Dependency(q)
           next == NextChoices(d.choices, options, from, to)
<1>1. CASE d # NULL /\ d.question_key = key
  <2>1. ChoicesOK(next) /\ DOMAIN next \subseteq ToSet(options)
    <3>1. ChoicesOK(d.choices)
      BY <1>1, DependencyOK DEF QuestionOK
    <3> HIDE DEF d
    <3> QED
      BY <3>1, NextChoicesAre
  <2>2. n = QuestionWithDependentChoices(q, next, NULL, NULL)
    BY <1>1 DEF Branched
  <2> HIDE DEF next, n
  <2>3. /\ QuestionOK(n) /\ Key(n) = Key(q) /\ Condition(n) = Condition(q)
        /\ Dependency(n) = [question_key |-> d.question_key, choices |-> next]
    BY <1>1, <2>1, <2>2, BranchesReplaced
  <2>4. Dependency(n).question_key = d.question_key /\ Dependency(n).choices = next
    BY <2>3
  <2> QED
    BY <1>1, <2>1, <2>3, <2>4 DEF n
<1>2. CASE ~(d # NULL /\ d.question_key = key)
  <2>1. n = q
    BY <1>2 DEF Branched
  <2> QED
    BY <1>2, <2>1
<1> QED
  BY <1>1, <1>2

\* A question whose condition follows the edit of a source's options.
LEMMA ShownOK ==
    ASSUME NEW q, QuestionOK(q), NEW key, NEW from, NEW to
    PROVE  LET n == Shown(q, key, from, to)
           IN  /\ QuestionOK(n)
               /\ Key(n) = Key(q) /\ Dependency(n) = Dependency(q) /\ n.options = q.options
               /\ Condition(n) # NULL =>
                     /\ Condition(q) # NULL /\ Condition(n).question_key = Condition(q).question_key
                     /\ Condition(q).question_key # key => Condition(n) = Condition(q)
                     /\ Condition(q).question_key = key =>
                           Condition(n) = NextCondition(Condition(q), from, to)
<1> DEFINE n == Shown(q, key, from, to)
           c == Condition(q)
           next == NextCondition(c, from, to)
           config == [q.config EXCEPT !.visible_when = next]
<1>1. CASE c # NULL /\ c.question_key = key
  <2>1. q = [id |-> q.id, type |-> q.type, options |-> q.options, config |-> q.config]
    BY DEF QuestionOK, QuestionShaped
  <2>2. q.config = [k \in ConfigKeys |-> q.config[k]]
    BY DEF QuestionOK, QuestionShaped
  <2>3. c = [question_key |-> c.question_key, one_of |-> c.one_of]
    BY <1>1 DEF QuestionOK, QuestionShaped
  <2>4. next.question_key = c.question_key /\ next = [question_key |-> next.question_key, one_of |-> next.one_of]
    BY <2>3 DEF NextCondition
  <2>5. n = [id |-> q.id, type |-> q.type, options |-> q.options, config |-> config]
    <3>1. n = [q EXCEPT !.config = config]
      BY <1>1, <2>1, <2>2 DEF Shown, Condition
    <3> HIDE DEF config
    <3> QED
      BY <2>1, <3>1
  <2>6. /\ config = [k \in ConfigKeys |-> config[k]]
        /\ config.visible_when = next
        /\ \A k \in ConfigKeys \ {"visible_when"} : config[k] = q.config[k]
    <3> HIDE DEF next
    <3> QED
      BY <2>2 DEF ConfigKeys
  <2> HIDE DEF n, config
  <2>7. n.id = q.id /\ n.type = q.type /\ n.options = q.options /\ n.config = config
    BY <2>5
  <2>8. Key(n) = Key(q) /\ Condition(n) = next /\ Dependency(n) = Dependency(q)
    BY <2>6, <2>7 DEF Key, Condition, Dependency, ConfigKeys
  <2> HIDE DEF next
  <2>9. QuestionShaped(n)
    BY <2>4, <2>5, <2>6, <2>7, <2>8 DEF QuestionOK, QuestionShaped
  <2>10. QuestionOK(n)
    BY <2>7, <2>8, <2>9 DEF QuestionOK
  <2> QED
    BY <1>1, <2>4, <2>7, <2>8, <2>10 DEF n, next
<1>2. CASE ~(c # NULL /\ c.question_key = key)
  <2>1. n = q
    BY <1>2 DEF Shown
  <2> QED
    BY <1>2, <2>1
<1> QED
  BY <1>1, <1>2

\* ... both, as an edit of options does to every question.
LEMMA FollowedOK ==
    ASSUME NEW q, QuestionOK(q), NEW key, NEW options \in Seq(STRING), NEW from, NEW to
    PROVE  LET n == Followed(q, key, options, from, to)
           IN  /\ QuestionOK(n) /\ Key(n) = Key(q)
               /\ Dependency(q) = NULL => n.options = q.options
               /\ Dependency(n) # NULL =>
                     /\ Dependency(q) # NULL /\ Dependency(n).question_key = Dependency(q).question_key
                     /\ Dependency(q).question_key # key => Dependency(n) = Dependency(q)
                     /\ Dependency(q).question_key = key =>
                           DOMAIN Dependency(n).choices \subseteq ToSet(options)
               /\ Condition(n) # NULL =>
                     /\ Condition(q) # NULL /\ Condition(n).question_key = Condition(q).question_key
                     /\ Condition(q).question_key # key => Condition(n) = Condition(q)
                     /\ Condition(q).question_key = key =>
                           Condition(n) = NextCondition(Condition(q), from, to)
<1> DEFINE b == Branched(q, key, options, from, to)
           n == Shown(b, key, from, to)
<1>1. /\ QuestionOK(b)
      /\ Key(b) = Key(q) /\ Condition(b) = Condition(q)
      /\ Dependency(q) = NULL => b = q
      /\ Dependency(b) # NULL =>
            /\ Dependency(q) # NULL /\ Dependency(b).question_key = Dependency(q).question_key
            /\ Dependency(q).question_key # key => b = q
            /\ Dependency(q).question_key = key =>
                  DOMAIN Dependency(b).choices \subseteq ToSet(options)
  BY BranchedOK
<1> HIDE DEF b
<1>2. /\ QuestionOK(n)
      /\ Key(n) = Key(b) /\ Dependency(n) = Dependency(b) /\ n.options = b.options
      /\ Condition(n) # NULL =>
            /\ Condition(b) # NULL /\ Condition(n).question_key = Condition(b).question_key
            /\ Condition(b).question_key # key => Condition(n) = Condition(b)
            /\ Condition(b).question_key = key =>
                  Condition(n) = NextCondition(Condition(b), from, to)
  BY <1>1, ShownOK
<1> HIDE DEF n
<1>3. Followed(q, key, options, from, to) = n
  BY DEF Followed, b, n
<1> QED
  BY <1>1, <1>2, <1>3

-----------------------------------------------------------------------------
(* A whole questionnaire: the dependants of a key, and a new type.         *)

\* Every question follows, where it is.
LEMMA SynchronizedOK ==
    ASSUME NEW S, SectionsOK(S), NEW key, NEW options \in Seq(STRING), NEW from, NEW to
    PROVE  LET next == SynchronizeDependentChoices(S, key, options, from, to)
           IN  /\ SectionsOK(next) /\ Places(next) = Places(S)
               /\ \A p \in Places(S) : At(next, p) = Followed(At(S, p), key, options, from, to)
<1> DEFINE F(q) == Followed(q, key, options, from, to)
           L(i) == [j \in DOMAIN S[i].questions |-> F(S[i].questions[j])]
           X(i) == [S[i] EXCEPT !.questions = L(i)]
           next == [i \in DOMAIN S |-> X(i)]
<1>1. SynchronizeDependentChoices(S, key, options, from, to) = next
  BY DEF SynchronizeDependentChoices, MapQuestions, Followed, Shown, Branched
<1> HIDE DEF F
<1>2. \A q : QuestionOK(q) => QuestionOK(F(q))
  BY FollowedOK DEF F
<1>3. ASSUME NEW i \in DOMAIN S
      PROVE  SectionOK(X(i)) /\ X(i).questions = L(i)
  <2> DEFINE old == S[i].questions
             T == {F(q) : q \in ToSet(old)}
  <2>1. SectionOK(S[i])
    BY DEF SectionsOK, ToSet
  <2>2. Len(old) \in Nat /\ DOMAIN old = 1..Len(old) /\ \A j \in DOMAIN old : old[j] \in ToSet(old)
    BY <2>1, OwnEntries DEF SectionOK, ToSet
  <2>3. L(i) \in Seq(T)
    <3>1. L(i) \in [1..Len(old) -> T]
      <4> HIDE DEF T
      <4>1. \A j \in DOMAIN old : F(old[j]) \in T
        BY <2>2 DEF T
      <4> QED
        BY <2>2, <4>1
    <3> HIDE DEF T, L
    <3> QED
      BY <2>2, <3>1, FunctionEntries
  <2>4. \A q \in T : QuestionOK(q)
    BY <1>2, <2>1 DEF SectionOK
  <2>5. X(i) = [id |-> S[i].id, questions |-> L(i)]
    BY <2>1 DEF SectionOK
  <2> HIDE DEF X
  <2>6. X(i).id = S[i].id /\ X(i).questions = L(i)
    BY <2>5
  <2> HIDE DEF L, T
  <2>7. L(i) \in Seq(ToSet(L(i))) /\ ToSet(L(i)) \subseteq T
    BY <2>3, OwnEntries
  <2> QED
    BY <2>4, <2>5, <2>6, <2>7 DEF SectionOK
<1>4. SectionsOK(next)
  <2> DEFINE T == {X(i) : i \in DOMAIN S}
  <2>1. Len(S) \in Nat /\ DOMAIN S = 1..Len(S)
    BY DEF SectionsOK
  <2>2. next \in Seq(T)
    <3> HIDE DEF X
    <3>1. next \in [1..Len(S) -> T]
      BY <2>1
    <3> HIDE DEF T, next
    <3> QED
      BY <2>1, <3>1, FunctionEntries
  <2>3. \A x \in T : SectionOK(x)
    BY <1>3
  <2> HIDE DEF T, next
  <2> QED
    BY <2>2, <2>3, ListOfSections
<1>5. DOMAIN next = DOMAIN S /\ \A i \in DOMAIN S : next[i].questions = L(i)
  BY <1>3
<1>6. \A i \in DOMAIN S : /\ DOMAIN L(i) = DOMAIN S[i].questions
                          /\ \A j \in DOMAIN S[i].questions : L(i)[j] = F(S[i].questions[j])
  OBVIOUS
<1> HIDE DEF next, L
<1>7. Places(next) = Places(S)
  BY <1>5, <1>6 DEF Places
<1>8. ASSUME NEW p \in Places(S) PROVE At(next, p) = F(At(S, p))
  BY <1>5, <1>6, PlacesAre DEF At
<1> QED
  BY <1>1, <1>4, <1>7, <1>8 DEF F

\* The options of the question at p become `options`, and its dependants
\* follow: what the questionnaire is afterwards, question by question.
LEMMA WithOptionsAre ==
    ASSUME NEW S, SectionsOK(S), NEW p \in Places(S), NEW options \in Seq(STRING) \cup {NULL},
           QuestionOK([At(S, p) EXCEPT !.options = options]), NEW from, NEW to
    PROVE  LET next == WithOptions(S, p, options, from, to)
               edited == [At(S, p) EXCEPT !.options = options]
               before(r) == IF r = p THEN edited ELSE At(S, r)
           IN  /\ SectionsOK(next) /\ Places(next) = Places(S)
               /\ \A r \in Places(S) :
                     At(next, r) = IF Key(At(S, p)) = NULL THEN before(r)
                                   ELSE Followed(before(r), Key(At(S, p)), OrEmpty(options), from, to)
<1> DEFINE next == WithOptions(S, p, options, from, to)
           edited == [At(S, p) EXCEPT !.options = options]
           E == Put(S, p, edited)
           key == Key(At(S, p))
<1>1. /\ SectionsOK(E) /\ Places(E) = Places(S) /\ At(E, p) = edited
      /\ \A r \in Places(S) \ {p} : At(E, r) = At(S, r)
  <2> HIDE DEF edited
  <2>1. QuestionOK(edited)
    BY DEF edited
  <2> QED
    BY <2>1, PutOK
<1>2. OrEmpty(options) \in Seq(STRING)
  <2>1. <<>> \in Seq(STRING)
    OBVIOUS
  <2> QED
    BY <2>1 DEF OrEmpty
<1>3. next = IF key = NULL THEN E
             ELSE SynchronizeDependentChoices(E, key, OrEmpty(options), from, to)
  BY DEF WithOptions
<1> HIDE DEF E, edited, key, next
<1>4. CASE key = NULL
  BY <1>1, <1>3, <1>4 DEF next, edited, key
<1>5. CASE key # NULL
  <2>1. /\ SectionsOK(next) /\ Places(next) = Places(E)
        /\ \A r \in Places(E) : At(next, r) = Followed(At(E, r), key, OrEmpty(options), from, to)
    <3>1. next = SynchronizeDependentChoices(E, key, OrEmpty(options), from, to)
      BY <1>3, <1>5
    <3> DEFINE list == OrEmpty(options)
               T == SynchronizeDependentChoices(E, key, list, from, to)
    <3> HIDE DEF list
    <3>2. SectionsOK(E) /\ list \in Seq(STRING)
      BY <1>1, <1>2 DEF list
    <3>3. /\ SectionsOK(T) /\ Places(T) = Places(E)
          /\ \A r \in Places(E) : At(T, r) = Followed(At(E, r), key, list, from, to)
      BY <3>2, SynchronizedOK
    <3> QED
      BY <3>1, <3>3 DEF list
  <2> QED
    BY <1>1, <1>5, <2>1 DEF next, edited, key
<1> QED
  BY <1>4, <1>5

\* A question given a type keeps what the type allows and stays well formed.
LEMMA NormalizedOK ==
    ASSUME NEW q, QuestionOK(q), NEW type \in QuestionTypes
    PROVE  LET n == NormalizeQuestionStructure(q, type)
           IN  QuestionOK(n) /\ n.options \in Seq(STRING) \cup {NULL}
<1> DEFINE n == NormalizeQuestionStructure(q, type)
           texts == NonBlankStrings(OrEmpty(q.options))
<1>1. q = [id |-> q.id, type |-> q.type, options |-> q.options, config |-> q.config]
  BY DEF QuestionOK, QuestionShaped
<1>2. texts \in Seq(STRING) /\ ToSet(texts) = ToSet(OrEmpty(q.options)) \ {Blank}
  BY ListIsOptions, NonBlankStringsEntries DEF QuestionOK
<1>3. /\ <<"Option 1", "Option 2">> \in Seq(STRING) /\ <<"Row 1", "Row 2">> \in Seq(STRING)
  <2>1. \A a, b \in STRING : <<a, b>> \in Seq(STRING)
    BY PairEntries
  <2>2. /\ "Option 1" \in STRING /\ "Option 2" \in STRING
        /\ "Row 1" \in STRING /\ "Row 2" \in STRING
    BY TextAssumption
  <2> QED
    BY <2>1, <2>2, Zenon
<1> DEFINE options == CASE type \in OptionTypes -> IfEmpty(texts, <<"Option 1", "Option 2">>)
                        [] type = "matrix" -> IfEmpty(texts, <<"Row 1", "Row 2">>)
                        [] OTHER -> NULL
           common == KeptConfig(q.config, CommonConfigKeys)
           columns == NonBlankStrings(OrEmpty(q.config.columns))
           config == CASE type \in OptionTypes -> KeptConfig(q.config, ChoiceConfigKeys)
                       [] type = "matrix" ->
                            [common EXCEPT !.columns = IfEmpty(columns, <<"Poor", "Fair", "Good", "Excellent">>)]
                       [] type = "scale" -> [common EXCEPT !.bounds = ValidBounds(q.config.bounds)]
                       [] OTHER -> common
<1>4. n = [id |-> q.id, type |-> type, options |-> options, config |-> config]
  <2>1. n = [q EXCEPT !.type = type, !.options = options, !.config = config]
    BY DEF NormalizeQuestionStructure
  <2> HIDE DEF options, config, n
  <2> QED
    BY <1>1, <2>1
<1>5. options \in Seq(STRING) \cup {NULL}
  <2> HIDE DEF texts
  <2> QED
    BY <1>2, <1>3 DEF IfEmpty
<1>6. type \in OptionTypes => type # "matrix" /\ (texts = <<>> \/ options = texts)
  BY DEF OptionTypes, IfEmpty
<1>7. /\ common = [key \in ConfigKeys |-> common[key]]
      /\ common.visible_when = Condition(q) /\ common.options_by_answer = NULL
  BY DEF KeptConfig, ConfigKeys, CommonConfigKeys, Condition
<1> HIDE DEF common
<1>8. /\ config = [key \in ConfigKeys |-> config[key]]
      /\ config.visible_when = Condition(q)
      /\ config.options_by_answer # NULL =>
            config.options_by_answer = Dependency(q) /\ type \in OptionTypes
  <2>1. CASE type \in OptionTypes
    <3>1. config = KeptConfig(q.config, ChoiceConfigKeys)
      BY <2>1 DEF OptionTypes
    <3> HIDE DEF config
    <3>2. config = [key \in ConfigKeys |-> config[key]]
      BY <3>1 DEF KeptConfig
    <3>3. "visible_when" \in ConfigKeys \cap ChoiceConfigKeys /\ "options_by_answer" \in ConfigKeys \cap ChoiceConfigKeys
      BY DEF ConfigKeys, ChoiceConfigKeys, CommonConfigKeys
    <3>4. config.visible_when = Condition(q) /\ config.options_by_answer = Dependency(q)
      BY <3>1, <3>3 DEF KeptConfig, Condition, Dependency
    <3> QED
      BY <2>1, <3>2, <3>4
  <2>2. CASE type = "matrix"
    <3> DEFINE list == IfEmpty(columns, <<"Poor", "Fair", "Good", "Excellent">>)
    <3>1. config = [common EXCEPT !.columns = list]
      BY <2>2 DEF OptionTypes
    <3> HIDE DEF config, list
    <3> QED
      BY <1>7, <3>1 DEF ConfigKeys
  <2>3. CASE type \notin OptionTypes /\ type = "scale"
    <3> DEFINE bounds == ValidBounds(q.config.bounds)
    <3>1. config = [common EXCEPT !.bounds = bounds]
      BY <2>3
    <3> HIDE DEF config, bounds
    <3> QED
      BY <1>7, <3>1 DEF ConfigKeys
  <2>4. CASE type \notin OptionTypes /\ type # "matrix" /\ type # "scale"
    <3>1. config = common
      BY <2>4
    <3> HIDE DEF config
    <3> QED
      BY <1>7, <3>1
  <2> QED
    BY <2>1, <2>2, <2>3, <2>4
<1> HIDE DEF n, config, options, texts
<1>9. n.id = q.id /\ n.type = type /\ n.options = options /\ n.config = config
  BY <1>4
<1>10. Condition(n) = Condition(q) /\ Dependency(n) = config.options_by_answer
  BY <1>8, <1>9 DEF Condition, Dependency
<1>11. QuestionShaped(n)
  BY <1>4, <1>5, <1>8, <1>9, <1>10 DEF QuestionOK, QuestionShaped
<1>12. ASSUME Dependency(n) # NULL
       PROVE  n.type # "matrix" /\ Offered(Dependency(n).choices) \subseteq ToSet(OrEmpty(n.options))
  <2>1. Dependency(q) # NULL /\ Dependency(n) = Dependency(q) /\ type \in OptionTypes
    BY <1>8, <1>10, <1>12
  <2>2. Offered(Dependency(q).choices) \subseteq ToSet(texts)
    BY <1>2, <2>1 DEF QuestionOK, Offered
  <2>3. CASE texts = <<>>
    <3>1. ToSet(texts) = {}
      BY <2>3 DEF ToSet
    <3> QED
      BY <1>6, <1>9, <2>1, <2>2, <3>1
  <2>4. CASE options = texts
    <3>1. OrEmpty(n.options) = texts
      BY <1>2, <1>9, <2>4, TextAssumption DEF OrEmpty
    <3> QED
      BY <1>6, <1>9, <2>1, <2>2, <3>1
  <2> QED
    BY <1>6, <2>1, <2>3, <2>4
<1> QED
  BY <1>5, <1>9, <1>11, <1>12 DEF QuestionOK, n

-----------------------------------------------------------------------------
(* What is loaded, and what the other edits make of it.                    *)

\* What is opened is well formed and its branches' choices are options, by the save rules.
LEMMA LoadedOK == ASSUME NEW S \in Loaded PROVE SectionsOK(S)
<1>1. SectionsShaped(S) /\ ValidateSurveyStructure(S)
  BY LoadedValid
<1>2. ASSUME NEW i \in DOMAIN S, NEW j \in DOMAIN S[i].questions PROVE QuestionOK(S[i].questions[j])
  <2> DEFINE p == <<i, j>>
             q == S[i].questions[j]
             d == Dependency(q)
  <2>1. p \in Places(S) /\ At(S, p) = q
    BY PlacesOf DEF At
  <2>2. QuestionShaped(q)
    BY <1>1 DEF SectionsShaped, ToSet
  <2>3. ASSUME d # NULL
        PROVE  q.type = "single_choice"
               /\ \A a \in DOMAIN d.choices : ToSet(d.choices[a]) \subseteq ToSet(OrEmpty(q.options))
    BY <1>1, <2>1, <2>3 DEF ValidateSurveyStructure, DependencyValid
  <2>4. d # NULL => q.type # "matrix" /\ Offered(d.choices) \subseteq ToSet(OrEmpty(q.options))
    BY <2>3 DEF Offered
  <2> QED
    BY <2>2, <2>4 DEF QuestionOK
<1>3. \A i \in DOMAIN S : SectionOK(S[i])
  <2> TAKE i \in DOMAIN S
  <2> QED
    BY <1>1, <1>2 DEF SectionsShaped, SectionOK, ToSet
<1> QED
  BY <1>1, <1>3 DEF SectionsShaped, SectionsOK, ToSet

\* The list of options of a question without branches is replaced.
LEMMA OwnOptionsOK ==
    ASSUME NEW S, SectionsOK(S), NEW p \in Places(S), Dependency(At(S, p)) = NULL,
           NEW list \in Seq(STRING)
    PROVE  QuestionOK([At(S, p) EXCEPT !.options = list])
  BY PlacesAre, OptionsOK

\* A card that shows options shows no branches.
LEMMA ShowsOptionsOnly ==
    ASSUME NEW q, QuestionOK(q), ShowsOptions(q) PROVE Dependency(q) = NULL
  BY DEF QuestionOK, ShowsOptions

\* Options reordered: the same options.
LEMMA ReorderedAre ==
    ASSUME NEW S, SectionsOK(S), NEW p \in Places(S), NEW from, NEW to
    PROVE  LET n == [At(S, p) EXCEPT !.options = MoveInArray(OrEmpty(@), from, to)]
           IN  /\ QuestionOK(n) /\ Key(n) = Key(At(S, p))
               /\ Condition(n) = Condition(At(S, p)) /\ Dependency(n) = Dependency(At(S, p))
               /\ ToSet(OrEmpty(n.options)) = ToSet(OrEmpty(At(S, p).options))
<1> DEFINE q == At(S, p)
           list == MoveInArray(OrEmpty(q.options), from, to)
           n == [q EXCEPT !.options = list]
<1>1. QuestionOK(q)
  BY PlacesAre
<1> HIDE DEF q
<1>2. list \in Seq(STRING) /\ ToSet(list) = ToSet(OrEmpty(q.options))
  BY <1>1, ListIsOptions, MoveInArrayEntries DEF QuestionOK
<1>3. OrEmpty(list) = list
  BY <1>2, TextAssumption DEF OrEmpty
<1> HIDE DEF list
<1>4. QuestionOK(n)
  BY <1>1, <1>2, <1>3, OptionsOK DEF QuestionOK
<1>5. n.options = list /\ n.config = q.config
  BY <1>1, OptionsReplaced DEF QuestionOK
<1> HIDE DEF n
<1>6. Key(n) = Key(q) /\ Condition(n) = Condition(q) /\ Dependency(n) = Dependency(q)
  BY <1>5 DEF Key, Condition, Dependency
<1>7. n = [At(S, p) EXCEPT !.options = MoveInArray(OrEmpty(@), from, to)]
  <2>1. q = [id |-> q.id, type |-> q.type, options |-> q.options, config |-> q.config]
    BY <1>1 DEF QuestionOK, QuestionShaped
  <2> QED
    BY <2>1 DEF n, list, q
<1> QED
  BY <1>2, <1>3, <1>4, <1>5, <1>6, <1>7 DEF q

\* Columns may be anything.
LEMMA WithColumnsOK ==
    ASSUME NEW q, QuestionOK(q), NEW columns PROVE QuestionOK([q EXCEPT !.config.columns = columns])
<1> DEFINE config == [q.config EXCEPT !.columns = columns]
           n == [q EXCEPT !.config.columns = columns]
<1>1. q = [id |-> q.id, type |-> q.type, options |-> q.options, config |-> q.config]
  BY DEF QuestionOK, QuestionShaped
<1>2. q.config = [key \in ConfigKeys |-> q.config[key]]
  BY DEF QuestionOK, QuestionShaped
<1>3. n = [id |-> q.id, type |-> q.type, options |-> q.options, config |-> config]
  <2>1. n = [q EXCEPT !.config = config]
    BY <1>1
  <2> HIDE DEF config
  <2> QED
    BY <1>1, <2>1
<1>4. /\ config = [key \in ConfigKeys |-> config[key]]
      /\ config.visible_when = q.config.visible_when
      /\ config.options_by_answer = q.config.options_by_answer
  BY <1>2 DEF ConfigKeys
<1> HIDE DEF n, config
<1>5. /\ n.type = q.type /\ n.options = q.options /\ n.config = config
      /\ Condition(n) = Condition(q) /\ Dependency(n) = Dependency(q)
  BY <1>3, <1>4 DEF Condition, Dependency
<1>6. n = [id |-> n.id, type |-> n.type, options |-> n.options, config |-> n.config]
  BY <1>3
<1>7. QuestionOK(n)
  BY <1>4, <1>5, <1>6 DEF QuestionOK, QuestionShaped
<1> QED
  BY <1>7 DEF n

\* The branches of a question change.
LEMMA EditedBranchOK ==
    ASSUME NEW c, ChoicesOK(c), NEW answer \in STRING, NEW list \in Seq(STRING)
    PROVE  /\ ChoicesOK([a \in DOMAIN c \cup {answer} |-> IF a = answer THEN list ELSE c[a]])
           /\ ChoicesOK([a \in DOMAIN c \ {answer} |-> c[a]])
<1>1. IsFiniteSet(DOMAIN c \cup {answer}) /\ IsFiniteSet(DOMAIN c \ {answer})
  BY FS_AddElement, FS_Subset DEF ChoicesOK
<1> QED
  BY <1>1 DEF ChoicesOK

\* MoveQuestion in two parts: the question is taken out, and the index at
\* which it is put in.
Lifted(S, from) == Questioned(S, from[1], RemoveAt(S[from[1]].questions, from[2]))
Index(from, to) == IF from[1] = to[1] /\ from[2] < to[2] THEN to[2] - 1 ELSE to[2]

\* Taking a question out and putting it in, each on its own.
LEMMA MoveQuestionIs ==
    ASSUME NEW S, SectionsOK(S), NEW from \in Places(S), NEW to \in Places(S)
    PROVE  LET lifted == Lifted(S, from)
               target == lifted[to[1]].questions
               list == InsertAt(target, Index(from, to), At(S, from))
               T == ToSet(target) \cup {At(S, from)}
           IN  /\ MoveQuestion(S, from, to) = Questioned(lifted, to[1], list)
               /\ SectionsOK(lifted) /\ DOMAIN lifted = DOMAIN S
               /\ \A i \in DOMAIN S \ {from[1]} : lifted[i] = S[i]
               /\ lifted[from[1]].questions = RemoveAt(S[from[1]].questions, from[2])
               /\ to[1] \in DOMAIN S /\ target \in Seq(T) /\ list \in Seq(T)
               /\ \A q \in T : QuestionOK(q)
               /\ Index(from, to) \in 1..(Len(target) + 1)
               /\ from # to => Index(from, to) <= Len(target) /\ target[Index(from, to)] = At(S, to)
<1> DEFINE i == from[1]
           k == to[1]
           old == S[i].questions
           rest == RemoveAt(old, from[2])
           lifted == Questioned(S, i, rest)
           index == Index(from, to)
           target == lifted[k].questions
           list == InsertAt(target, index, At(S, from))
           next == Questioned(lifted, k, list)
<1>1. /\ i \in DOMAIN S /\ from[2] \in DOMAIN old /\ SectionOK(S[i])
      /\ QuestionOK(At(S, from)) /\ At(S, from) = old[from[2]]
  BY PlacesAre DEF At
<1>2. k \in DOMAIN S /\ to[2] \in DOMAIN S[k].questions /\ SectionOK(S[k])
  BY PlacesAre
<1>3. /\ old \in Seq(ToSet(old)) /\ \A q \in ToSet(old) : QuestionOK(q)
      /\ S[k].questions \in Seq(ToSet(S[k].questions))
  BY <1>1, <1>2 DEF SectionOK
<1>4. /\ rest \in Seq(ToSet(old)) /\ Len(rest) = Len(old) - 1
      /\ \A m \in 1..(from[2] - 1) : rest[m] = old[m]
      /\ \A m \in (from[2] + 1)..Len(old) : rest[m - 1] = old[m]
  <2> HIDE DEF old
  <2> QED
    BY <1>1, <1>3, RemoveAtEntries, RemoveAtPlaces
<1>5. /\ SectionsOK(lifted) /\ DOMAIN lifted = DOMAIN S /\ lifted[i].questions = rest
      /\ \A m \in DOMAIN S \ {i} : lifted[m] = S[m]
  <2> HIDE DEF rest, old, i
  <2> QED
    BY <1>1, <1>3, <1>4, QuestionedOK
<1>6. /\ target \in Seq(ToSet(target)) /\ \A q \in ToSet(target) : QuestionOK(q)
  <2>1. SectionOK(lifted[k])
    <3> HIDE DEF lifted
    <3> QED
      BY <1>2, <1>5 DEF SectionsOK, ToSet
  <2> QED
    BY <2>1 DEF SectionOK
<1>7. /\ index \in 1..(Len(target) + 1)
      /\ from # to => index <= Len(target) /\ target[index] = At(S, to)
  <2>1. Len(old) \in Nat /\ from[2] \in 1..Len(old)
    BY <1>1, <1>3
  <2>2. /\ Len(S[k].questions) \in Nat /\ to[2] \in 1..Len(S[k].questions)
        /\ At(S, to) = S[k].questions[to[2]]
    BY <1>2, <1>3 DEF At
  <2>3. CASE k = i
    <3>1. target = rest /\ to[2] \in 1..Len(old) /\ At(S, to) = old[to[2]]
      BY <1>5, <2>2, <2>3
    <3>2. Len(target) = Len(old) - 1
      BY <1>4, <3>1
    <3>3. from = <<i, from[2]>> /\ to = <<k, to[2]>>
      BY PlacesAre
    <3>4. from # to => from[2] # to[2]
      BY <2>3, <3>3
    <3> HIDE DEF target, old, rest
    <3>5. CASE from[2] < to[2]
      <4>1. index = to[2] - 1 /\ to[2] \in (from[2] + 1)..Len(old)
        BY <2>1, <2>3, <3>1, <3>5 DEF Index
      <4>2. target[to[2] - 1] = old[to[2]]
        BY <1>4, <3>1, <4>1
      <4> HIDE DEF index
      <4> QED
        BY <2>1, <3>1, <3>2, <4>1, <4>2
    <3>6. CASE ~(from[2] < to[2])
      <4>1. index = to[2]
        BY <3>6 DEF Index
      <4>2. from # to => to[2] \in 1..(from[2] - 1) /\ to[2] <= Len(old) - 1
        BY <2>1, <3>1, <3>4, <3>6
      <4>3. from # to => target[to[2]] = old[to[2]]
        BY <1>4, <3>1, <4>2
      <4> HIDE DEF index
      <4> QED
        BY <2>1, <3>1, <3>2, <4>1, <4>2, <4>3
    <3> QED
      BY <3>5, <3>6
  <2>4. CASE k # i
    <3>1. target = S[k].questions /\ index = to[2]
      BY <1>2, <1>5, <2>4 DEF Index
    <3> HIDE DEF target, index
    <3> QED
      BY <2>2, <3>1
  <2> QED
    BY <2>3, <2>4
<1> DEFINE T == ToSet(target) \cup {At(S, from)}
<1>8. target \in Seq(T) /\ list \in Seq(T)
  <2>1. target \in Seq(T) /\ At(S, from) \in T
    BY <1>6
  <2> HIDE DEF target, index, T
  <2> QED
    BY <1>7, <2>1, InsertAtEntries
<1>9. \A q \in T : QuestionOK(q)
  BY <1>1, <1>6
<1>10. MoveQuestion(S, from, to) = next
  BY DEF MoveQuestion, Questioned, Index
<1>11. lifted = Lifted(S, from)
  BY DEF Lifted
<1> QED
  BY <1>2, <1>5, <1>7, <1>8, <1>9, <1>10, <1>11

\* A question dropped on another leaves well-formed questions.
LEMMA QuestionMovedOK ==
    ASSUME NEW S, SectionsOK(S), NEW from \in Places(S), NEW to \in Places(S)
    PROVE  SectionsOK(MoveQuestion(S, from, to))
<1> DEFINE lifted == Lifted(S, from)
           target == lifted[to[1]].questions
           T == ToSet(target) \cup {At(S, from)}
           list == InsertAt(target, Index(from, to), At(S, from))
<1>1. /\ MoveQuestion(S, from, to) = Questioned(lifted, to[1], list)
      /\ SectionsOK(lifted) /\ to[1] \in DOMAIN lifted
      /\ list \in Seq(T) /\ \A q \in T : QuestionOK(q)
  BY MoveQuestionIs
<1> HIDE DEF lifted, T, list
<1> QED
  BY <1>1, QuestionedOK

-----------------------------------------------------------------------------
(* Every step keeps the invariant: options and branches.                   *)

\* The inductive invariant: well-formed questions, and what is dragged is there.
EditorInv == /\ SectionsOK(sections)
             /\ drag # NULL => drag \in Items(sections)

\* An edit that leaves well-formed questions keeps the invariant: nothing is dragged during it.
LEMMA EditOK ==
    ASSUME EditorInv, NEW next, SectionsOK(next), Edit(next) PROVE EditorInv'
  BY DEF Edit, EditorInv

\* So does an edit of the options of a question without branches.
LEMMA OptionEditOK ==
    ASSUME EditorInv, NEW p \in Places(sections), Dependency(At(sections, p)) = NULL,
           NEW list \in Seq(STRING), NEW from, NEW to, Edit(WithOptions(sections, p, list, from, to))
    PROVE  EditorInv'
<1>1. QuestionOK([At(sections, p) EXCEPT !.options = list])
  BY OwnOptionsOK DEF EditorInv
<1>2. SectionsOK(WithOptions(sections, p, list, from, to))
  BY <1>1, WithOptionsAre DEF EditorInv
<1> QED
  BY <1>2, EditOK

\* What is opened satisfies the invariant.
LEMMA InitEditor == EditorInit => EditorInv
  BY LoadedOK DEF EditorInit, EditorInv

\* The texts a card lists as options.
LEMMA OptionLists ==
    ASSUME SectionsOK(sections), NEW p \in Places(sections)
    PROVE  /\ OrEmpty(At(sections, p).options) \in Seq(STRING)
           /\ \A n \in DOMAIN OrEmpty(At(sections, p).options) :
                 /\ OrEmpty(At(sections, p).options)[n] \in STRING
                 /\ RemoveAt(OrEmpty(At(sections, p).options), n) \in Seq(STRING)
                 /\ \A value \in STRING :
                       [OrEmpty(At(sections, p).options) EXCEPT ![n] = value] \in Seq(STRING)
           /\ Append(OrEmpty(At(sections, p).options), Blank) \in Seq(STRING)
<1> DEFINE list == OrEmpty(At(sections, p).options)
<1>1. list \in Seq(STRING)
  <2>1. QuestionShaped(At(sections, p))
    BY PlacesAre DEF QuestionOK
  <2> QED
    BY <2>1, ListIsOptions
<1> HIDE DEF list
<1>2. \A n \in DOMAIN list : /\ list[n] \in STRING /\ RemoveAt(list, n) \in Seq(STRING)
                             /\ \A value \in STRING : [list EXCEPT ![n] = value] \in Seq(STRING)
  BY <1>1, RemoveAtEntries, ReplacedEntries DEF ReplacedAt
<1>3. Append(list, Blank) \in Seq(STRING)
  BY <1>1, AppendEntries, TextAssumption
<1> QED
  BY <1>1, <1>2, <1>3 DEF list

\* The branches a card lists and the choices under each.
LEMMA BranchLists ==
    ASSUME SectionsOK(sections), NEW p \in Places(sections), Dependency(At(sections, p)) # NULL,
           NEW answer \in BranchAnswers(p)
    PROVE  /\ answer \in STRING /\ Branch(p, answer) \in Seq(STRING)
           /\ ChoicesOK(Dependency(At(sections, p)).choices)
           /\ Append(Branch(p, answer), Blank) \in Seq(STRING)
           /\ \A n \in DOMAIN Branch(p, answer) :
                 /\ RemoveAt(Branch(p, answer), n) \in Seq(STRING)
                 /\ \A value \in STRING : [Branch(p, answer) EXCEPT ![n] = value] \in Seq(STRING)
           /\ \A from, to : MoveInArray(Branch(p, answer), from, to) \in Seq(STRING)
<1> DEFINE c == Dependency(At(sections, p)).choices
           list == Branch(p, answer)
<1>1. ChoicesOK(c)
  BY PlacesAre, DependencyOK DEF QuestionOK
<1>2. answer \in STRING
  <2>1. CASE answer \in DOMAIN c
    BY <1>1, <2>1 DEF ChoicesOK
  <2>2. CASE \E r \in SourcePlace(sections, Dependency(At(sections, p)).question_key) :
                answer \in ToSet(OrEmpty(At(sections, r).options))
    <3>1. PICK r \in Places(sections) : answer \in ToSet(OrEmpty(At(sections, r).options))
      BY <2>2 DEF SourcePlace
    <3>2. OrEmpty(At(sections, r).options) \in Seq(STRING)
      BY OptionLists
    <3> QED
      BY <3>1, <3>2, OwnEntries
  <2> QED
    BY <2>1, <2>2 DEF BranchAnswers
<1>3. list \in Seq(STRING)
  <2>1. <<>> \in Seq(STRING)
    OBVIOUS
  <2>2. answer \in DOMAIN c => c[answer] \in Seq(STRING)
    BY <1>1 DEF ChoicesOK
  <2> QED
    BY <2>1, <2>2 DEF Branch
<1> HIDE DEF list, c
<1>4. \A n \in DOMAIN list : /\ RemoveAt(list, n) \in Seq(STRING)
                             /\ \A value \in STRING : [list EXCEPT ![n] = value] \in Seq(STRING)
  BY <1>3, RemoveAtEntries, ReplacedEntries DEF ReplacedAt
<1>5. Append(list, Blank) \in Seq(STRING)
  BY <1>3, AppendEntries, TextAssumption
<1>6. \A from, to : MoveInArray(list, from, to) \in Seq(STRING)
  BY <1>3, MoveInArrayEntries
<1> QED
  BY <1>1, <1>2, <1>3, <1>4, <1>5, <1>6 DEF list, c

\* Typing, removing, moving and adding options.
LEMMA StepOptionControls == ASSUME EditorInv, OptionControls PROVE EditorInv'
<1>1. PICK p \in Places(sections) :
         \/ \E n \in DOMAIN OrEmpty(At(sections, p).options) :
               \/ \E value \in Typed : UpdateOption(p, n, value)
               \/ RemoveOption(p, n)
               \/ \E delta \in {-1, 1} : MoveOption(p, n, delta)
         \/ AddOption(p)
  BY DEF OptionControls
<1> DEFINE list == OrEmpty(At(sections, p).options)
<1>2. SectionsOK(sections) /\ QuestionOK(At(sections, p))
  BY PlacesAre DEF EditorInv
<1>3. /\ list \in Seq(STRING)
      /\ \A n \in DOMAIN list : /\ RemoveAt(list, n) \in Seq(STRING)
                                /\ \A value \in STRING : [list EXCEPT ![n] = value] \in Seq(STRING)
      /\ Append(list, Blank) \in Seq(STRING)
  BY <1>2, OptionLists
<1>4. ASSUME NEW n \in DOMAIN list, NEW value \in Typed, UpdateOption(p, n, value) PROVE EditorInv'
  <2>1. ShowsOptions(At(sections, p)) /\ Edit(WithOptions(sections, p, [list EXCEPT ![n] = value], list[n], value))
    BY <1>4 DEF UpdateOption
  <2>2. [list EXCEPT ![n] = value] \in Seq(STRING)
    BY <1>3, TextAssumption
  <2> HIDE DEF list
  <2> QED
    BY <1>2, <2>1, <2>2, ShowsOptionsOnly, OptionEditOK
<1>5. ASSUME NEW n \in DOMAIN list, RemoveOption(p, n) PROVE EditorInv'
  <2>1. ShowsOptions(At(sections, p)) /\ Edit(WithOptions(sections, p, RemoveAt(list, n), list[n], NULL))
    BY <1>5 DEF RemoveOption
  <2>2. RemoveAt(list, n) \in Seq(STRING)
    BY <1>3
  <2> HIDE DEF list
  <2> QED
    BY <1>2, <2>1, <2>2, ShowsOptionsOnly, OptionEditOK
<1>6. ASSUME NEW n, NEW delta, MoveOption(p, n, delta) PROVE EditorInv'
  <2>1. Edit(Put(sections, p, [At(sections, p) EXCEPT !.options = MoveInArray(OrEmpty(@), n, n + delta)]))
    BY <1>6 DEF MoveOption, Reordered
  <2>2. QuestionOK([At(sections, p) EXCEPT !.options = MoveInArray(OrEmpty(@), n, n + delta)])
    BY <1>2, ReorderedAre
  <2> QED
    BY <1>2, <2>1, <2>2, PutOK, EditOK
<1>7. ASSUME AddOption(p) PROVE EditorInv'
  <2>1. ShowsOptions(At(sections, p)) /\ Edit(WithOptions(sections, p, Append(list, Blank), NULL, NULL))
    BY <1>7 DEF AddOption
  <2>2. Append(list, Blank) \in Seq(STRING)
    BY <1>3
  <2> HIDE DEF list
  <2> QED
    BY <1>2, <2>1, <2>2, ShowsOptionsOnly, OptionEditOK
<1> QED
  BY <1>1, <1>4, <1>5, <1>6, <1>7

\* Every control of a branch is one of two edits.
LEMMA BranchControlsAre ==
    ASSUME EditorInv, BranchControls
    PROVE  \E p \in Places(sections) :
              /\ Dependency(At(sections, p)) # NULL
              /\ \E next, from, to :
                    /\ ChoicesOK(next) /\ DOMAIN next \subseteq BranchAnswers(p)
                    /\ Edit(Put(sections, p, QuestionWithDependentChoices(At(sections, p), next, from, to)))
<1> DEFINE Chosen(p, answer) ==
              \/ \E n \in DOMAIN Branch(p, answer) :
                    \/ \E value \in Typed : UpdateDependentOption(p, answer, n, value)
                    \/ RemoveDependentOption(p, answer, n)
                    \/ \E delta \in {-1, 1} : MoveDependentOption(p, answer, n, delta)
              \/ AddDependentOption(p, answer)
              \/ RemoveDependentBranch(p, answer)
<1>0. PICK p \in Places(sections) : /\ ShowsBranches(At(sections, p))
                                    /\ \E answer \in BranchAnswers(p) : Chosen(p, answer)
  BY DEF BranchControls
<1>1. PICK answer \in BranchAnswers(p) : Chosen(p, answer)
  BY <1>0
<1> DEFINE c == Dependency(At(sections, p)).choices
           Edited(list) == [a \in DOMAIN c \cup {answer} |-> IF a = answer THEN list ELSE c[a]]
           Rest == [a \in DOMAIN c \ {answer} |-> c[a]]
           Becomes(next, from, to) ==
              Edit(Put(sections, p, QuestionWithDependentChoices(At(sections, p), next, from, to)))
<1>2. Dependency(At(sections, p)) # NULL
  BY <1>0 DEF ShowsBranches
<1>3. /\ answer \in STRING /\ Branch(p, answer) \in Seq(STRING) /\ ChoicesOK(c)
      /\ Append(Branch(p, answer), Blank) \in Seq(STRING)
      /\ \A n \in DOMAIN Branch(p, answer) :
            /\ RemoveAt(Branch(p, answer), n) \in Seq(STRING)
            /\ \A value \in STRING : [Branch(p, answer) EXCEPT ![n] = value] \in Seq(STRING)
      /\ \A from, to : MoveInArray(Branch(p, answer), from, to) \in Seq(STRING)
  BY <1>2, BranchLists DEF EditorInv
<1>4. DOMAIN c \cup {answer} \subseteq BranchAnswers(p)
  BY DEF BranchAnswers
<1>5. \A list, from, to : EditBranch(p, answer, list, from, to) = Becomes(Edited(list), from, to)
  BY DEF EditBranch
<1>6. DropBranch(p, answer) = Becomes(Rest, NULL, NULL)
  BY DEF DropBranch
<1>7. \/ DropBranch(p, answer)
      \/ \E list \in Seq(STRING) : \E from, to : EditBranch(p, answer, list, from, to)
  <2>1. CASE \E n \in DOMAIN Branch(p, answer), value \in Typed : UpdateDependentOption(p, answer, n, value)
    <3>1. PICK n \in DOMAIN Branch(p, answer), value \in Typed :
             EditBranch(p, answer, [Branch(p, answer) EXCEPT ![n] = value], Branch(p, answer)[n], value)
      BY <2>1 DEF UpdateDependentOption
    <3>2. [Branch(p, answer) EXCEPT ![n] = value] \in Seq(STRING)
      BY <1>3, TextAssumption
    <3> QED
      BY <3>1, <3>2
  <2>2. CASE \E n \in DOMAIN Branch(p, answer) : RemoveDependentOption(p, answer, n)
    BY <1>3, <2>2 DEF RemoveDependentOption
  <2>3. CASE \E n \in DOMAIN Branch(p, answer), delta \in {-1, 1} : MoveDependentOption(p, answer, n, delta)
    BY <1>3, <2>3 DEF MoveDependentOption
  <2>4. CASE AddDependentOption(p, answer)
    BY <1>3, <2>4 DEF AddDependentOption
  <2>5. CASE RemoveDependentBranch(p, answer)
    BY <2>5 DEF RemoveDependentBranch
  <2> QED
    BY <1>1, <2>1, <2>2, <2>3, <2>4, <2>5
<1>8. ChoicesOK(Rest) /\ DOMAIN Rest \subseteq BranchAnswers(p)
  BY <1>3, <1>4, EditedBranchOK
<1>9. ASSUME NEW list \in Seq(STRING)
      PROVE  ChoicesOK(Edited(list)) /\ DOMAIN Edited(list) \subseteq BranchAnswers(p)
  BY <1>3, <1>4, EditedBranchOK
<1> HIDE DEF Edited, Rest, c
<1> QED
  BY <1>2, <1>5, <1>6, <1>7, <1>8, <1>9

\* Hence so do the edits of branches.
LEMMA StepBranchControls == ASSUME EditorInv, BranchControls PROVE EditorInv'
<1>1. PICK p \in Places(sections) :
         /\ Dependency(At(sections, p)) # NULL
         /\ \E next, from, to :
               /\ ChoicesOK(next) /\ DOMAIN next \subseteq BranchAnswers(p)
               /\ Edit(Put(sections, p, QuestionWithDependentChoices(At(sections, p), next, from, to)))
  BY BranchControlsAre
<1>2. PICK next, from, to :
         /\ ChoicesOK(next)
         /\ Edit(Put(sections, p, QuestionWithDependentChoices(At(sections, p), next, from, to)))
  BY <1>1
<1>3. QuestionOK(QuestionWithDependentChoices(At(sections, p), next, from, to))
  BY <1>1, <1>2, PlacesAre, BranchesReplaced DEF EditorInv
<1>4. SectionsOK(Put(sections, p, QuestionWithDependentChoices(At(sections, p), next, from, to)))
  BY <1>3, PutOK DEF EditorInv
<1> QED
  BY <1>2, <1>4, EditOK

-----------------------------------------------------------------------------
(* Every step keeps the invariant: the others.                             *)

\* A change of type, with or without dependants.
LEMMA StepTypeControls == ASSUME EditorInv, TypeControls PROVE EditorInv'
<1>1. PICK p \in Places(sections), type \in QuestionTypes : ChangeType(p, type)
  BY DEF TypeControls
<1> DEFINE n == NormalizeQuestionStructure(At(sections, p), type)
           S == Put(sections, p, n)
           next == WithOptions(S, p, n.options, NULL, NULL)
<1>2. QuestionOK(n) /\ n.options \in Seq(STRING) \cup {NULL}
  BY PlacesAre, NormalizedOK DEF EditorInv
<1>3. Edit(next)
  BY <1>1 DEF ChangeType
<1> HIDE DEF n
<1>4. SectionsOK(S) /\ Places(S) = Places(sections) /\ At(S, p) = n
  BY <1>2, PutOK DEF EditorInv
<1>5. [n EXCEPT !.options = n.options] = n
  <2>1. n = [id |-> n.id, type |-> n.type, options |-> n.options, config |-> n.config]
    BY <1>2 DEF QuestionOK, QuestionShaped
  <2> QED
    BY <2>1
<1> HIDE DEF S
<1>6. SectionsOK(next)
  <2>1. QuestionOK([At(S, p) EXCEPT !.options = n.options])
    BY <1>2, <1>4, <1>5
  <2> QED
    BY <1>2, <1>4, <2>1, WithOptionsAre
<1> HIDE DEF next
<1> QED
  BY <1>3, <1>6, EditOK

\* Sections are added, removed and moved; questions within their section.
LEMMA StepSectionControls == ASSUME EditorInv, SectionControls PROVE EditorInv'
<1>1. SectionsOK(sections) /\ sections \in Seq(ToSet(sections))
  BY DEF EditorInv, SectionsOK
<1>2. CASE AddSection
  <2>1. PICK id \in SectionIds : Edit(Append(sections, [id |-> id, questions |-> <<>>]))
    BY <1>2 DEF AddSection
  <2> DEFINE x == [id |-> id, questions |-> <<>>]
             T == ToSet(sections) \cup {x}
  <2>2. SectionOK(x)
    <3>1. <<>> \in Seq(ToSet(<<>>)) /\ ToSet(<<>>) = {}
      BY DEF ToSet
    <3>2. x.id = id /\ x.questions = <<>>
      OBVIOUS
    <3> QED
      BY <3>1, <3>2 DEF SectionOK
  <2> HIDE DEF x
  <2>3. sections \in Seq(T) /\ x \in T /\ \A y \in T : SectionOK(y)
    BY <1>1, <2>2 DEF SectionsOK
  <2>4. Append(sections, x) \in Seq(T)
    BY <2>3
  <2>5. SectionsOK(Append(sections, x))
    <3> HIDE DEF T
    <3> QED
      BY <2>3, <2>4, ListOfSections
  <2> QED
    BY <2>1, <2>5, EditOK DEF x
<1>3. ASSUME NEW i \in DOMAIN sections, RemoveSection(i) PROVE EditorInv'
  <2>1. RemoveAt(sections, i) \in Seq(ToSet(sections))
    BY <1>1, RemoveAtEntries
  <2>2. SectionsOK(RemoveAt(sections, i))
    BY <1>1, <2>1, ListOfSections DEF SectionsOK
  <2> QED
    BY <1>3, <2>2, EditOK DEF RemoveSection
<1>4. ASSUME NEW i \in DOMAIN sections, AddQuestion(i) PROVE EditorInv'
  <2> DEFINE old == sections[i].questions
             new(id) == [id |-> id, type |-> "text", options |-> NULL, config |-> NoConfig]
             next(id) == Questioned(sections, i, Append(old, new(id)))
  <2>1. PICK id \in QuestionIds : Edit(next(id))
    BY <1>4 DEF AddQuestion, Questioned
  <2>2. QuestionOK(new(id))
    <3>1. /\ NoConfig = [key \in ConfigKeys |-> NoConfig[key]]
          /\ NoConfig.visible_when = NULL /\ NoConfig.options_by_answer = NULL
      BY DEF NoConfig, ConfigKeys
    <3> QED
      BY <3>1 DEF QuestionOK, QuestionShaped, Condition, Dependency
  <2> DEFINE T == ToSet(old) \cup {new(id)}
  <2>3. SectionOK(sections[i])
    BY <1>1 DEF SectionsOK, ToSet
  <2> HIDE DEF new
  <2>4. old \in Seq(T) /\ new(id) \in T /\ \A q \in T : QuestionOK(q)
    BY <2>2, <2>3 DEF SectionOK
  <2>5. Append(old, new(id)) \in Seq(T)
    BY <2>4
  <2>6. SectionsOK(next(id))
    <3> HIDE DEF T, old
    <3> QED
      BY <1>1, <2>4, <2>5, QuestionedOK
  <2> QED
    BY <2>1, <2>6, EditOK
<1> QED
  BY <1>2, <1>3, <1>4 DEF SectionControls

\* Removing a question.
LEMMA StepRemoveQuestion ==
    ASSUME EditorInv, NEW p \in Places(sections), RemoveQuestion(p) PROVE EditorInv'
<1> DEFINE i == p[1]
           old == sections[i].questions
           rest == RemoveAt(old, p[2])
           next == Questioned(sections, i, rest)
<1>1. SectionsOK(sections) /\ i \in DOMAIN sections /\ p[2] \in DOMAIN old /\ SectionOK(sections[i])
  BY PlacesAre DEF EditorInv
<1>2. old \in Seq(ToSet(old)) /\ \A q \in ToSet(old) : QuestionOK(q)
  BY <1>1 DEF SectionOK
<1>3. rest \in Seq(ToSet(old))
  <2> HIDE DEF old
  <2> QED
    BY <1>1, <1>2, RemoveAtEntries
<1>4. Edit(next)
  BY DEF RemoveQuestion, Questioned
<1>5. SectionsOK(next)
  <2> HIDE DEF rest, old, i
  <2> QED
    BY <1>1, <1>2, <1>3, QuestionedOK
<1> QED
  BY <1>4, <1>5, EditOK

\* Editing the columns of a matrix.
LEMMA StepEditColumns ==
    ASSUME EditorInv, NEW p \in Places(sections), EditColumns(p) PROVE EditorInv'
<1>1. PICK columns : Edit(WithColumns(p, columns))
  BY DEF EditColumns
<1>2. SectionsOK(WithColumns(p, columns))
  BY PlacesAre, WithColumnsOK, PutOK DEF EditorInv, WithColumns
<1> QED
  BY <1>1, <1>2, EditOK

\* What can be dragged, sections aside, is at a place; a question has no index.
LEMMA ItemsAre ==
    ASSUME NEW item \in Items(sections), item.kind # "section"
    PROVE  /\ item.place \in Places(sections)
           /\ item.kind = "question" => item = [kind |-> "question", place |-> item.place, index |-> 0]
<1>1. ASSUME NEW i, item = [kind |-> "section", place |-> <<i, 0>>, index |-> 0] PROVE FALSE
  BY <1>1
<1>2. ASSUME NEW p \in Places(sections), NEW kind, NEW n, item = [kind |-> kind, place |-> p, index |-> n],
             kind # "question" \/ n = 0
      PROVE  /\ item.place \in Places(sections)
             /\ item.kind = "question" => item = [kind |-> "question", place |-> item.place, index |-> 0]
  BY <1>2
<1>3. CASE item \in {[kind |-> "section", place |-> <<i, 0>>, index |-> 0] : i \in DOMAIN sections}
  BY <1>1, <1>3
<1>4. CASE item \in {[kind |-> "question", place |-> p, index |-> 0] : p \in Places(sections)}
  BY <1>2, <1>4
<1> DEFINE Option(p) == {[kind |-> "option", place |-> p, index |-> n] :
                            n \in DOMAIN OrEmpty(At(sections, p).options)}
           Column(p) == {[kind |-> "column", place |-> p, index |-> n] :
                            n \in DOMAIN OrEmpty(At(sections, p).config.columns)}
<1>5. CASE item \in UNION {Option(p) : p \in {r \in Places(sections) : ShowsOptions(At(sections, r))}}
  <2>1. PICK p \in Places(sections) : item \in Option(p)
    BY <1>5
  <2> QED
    BY <1>2, <2>1
<1>6. CASE item \in UNION {Column(p) : p \in {r \in Places(sections) : At(sections, r).type = "matrix"}}
  <2>1. PICK p \in Places(sections) : item \in Column(p)
    BY <1>6
  <2> QED
    BY <1>2, <2>1
<1> DEFINE A == {[kind |-> "section", place |-> <<i, 0>>, index |-> 0] : i \in DOMAIN sections}
           B == {[kind |-> "question", place |-> p, index |-> 0] : p \in Places(sections)}
           C == UNION {Option(p) : p \in {r \in Places(sections) : ShowsOptions(At(sections, r))}}
           D == UNION {Column(p) : p \in {r \in Places(sections) : At(sections, r).type = "matrix"}}
<1>7. Items(sections) = A \cup B \cup C \cup D
  BY DEF Items
<1>8. item \in A \/ item \in B \/ item \in C \/ item \in D
  <2> HIDE DEF A, B, C, D
  <2> QED
    BY <1>7
<1> HIDE DEF Option, Column
<1> QED
  BY <1>3, <1>4, <1>5, <1>6, <1>8

\* A drop: on a question, on an option or a column of the same question, or without effect.
LEMMA StepDropped == ASSUME EditorInv, Dropped PROVE EditorInv'
<1>1. PICK target \in Targets(sections) : HandleDrop(target)
  BY DEF Dropped
<1>2. SectionsOK(sections) /\ drag # NULL /\ drag' = NULL
  BY <1>1 DEF EditorInv, HandleDrop
<1>3. target.place \in Places(sections)
  BY ItemsAre DEF Targets
<1>4. drag.kind # "section" => drag.place \in Places(sections)
  BY <1>2, ItemsAre DEF EditorInv
<1> DEFINE Same == drag.kind = target.kind /\ drag.place = target.place
<1>5. CASE drag.kind = "question" /\ target.kind = "question"
  <2>1. sections' = MoveQuestion(sections, drag.place, target.place)
    BY <1>1, <1>5 DEF HandleDrop
  <2> QED
    BY <1>2, <1>3, <1>4, <1>5, <2>1, QuestionMovedOK DEF EditorInv
<1>6. CASE drag.kind = "option" /\ Same
  <2>1. sections' = Reordered(drag.place, drag.index, target.index)
    BY <1>1, <1>6 DEF HandleDrop
  <2>2. drag.place \in Places(sections)
    BY <1>4, <1>6
  <2> DEFINE n == [At(sections, drag.place) EXCEPT
                      !.options = MoveInArray(OrEmpty(@), drag.index, target.index)]
  <2>3. QuestionOK(n)
    BY <1>2, <2>2, ReorderedAre
  <2>4. sections' = Put(sections, drag.place, n)
    BY <2>1 DEF Reordered
  <2> HIDE DEF n
  <2> QED
    BY <1>2, <2>2, <2>3, <2>4, PutOK DEF EditorInv
<1>7. CASE drag.kind = "column" /\ Same
  <2> DEFINE columns == MoveInArray(At(sections, drag.place).config.columns, drag.index, target.index)
             n == [At(sections, drag.place) EXCEPT !.config.columns = columns]
  <2>1. sections' = Put(sections, drag.place, n)
    BY <1>1, <1>7 DEF HandleDrop, WithColumns
  <2>2. drag.place \in Places(sections)
    BY <1>4, <1>7
  <2>3. QuestionOK(n)
    <3> HIDE DEF columns
    <3> QED
      BY <1>2, <2>2, PlacesAre, WithColumnsOK
  <2> HIDE DEF n
  <2> QED
    BY <1>2, <2>1, <2>2, <2>3, PutOK DEF EditorInv
<1>8. CASE /\ ~(drag.kind = "question" /\ target.kind = "question")
           /\ ~(drag.kind = "option" /\ Same) /\ ~(drag.kind = "column" /\ Same)
  <2>1. sections' = sections
    BY <1>1, <1>8 DEF HandleDrop
  <2> QED
    BY <1>2, <2>1 DEF EditorInv
<1> QED
  BY <1>5, <1>6, <1>7, <1>8

\* Moving sections and questions, and drops.
LEMMA StepReorderings == ASSUME EditorInv, Reorderings PROVE EditorInv'
<1>1. SectionsOK(sections) /\ sections \in Seq(ToSet(sections))
  BY DEF EditorInv, SectionsOK
<1>2. ASSUME NEW i, NEW delta, MoveSection(i, delta) PROVE EditorInv'
  <2>1. Edit(MoveInArray(sections, i, i + delta))
    BY <1>2 DEF MoveSection
  <2>2. MoveInArray(sections, i, i + delta) \in Seq(ToSet(sections))
    BY <1>1, MoveInArrayEntries
  <2>3. SectionsOK(MoveInArray(sections, i, i + delta))
    BY <1>1, <2>2, ListOfSections DEF SectionsOK
  <2> QED
    BY <2>1, <2>3, EditOK
<1>3. ASSUME NEW p \in Places(sections), NEW delta, MoveQuestionBy(p, delta) PROVE EditorInv'
  <2> DEFINE i == p[1]
             old == sections[i].questions
             list == MoveInArray(old, p[2], p[2] + delta)
             next == Questioned(sections, i, list)
  <2>1. i \in DOMAIN sections /\ SectionOK(sections[i])
    BY <1>1, PlacesAre
  <2>2. old \in Seq(ToSet(old)) /\ \A q \in ToSet(old) : QuestionOK(q)
    BY <2>1 DEF SectionOK
  <2>3. list \in Seq(ToSet(old))
    <3> HIDE DEF old
    <3> QED
      BY <2>2, MoveInArrayEntries
  <2>4. Edit(next)
    BY <1>3 DEF MoveQuestionBy, Questioned
  <2>5. SectionsOK(next)
    <3> HIDE DEF list, old, i
    <3> QED
      BY <1>1, <2>1, <2>2, <2>3, QuestionedOK
  <2> QED
    BY <2>4, <2>5, EditOK
<1> QED
  BY <1>2, <1>3, StepDropped DEF Reorderings

\* Every step.
LEMMA StepEditor == ASSUME EditorInv, [EditorNext]_editorVars PROVE EditorInv'
<1>1. CASE HandleDragStart
  BY <1>1, ItemsAre DEF HandleDragStart, EditorInv
<1>2. CASE DragEnd
  BY <1>2 DEF DragEnd, EditorInv
<1>3. CASE CloseAndReopen
  BY <1>3, LoadedOK DEF CloseAndReopen, EditorInv
<1>4. CASE UNCHANGED editorVars
  BY <1>4 DEF editorVars, EditorInv
<1> QED
  BY <1>1, <1>2, <1>3, <1>4, StepOptionControls, StepBranchControls, StepTypeControls,
     StepSectionControls, StepReorderings, StepRemoveQuestion, StepEditColumns
     DEF EditorNext

\* In every reachable state of the editor the questions are well formed, a
\* question with branches is no matrix and has every choice its branches
\* offer among its options, and what is dragged is where it was picked up.
THEOREM EditorInvariant == EditorSpec => []EditorInv
<1>1. EditorInit => EditorInv
  BY InitEditor
<1>2. EditorInv /\ [EditorNext]_editorVars => EditorInv'
  BY StepEditor
<1> QED
  BY <1>1, <1>2, PTL DEF EditorSpec

\* Whatever sequence of edits is made, on a source or on a dependent question
\* (type changes, retyped, removed and merged answers, drags), a choice that
\* some branch offers is one of the question's options, so the respondent's
\* form can offer it.
THEOREM BranchesOffered == EditorSpec => []BranchesOfferOptions
<1>1. EditorInv => BranchesOfferOptions
  <2> SUFFICES ASSUME EditorInv, NEW p \in Places(sections), Dependency(At(sections, p)) # NULL
               PROVE  ToSet(ChoiceUnion(Dependency(At(sections, p)).choices))
                         \subseteq ToSet(OrEmpty(At(sections, p).options))
    BY DEF BranchesOfferOptions
  <2>1. QuestionOK(At(sections, p))
    BY PlacesAre DEF EditorInv
  <2> QED
    BY <2>1, DependencyOK, ChoiceUnionEntries DEF QuestionOK
<1> QED
  BY <1>1, EditorInvariant, PTL

-----------------------------------------------------------------------------
(* References by value, after an edit of options.                          *)

\* An answer some question with this key offers.
Offers(S, key, a) == \E r \in SourcePlace(S, key) : a \in ToSet(OrEmpty(At(S, r).options))
Elsewhere(S, key, p, a) ==
    \E r \in SourcePlace(S, key) \ {p} : a \in ToSet(OrEmpty(At(S, r).options))

\* A reference is live if some question with the key offers what it names.
LEMMA LiveAre ==
    ASSUME NEW S, NEW key
    PROVE  ReferencesLive(S, key) <=>
              \A p \in Places(S) :
                 /\ Dependency(At(S, p)) # NULL /\ Dependency(At(S, p)).question_key = key =>
                       \A a \in DOMAIN Dependency(At(S, p)).choices : Offers(S, key, a)
                 /\ Condition(At(S, p)) # NULL /\ Condition(At(S, p)).question_key = key =>
                       \A a \in Condition(At(S, p)).one_of : Offers(S, key, a)
<1> DEFINE options == UNION {ToSet(OrEmpty(At(S, p).options)) : p \in SourcePlace(S, key)}
<1>1. \A a : a \in options <=> Offers(S, key, a)
  BY DEF Offers
<1>2. ReferencesLive(S, key) <=>
         \A p \in Places(S) :
            /\ Dependency(At(S, p)) # NULL /\ Dependency(At(S, p)).question_key = key =>
                  DOMAIN Dependency(At(S, p)).choices \subseteq options
            /\ Condition(At(S, p)) # NULL /\ Condition(At(S, p)).question_key = key =>
                  Condition(At(S, p)).one_of \subseteq options
  BY Zenon DEF ReferencesLive
<1> HIDE DEF options
<1> QED
  BY <1>1, <1>2

\* New options of a question without branches: what its dependants name is
\* still there if what conditions name afterwards is.
LEMMA OptionsKeepReferences ==
    ASSUME NEW S, SectionsOK(S), NEW p \in Places(S), Dependency(At(S, p)) = NULL,
           NEW list \in Seq(STRING), NEW from, NEW to, NEW key,
           Independent(S, key), ReferencesLive(S, key),
           Key(At(S, p)) = key /\ key # NULL =>
              \A r \in Places(S) :
                 Condition(At(S, r)) # NULL /\ Condition(At(S, r)).question_key = key =>
                    \A a \in NextCondition(Condition(At(S, r)), from, to).one_of :
                       a \in ToSet(list) \/ Elsewhere(S, key, p, a)
    PROVE  ReferencesLive(WithOptions(S, p, list, from, to), key)
<1> DEFINE next == WithOptions(S, p, list, from, to)
           k == Key(At(S, p))
           edited == [At(S, p) EXCEPT !.options = list]
           before(r) == IF r = p THEN edited ELSE At(S, r)
<1>1. QuestionOK(edited)
  BY OwnOptionsOK
<1>2. OrEmpty(list) = list
  BY TextAssumption DEF OrEmpty
<1>3. /\ SectionsOK(next) /\ Places(next) = Places(S)
      /\ \A r \in Places(S) :
            At(next, r) = IF k = NULL THEN before(r) ELSE Followed(before(r), k, list, from, to)
  BY <1>1, <1>2, WithOptionsAre
<1>4. /\ edited.options = list /\ Key(edited) = k
      /\ Dependency(edited) = NULL /\ Condition(edited) = Condition(At(S, p))
  <2>1. edited.options = list /\ edited.config = At(S, p).config
    BY PlacesAre, OptionsReplaced DEF QuestionOK
  <2> HIDE DEF edited
  <2> QED
    BY <2>1 DEF Key, Dependency, Condition
<1> HIDE DEF next, edited, k
<1>5. \A r \in Places(S) :
         /\ QuestionOK(before(r)) /\ Key(before(r)) = Key(At(S, r))
         /\ Dependency(before(r)) = Dependency(At(S, r)) /\ Condition(before(r)) = Condition(At(S, r))
         /\ before(r).options = IF r = p THEN list ELSE At(S, r).options
  BY <1>1, <1>4, PlacesAre DEF k
<1> HIDE DEF before
<1>6. ASSUME NEW r \in Places(S)
      PROVE  /\ Key(At(next, r)) = Key(At(S, r))
             /\ Dependency(At(S, r)) = NULL =>
                   At(next, r).options = IF r = p THEN list ELSE At(S, r).options
             /\ Dependency(At(next, r)) # NULL =>
                   /\ Dependency(At(S, r)) # NULL
                   /\ Dependency(At(next, r)).question_key = Dependency(At(S, r)).question_key
                   /\ k = NULL \/ Dependency(At(S, r)).question_key # k =>
                         Dependency(At(next, r)) = Dependency(At(S, r))
                   /\ k # NULL /\ Dependency(At(S, r)).question_key = k =>
                         DOMAIN Dependency(At(next, r)).choices \subseteq ToSet(list)
             /\ Condition(At(next, r)) # NULL =>
                   /\ Condition(At(S, r)) # NULL
                   /\ Condition(At(next, r)).question_key = Condition(At(S, r)).question_key
                   /\ k = NULL \/ Condition(At(S, r)).question_key # k =>
                         Condition(At(next, r)) = Condition(At(S, r))
                   /\ k # NULL /\ Condition(At(S, r)).question_key = k =>
                         Condition(At(next, r)) = NextCondition(Condition(At(S, r)), from, to)
  <2>1. CASE k = NULL
    <3>1. At(next, r) = before(r)
      BY <1>3, <2>1
    <3> QED
      BY <1>5, <2>1, <3>1
  <2>2. CASE k # NULL
    <3> DEFINE b == before(r)
               n == Followed(b, k, list, from, to)
    <3>1. At(next, r) = n
      BY <1>3, <2>2
    <3>2. QuestionOK(b)
      BY <1>5
    <3> HIDE DEF b
    <3>3. /\ Key(n) = Key(b)
          /\ Dependency(b) = NULL => n.options = b.options
          /\ Dependency(n) # NULL =>
                /\ Dependency(b) # NULL /\ Dependency(n).question_key = Dependency(b).question_key
                /\ Dependency(b).question_key # k => Dependency(n) = Dependency(b)
                /\ Dependency(b).question_key = k => DOMAIN Dependency(n).choices \subseteq ToSet(list)
          /\ Condition(n) # NULL =>
                /\ Condition(b) # NULL /\ Condition(n).question_key = Condition(b).question_key
                /\ Condition(b).question_key # k => Condition(n) = Condition(b)
                /\ Condition(b).question_key = k => Condition(n) = NextCondition(Condition(b), from, to)
      BY <3>2, FollowedOK
    <3>4. /\ Key(b) = Key(At(S, r)) /\ Dependency(b) = Dependency(At(S, r))
          /\ Condition(b) = Condition(At(S, r))
          /\ b.options = IF r = p THEN list ELSE At(S, r).options
      BY <1>5 DEF b
    <3> HIDE DEF n
    <3> QED
      BY <2>2, <3>1, <3>3, <3>4
  <2> QED
    BY <2>1, <2>2
<1>7. SourcePlace(next, key) = SourcePlace(S, key)
  BY <1>3, <1>6 DEF SourcePlace
<1>8. \A r \in SourcePlace(S, key) :
         /\ r \in Places(S) /\ Key(At(S, r)) = key /\ key # NULL
         /\ At(next, r).options = IF r = p THEN list ELSE At(S, r).options
  BY <1>6 DEF SourcePlace, Independent
<1>9. \A a : Elsewhere(S, key, p, a) => Offers(next, key, a)
  BY <1>7, <1>8 DEF Elsewhere, Offers
<1>10. \A r \in Places(S) :
          /\ Dependency(At(S, r)) # NULL /\ Dependency(At(S, r)).question_key = key =>
                \A a \in DOMAIN Dependency(At(S, r)).choices : Offers(S, key, a)
          /\ Condition(At(S, r)) # NULL /\ Condition(At(S, r)).question_key = key =>
                \A a \in Condition(At(S, r)).one_of : Offers(S, key, a)
  BY LiveAre
<1>11. CASE k = key /\ key # NULL
  <2>1. p \in SourcePlace(S, key)
    BY <1>11 DEF SourcePlace, k
  <2>2. \A a \in ToSet(list) : Offers(next, key, a)
    BY <1>2, <1>7, <1>8, <2>1 DEF Offers
  <2>3. ASSUME NEW r \in Places(S), Dependency(At(next, r)) # NULL,
               Dependency(At(next, r)).question_key = key, NEW a \in DOMAIN Dependency(At(next, r)).choices
        PROVE  Offers(next, key, a)
    BY <1>6, <1>11, <2>2, <2>3
  <2>4. ASSUME NEW r \in Places(S), Condition(At(next, r)) # NULL,
               Condition(At(next, r)).question_key = key, NEW a \in Condition(At(next, r)).one_of
        PROVE  Offers(next, key, a)
    <3>1. /\ Condition(At(S, r)) # NULL /\ Condition(At(S, r)).question_key = key
          /\ a \in NextCondition(Condition(At(S, r)), from, to).one_of
      BY <1>6, <1>11, <2>4
    <3>2. a \in ToSet(list) \/ Elsewhere(S, key, p, a)
      BY <1>11, <3>1 DEF k
    <3> QED
      BY <1>9, <2>2, <3>2
  <2> QED
    BY <1>3, <2>3, <2>4, LiveAre DEF next
<1>12. CASE ~(k = key /\ key # NULL)
  <2>1. p \notin SourcePlace(S, key)
    BY <1>12 DEF SourcePlace, k
  <2>2. \A a : Offers(S, key, a) => Offers(next, key, a)
    BY <1>7, <1>8, <2>1 DEF Offers
  <2>3. ASSUME NEW r \in Places(S), Dependency(At(next, r)) # NULL,
               Dependency(At(next, r)).question_key = key, NEW a \in DOMAIN Dependency(At(next, r)).choices
        PROVE  Offers(next, key, a)
    <3>1. Dependency(At(S, r)) # NULL /\ Dependency(At(S, r)).question_key = key
      BY <1>6, <2>3
    <3>2. Dependency(At(next, r)) = Dependency(At(S, r))
      BY <1>6, <1>12, <2>3, <3>1
    <3> QED
      BY <1>10, <2>2, <2>3, <3>1, <3>2
  <2>4. ASSUME NEW r \in Places(S), Condition(At(next, r)) # NULL,
               Condition(At(next, r)).question_key = key, NEW a \in Condition(At(next, r)).one_of
        PROVE  Offers(next, key, a)
    <3>1. Condition(At(S, r)) # NULL /\ Condition(At(S, r)).question_key = key
      BY <1>6, <2>4
    <3>2. Condition(At(next, r)) = Condition(At(S, r))
      BY <1>6, <1>12, <2>4, <3>1
    <3> QED
      BY <1>10, <2>2, <2>4, <3>1, <3>2
  <2> QED
    BY <1>3, <2>3, <2>4, LiveAre DEF next
<1> QED
  BY <1>11, <1>12

-----------------------------------------------------------------------------
(* No edit of options or branches breaks a reference.                      *)

\* What conditions name in the questionnaire, before and after an edit of the
\* options of the question at p from `old` to `list`.
LEMMA ConditionsFollow ==
    ASSUME NEW S, SectionsOK(S), NEW p \in Places(S), Dependency(At(S, p)) = NULL,
           NEW list \in Seq(STRING), NEW from, NEW to, NEW key,
           Independent(S, key), ReferencesLive(S, key),
           Key(At(S, p)) = key /\ key # NULL =>
              \A r \in Places(S) :
                 Condition(At(S, r)) # NULL /\ Condition(At(S, r)).question_key = key =>
                    \A a \in ToSet(OrEmpty(At(S, p).options)) :
                       /\ to = NULL /\ a \in Condition(At(S, r)).one_of => a \in ToSet(list)
                       /\ to # NULL => (IF a = from THEN to ELSE a) \in ToSet(list),
           to # NULL => from \in ToSet(OrEmpty(At(S, p).options))
    PROVE  ReferencesLive(WithOptions(S, p, list, from, to), key)
<1>1. ASSUME Key(At(S, p)) = key, key # NULL, NEW r \in Places(S), Condition(At(S, r)) # NULL,
             Condition(At(S, r)).question_key = key,
             NEW b \in NextCondition(Condition(At(S, r)), from, to).one_of
      PROVE  b \in ToSet(list) \/ Elsewhere(S, key, p, b)
  <2> DEFINE c == Condition(At(S, r))
             Next(a) == IF a = from THEN to ELSE a
  <2>1. \A a \in c.one_of : a \in ToSet(OrEmpty(At(S, p).options)) \/ Elsewhere(S, key, p, a)
    <3>1. \A a \in c.one_of : Offers(S, key, a)
      BY <1>1, LiveAre
    <3> QED
      BY <3>1 DEF Offers, Elsewhere
  <2>2. CASE to = NULL
    <3>1. b \in c.one_of
      BY <1>1, <2>2 DEF NextCondition
    <3> QED
      BY <1>1, <2>1, <2>2, <3>1
  <2>3. CASE to # NULL
    <3>1. c = [question_key |-> c.question_key, one_of |-> c.one_of]
      BY <1>1, PlacesAre DEF QuestionOK, QuestionShaped
    <3>2. NextCondition(c, from, to).one_of = {Next(a) : a \in c.one_of}
      <4>1. NextCondition(c, from, to) = [c EXCEPT !.one_of = {IF a = from THEN to ELSE a : a \in @}]
        BY <2>3 DEF NextCondition
      <4> HIDE DEF c
      <4> QED
        BY <3>1, <4>1
    <3>3. PICK a \in c.one_of : b = Next(a)
      BY <1>1, <3>2
    <3>4. CASE a \in ToSet(OrEmpty(At(S, p).options))
      BY <1>1, <2>3, <3>3, <3>4
    <3>5. CASE a = from
      BY <1>1, <2>3, <3>3, <3>5
    <3>6. CASE a # from /\ Elsewhere(S, key, p, a)
      BY <3>3, <3>6
    <3> QED
      BY <2>1, <3>4, <3>5, <3>6
  <2> QED
    BY <2>2, <2>3
<1> QED
  BY <1>1, OptionsKeepReferences

\* Typing, removing, moving and adding options: the guards on referenced options are what is needed.
LEMMA OptionControlsKeepReferences ==
    ASSUME EditorInv, OptionControls, NEW key, Independent(sections, key), ReferencesLive(sections, key)
    PROVE  ReferencesLive(sections', key)
<1>1. PICK p \in Places(sections) :
         \/ \E n \in DOMAIN OrEmpty(At(sections, p).options) :
               \/ \E value \in Typed : UpdateOption(p, n, value)
               \/ RemoveOption(p, n)
               \/ \E delta \in {-1, 1} : MoveOption(p, n, delta)
         \/ AddOption(p)
  BY DEF OptionControls
<1> DEFINE list == OrEmpty(At(sections, p).options)
<1>2. SectionsOK(sections) /\ QuestionOK(At(sections, p))
  BY PlacesAre DEF EditorInv
<1>3. /\ list \in Seq(STRING)
      /\ \A n \in DOMAIN list : /\ list[n] \in STRING /\ RemoveAt(list, n) \in Seq(STRING)
                                /\ \A value \in STRING : [list EXCEPT ![n] = value] \in Seq(STRING)
      /\ Append(list, Blank) \in Seq(STRING)
  BY <1>2, OptionLists
<1>4. ASSUME NEW n \in DOMAIN list, NEW value \in Typed, UpdateOption(p, n, value)
      PROVE  ReferencesLive(sections', key)
  <2> DEFINE new == ReplacedAt(list, n, value)
             from == list[n]
  <2>1. /\ ShowsOptions(At(sections, p))
        /\ sections' = WithOptions(sections, p, new, from, value)
    BY <1>4 DEF UpdateOption, Edit, ReplacedAt
  <2>2. value \in STRING /\ value # NULL
    BY TextAssumption
  <2>3. /\ new \in Seq(STRING) /\ DOMAIN new = DOMAIN list /\ new[n] = value
        /\ \A k \in DOMAIN list \ {n} : new[k] = list[k]
    <3> HIDE DEF list
    <3> QED
      BY <1>3, <2>2, ReplacedEntries
  <2>4. from \in ToSet(list)
    BY DEF ToSet
  <2>5. ASSUME NEW a \in ToSet(list) PROVE (IF a = from THEN value ELSE a) \in ToSet(new)
    <3>1. PICK k \in DOMAIN list : a = list[k]
      BY DEF ToSet
    <3> HIDE DEF new, list
    <3>2. CASE a = from
      BY <2>3, <3>2 DEF ToSet
    <3>3. CASE a # from
      <4>1. k # n
        BY <3>1, <3>3
      <4> QED
        BY <2>3, <3>1, <3>3, <4>1 DEF ToSet
    <3> QED
      BY <3>2, <3>3
  <2>6. Dependency(At(sections, p)) = NULL
    BY <1>2, <2>1, ShowsOptionsOnly
  <2> HIDE DEF new, from
  <2>7. ReferencesLive(WithOptions(sections, p, new, from, value), key)
    BY <1>2, <2>2, <2>3, <2>4, <2>5, <2>6, ConditionsFollow
  <2> QED
    BY <2>1, <2>7
<1>5. ASSUME NEW n \in DOMAIN list, RemoveOption(p, n) PROVE ReferencesLive(sections', key)
  <2> DEFINE new == RemoveAt(list, n)
             from == list[n]
  <2>1. /\ ShowsOptions(At(sections, p))
        /\ ~(Key(At(sections, p)) # NULL
             /\ HasVisibleOptionReference(sections, Key(At(sections, p)), from))
        /\ sections' = WithOptions(sections, p, new, from, NULL)
    BY <1>5 DEF RemoveOption, Edit
  <2>2. new \in Seq(STRING) /\ ToSet(list) = ToSet(new) \cup {from}
    <3> HIDE DEF list
    <3> QED
      BY <1>3, RemoveAtEntries
  <2>3. Dependency(At(sections, p)) = NULL
    BY <1>2, <2>1, ShowsOptionsOnly
  <2> HIDE DEF new, from
  <2>4. ASSUME Key(At(sections, p)) = key, key # NULL, NEW r \in Places(sections),
               Condition(At(sections, r)) # NULL, Condition(At(sections, r)).question_key = key,
               NEW a \in ToSet(list), a \in Condition(At(sections, r)).one_of
        PROVE  a \in ToSet(new)
    <3>1. a # from
      BY <2>1, <2>4 DEF HasVisibleOptionReference
    <3> QED
      BY <2>2, <3>1
  <2>5. ReferencesLive(WithOptions(sections, p, new, from, NULL), key)
    BY <1>2, <2>2, <2>3, <2>4, ConditionsFollow
  <2> QED
    BY <2>1, <2>5
<1>6. ASSUME NEW n, NEW delta, MoveOption(p, n, delta) PROVE ReferencesLive(sections', key)
  <2> DEFINE q == [At(sections, p) EXCEPT !.options = MoveInArray(OrEmpty(@), n, n + delta)]
  <2>1. sections' = Put(sections, p, q)
    BY <1>6 DEF MoveOption, Reordered, Edit
  <2>2. /\ QuestionOK(q) /\ Key(q) = Key(At(sections, p))
        /\ Condition(q) = Condition(At(sections, p)) /\ Dependency(q) = Dependency(At(sections, p))
        /\ ToSet(OrEmpty(q.options)) = ToSet(list)
    BY <1>2, ReorderedAre
  <2> HIDE DEF q
  <2> DEFINE next == Put(sections, p, q)
  <2>3. /\ Places(next) = Places(sections) /\ At(next, p) = q
        /\ \A r \in Places(sections) \ {p} : At(next, r) = At(sections, r)
    BY <1>2, <2>2, PutOK
  <2> HIDE DEF next
  <2>4. \A r \in Places(sections) :
           /\ Key(At(next, r)) = Key(At(sections, r))
           /\ Condition(At(next, r)) = Condition(At(sections, r))
           /\ Dependency(At(next, r)) = Dependency(At(sections, r))
           /\ ToSet(OrEmpty(At(next, r).options)) = ToSet(OrEmpty(At(sections, r).options))
    BY <2>2, <2>3
  <2>5. SourcePlace(next, key) = SourcePlace(sections, key)
    BY <2>3, <2>4 DEF SourcePlace
  <2>6. \A a : Offers(sections, key, a) => Offers(next, key, a)
    BY <2>4, <2>5 DEF Offers, SourcePlace
  <2>7. ReferencesLive(next, key)
    BY <2>3, <2>4, <2>6, LiveAre
  <2> QED
    BY <2>1, <2>7 DEF next
<1>7. ASSUME AddOption(p) PROVE ReferencesLive(sections', key)
  <2> DEFINE new == Append(list, Blank)
  <2>1. /\ ShowsOptions(At(sections, p))
        /\ sections' = WithOptions(sections, p, new, NULL, NULL)
    BY <1>7 DEF AddOption, Edit
  <2>2. new \in Seq(STRING) /\ ToSet(list) \subseteq ToSet(new)
    <3>1. Blank \in STRING
      BY TextAssumption
    <3> HIDE DEF list
    <3>2. ToSet(Append(list, Blank)) = ToSet(list) \cup {Blank}
      BY <1>3, <3>1, AppendEntries
    <3> QED
      BY <1>3, <3>2
  <2>3. Dependency(At(sections, p)) = NULL
    BY <1>2, <2>1, ShowsOptionsOnly
  <2> HIDE DEF new
  <2>4. ReferencesLive(WithOptions(sections, p, new, NULL, NULL), key)
    BY <1>2, <2>2, <2>3, ConditionsFollow
  <2> QED
    BY <2>1, <2>4
<1> QED
  BY <1>1, <1>4, <1>5, <1>6, <1>7

\* Branches are added and emptied only for answers that the source offers or that were named before.
LEMMA BranchControlsKeepReferences ==
    ASSUME EditorInv, BranchControls, NEW key, Independent(sections, key), ReferencesLive(sections, key)
    PROVE  ReferencesLive(sections', key)
<1>1. PICK p \in Places(sections) :
         /\ Dependency(At(sections, p)) # NULL
         /\ \E branches, from, to :
               /\ ChoicesOK(branches) /\ DOMAIN branches \subseteq BranchAnswers(p)
               /\ Edit(Put(sections, p, QuestionWithDependentChoices(At(sections, p), branches, from, to)))
  BY BranchControlsAre
<1>2. PICK branches, from, to :
         /\ ChoicesOK(branches) /\ DOMAIN branches \subseteq BranchAnswers(p)
         /\ Edit(Put(sections, p, QuestionWithDependentChoices(At(sections, p), branches, from, to)))
  BY <1>1
<1> DEFINE d == Dependency(At(sections, p))
           q == QuestionWithDependentChoices(At(sections, p), branches, from, to)
           next == Put(sections, p, q)
<1>3. SectionsOK(sections) /\ sections' = next
  BY <1>2 DEF EditorInv, Edit
<1>4. /\ QuestionOK(q) /\ Key(q) = Key(At(sections, p)) /\ Condition(q) = Condition(At(sections, p))
      /\ Dependency(q) = [question_key |-> d.question_key, choices |-> branches]
  BY <1>1, <1>2, <1>3, PlacesAre, BranchesReplaced
<1>5. Dependency(q).question_key = d.question_key /\ Dependency(q).choices = branches
  BY <1>4
<1> HIDE DEF q
<1>6. /\ Places(next) = Places(sections) /\ At(next, p) = q
      /\ \A r \in Places(sections) \ {p} : At(next, r) = At(sections, r)
  BY <1>3, <1>4, PutOK
<1> HIDE DEF next
<1>7. SourcePlace(next, key) = SourcePlace(sections, key) /\ p \notin SourcePlace(sections, key)
  BY <1>1, <1>4, <1>6 DEF SourcePlace, Independent
<1>8. \A a : Offers(sections, key, a) => Offers(next, key, a)
  BY <1>6, <1>7 DEF Offers, SourcePlace
<1>9. \A r \in Places(sections) :
         /\ Dependency(At(sections, r)) # NULL /\ Dependency(At(sections, r)).question_key = key =>
               \A a \in DOMAIN Dependency(At(sections, r)).choices : Offers(sections, key, a)
         /\ Condition(At(sections, r)) # NULL /\ Condition(At(sections, r)).question_key = key =>
               \A a \in Condition(At(sections, r)).one_of : Offers(sections, key, a)
  BY LiveAre
<1>10. ASSUME d.question_key = key, NEW a \in DOMAIN branches PROVE Offers(sections, key, a)
  <2>1. a \in BranchAnswers(p)
    BY <1>2
  <2>2. \/ a \in DOMAIN d.choices
        \/ \E r \in SourcePlace(sections, key) : a \in ToSet(OrEmpty(At(sections, r).options))
    BY <1>10, <2>1 DEF BranchAnswers
  <2> QED
    BY <1>1, <1>9, <1>10, <2>2 DEF Offers
<1>11. ASSUME NEW r \in Places(sections)
       PROVE  /\ Dependency(At(next, r)) # NULL /\ Dependency(At(next, r)).question_key = key =>
                    \A a \in DOMAIN Dependency(At(next, r)).choices : Offers(next, key, a)
              /\ Condition(At(next, r)) # NULL /\ Condition(At(next, r)).question_key = key =>
                    \A a \in Condition(At(next, r)).one_of : Offers(next, key, a)
  <2>1. CASE r = p
    BY <1>4, <1>5, <1>6, <1>8, <1>9, <1>10, <2>1
  <2>2. CASE r # p
    BY <1>6, <1>8, <1>9, <2>2
  <2> QED
    BY <2>1, <2>2
<1>12. ReferencesLive(next, key)
  BY <1>6, <1>11, LiveAre
<1> QED
  BY <1>3, <1>12

\* No edit of an option or of a branch leaves a branch or a visibility
\* condition that names an option which is not there, for the options of a
\* question without branches: a rename reaches every reference, and a removal
\* is refused while a condition refers to the option.
THEOREM EditsKeepReferences == EditorSpec => OptionEditsKeepReferences
<1>1. ASSUME EditorInv, OptionControls \/ BranchControls, NEW key,
             Independent(sections, key), ReferencesLive(sections, key)
      PROVE  ReferencesLive(sections', key)
  BY <1>1, OptionControlsKeepReferences, BranchControlsKeepReferences
<1>2. EditorInv =>
         ((\E p \in Places(sections) :
              LET key == Key(At(sections, p))
              IN  /\ Independent(sections, key) /\ ReferencesLive(sections, key)
                  /\ ~ReferencesLive(sections', key))
             => ~(OptionControls \/ BranchControls))
  BY <1>1
<1> QED
  BY <1>2, EditorInvariant, PTL DEF EditorSpec, OptionEditsKeepReferences

-----------------------------------------------------------------------------
(* Moving loses and duplicates nothing.                                    *)

\* The ids of the questions of a list.
IdsOf(list) == {q.id : q \in ToSet(list)}

\* The ids in use are those of the sections, whatever their order.
LEMMA UsedIdsAre ==
    ASSUME NEW S, SectionsOK(S)
    PROVE  UsedIds(S) = UNION {IdsOf(x.questions) : x \in ToSet(S)}
<1>1. ASSUME NEW id \in UsedIds(S) PROVE id \in UNION {IdsOf(x.questions) : x \in ToSet(S)}
  <2>1. PICK p \in Places(S) : id = At(S, p).id
    BY DEF UsedIds
  <2>2. p[1] \in DOMAIN S /\ p[2] \in DOMAIN S[p[1]].questions
    BY PlacesAre
  <2>3. S[p[1]] \in ToSet(S) /\ S[p[1]].questions[p[2]] \in ToSet(S[p[1]].questions)
    BY <2>2 DEF ToSet
  <2> QED
    BY <2>1, <2>3 DEF IdsOf, At
<1>2. ASSUME NEW x \in ToSet(S), NEW id \in IdsOf(x.questions) PROVE id \in UsedIds(S)
  <2>1. PICK i \in DOMAIN S : x = S[i]
    BY DEF ToSet
  <2>2. PICK j \in DOMAIN S[i].questions : id = S[i].questions[j].id
    BY <2>1 DEF IdsOf, ToSet
  <2>3. <<i, j>> \in Places(S) /\ At(S, <<i, j>>).id = id
    BY <2>2, PlacesOf DEF At
  <2> QED
    BY <2>3 DEF UsedIds
<1> QED
  BY <1>1, <1>2

\* One question is exchanged for another with its id.
LEMMA UsedIdsPut ==
    ASSUME NEW S, SectionsOK(S), NEW p \in Places(S), NEW q, QuestionOK(q), q.id = At(S, p).id
    PROVE  UsedIds(Put(S, p, q)) = UsedIds(S)
  BY PutOK DEF UsedIds

\* There are finitely many places, and the lengths of the sections decide which.
LEMMA PlacesFinite ==
    ASSUME NEW S, SectionsOK(S) PROVE IsFiniteSet(Places(S))
<1>1. Len(S) \in Nat /\ DOMAIN S = 1..Len(S)
  BY DEF SectionsOK
<1>2. ASSUME NEW i \in DOMAIN S PROVE IsFiniteSet({i} \X DOMAIN S[i].questions)
  <2>1. SectionOK(S[i])
    BY DEF SectionsOK, ToSet
  <2>2. Len(S[i].questions) \in Nat /\ DOMAIN S[i].questions = 1..Len(S[i].questions)
    BY <2>1 DEF SectionOK
  <2>3. IsFiniteSet(1..Len(S[i].questions))
    BY <2>2, FS_Interval
  <2>4. IsFiniteSet({i})
    BY FS_Singleton
  <2> QED
    BY <2>2, <2>3, <2>4, FS_Product
<1> DEFINE Of(i) == {i} \X DOMAIN S[i].questions
<1>3. IsFiniteSet(1..Len(S))
  BY <1>1, FS_Interval
<1>4. IsFiniteSet({Of(i) : i \in 1..Len(S)})
  <2> DEFINE f == [i \in 1..Len(S) |-> Of(i)]
  <2>1. f \in Surjection(1..Len(S), {Of(i) : i \in 1..Len(S)})
    <3> HIDE DEF Of
    <3> QED
      BY DEF Surjection
  <2> HIDE DEF f, Of
  <2> QED
    BY <1>3, <2>1, FS_Surjection
<1>5. IsFiniteSet(UNION {Of(i) : i \in 1..Len(S)})
  <2>1. \A X \in {Of(i) : i \in 1..Len(S)} : IsFiniteSet(X)
    BY <1>1, <1>2
  <2> HIDE DEF Of
  <2> QED
    BY <1>4, <2>1, FS_UNION
<1> QED
  BY <1>1, <1>5 DEF Places

\* Which entry is at k once the one at i has moved by delta.
Neighbour(i, delta, k) == IF k = i THEN i + delta ELSE IF k = i + delta THEN i ELSE k

\* Moving an entry by one place exchanges it with its neighbour.
LEMMA MovedByOne ==
    ASSUME NEW T, NEW s \in Seq(T), NEW delta \in {-1, 1}, NEW i \in DOMAIN s, i + delta \in DOMAIN s
    PROVE  /\ Len(MoveInArray(s, i, i + delta)) = Len(s)
           /\ \A k \in DOMAIN s :
                 /\ Neighbour(i, delta, k) \in DOMAIN s
                 /\ MoveInArray(s, i, i + delta)[k] = s[Neighbour(i, delta, k)]
<1> DEFINE N == Len(s)
           j == i + delta
           rest == RemoveAt(s, i)
           moved == InsertAt(rest, j, s[i])
<1>1. N \in Nat /\ DOMAIN s = 1..N /\ i \in 1..N /\ j \in 1..N /\ s[i] \in T
  OBVIOUS
<1>2. MoveInArray(s, i, j) = moved
  <2>1. i # j /\ {i, j} \subseteq DOMAIN s
    OBVIOUS
  <2> QED
    BY <2>1 DEF MoveInArray
<1>3. /\ rest \in Seq(T) /\ Len(rest) = N - 1
      /\ \A k \in 1..(i - 1) : rest[k] = s[k]
      /\ \A k \in (i + 1)..N : rest[k - 1] = s[k]
  BY RemoveAtEntries, RemoveAtPlaces
<1>4. j \in 1..(Len(rest) + 1)
  <2> HIDE DEF rest, N, j
  <2> QED
    BY <1>1, <1>3
<1>5. /\ Len(moved) = N /\ moved[j] = s[i]
      /\ \A k \in 1..(j - 1) : moved[k] = rest[k]
      /\ \A k \in j..(N - 1) : moved[k + 1] = rest[k]
  <2>1. /\ Len(moved) = Len(rest) + 1 /\ moved[j] = s[i]
        /\ \A k \in 1..(j - 1) : moved[k] = rest[k]
        /\ \A k \in j..Len(rest) : moved[k + 1] = rest[k]
    <3> HIDE DEF rest, j
    <3> QED
      BY <1>1, <1>3, <1>4, InsertAtPlaces
  <2> HIDE DEF rest, j, moved, N
  <2> QED
    BY <1>1, <1>3, <2>1
<1> HIDE DEF rest, moved, N
<1>6. ASSUME NEW k \in 1..N PROVE moved[k] = s[Neighbour(i, delta, k)] /\ Neighbour(i, delta, k) \in 1..N
  <2>1. CASE k = j
    <3>1. Neighbour(i, delta, k) = i
      BY <1>1, <2>1 DEF Neighbour
    <3> QED
      BY <1>1, <1>5, <2>1, <3>1
  <2>2. CASE k = i
    <3>1. Neighbour(i, delta, k) = j
      BY <2>2 DEF Neighbour
    <3>2. CASE delta = 1
      <4>1. i \in 1..(j - 1) /\ i + 1 \in (i + 1)..N /\ (i + 1) - 1 = i /\ j = i + 1
        BY <1>1, <3>2
      <4>2. moved[i] = rest[i]
        BY <1>5, <4>1
      <4>3. rest[(i + 1) - 1] = s[i + 1]
        BY <1>3, <4>1
      <4> QED
        BY <1>1, <2>2, <3>1, <4>1, <4>2, <4>3
    <3>3. CASE delta = -1
      <4>1. j \in j..(N - 1) /\ j + 1 = i /\ j \in 1..(i - 1)
        BY <1>1, <3>3
      <4>2. moved[j + 1] = rest[j]
        BY <1>5, <4>1
      <4>3. rest[j] = s[j]
        BY <1>3, <4>1
      <4> QED
        BY <1>1, <2>2, <3>1, <4>1, <4>2, <4>3
    <3> QED
      BY <3>2, <3>3
  <2>3. CASE k # i /\ k # j /\ k < i
    <3>1. Neighbour(i, delta, k) = k
      BY <2>3 DEF Neighbour
    <3>2. k \in 1..(j - 1) /\ k \in 1..(i - 1)
      BY <1>1, <2>3
    <3>3. moved[k] = rest[k]
      BY <1>5, <3>2
    <3>4. rest[k] = s[k]
      BY <1>3, <3>2
    <3> QED
      BY <3>1, <3>3, <3>4
  <2>4. CASE k # i /\ k # j /\ k > i
    <3>1. Neighbour(i, delta, k) = k
      BY <2>4 DEF Neighbour
    <3>2. k - 1 \in j..(N - 1) /\ (k - 1) + 1 = k /\ k \in (i + 1)..N
      BY <1>1, <2>4
    <3>3. moved[(k - 1) + 1] = rest[k - 1]
      BY <1>5, <3>2
    <3>4. rest[k - 1] = s[k]
      BY <1>3, <3>2
    <3> QED
      BY <3>1, <3>2, <3>3, <3>4
  <2> QED
    BY <1>1, <2>1, <2>2, <2>3, <2>4
<1> QED
  BY <1>1, <1>2, <1>5, <1>6 DEF N

\* Exchanging two neighbouring sections moves their places along.
LEMMA SectionsExchanged ==
    ASSUME NEW S, SectionsOK(S), NEW delta \in {-1, 1}, NEW i \in DOMAIN S, i + delta \in DOMAIN S
    PROVE  LET next == MoveInArray(S, i, i + delta)
           IN  UsedIds(next) = UsedIds(S) /\ Cardinality(Places(next)) = Cardinality(Places(S))
<1> DEFINE next == MoveInArray(S, i, i + delta)
           swap(k) == Neighbour(i, delta, k)
<1>1. S \in Seq(ToSet(S)) /\ Len(S) \in Nat /\ DOMAIN S = 1..Len(S)
  BY DEF SectionsOK
<1>2. next \in Seq(ToSet(S)) /\ ToSet(next) = ToSet(S)
  BY <1>1, MoveInArrayEntries
<1>3. SectionsOK(next)
  BY <1>2, ListOfSections DEF SectionsOK
<1>4. UsedIds(next) = UsedIds(S)
  <2> HIDE DEF next
  <2> QED
    BY <1>2, <1>3, UsedIdsAre
<1>5. /\ Len(next) = Len(S)
      /\ \A k \in DOMAIN S : swap(k) \in DOMAIN S /\ next[k] = S[swap(k)]
  <2>1. \A k \in DOMAIN S : /\ Neighbour(i, delta, k) \in DOMAIN S
                            /\ next[k] = S[Neighbour(i, delta, k)]
    <3> HIDE DEF next
    <3> QED
      BY <1>1, MovedByOne DEF next
  <2>2. Len(next) = Len(S)
    <3> HIDE DEF next
    <3> QED
      BY <1>1, MovedByOne DEF next
  <2> QED
    BY <2>1, <2>2
<1> HIDE DEF next
<1>6. DOMAIN next = DOMAIN S
  BY <1>1, <1>2, <1>5
<1>7. \A k \in DOMAIN S : swap(swap(k)) = k
  BY <1>1 DEF Neighbour
<1> HIDE DEF swap
<1> DEFINE f == [p \in Places(S) |-> <<swap(p[1]), p[2]>>]
<1>8. ASSUME NEW p \in Places(S)
      PROVE  /\ p = <<p[1], p[2]>> /\ p[1] \in DOMAIN S
             /\ f[p] = <<swap(p[1]), p[2]>> /\ f[p] \in Places(next)
  <2>1. p = <<p[1], p[2]>> /\ p[1] \in DOMAIN S /\ p[2] \in DOMAIN S[p[1]].questions
    BY PlacesAre
  <2>2. swap(p[1]) \in DOMAIN next /\ next[swap(p[1])] = S[p[1]]
    BY <1>5, <1>6, <1>7, <2>1
  <2>3. <<swap(p[1]), p[2]>> \in Places(next)
    BY <2>1, <2>2, PlacesOf
  <2> QED
    BY <2>1, <2>3
<1>9. ASSUME NEW r \in Places(next) PROVE \E p \in Places(S) : f[p] = r
  <2>1. r = <<r[1], r[2]>> /\ r[1] \in DOMAIN next /\ r[2] \in DOMAIN next[r[1]].questions
    BY <1>3, PlacesAre
  <2>2. swap(r[1]) \in DOMAIN S /\ next[r[1]] = S[swap(r[1])] /\ swap(swap(r[1])) = r[1]
    BY <1>5, <1>6, <1>7, <2>1
  <2>3. <<swap(r[1]), r[2]>> \in Places(S)
    BY <2>1, <2>2, PlacesOf
  <2>4. f[<<swap(r[1]), r[2]>>] = <<swap(swap(r[1])), r[2]>>
    BY <2>3
  <2> QED
    BY <2>1, <2>2, <2>3, <2>4
<1>10. ASSUME NEW p \in Places(S), NEW r \in Places(S), f[p] = f[r] PROVE p = r
  <2>1. swap(p[1]) = swap(r[1]) /\ p[2] = r[2]
    BY <1>8, <1>10
  <2>2. p[1] = r[1]
    <3>1. p[1] \in DOMAIN S /\ r[1] \in DOMAIN S
      BY <1>8
    <3>2. swap(swap(p[1])) = p[1] /\ swap(swap(r[1])) = r[1]
      BY <1>7, <3>1
    <3> HIDE DEF f
    <3> QED
      BY <2>1, <3>2
  <2> QED
    BY <1>8, <2>1, <2>2
<1>11. f \in [Places(S) -> Places(next)]
  BY <1>8
<1> HIDE DEF f
<1>12. f \in Bijection(Places(S), Places(next))
  BY <1>9, <1>10, <1>11 DEF Bijection, Injection, Surjection, IsInjective
<1>13. Cardinality(Places(next)) = Cardinality(Places(S))
  <2>1. ExistsBijection(Places(S), Places(next))
    BY <1>12 DEF ExistsBijection
  <2> QED
    BY <2>1, PlacesFinite, FS_Bijection
<1> QED
  BY <1>4, <1>13 DEF next

\* The ids of one section and those of the others.
LEMMA UsedIdsSplit ==
    ASSUME NEW S, SectionsOK(S), NEW i \in DOMAIN S
    PROVE  UsedIds(S) = IdsOf(S[i].questions) \cup UNION {IdsOf(S[k].questions) : k \in DOMAIN S \ {i}}
<1>1. UsedIds(S) = UNION {IdsOf(x.questions) : x \in ToSet(S)}
  BY UsedIdsAre
<1>2. ToSet(S) = {S[i]} \cup {S[k] : k \in DOMAIN S \ {i}}
  BY DEF ToSet
<1> QED
  BY <1>1, <1>2

\* A section that is one question longer has one place more.
LEMMA OneLonger ==
    ASSUME NEW S, SectionsOK(S), NEW R, SectionsOK(R), DOMAIN R = DOMAIN S, NEW i \in DOMAIN S,
           Len(R[i].questions) = Len(S[i].questions) + 1,
           \A k \in DOMAIN S \ {i} : R[k].questions = S[k].questions
    PROVE  Cardinality(Places(R)) = Cardinality(Places(S)) + 1
<1> DEFINE n == Len(S[i].questions)
<1>1. SectionOK(S[i]) /\ SectionOK(R[i])
  BY DEF SectionsOK, ToSet
<1>2. n \in Nat /\ DOMAIN S[i].questions = 1..n /\ DOMAIN R[i].questions = 1..(n + 1)
  BY <1>1 DEF SectionOK
<1> HIDE DEF n
<1>3. 1..(n + 1) = 1..n \cup {n + 1} /\ n + 1 \notin 1..n
  BY <1>2
<1>4. ASSUME NEW r \in Places(R) PROVE r \in Places(S) \cup {<<i, n + 1>>}
  <2>1. r = <<r[1], r[2]>> /\ r[1] \in DOMAIN R /\ r[2] \in DOMAIN R[r[1]].questions
    BY PlacesAre
  <2>2. CASE r[1] = i
    BY <1>2, <1>3, <2>1, <2>2, PlacesOf
  <2>3. CASE r[1] # i
    BY <2>1, <2>3, PlacesOf
  <2> QED
    BY <2>2, <2>3
<1>5. ASSUME NEW p \in Places(S) PROVE p \in Places(R) /\ p # <<i, n + 1>>
  <2>1. p = <<p[1], p[2]>> /\ p[1] \in DOMAIN S /\ p[2] \in DOMAIN S[p[1]].questions
    BY PlacesAre
  <2>2. CASE p[1] = i
    BY <1>2, <1>3, <2>1, <2>2, PlacesOf
  <2>3. CASE p[1] # i
    BY <2>1, <2>3, PlacesOf
  <2> QED
    BY <2>2, <2>3
<1>6. <<i, n + 1>> \in Places(R)
  BY <1>2, <1>3, PlacesOf
<1>7. Places(R) = Places(S) \cup {<<i, n + 1>>} /\ <<i, n + 1>> \notin Places(S)
  BY <1>4, <1>5, <1>6
<1> QED
  BY <1>7, PlacesFinite, FS_AddElement

\* A question dropped on another: the same questions, as many places.
LEMMA QuestionMovedOnce ==
    ASSUME NEW S, SectionsOK(S), NEW from \in Places(S), NEW to \in Places(S)
    PROVE  LET next == MoveQuestion(S, from, to)
           IN  UsedIds(next) = UsedIds(S) /\ Cardinality(Places(next)) = Cardinality(Places(S))
<1> DEFINE i == from[1]
           k == to[1]
           moved == At(S, from)
           lifted == Lifted(S, from)
           target == lifted[k].questions
           T == ToSet(target) \cup {moved}
           list == InsertAt(target, Index(from, to), moved)
           next == Questioned(lifted, k, list)
           old == S[i].questions
<1>1. /\ MoveQuestion(S, from, to) = next
      /\ SectionsOK(lifted) /\ DOMAIN lifted = DOMAIN S
      /\ \A m \in DOMAIN S \ {i} : lifted[m] = S[m]
      /\ lifted[i].questions = RemoveAt(old, from[2])
      /\ k \in DOMAIN S /\ target \in Seq(T) /\ list \in Seq(T) /\ \A q \in T : QuestionOK(q)
      /\ Index(from, to) \in 1..(Len(target) + 1)
  BY MoveQuestionIs
<1>2. i \in DOMAIN S /\ from[2] \in DOMAIN old /\ moved = old[from[2]] /\ old \in Seq(ToSet(old))
  BY PlacesAre DEF At, SectionOK
<1>3. /\ Len(RemoveAt(old, from[2])) = Len(old) - 1 /\ Len(old) \in Nat
      /\ ToSet(old) = ToSet(RemoveAt(old, from[2])) \cup {moved}
  <2> HIDE DEF old, moved
  <2> QED
    BY <1>2, RemoveAtEntries
<1>4. Len(list) = Len(target) + 1 /\ ToSet(list) = ToSet(target) \cup {moved}
  <2>1. moved \in T
    OBVIOUS
  <2> HIDE DEF T, target, moved
  <2> QED
    BY <1>1, <2>1, InsertAtEntries, InsertAtPlaces
<1>5. /\ SectionsOK(next) /\ DOMAIN next = DOMAIN S /\ next[k].questions = list
      /\ \A m \in DOMAIN S \ {k} : next[m] = lifted[m]
  <2> HIDE DEF lifted, T, list
  <2> QED
    BY <1>1, QuestionedOK
<1> HIDE DEF next, lifted, list, old, moved
<1>6. UsedIds(S) = UsedIds(lifted) \cup {moved.id}
  <2>1. IdsOf(old) = IdsOf(lifted[i].questions) \cup {moved.id}
    BY <1>1, <1>3 DEF IdsOf
  <2>2. UsedIds(S) = IdsOf(old) \cup UNION {IdsOf(S[m].questions) : m \in DOMAIN S \ {i}}
    BY <1>2, UsedIdsSplit DEF old
  <2>3. UsedIds(lifted) = IdsOf(lifted[i].questions)
                             \cup UNION {IdsOf(lifted[m].questions) : m \in DOMAIN S \ {i}}
    BY <1>1, <1>2, UsedIdsSplit
  <2>4. \A m \in DOMAIN S \ {i} : IdsOf(lifted[m].questions) = IdsOf(S[m].questions)
    BY <1>1
  <2> QED
    BY <2>1, <2>2, <2>3, <2>4
<1>7. UsedIds(next) = UsedIds(lifted) \cup {moved.id}
  <2>1. IdsOf(list) = IdsOf(target) \cup {moved.id}
    BY <1>4 DEF IdsOf
  <2>2. UsedIds(next) = IdsOf(list) \cup UNION {IdsOf(next[m].questions) : m \in DOMAIN S \ {k}}
    BY <1>1, <1>5, UsedIdsSplit
  <2>3. UsedIds(lifted) = IdsOf(target) \cup UNION {IdsOf(lifted[m].questions) : m \in DOMAIN S \ {k}}
    BY <1>1, UsedIdsSplit
  <2>4. \A m \in DOMAIN S \ {k} : IdsOf(lifted[m].questions) = IdsOf(next[m].questions)
    BY <1>5
  <2> QED
    BY <2>1, <2>2, <2>3, <2>4
<1>8. moved.id \in UsedIds(S)
  BY DEF UsedIds, moved
<1>9. Cardinality(Places(S)) = Cardinality(Places(lifted)) + 1
  <2>1. Len(S[i].questions) = Len(lifted[i].questions) + 1
    BY <1>1, <1>3 DEF old
  <2>2. \A m \in DOMAIN S \ {i} : lifted[m].questions = S[m].questions
    BY <1>1
  <2> QED
    BY <1>1, <1>2, <2>1, <2>2, OneLonger
<1>10. Cardinality(Places(next)) = Cardinality(Places(lifted)) + 1
  <2>1. Len(next[k].questions) = Len(lifted[k].questions) + 1
    BY <1>4, <1>5
  <2>2. \A m \in DOMAIN lifted \ {k} : next[m].questions = lifted[m].questions
    BY <1>1, <1>5
  <2> QED
    BY <1>1, <1>5, <2>1, <2>2, OneLonger
<1> QED
  BY <1>1, <1>6, <1>7, <1>9, <1>10

\* Hence no reordering loses or duplicates a question.
LEMMA ReorderingsKeepQuestions ==
    ASSUME EditorInv, Reorderings
    PROVE  UsedIds(sections') = UsedIds(sections) /\ Cardinality(Places(sections')) = Cardinality(Places(sections))
<1>1. SectionsOK(sections)
  BY DEF EditorInv
<1>2. ASSUME NEW i \in DOMAIN sections, NEW delta \in {-1, 1}, MoveSection(i, delta)
      PROVE  UsedIds(sections') = UsedIds(sections) /\ Cardinality(Places(sections')) = Cardinality(Places(sections))
  BY <1>1, <1>2, SectionsExchanged DEF MoveSection, Edit
<1>3. ASSUME NEW p \in Places(sections), NEW q, QuestionOK(q), q.id = At(sections, p).id
      PROVE  /\ UsedIds(Put(sections, p, q)) = UsedIds(sections)
             /\ Cardinality(Places(Put(sections, p, q))) = Cardinality(Places(sections))
  BY <1>1, <1>3, PutOK, UsedIdsPut
<1>4. ASSUME NEW p \in Places(sections), NEW delta \in {-1, 1}, MoveQuestionBy(p, delta)
      PROVE  UsedIds(sections') = UsedIds(sections) /\ Cardinality(Places(sections')) = Cardinality(Places(sections))
  <2> DEFINE i == p[1]
             old == sections[i].questions
             list == MoveInArray(old, p[2], p[2] + delta)
             next == Questioned(sections, i, list)
  <2>1. i \in DOMAIN sections /\ SectionOK(sections[i]) /\ p[2] \in DOMAIN old
    BY <1>1, PlacesAre
  <2>2. old \in Seq(ToSet(old)) /\ \A q \in ToSet(old) : QuestionOK(q)
    BY <2>1 DEF SectionOK
  <2>3. p[2] + delta \in DOMAIN old /\ sections' = next
    BY <1>4 DEF MoveQuestionBy, Edit, Questioned
  <2>4. list \in Seq(ToSet(old)) /\ ToSet(list) = ToSet(old) /\ Len(list) = Len(old)
    <3> HIDE DEF old
    <3> QED
      BY <2>1, <2>2, <2>3, MoveInArrayEntries, MovedByOne
  <2>5. DOMAIN list = DOMAIN old
    <3> HIDE DEF list, old
    <3> QED
      BY <2>2, <2>4
  <2>6. /\ SectionsOK(next) /\ DOMAIN next = DOMAIN sections /\ next[i].questions = list
        /\ \A m \in DOMAIN sections \ {i} : next[m] = sections[m]
    <3> HIDE DEF list, old, i
    <3> QED
      BY <1>1, <2>1, <2>2, <2>4, QuestionedOK
  <2> HIDE DEF next, list
  <2>7. UsedIds(next) = UsedIds(sections)
    <3>1. UsedIds(next) = IdsOf(list) \cup UNION {IdsOf(next[m].questions) : m \in DOMAIN sections \ {i}}
      BY <2>1, <2>6, UsedIdsSplit
    <3>2. UsedIds(sections) = IdsOf(old) \cup UNION {IdsOf(sections[m].questions) : m \in DOMAIN sections \ {i}}
      BY <1>1, <2>1, UsedIdsSplit
    <3>3. IdsOf(list) = IdsOf(old)
      BY <2>4 DEF IdsOf
    <3>4. \A m \in DOMAIN sections \ {i} : IdsOf(next[m].questions) = IdsOf(sections[m].questions)
      BY <2>6
    <3> QED
      BY <3>1, <3>2, <3>3, <3>4
  <2>8. Places(next) = Places(sections)
    BY <2>5, <2>6 DEF Places
  <2> QED
    BY <2>3, <2>7, <2>8
<1>5. ASSUME NEW target \in Targets(sections), HandleDrop(target)
      PROVE  UsedIds(sections') = UsedIds(sections) /\ Cardinality(Places(sections')) = Cardinality(Places(sections))
  <2> DEFINE Same == drag.kind = target.kind /\ drag.place = target.place
  <2>1. target.place \in Places(sections)
    BY ItemsAre DEF Targets
  <2>2. drag.kind # "section" => drag.place \in Places(sections)
    BY <1>5, ItemsAre DEF EditorInv, HandleDrop
  <2>3. CASE drag.kind = "question" /\ target.kind = "question"
    <3>1. sections' = MoveQuestion(sections, drag.place, target.place)
      BY <1>5, <2>3 DEF HandleDrop
    <3> QED
      BY <1>1, <2>1, <2>2, <2>3, <3>1, QuestionMovedOnce
  <2>4. CASE drag.kind = "option" /\ Same
    <3> DEFINE n == [At(sections, drag.place) EXCEPT
                        !.options = MoveInArray(OrEmpty(@), drag.index, target.index)]
    <3>1. sections' = Put(sections, drag.place, n) /\ drag.place \in Places(sections)
      BY <1>5, <2>2, <2>4 DEF HandleDrop, Reordered
    <3>2. QuestionOK(n)
      BY <1>1, <3>1, ReorderedAre
    <3>3. n.id = At(sections, drag.place).id
      BY <1>1, <3>1, PlacesAre, OptionsReplaced DEF QuestionOK
    <3> HIDE DEF n
    <3> QED
      BY <1>3, <3>1, <3>2, <3>3
  <2>5. CASE drag.kind = "column" /\ Same
    <3> DEFINE columns == MoveInArray(At(sections, drag.place).config.columns, drag.index, target.index)
               n == [At(sections, drag.place) EXCEPT !.config.columns = columns]
    <3>1. sections' = Put(sections, drag.place, n) /\ drag.place \in Places(sections)
      BY <1>5, <2>2, <2>5 DEF HandleDrop, WithColumns
    <3>2. QuestionOK(At(sections, drag.place))
      BY <1>1, <3>1, PlacesAre
    <3> HIDE DEF columns
    <3>3. QuestionOK(n)
      BY <3>2, WithColumnsOK
    <3>4. n.id = At(sections, drag.place).id
      BY <3>2 DEF QuestionOK, QuestionShaped
    <3> HIDE DEF n
    <3> QED
      BY <1>3, <3>1, <3>3, <3>4
  <2>6. CASE /\ ~(drag.kind = "question" /\ target.kind = "question")
             /\ ~(drag.kind = "option" /\ Same) /\ ~(drag.kind = "column" /\ Same)
    BY <1>5, <2>6 DEF HandleDrop
  <2> QED
    BY <2>3, <2>4, <2>5, <2>6
<1> QED
  BY <1>2, <1>4, <1>5 DEF Reorderings, Dropped

-----------------------------------------------------------------------------
(* A drop leaves all other questions in their order.                       *)

\* ListsWithout, for one section, and the lists that its flattening takes.
Without(list, id) == Entries(list, {n \in DOMAIN list : list[n].id # id})
Kept(list, id) == [n \in DOMAIN list |-> IF list[n].id # id THEN <<list[n]>> ELSE <<>>]

\* The list without a question, as the flattening of one list per question.
LEMMA KeptIs ==
    ASSUME NEW T, NEW s \in Seq(T), NEW id
    PROVE  /\ Kept(s, id) \in Seq(Seq(T)) /\ Len(Kept(s, id)) = Len(s)
           /\ \A n \in 1..Len(s) : Kept(s, id)[n] = IF s[n].id # id THEN <<s[n]>> ELSE <<>>
           /\ Without(s, id) = FlattenSeq(Kept(s, id)) /\ Without(s, id) \in Seq(T)
<1>1. Len(s) \in Nat /\ DOMAIN s = 1..Len(s) /\ \A n \in 1..Len(s) : s[n] \in T
  OBVIOUS
<1>2. \A n \in 1..Len(s) : <<s[n]>> \in Seq(T) /\ <<>> \in Seq(T)
  BY <1>1
<1>3. Kept(s, id) \in [1..Len(s) -> Seq(T)]
  BY <1>1, <1>2 DEF Kept
<1>4. Kept(s, id) \in Seq(Seq(T)) /\ Len(Kept(s, id)) = Len(s)
  BY <1>1, <1>3, FunctionEntries
<1>5. Without(s, id) = FlattenSeq(Kept(s, id))
  <2> DEFINE I == {n \in DOMAIN s : s[n].id # id}
  <2>1. [n \in DOMAIN s |-> IF n \in I THEN <<s[n]>> ELSE <<>>] = Kept(s, id)
    BY DEF Kept
  <2> HIDE DEF I
  <2>2. Entries(s, I) = FlattenSeq(Kept(s, id))
    BY <2>1 DEF Entries
  <2> QED
    BY <2>2 DEF Without, I
<1>6. \A n \in 1..Len(s) : Kept(s, id)[n] = IF s[n].id # id THEN <<s[n]>> ELSE <<>>
  BY <1>1 DEF Kept
<1> QED
  BY <1>4, <1>5, <1>6, FlattenSeqEntries

\* Leaving out a question leaves it out of each part of a list.
LEMMA WithoutConcat ==
    ASSUME NEW T, NEW id
    PROVE  \A s, t \in Seq(T) : Without(s \o t, id) = Without(s, id) \o Without(t, id)
<1>c. \A x \in Seq(T) :
         /\ Kept(x, id) \in Seq(Seq(T)) /\ Len(Kept(x, id)) = Len(x)
         /\ Without(x, id) = FlattenSeq(Kept(x, id))
         /\ \A n \in 1..Len(x) : Kept(x, id)[n] = IF x[n].id # id THEN <<x[n]>> ELSE <<>>
  BY KeptIs
<1> SUFFICES ASSUME NEW s \in Seq(T), NEW t \in Seq(T)
             PROVE  Without(s \o t, id) = Without(s, id) \o Without(t, id)
  OBVIOUS
<1> DEFINE r == s \o t
           a == Kept(s, id)
           b == Kept(t, id)
           c == Kept(r, id)
<1>1. /\ r \in Seq(T) /\ Len(r) = Len(s) + Len(t) /\ Len(s) \in Nat /\ Len(t) \in Nat
      /\ \A n \in 1..Len(s) : r[n] = s[n]
      /\ \A n \in 1..Len(t) : r[Len(s) + n] = t[n]
  OBVIOUS
<1> HIDE DEF r
<1>2. /\ a \in Seq(Seq(T)) /\ Len(a) = Len(s) /\ Without(s, id) = FlattenSeq(a)
      /\ \A n \in 1..Len(s) : a[n] = IF s[n].id # id THEN <<s[n]>> ELSE <<>>
  BY KeptIs
<1>3. /\ b \in Seq(Seq(T)) /\ Len(b) = Len(t) /\ Without(t, id) = FlattenSeq(b)
      /\ \A n \in 1..Len(t) : b[n] = IF t[n].id # id THEN <<t[n]>> ELSE <<>>
  BY KeptIs
<1>4. /\ c \in Seq(Seq(T)) /\ Len(c) = Len(r) /\ Without(r, id) = FlattenSeq(c)
      /\ \A n \in 1..Len(r) : c[n] = IF r[n].id # id THEN <<r[n]>> ELSE <<>>
  BY <1>1, <1>c, Zenon
<1> HIDE DEF a, b, c
<1>5. /\ a \o b \in Seq(Seq(T)) /\ Len(a \o b) = Len(a) + Len(b)
      /\ \A n \in 1..Len(a) : (a \o b)[n] = a[n]
      /\ \A n \in 1..Len(b) : (a \o b)[Len(a) + n] = b[n]
  <2>1. \A v, w \in Seq(Seq(T)) :
           /\ v \o w \in Seq(Seq(T)) /\ Len(v \o w) = Len(v) + Len(w)
           /\ \A n \in 1..Len(v) : (v \o w)[n] = v[n]
           /\ \A n \in 1..Len(w) : (v \o w)[Len(v) + n] = w[n]
    BY ConcatPlaces
  <2> QED
    BY <1>2, <1>3, <2>1, Zenon
<1>6. c = a \o b
  <2> DEFINE d == a \o b
  <2>1. d \in Seq(Seq(T)) /\ Len(d) = Len(c)
    BY <1>1, <1>2, <1>3, <1>4, <1>5
  <2>2. ASSUME NEW n \in 1..Len(c) PROVE d[n] = c[n]
    <3>1. CASE n <= Len(s)
      <4>1. n \in 1..Len(s) /\ n \in 1..Len(r)
        BY <1>1, <1>4, <3>1
      <4> QED
        BY <1>1, <1>2, <1>4, <1>5, <4>1
    <3>2. CASE n > Len(s)
      <4>0. n \in 1..(Len(s) + Len(t))
        BY <1>1, <1>4
      <4>1. n - Len(s) \in 1..Len(t) /\ Len(s) + (n - Len(s)) = n /\ n \in 1..Len(r)
        BY <1>1, <3>2, <4>0
      <4>2. d[n] = b[n - Len(s)]
        BY <1>2, <1>3, <1>5, <4>1
      <4>3. r[n] = t[n - Len(s)]
        BY <1>1, <4>1
      <4> QED
        BY <1>3, <1>4, <4>1, <4>2, <4>3
    <3>3. n <= Len(s) \/ n > Len(s)
      <4>1. n \in 1..(Len(s) + Len(t))
        BY <1>1, <1>4
      <4> QED
        BY <1>1, <4>1
    <3> QED
      BY <3>1, <3>2, <3>3
  <2> HIDE DEF d
  <2>3. d = c
    <3>1. \A v, w \in Seq(Seq(T)) : Len(v) = Len(w) /\ (\A n \in 1..Len(v) : v[n] = w[n]) => v = w
      BY EqualEntries
    <3>2. \A n \in 1..Len(d) : d[n] = c[n]
      BY <2>1, <2>2
    <3> QED
      BY <1>4, <2>1, <3>1, <3>2, Zenon
  <2> QED
    BY <2>3 DEF d
<1>7. FlattenSeq(a \o b) = FlattenSeq(a) \o FlattenSeq(b)
  BY <1>2, <1>3, FlattenSeqConcat
<1> QED
  BY <1>2, <1>3, <1>4, <1>6, <1>7 DEF r

\* A question left out of the list of itself leaves nothing.
LEMMA WithoutItself ==
    ASSUME NEW T, NEW e \in T PROVE Without(<<e>>, e.id) = <<>>
<1> DEFINE s == <<e>>
           a == Kept(s, e.id)
<1>1. s \in Seq(T) /\ Len(s) = 1 /\ s[1] = e
  OBVIOUS
<1> HIDE DEF s
<1>2. a \in Seq(Seq(T)) /\ Len(a) = 1 /\ a[1] = <<>> /\ Without(s, e.id) = FlattenSeq(a)
  <2>1. /\ a \in Seq(Seq(T)) /\ Len(a) = Len(s) /\ Without(s, e.id) = FlattenSeq(a)
        /\ \A n \in 1..Len(s) : a[n] = IF s[n].id # e.id THEN <<s[n]>> ELSE <<>>
    BY <1>1, KeptIs
  <2> HIDE DEF a
  <2> QED
    BY <1>1, <2>1
<1> HIDE DEF a
<1>3. PICK f : IsFlattening(f, a) /\ FlattenSeq(a) = f[1]
  <2>1. Len(a) # 0
    BY <1>2
  <2>2. \E f : IsFlattening(f, a) /\ FlattenSeq(a) = f[Len(a)]
    BY <1>2, <2>1, FlattenSeqIs
  <2> QED
    BY <1>2, <2>2
<1>4. f[1] = a[1]
  BY <1>2, <1>3 DEF IsFlattening
<1> QED
  BY <1>2, <1>3, <1>4 DEF s

\* Taking the question out of its section leaves the others in their order.
LEMMA WithoutRemoved ==
    ASSUME NEW T, NEW s \in Seq(T), NEW i \in DOMAIN s
    PROVE  Without(RemoveAt(s, i), s[i].id) = Without(s, s[i].id)
<1> DEFINE a == SubSeq(s, 1, i - 1)
           one == <<s[i]>>
           b == SubSeq(s, i + 1, Len(s))
           id == s[i].id
<1>1. Len(s) \in Nat /\ i \in 1..Len(s) /\ s[i] \in T
  OBVIOUS
<1>2. a \in Seq(T) /\ b \in Seq(T) /\ one \in Seq(T) /\ a \o one \in Seq(T)
  BY <1>1
<1>3. s = (a \o one) \o b
  BY SplitAround
<1>4. RemoveAt(s, i) = a \o b
  BY DEF RemoveAt
<1>5. Without(one, id) = <<>>
  BY <1>1, WithoutItself
<1> HIDE DEF a, b, one, id
<1>6. \A v, w \in Seq(T) : Without(v \o w, id) = Without(v, id) \o Without(w, id)
  BY WithoutConcat
<1>7. Without(a, id) \in Seq(T)
  BY <1>2, KeptIs
<1>8. Without((a \o one) \o b, id) = (Without(a, id) \o Without(one, id)) \o Without(b, id)
  BY <1>2, <1>6, Zenon
<1>9. Without(a \o b, id) = Without(a, id) \o Without(b, id)
  BY <1>2, <1>6, Zenon
<1>10. Without(a, id) \o <<>> = Without(a, id)
  BY <1>7
<1> QED
  BY <1>3, <1>4, <1>5, <1>8, <1>9, <1>10, Zenon DEF id

\* So does putting it in elsewhere.
LEMMA WithoutInserted ==
    ASSUME NEW T, NEW s \in Seq(T), NEW i \in 1..(Len(s) + 1), NEW e \in T
    PROVE  Without(InsertAt(s, i, e), e.id) = Without(s, e.id)
<1> DEFINE a == SubSeq(s, 1, i - 1)
           one == <<e>>
           b == SubSeq(s, i, Len(s))
           id == e.id
<1>1. Len(s) \in Nat /\ i - 1 \in 0..Len(s)
  OBVIOUS
<1>2. a \in Seq(T) /\ b \in Seq(T) /\ one \in Seq(T) /\ a \o one \in Seq(T)
  BY <1>1
<1>3. s = a \o b
  BY SplitBefore
<1>4. InsertAt(s, i, e) = (a \o one) \o b
  BY DEF InsertAt
<1>5. Without(one, id) = <<>>
  BY WithoutItself
<1> HIDE DEF a, b, one, id
<1>6. \A v, w \in Seq(T) : Without(v \o w, id) = Without(v, id) \o Without(w, id)
  BY WithoutConcat
<1>7. Without(a, id) \in Seq(T)
  BY <1>2, KeptIs
<1>8. Without((a \o one) \o b, id) = (Without(a, id) \o Without(one, id)) \o Without(b, id)
  BY <1>2, <1>6, Zenon
<1>9. Without(a \o b, id) = Without(a, id) \o Without(b, id)
  BY <1>2, <1>6, Zenon
<1>10. Without(a, id) \o <<>> = Without(a, id)
  BY <1>7
<1> QED
  BY <1>3, <1>4, <1>5, <1>8, <1>9, <1>10, Zenon DEF id

\* The section whose list ListsWithout takes for an id.
SectionNamed(S, s) == CHOOSE i \in DOMAIN S : S[i].id = s

\* Sections with the same ids, each with the same questions but for one, have the same lists.
LEMMA ListsWithoutSame ==
    ASSUME NEW S, NEW R, DOMAIN R = DOMAIN S, NEW id,
           \A i \in DOMAIN S : /\ R[i].id = S[i].id
                               /\ Without(R[i].questions, id) = Without(S[i].questions, id)
    PROVE  ListsWithout(R, id) = ListsWithout(S, id)
<1>1. \A s : SectionNamed(R, s) = SectionNamed(S, s)
  <2> SUFFICES ASSUME NEW s PROVE SectionNamed(R, s) = SectionNamed(S, s)
    OBVIOUS
  <2>1. \A i : (i \in DOMAIN R /\ R[i].id = s) <=> (i \in DOMAIN S /\ S[i].id = s)
    OBVIOUS
  <2> QED
    BY <2>1 DEF SectionNamed
<1>2. {R[i].id : i \in DOMAIN R} = {S[i].id : i \in DOMAIN S}
  OBVIOUS
<1>3. \A s \in {S[i].id : i \in DOMAIN S} : SectionNamed(S, s) \in DOMAIN S
  BY DEF SectionNamed
<1>4. ListsWithout(S, id) = [s \in {S[i].id : i \in DOMAIN S} |-> Without(S[SectionNamed(S, s)].questions, id)]
  BY DEF ListsWithout, Without, SectionNamed
<1>5. ListsWithout(R, id) = [s \in {R[i].id : i \in DOMAIN R} |-> Without(R[SectionNamed(R, s)].questions, id)]
  BY DEF ListsWithout, Without, SectionNamed
<1> QED
  BY <1>1, <1>2, <1>3, <1>4, <1>5

\* Replacing the questions of a section keeps every section's id.
LEMMA QuestionedIds ==
    ASSUME NEW S, SectionsOK(S), NEW i \in DOMAIN S, NEW list, NEW k \in DOMAIN S
    PROVE  Questioned(S, i, list)[k].id = S[k].id
<1>1. SectionOK(S[i])
  BY DEF SectionsOK, ToSet
<1>2. Questioned(S, i, list)[k] = IF k = i THEN [S[i] EXCEPT !.questions = list] ELSE S[k]
  BY DEF Questioned
<1>3. [S[i] EXCEPT !.questions = list].id = S[i].id
  BY <1>1 DEF SectionOK
<1> QED
  BY <1>2, <1>3

\* After a drop, all other questions of every section are in the order they were in.
LEMMA MoveQuestionKeepsOrder ==
    ASSUME NEW S, SectionsOK(S), NEW from \in Places(S), NEW to \in Places(S)
    PROVE  LET id == At(S, from).id
           IN  ListsWithout(S, id) = ListsWithout(MoveQuestion(S, from, to), id)
<1> DEFINE i == from[1]
           k == to[1]
           moved == At(S, from)
           id == moved.id
           lifted == Lifted(S, from)
           target == lifted[k].questions
           T == ToSet(target) \cup {moved}
           list == InsertAt(target, Index(from, to), moved)
           next == Questioned(lifted, k, list)
           old == S[i].questions
<1>1. /\ MoveQuestion(S, from, to) = next
      /\ SectionsOK(lifted) /\ DOMAIN lifted = DOMAIN S
      /\ \A m \in DOMAIN S \ {i} : lifted[m] = S[m]
      /\ lifted[i].questions = RemoveAt(old, from[2])
      /\ k \in DOMAIN S /\ target \in Seq(T) /\ list \in Seq(T) /\ \A q \in T : QuestionOK(q)
      /\ Index(from, to) \in 1..(Len(target) + 1)
  BY MoveQuestionIs
<1>2. i \in DOMAIN S /\ from[2] \in DOMAIN old /\ moved = old[from[2]] /\ old \in Seq(ToSet(old))
  BY PlacesAre DEF At, SectionOK
<1>3. Without(RemoveAt(old, from[2]), id) = Without(old, id)
  <2> HIDE DEF old, moved
  <2> QED
    BY <1>2, WithoutRemoved
<1>4. Without(list, id) = Without(target, id)
  <2>1. moved \in T
    OBVIOUS
  <2> HIDE DEF T, target, moved
  <2> QED
    BY <1>1, <2>1, WithoutInserted
<1>5. /\ SectionsOK(next) /\ DOMAIN next = DOMAIN S /\ next[k].questions = list
      /\ \A m \in DOMAIN S \ {k} : next[m] = lifted[m]
  <2> HIDE DEF lifted, T, list
  <2> QED
    BY <1>1, QuestionedOK
<1>6. \A m \in DOMAIN S : next[m].id = lifted[m].id
  <2> HIDE DEF lifted, list
  <2> QED
    BY <1>1, QuestionedIds
<1>7. \A m \in DOMAIN S : lifted[m].id = S[m].id
  BY <1>2, QuestionedIds DEF Lifted
<1> HIDE DEF next, lifted, list, old, id
<1>8. ListsWithout(lifted, id) = ListsWithout(S, id)
  <2>1. \A m \in DOMAIN S : Without(lifted[m].questions, id) = Without(S[m].questions, id)
    BY <1>1, <1>3 DEF old
  <2> QED
    BY <1>1, <1>7, <2>1, ListsWithoutSame
<1>9. ListsWithout(next, id) = ListsWithout(lifted, id)
  <2>1. \A m \in DOMAIN lifted : Without(next[m].questions, id) = Without(lifted[m].questions, id)
    BY <1>1, <1>4, <1>5
  <2> QED
    BY <1>1, <1>5, <1>6, <2>1, ListsWithoutSame
<1> QED
  BY <1>1, <1>8, <1>9 DEF id

\* The dropped question stands right before the one it was dropped on.
LEMMA MoveQuestionLands ==
    ASSUME NEW S, SectionsOK(S), NEW from \in Places(S), NEW to \in Places(S), from # to
    PROVE  LET next == MoveQuestion(S, from, to)
           IN  \E p \in Places(next) :
                  /\ At(next, p) = At(S, from)
                  /\ <<p[1], p[2] + 1>> \in Places(next)
                  /\ At(next, <<p[1], p[2] + 1>>) = At(S, to)
<1> DEFINE k == to[1]
           moved == At(S, from)
           lifted == Lifted(S, from)
           target == lifted[k].questions
           T == ToSet(target) \cup {moved}
           n == Index(from, to)
           list == InsertAt(target, n, moved)
           next == Questioned(lifted, k, list)
<1>1. /\ MoveQuestion(S, from, to) = next
      /\ SectionsOK(lifted) /\ k \in DOMAIN lifted
      /\ target \in Seq(T) /\ list \in Seq(T) /\ \A q \in T : QuestionOK(q)
      /\ n \in 1..(Len(target) + 1) /\ n <= Len(target) /\ target[n] = At(S, to)
  BY MoveQuestionIs
<1>2. /\ Len(list) = Len(target) + 1 /\ list[n] = moved
      /\ \A j \in n..Len(target) : list[j + 1] = target[j]
  <2>1. moved \in T
    OBVIOUS
  <2> HIDE DEF T, target, moved, n
  <2> QED
    BY <1>1, <2>1, InsertAtPlaces
<1>3. DOMAIN next = DOMAIN lifted /\ next[k].questions = list
  <2> HIDE DEF lifted, T, list
  <2> QED
    BY <1>1, QuestionedOK
<1> HIDE DEF next, lifted, list, moved, n, T, target
<1>4. n \in DOMAIN list /\ n + 1 \in DOMAIN list /\ n \in n..Len(target)
  <2>1. Len(target) \in Nat /\ DOMAIN list = 1..(Len(target) + 1)
    BY <1>1, <1>2
  <2> QED
    BY <1>1, <2>1
<1>5. <<k, n>> \in Places(next) /\ <<k, n + 1>> \in Places(next)
  BY <1>1, <1>3, <1>4, PlacesOf
<1>6. At(next, <<k, n>>) = moved /\ At(next, <<k, n + 1>>) = At(S, to)
  BY <1>1, <1>2, <1>3, <1>4 DEF At
<1> DEFINE p == <<k, n>>
<1>7. p \in Places(next) /\ p[1] = k /\ p[2] = n
  BY <1>5
<1> HIDE DEF k, p
<1>8. At(next, p) = moved /\ <<p[1], p[2] + 1>> \in Places(next) /\ At(next, <<p[1], p[2] + 1>>) = At(S, to)
  BY <1>5, <1>6, <1>7 DEF p
<1> QED
  BY <1>1, <1>7, <1>8 DEF moved

\* Moving a section or a question, by the arrows or by a drag, loses and
\* duplicates no question; a question dropped on another stands right before
\* it, and all others are in the order they were in.
THEOREM MovesAreFaithful == EditorSpec => MovesDisturbNothing
<1>1. ASSUME EditorInv, Reorderings
      PROVE  /\ UsedIds(sections') = UsedIds(sections)
             /\ Cardinality(Places(sections')) = Cardinality(Places(sections))
  BY <1>1, ReorderingsKeepQuestions
<1>2. ASSUME EditorInv, drag # NULL, drag.kind = "question",
             NEW target \in {item \in Targets(sections) : item.kind = "question"} \ {drag},
             HandleDrop(target)
      PROVE  LET moved == At(sections, drag.place)
                 onto == At(sections, target.place)
             IN /\ ListsWithout(sections, moved.id) = ListsWithout(sections', moved.id)
                /\ \E p \in Places(sections') :
                      /\ At(sections', p) = moved
                      /\ <<p[1], p[2] + 1>> \in Places(sections')
                      /\ At(sections', <<p[1], p[2] + 1>>) = onto
  <2>1. SectionsOK(sections) /\ drag \in Items(sections)
    BY <1>2 DEF EditorInv
  <2>2. drag.place \in Places(sections) /\ drag = [kind |-> "question", place |-> drag.place, index |-> 0]
    BY <1>2, <2>1, ItemsAre
  <2>3. /\ target.place \in Places(sections) /\ target.kind = "question"
        /\ target = [kind |-> "question", place |-> target.place, index |-> 0]
    BY ItemsAre DEF Targets
  <2>4. drag.place # target.place
    BY <2>2, <2>3
  <2>5. sections' = MoveQuestion(sections, drag.place, target.place)
    BY <1>2, <2>3 DEF HandleDrop
  <2> QED
    BY <2>1, <2>2, <2>3, <2>4, <2>5, MoveQuestionKeepsOrder, MoveQuestionLands
<1>3. EditorInv =>
        /\ (\/ UsedIds(sections') # UsedIds(sections)
            \/ Cardinality(Places(sections')) # Cardinality(Places(sections)))
               => ~Reorderings
        /\ drag # NULL /\ drag.kind = "question" =>
             \A target \in {item \in Targets(sections) : item.kind = "question"} \ {drag} :
                HandleDrop(target) =>
                   LET moved == At(sections, drag.place)
                       onto == At(sections, target.place)
                   IN /\ ListsWithout(sections, moved.id) = ListsWithout(sections', moved.id)
                      /\ \E p \in Places(sections') :
                            /\ At(sections', p) = moved
                            /\ <<p[1], p[2] + 1>> \in Places(sections')
                            /\ At(sections', <<p[1], p[2] + 1>>) = onto
  BY <1>1, <1>2
<1> QED
  BY <1>3, EditorInvariant, PTL DEF MovesDisturbNothing
================================================================================
