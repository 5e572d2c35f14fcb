----------------------- MODULE SurveyLifecycleProofs -----------------------
(***************************************************************************)
(* Proofs about SurveyLifecycle, for every set of surveys, clients and     *)
(* questionnaires: what the row locks keep apart (LockInv), what an        *)
(* unfinished request may rely on when it commits (ViewInv), and why two   *)
(* administrators who choose different landing page surveys at the same    *)
(* time leave one of them (CtaInv).                                        *)
(***************************************************************************)
EXTENDS SurveyLifecycle, FiniteSetTheorems, TLAPS

InClear(s) == sess[s].stage = "clear"

Claimed(s) == sess[s].done \cup sess[s].todo

\* A request holds the locks it works under.
LockInv ==
    \A s \in Sessions :
        /\ sess[s].stage \in Locked =>
              surveys[sess[s].survey].exists /\ lock[sess[s].survey] = s
        /\ InClear(s) => \A v \in sess[s].done : lock[v] = s

\* What a request checked when it began still holds, and answers stay with the
\* questionnaire they were checked against.
ViewInv ==
    /\ \A s \in Sessions :
          /\ sess[s].stage = "answer" => sess[s].seen = surveys[sess[s].survey].structure
          /\ InClear(s) => UpdateAccepts(surveys[sess[s].survey], sess[s].req)
    /\ \A v \in Surveys :
          /\ surveys[v].status = "Active" => surveys[v].structure \in Ready
          /\ answered[v] \subseteq {surveys[v].structure}
          /\ answered[v] # {} => HasHistory(surveys[v])
          /\ ~surveys[v].exists => ~HasHistory(surveys[v])

\* A request that clears the flag has every flagged survey on its list, and of
\* two such requests one has the other's survey on its list.
CtaInv ==
    /\ \A s \in Sessions : InClear(s) =>
          /\ sess[s].req.is_cta = TRUE
          /\ sess[s].at = NULL => sess[s].todo = {}
          /\ \A v \in Surveys \ {sess[s].survey} :
                surveys[v].exists /\ Chosen(surveys[v]) => v \in Claimed(s)
    /\ \A s, t \in Sessions : InClear(s) /\ InClear(t) /\ s # t =>
          sess[s].survey \in Claimed(t) \/ sess[t].survey \in Claimed(s)
    /\ \A v, w \in Existing : Chosen(surveys[v]) /\ Chosen(surveys[w]) => v = w

IInv == TypeOK /\ LockInv /\ ViewInv /\ CtaInv

-----------------------------------------------------------------------------
(* What the helpers return.                                                *)

\* The fields of a client's record, by what the client is doing.
LEMMA SessionFields ==
    ASSUME TypeOK, NEW s \in Sessions
    PROVE  /\ sess[s].stage \in Locked \cup Loaded => sess[s].survey \in Surveys
           /\ sess[s].stage \in {"put", "item"} => sess[s].new \in Structures
           /\ sess[s].stage = "put" => sess[s].seen \in Structures
           /\ sess[s].stage \in Loaded => sess[s].version \in Version
           /\ sess[s].stage \in {"update", "clear"} => sess[s].req \in Bodies
           /\ sess[s].stage = "clear" =>
                 /\ sess[s].done \in SUBSET Surveys
                 /\ sess[s].todo \in SUBSET Surveys
                 /\ sess[s].at \in Surveys \cup {NULL}
           /\ sess[s].stage = "answer" => sess[s].seen \in Structures
BY DEF TypeOK, Session, Idle, Locked, Loaded

LEMMA AppliedIsSurvey ==
    ASSUME NEW row \in Survey, NEW c \in Bodies
    PROVE  /\ Applied(row, c) \in Survey
           /\ Applied(row, c).exists = row.exists
           /\ Applied(row, c).structure = row.structure
           /\ Applied(row, c).responses = row.responses
BY SurveyAssumption DEF Applied, Survey

LEMMA AppliedKeepsCta ==
    ASSUME NEW row \in Survey, NEW c \in Bodies, c.is_cta # TRUE,
           Chosen(Applied(row, c))
    PROVE  Chosen(row)
BY SurveyAssumption DEF Applied, Survey, Chosen

\* Renewing updated_at changes nothing but the versions that clients loaded.
LEMMA OutdatedChangesVersions ==
    ASSUME NEW S \in [Sessions -> Session], NEW mine, NEW others
    PROVE  /\ Outdated(S, mine, others) \in [Sessions -> Session]
           /\ \A t \in Sessions :
                 /\ Outdated(S, mine, others)[t].stage = S[t].stage
                 /\ S[t].stage \in Locked => Outdated(S, mine, others)[t].survey = S[t].survey
                 /\ S[t].stage \notin Loaded => Outdated(S, mine, others)[t] = S[t]
<1> DEFINE O == Outdated(S, mine, others)
<1>1. ASSUME NEW t \in Sessions
      PROVE  /\ O[t] \in Session
             /\ O[t].stage = S[t].stage
             /\ S[t].stage \in Locked => O[t].survey = S[t].survey
             /\ S[t].stage \notin Loaded => O[t] = S[t]
  BY DEF Outdated, Session, Idle, Loaded, Locked, Version
<1> QED
  BY <1>1 DEF Outdated

-----------------------------------------------------------------------------
(* Steps that change no survey: requests that begin, reads, rollbacks.     *)

\* A request that takes the lock of its survey.
LEMMA BeginKeepsIInv ==
    ASSUME IInv, NEW s \in Sessions, NEW v \in Surveys, NEW to \in Session,
           sess[s].stage \notin Locked, Begin(s, v, to),
           to.stage \in Locked \ {"clear"}, to.survey = v,
           to.stage = "answer" => to.seen = surveys[v].structure
    PROVE  IInv'
<1> USE DEF Begin, InClear, Claimed
<1>1. /\ sess' = [sess EXCEPT ![s] = to] /\ lock' = [lock EXCEPT ![v] = s]
      /\ surveys' = surveys /\ answered' = answered
      /\ lock[v] = NULL /\ surveys[v].exists
  BY DEF Begin
<1>2. /\ sess'[s] = to
      /\ \A t \in Sessions \ {s} : sess'[t] = sess[t]
  BY <1>1 DEF IInv, TypeOK
<1>3. /\ lock'[v] = s
      /\ \A w \in Surveys \ {v} : lock'[w] = lock[w]
  BY <1>1 DEF IInv, TypeOK
<1>4. TypeOK'
  BY <1>1 DEF IInv, TypeOK
<1>5. LockInv'
  <2> SUFFICES ASSUME NEW t \in Sessions
               PROVE  /\ sess'[t].stage \in Locked =>
                            surveys'[sess'[t].survey].exists /\ lock'[sess'[t].survey] = t
                      /\ sess'[t].stage = "clear" => \A w \in sess'[t].done : lock'[w] = t
    BY DEF LockInv
  <2>1. CASE t = s
    BY <2>1, <1>1, <1>2, <1>3
  <2>2. CASE t # s
    <3>1. t # NULL
      BY SurveyAssumption
    <3> QED
      BY <2>2, <3>1, <1>1, <1>2, <1>3, SessionFields DEF IInv, LockInv, Locked
  <2> QED
    BY <2>1, <2>2
<1>6. ViewInv'
  BY <1>1, <1>2 DEF IInv, ViewInv
<1>7. CtaInv'
  BY <1>1, <1>2 DEF IInv, CtaInv, Existing
<1> QED
  BY <1>4, <1>5, <1>6, <1>7 DEF IInv

\* A client that reads without a lock.
LEMMA ReadKeepsIInv ==
    ASSUME IInv, NEW s \in Sessions, NEW to \in Session,
           sess[s].stage \notin Locked, to.stage \notin Locked,
           sess' = [sess EXCEPT ![s] = to], UNCHANGED <<surveys, lock, answered>>
    PROVE  IInv'
<1>1. /\ sess'[s] = to
      /\ \A t \in Sessions \ {s} : sess'[t] = sess[t]
  BY DEF IInv, TypeOK
<1>2. TypeOK'
  BY DEF IInv, TypeOK
<1>3. LockInv'
  BY <1>1 DEF IInv, LockInv, InClear, Locked
<1>4. ViewInv'
  BY <1>1 DEF IInv, ViewInv, InClear, Locked
<1>5. CtaInv'
  BY <1>1 DEF IInv, CtaInv, InClear, Claimed, Existing, Locked
<1> QED
  BY <1>2, <1>3, <1>4, <1>5 DEF IInv

\* Ending a request frees no lock of another one.
LEMMA FreeLocksKeepsOthers ==
    ASSUME TypeOK, NEW s \in Sessions
    PROVE  /\ FreeLocks(s) \in [Surveys -> Sessions \cup {NULL}]
           /\ \A v \in Surveys : lock[v] # s => FreeLocks(s)[v] = lock[v]
BY DEF TypeOK, FreeLocks

\* A request that ends without a change.
LEMMA ReleaseKeepsIInv ==
    ASSUME IInv, NEW s \in Sessions, NEW to \in Session, to.stage \notin Locked,
           sess' = [sess EXCEPT ![s] = to], lock' = FreeLocks(s),
           UNCHANGED <<surveys, answered>>
    PROVE  IInv'
<1>1. /\ sess'[s] = to
      /\ \A t \in Sessions \ {s} : sess'[t] = sess[t]
  BY DEF IInv, TypeOK
<1>2. TypeOK'
  BY FreeLocksKeepsOthers DEF IInv, TypeOK
<1>3. LockInv'
  <2> SUFFICES ASSUME NEW t \in Sessions \ {s}
               PROVE  /\ sess[t].stage \in Locked =>
                            surveys[sess[t].survey].exists /\ lock'[sess[t].survey] = t
                      /\ sess[t].stage = "clear" => \A w \in sess[t].done : lock'[w] = t
    BY <1>1 DEF LockInv, InClear, Locked
  <2> QED
    BY FreeLocksKeepsOthers, SessionFields DEF IInv, LockInv, InClear, Locked
<1>4. ViewInv'
  BY <1>1 DEF IInv, ViewInv, InClear, Locked
<1>5. CtaInv'
  BY <1>1 DEF IInv, CtaInv, InClear, Claimed, Existing, Locked
<1> QED
  BY <1>2, <1>3, <1>4, <1>5 DEF IInv

-----------------------------------------------------------------------------
(* Steps that write one row.                                               *)

\* A row that may replace row v: it keeps what the invariants say of a row, its
\* questionnaire fits the answers A, and it is not newly the call to action.
MayReplace(v, row, A) ==
    /\ row \in Survey
    /\ row.exists
    /\ row.status = "Active" => row.structure \in Ready
    /\ A \in SUBSET Structures
    /\ A \subseteq {row.structure}
    /\ A # {} => HasHistory(row)
    /\ Chosen(row) => surveys[v].exists /\ Chosen(surveys[v])

\* Only the request that holds the lock of v may be writing it.
LEMMA WriteRowKeepsIInv ==
    ASSUME IInv, NEW v \in Surveys, NEW row, NEW A, MayReplace(v, row, A),
           surveys' = [surveys EXCEPT ![v] = row],
           answered' = [answered EXCEPT ![v] = A],
           \A t \in Sessions : sess'[t].stage \in Locked =>
               /\ sess[t].stage = sess'[t].stage
               /\ sess'[t].survey = sess[t].survey
               /\ sess'[t].stage # "put" => sess'[t] = sess[t]
               /\ sess[t].survey # v
               /\ \A w \in Surveys : lock[w] = t => lock'[w] = t,
           sess' \in [Sessions -> Session],
           lock' \in [Surveys -> Sessions \cup {NULL}]
    PROVE  IInv'
<1> USE DEF MayReplace
<1>1. /\ surveys'[v] = row /\ answered'[v] = A
      /\ \A w \in Surveys \ {v} : surveys'[w] = surveys[w] /\ answered'[w] = answered[w]
  BY DEF IInv, TypeOK
<1>2. TypeOK'
  BY DEF IInv, TypeOK
<1>3. \A t \in Sessions : sess'[t].stage \in Locked => sess[t].survey \in Surveys \ {v}
  BY SessionFields DEF IInv
<1>4. LockInv'
  <2> SUFFICES ASSUME NEW t \in Sessions, sess'[t].stage \in Locked
               PROVE  /\ surveys'[sess'[t].survey].exists /\ lock'[sess'[t].survey] = t
                      /\ sess'[t].stage = "clear" => \A w \in sess'[t].done : lock'[w] = t
    BY DEF LockInv, InClear, Locked
  <2>1. surveys'[sess'[t].survey].exists /\ lock'[sess'[t].survey] = t
    BY <1>1, <1>3 DEF IInv, LockInv
  <2>2. CASE sess'[t].stage = "clear"
    BY <2>1, <2>2, SessionFields DEF IInv, LockInv, InClear
  <2> QED
    BY <2>1, <2>2
<1>5. ViewInv'
  <2>1. \A t \in Sessions :
          /\ sess'[t].stage = "answer" => sess'[t].seen = surveys'[sess'[t].survey].structure
          /\ sess'[t].stage = "clear" => UpdateAccepts(surveys'[sess'[t].survey], sess'[t].req)
    BY <1>1, <1>3 DEF IInv, ViewInv, InClear, Locked
  <2>2. \A w \in Surveys :
          /\ surveys'[w].status = "Active" => surveys'[w].structure \in Ready
          /\ answered'[w] \subseteq {surveys'[w].structure}
          /\ answered'[w] # {} => HasHistory(surveys'[w])
          /\ ~surveys'[w].exists => ~HasHistory(surveys'[w])
    BY <1>1 DEF IInv, ViewInv
  <2> QED
    BY <2>1, <2>2 DEF ViewInv, InClear
<1>6. CtaInv'
  <2>1. \A w \in Surveys : surveys'[w].exists /\ Chosen(surveys'[w]) =>
            surveys[w].exists /\ Chosen(surveys[w])
    BY <1>1
  <2>2. \A t \in Sessions : sess'[t].stage = "clear" => sess'[t] = sess[t]
    BY DEF Locked
  <2> QED
    BY <2>1, <2>2 DEF IInv, CtaInv, InClear, Claimed, Existing
<1> QED
  BY <1>2, <1>4, <1>5, <1>6 DEF IInv

\* The commit of a request that writes the row of its survey.
LEMMA CommitKeepsIInv ==
    ASSUME IInv, NEW s \in Sessions, sess[s].stage \in Locked, NEW row, NEW A,
           MayReplace(sess[s].survey, row, A), Commit(s, row),
           answered' = [answered EXCEPT ![sess[s].survey] = A]
    PROVE  IInv'
<1> DEFINE v == sess[s].survey
           S == [sess EXCEPT ![s] = Idle]
<1>1. v \in Surveys /\ lock[v] = s
  BY SessionFields DEF IInv, LockInv
<1>2. S \in [Sessions -> Session]
  BY DEF IInv, TypeOK, Session
<1>3. /\ S[s] = Idle
      /\ \A t \in Sessions \ {s} : S[t] = sess[t]
  BY DEF IInv, TypeOK
<1>4. sess' = Outdated(S, {v}, {}) /\ lock' = FreeLocks(s)
  BY DEF Commit
<1>5. surveys' = [surveys EXCEPT ![v] = row] /\ answered' = [answered EXCEPT ![v] = A]
  BY DEF Commit
<1>6. MayReplace(v, row, A)
  OBVIOUS
<1> HIDE DEF v, S
<1>7. /\ sess' \in [Sessions -> Session]
      /\ \A t \in Sessions :
            /\ sess'[t].stage = S[t].stage
            /\ S[t].stage \in Locked => sess'[t].survey = S[t].survey
            /\ S[t].stage \notin Loaded => sess'[t] = S[t]
  BY <1>2, <1>4, OutdatedChangesVersions
<1>8. ASSUME NEW t \in Sessions, sess'[t].stage \in Locked
      PROVE  /\ sess[t].stage = sess'[t].stage
             /\ sess'[t].survey = sess[t].survey
             /\ sess'[t].stage # "put" => sess'[t] = sess[t]
             /\ sess[t].survey # v
             /\ \A w \in Surveys : lock[w] = t => lock'[w] = t
  <2>1. sess'[t].stage = S[t].stage /\ t # s
    BY <1>3, <1>8, <1>7 DEF Idle, Locked
  <2>2. S[t] = sess[t] /\ sess[t].stage \in Locked
    BY <1>3, <1>8, <2>1
  <2>3. sess[t].survey # v
    BY <1>1, <2>1, <2>2 DEF IInv, LockInv, v
  <2>4. sess'[t].survey = sess[t].survey
    BY <1>7, <2>2
  <2>5. sess'[t].stage # "put" => sess'[t] = sess[t]
    BY <1>7, <2>1, <2>2 DEF Locked, Loaded
  <2>6. \A w \in Surveys : lock[w] = t => lock'[w] = t
    BY <1>4, <2>1, FreeLocksKeepsOthers DEF IInv
  <2> QED
    BY <2>1, <2>2, <2>3, <2>4, <2>5, <2>6
<1>9. sess' \in [Sessions -> Session] /\ lock' \in [Surveys -> Sessions \cup {NULL}]
  BY <1>4, <1>7, FreeLocksKeepsOthers DEF IInv
<1> QED
  BY <1>1, <1>8, <1>9, <1>5, <1>6, WriteRowKeepsIInv

\* A one-step request writes a row that no request under way has locked.
LEMMA WriteKeepsIInv ==
    ASSUME IInv, NEW v \in Surveys, NEW row, MayReplace(v, row, answered[v]), Write(v, row)
    PROVE  IInv'
<1>1. /\ lock[v] = NULL /\ lock' = lock
      /\ sess' = Outdated(sess, {v}, {})
      /\ surveys' = [surveys EXCEPT ![v] = row]
      /\ answered' = [answered EXCEPT ![v] = answered[v]]
  BY DEF Write, IInv, TypeOK
<1>2. sess \in [Sessions -> Session]
  BY DEF IInv, TypeOK
<1>3. ASSUME NEW t \in Sessions, sess'[t].stage \in Locked
      PROVE  /\ sess[t].stage = sess'[t].stage
             /\ sess'[t].survey = sess[t].survey
             /\ sess'[t].stage # "put" => sess'[t] = sess[t]
             /\ sess[t].survey # v
             /\ \A w \in Surveys : lock[w] = t => lock'[w] = t
  <2>1. sess'[t].stage = sess[t].stage /\ sess'[t].survey = sess[t].survey
    BY <1>1, <1>2, <1>3, OutdatedChangesVersions
  <2>2. sess'[t].stage # "put" => sess'[t] = sess[t]
    BY <1>1, <1>2, <1>3, <2>1, OutdatedChangesVersions DEF Locked, Loaded
  <2>3. sess[t].survey # v
    BY <1>1, <1>3, <2>1, SurveyAssumption DEF IInv, LockInv
  <2> QED
    BY <1>1, <2>1, <2>2, <2>3
<1>4. sess' \in [Sessions -> Session] /\ lock' \in [Surveys -> Sessions \cup {NULL}]
  BY <1>1, <1>2, OutdatedChangesVersions DEF IInv, TypeOK
<1> QED
  BY <1>1, <1>3, <1>4, WriteRowKeepsIInv

LEMMA RollbackKeepsIInv ==
    ASSUME IInv, NEW s \in Sessions, Rollback(s)
    PROVE  IInv'
<1>1. Idle \in Session /\ Idle.stage \notin Locked
  BY DEF Session, Idle, Locked
<1> QED
  BY <1>1, ReleaseKeepsIInv DEF Rollback

\* The row of an edited questionnaire: nobody has answered it and it is not active.
LEMMA EditKeepsRow ==
    ASSUME IInv, NEW s \in Sessions, sess[s].stage \in {"put", "item"},
           sess[s].survey \in Surveys, NEW x \in Structures,
           StructureEditable(surveys[sess[s].survey])
    PROVE  MayReplace(sess[s].survey,
                      [surveys[sess[s].survey] EXCEPT !.structure = x],
                      answered[sess[s].survey])
<1> DEFINE v == sess[s].survey
<1>1. surveys[v] \in Survey /\ answered[v] \in SUBSET Structures
  BY DEF IInv, TypeOK
<1>2. surveys[v].exists /\ answered[v] = {} /\ surveys[v].status = "Inactive"
  BY DEF IInv, LockInv, ViewInv, StructureEditable, Locked
<1> HIDE DEF v
<1>3. MayReplace(v, [surveys[v] EXCEPT !.structure = x], answered[v])
  BY <1>1, <1>2 DEF MayReplace, Survey, Chosen
<1> QED
  BY <1>3 DEF v

-----------------------------------------------------------------------------
(* The choice of the landing page's survey.                                *)

LEMMA BeginClearKeepsIInv ==
    ASSUME IInv, NEW s \in Sessions, BeginClear(s)
    PROVE  IInv'
<1> DEFINE p == sess[s]
           others == Existing \ {p.survey}
<1>1. PICK at \in Surveys \cup {NULL} :
          /\ at = NULL => others = {}
          /\ sess' = [sess EXCEPT ![s] = [stage |-> "clear", survey |-> p.survey,
                 req |-> p.req, done |-> {}, todo |-> others, at |-> at]]
  BY SurveyAssumption DEF BeginClear, Existing
<1>2. /\ p.stage = "update" /\ UpdateAccepts(surveys[p.survey], p.req)
      /\ p.req.is_cta = TRUE
      /\ surveys' = surveys /\ lock' = lock /\ answered' = answered
  BY DEF BeginClear
<1>3. /\ p.survey \in Surveys /\ p.req \in Bodies /\ others \subseteq Surveys
      /\ surveys[p.survey].exists /\ lock[p.survey] = s
  BY <1>2, SessionFields DEF IInv, LockInv, Locked, Existing
<1>4. /\ sess'[s] = [stage |-> "clear", survey |-> p.survey, req |-> p.req,
                     done |-> {}, todo |-> others, at |-> at]
      /\ \A t \in Sessions \ {s} : sess'[t] = sess[t]
  BY <1>1 DEF IInv, TypeOK
<1>5. TypeOK'
  <2>1. sess'[s] \in Session
    BY <1>3, <1>4 DEF Session
  <2> QED
    BY <1>1, <1>2, <1>4, <2>1 DEF IInv, TypeOK
<1>6. LockInv'
  BY <1>2, <1>3, <1>4 DEF IInv, LockInv, InClear, Locked
<1>7. ViewInv'
  BY <1>2, <1>4 DEF IInv, ViewInv, InClear
<1>8. CtaInv'
  <2>1. CtaInv
    BY DEF IInv
  <2>2. Claimed(s)' = others
    BY <1>4 DEF Claimed
  <2>3. \A t \in Sessions \ {s} : Claimed(t)' = Claimed(t) /\ InClear(t)' = InClear(t)
    BY <1>4 DEF Claimed, InClear
  <2>4. \A t \in Sessions : InClear(t)' =>
            /\ sess'[t].req.is_cta = TRUE
            /\ sess'[t].at = NULL => sess'[t].todo = {}
            /\ \A v \in Surveys \ {sess'[t].survey} :
                  surveys'[v].exists /\ Chosen(surveys'[v]) => v \in Claimed(t)'
    <3>1. CASE CtaInv /\ TRUE
      <4> TAKE t \in Sessions
      <4>1. CASE t = s
        BY <4>1, <1>1, <1>2, <1>4, <2>2 DEF Existing
      <4>2. CASE t # s
        BY <4>2, <1>2, <1>4, <2>1, <2>3 DEF CtaInv
      <4> QED
        BY <4>1, <4>2
    <3> QED
      BY <2>1, <3>1
  \* A request that clears already has a survey of its own, so it is listed.
  <2>5. \A t \in Sessions \ {s} : InClear(t) => sess[t].survey \in others
    BY <1>3, SessionFields DEF IInv, LockInv, InClear, Locked, Existing
  <2>6. \A t, u \in Sessions : InClear(t)' /\ InClear(u)' /\ t # u =>
            sess'[t].survey \in Claimed(u)' \/ sess'[u].survey \in Claimed(t)'
    BY <1>4, <2>1, <2>2, <2>3, <2>5 DEF CtaInv
  <2> QED
    BY <1>2, <2>1, <2>4, <2>6 DEF CtaInv, Existing
<1> QED
  BY <1>5, <1>6, <1>7, <1>8 DEF IInv

LEMMA LockOtherKeepsIInv ==
    ASSUME IInv, NEW s \in Sessions, LockOther(s)
    PROVE  IInv'
<1> DEFINE p == sess[s]
           rest == p.todo \ {p.at}
<1>1. p.stage = "clear" /\ p.at \in Surveys /\ lock[p.at] = NULL /\ p.done \in SUBSET Surveys
      /\ p.todo \in SUBSET Surveys /\ p.survey \in Surveys /\ p.req \in Bodies
  BY SessionFields DEF LockOther, IInv, Locked
<1>2. PICK at \in Surveys \cup {NULL} :
          /\ at = NULL => rest = {}
          /\ sess' = [sess EXCEPT ![s] = [stage |-> "clear", survey |-> p.survey,
                 req |-> p.req, done |-> p.done \cup {p.at}, todo |-> rest, at |-> at]]
  BY <1>1, SurveyAssumption DEF LockOther
<1>3. /\ surveys' = surveys /\ answered' = answered
      /\ lock' = [lock EXCEPT ![p.at] = s]
  BY DEF LockOther
<1>4. /\ sess'[s] = [stage |-> "clear", survey |-> p.survey, req |-> p.req,
                     done |-> p.done \cup {p.at}, todo |-> rest, at |-> at]
      /\ \A t \in Sessions \ {s} : sess'[t] = sess[t]
  BY <1>2 DEF IInv, TypeOK
<1>5. /\ lock'[p.at] = s
      /\ \A v \in Surveys \ {p.at} : lock'[v] = lock[v]
  BY <1>1, <1>3 DEF IInv, TypeOK
<1>6. TypeOK'
  <2>1. sess'[s] \in Session
    BY <1>1, <1>4 DEF Session
  <2> QED
    BY <1>1, <1>2, <1>3, <1>4, <2>1 DEF IInv, TypeOK
<1>7. LockInv'
  <2> SUFFICES ASSUME NEW t \in Sessions
               PROVE  /\ sess'[t].stage \in Locked =>
                            surveys'[sess'[t].survey].exists /\ lock'[sess'[t].survey] = t
                      /\ sess'[t].stage = "clear" => \A v \in sess'[t].done : lock'[v] = t
    BY DEF LockInv, InClear
  <2>1. s # NULL /\ t # NULL
    BY SurveyAssumption
  <2>2. CASE t = s
    BY <1>1, <1>3, <1>4, <1>5, <2>1, <2>2 DEF IInv, LockInv, InClear, Locked
  <2>3. CASE t # s
    BY <1>1, <1>3, <1>4, <1>5, <2>1, <2>3, SessionFields DEF IInv, LockInv, InClear, Locked
  <2> QED
    BY <2>2, <2>3
<1>8. ViewInv'
  BY <1>1, <1>3, <1>4 DEF IInv, ViewInv, InClear
<1>9. CtaInv'
  <2>1. CtaInv
    BY DEF IInv
  <2>2. /\ \A t \in Sessions : Claimed(t) \subseteq Claimed(t)'
        /\ \A t \in Sessions : InClear(t)' = InClear(t) /\ (InClear(t) => sess'[t].survey = sess[t].survey
                                                           /\ sess'[t].req = sess[t].req)
    BY <1>1, <1>4 DEF Claimed, InClear
  <2>3. \A t \in Sessions : InClear(t) => (sess'[t].at = NULL => sess'[t].todo = {})
    BY <1>2, <1>4, <2>1 DEF CtaInv
  <2> QED
    BY <1>3, <2>1, <2>2, <2>3 DEF CtaInv, Existing
<1> QED
  BY <1>6, <1>7, <1>8, <1>9 DEF IInv

LEMMA ClearCommitKeepsIInv ==
    ASSUME IInv, NEW s \in Sessions, ClearCommit(s)
    PROVE  IInv'
<1> DEFINE p == sess[s]
           S == [sess EXCEPT ![s] = Idle]
<1>1. /\ p.stage = "clear" /\ p.at = NULL
      /\ p.survey \in Surveys /\ p.req \in Bodies /\ p.done \in SUBSET Surveys
      /\ surveys[p.survey].exists /\ lock[p.survey] = s
      /\ \A v \in p.done : lock[v] = s
      /\ UpdateAccepts(surveys[p.survey], p.req)
  BY SessionFields DEF ClearCommit, IInv, LockInv, ViewInv, InClear, Locked
<1>2. /\ S \in [Sessions -> Session]
      /\ S[s] = Idle
      /\ \A t \in Sessions \ {s} : S[t] = sess[t]
  BY DEF IInv, TypeOK, Session
<1>3. /\ sess' = Outdated(S, {p.survey}, p.done) /\ lock' = FreeLocks(s)
      /\ answered' = answered
  BY DEF ClearCommit
<1>4. \A v \in Surveys :
          surveys'[v] = IF v = p.survey THEN Applied(surveys[v], p.req)
                        ELSE IF v \in p.done THEN Cleared(surveys[v]) ELSE surveys[v]
  BY DEF ClearCommit
<1>5. surveys' = [v \in Surveys |-> surveys'[v]]
  BY DEF ClearCommit
<1> HIDE DEF S
<1>6. /\ sess' \in [Sessions -> Session]
      /\ \A t \in Sessions :
            /\ sess'[t].stage = S[t].stage
            /\ S[t].stage \in Locked => sess'[t].survey = S[t].survey
            /\ S[t].stage \notin Loaded => sess'[t] = S[t]
  BY <1>2, <1>3, OutdatedChangesVersions
<1>7. ASSUME NEW t \in Sessions, sess'[t].stage \in Locked
      PROVE  /\ t # s /\ sess'[t].stage = sess[t].stage
             /\ sess'[t].survey = sess[t].survey
             /\ sess'[t].stage # "put" => sess'[t] = sess[t]
             /\ sess[t].survey \in Surveys \ (p.done \cup {p.survey})
             /\ \A w \in Surveys : lock[w] = t => lock'[w] = t
  <2>1. t # s /\ sess'[t].stage = sess[t].stage
    BY <1>2, <1>6, <1>7 DEF Idle, Locked
  <2>2. sess'[t].survey = sess[t].survey /\ (sess'[t].stage # "put" => sess'[t] = sess[t])
    BY <1>2, <1>6, <1>7, <2>1 DEF Locked, Loaded
  <2>3. sess[t].survey \in Surveys /\ lock[sess[t].survey] = t
    BY <1>7, <2>1, SessionFields DEF IInv, LockInv
  <2>4. \A w \in Surveys : lock[w] = t => lock'[w] = t
    BY <1>3, <2>1, FreeLocksKeepsOthers DEF IInv
  <2> QED
    BY <1>1, <2>1, <2>2, <2>3, <2>4
<1>8. \A v \in Surveys :
          /\ surveys'[v] \in Survey
          /\ surveys'[v].exists = surveys[v].exists
          /\ surveys'[v].structure = surveys[v].structure
          /\ surveys'[v].responses = surveys[v].responses
          /\ v # p.survey => surveys'[v].status = surveys[v].status
          /\ v \in p.done /\ v # p.survey => ~Chosen(surveys'[v])
          /\ v \notin p.done /\ v # p.survey => surveys'[v] = surveys[v]
  <2>1. \A v \in Surveys : surveys[v] \in Survey
    BY DEF IInv, TypeOK
  <2>2. \A row \in Survey : /\ Cleared(row) \in Survey
                            /\ Cleared(row).exists = row.exists
                            /\ Cleared(row).structure = row.structure
                            /\ Cleared(row).responses = row.responses
                            /\ Cleared(row).status = row.status
                            /\ ~Chosen(Cleared(row))
    BY DEF Cleared, Survey, Chosen
  <2> SUFFICES ASSUME NEW v \in Surveys
               PROVE  /\ surveys'[v] \in Survey
                      /\ surveys'[v].exists = surveys[v].exists
                      /\ surveys'[v].structure = surveys[v].structure
                      /\ surveys'[v].responses = surveys[v].responses
                      /\ v # p.survey => surveys'[v].status = surveys[v].status
                      /\ v \in p.done /\ v # p.survey => ~Chosen(surveys'[v])
                      /\ v \notin p.done /\ v # p.survey => surveys'[v] = surveys[v]
    OBVIOUS
  <2>3. CASE v = p.survey
    <3>1. surveys'[v] = Applied(surveys[v], p.req) /\ surveys[v] \in Survey
      BY <1>4, <2>1, <2>3
    <3>2. p.req \in Bodies
      BY <1>1
    <3>3. /\ surveys'[v] \in Survey
          /\ surveys'[v].exists = surveys[v].exists
          /\ surveys'[v].structure = surveys[v].structure
          /\ surveys'[v].responses = surveys[v].responses
      BY <3>1, <3>2, AppliedIsSurvey
    <3> QED
      BY <2>3, <3>3
  <2>4. CASE v # p.survey /\ v \in p.done
    <3>1. surveys'[v] = Cleared(surveys[v]) /\ surveys[v] \in Survey
      BY <1>4, <2>1, <2>4
    <3> QED
      BY <2>2, <2>4, <3>1
  <2>5. CASE v # p.survey /\ v \notin p.done
    BY <1>4, <2>1, <2>5
  <2> QED
    BY <2>3, <2>4, <2>5
<1>9. TypeOK'
  <2>1. surveys' \in [Surveys -> Survey]
    BY <1>5, <1>8
  <2>2. lock' \in [Surveys -> Sessions \cup {NULL}]
    BY <1>3, FreeLocksKeepsOthers DEF IInv
  <2> QED
    BY <1>3, <1>6, <2>1, <2>2 DEF IInv, TypeOK
<1>10. LockInv'
  <2> SUFFICES ASSUME NEW t \in Sessions, sess'[t].stage \in Locked
               PROVE  /\ surveys'[sess'[t].survey].exists /\ lock'[sess'[t].survey] = t
                      /\ sess'[t].stage = "clear" => \A w \in sess'[t].done : lock'[w] = t
    BY DEF LockInv, InClear, Locked
  <2>1. surveys'[sess'[t].survey].exists /\ lock'[sess'[t].survey] = t
    BY <1>7, <1>8 DEF IInv, LockInv
  <2>2. CASE sess'[t].stage = "clear"
    BY <1>7, <2>1, <2>2, SessionFields DEF IInv, LockInv, InClear
  <2> QED
    BY <2>1, <2>2
<1>11. ViewInv'
  <2>1. \A t \in Sessions :
          /\ sess'[t].stage = "answer" => sess'[t].seen = surveys'[sess'[t].survey].structure
          /\ sess'[t].stage = "clear" => UpdateAccepts(surveys'[sess'[t].survey], sess'[t].req)
    <3> SUFFICES ASSUME NEW t \in Sessions, sess'[t].stage \in {"answer", "clear"}
                 PROVE  /\ sess'[t].stage = "answer" => sess'[t].seen = surveys'[sess'[t].survey].structure
                        /\ sess'[t].stage = "clear" => UpdateAccepts(surveys'[sess'[t].survey], sess'[t].req)
      OBVIOUS
    <3>1. sess'[t] = sess[t] /\ sess[t].survey \in Surveys \ (p.done \cup {p.survey})
      BY <1>7 DEF Locked
    <3>2. surveys'[sess[t].survey] = surveys[sess[t].survey]
      BY <1>4, <3>1
    <3> QED
      BY <3>1, <3>2 DEF IInv, ViewInv, InClear
  <2>2. \A v \in Surveys : surveys'[v].status = "Active" => surveys'[v].structure \in Ready
    <3>1. surveys'[p.survey].status = "Active" => surveys'[p.survey].structure \in Ready
      BY <1>1, <1>4, <1>8 DEF UpdateAccepts
    <3> QED
      BY <1>8, <3>1 DEF IInv, ViewInv
  <2> QED
    BY <1>3, <1>8, <2>1, <2>2 DEF IInv, ViewInv, InClear, HasHistory
<1>12. CtaInv'
  <2>1. CtaInv
    BY DEF IInv
  <2>2. \A t \in Sessions : sess'[t].stage = "clear" =>
            /\ sess'[t] = sess[t] /\ t # s
            /\ sess[t].survey \in Surveys \ (p.done \cup {p.survey})
    BY <1>7 DEF Locked
  <2>3. Claimed(s) = p.done
    BY <1>1, <2>1 DEF CtaInv, InClear, Claimed
  \* The other request waits for this survey.
  <2>4. \A t \in Sessions : sess'[t].stage = "clear" => p.survey \in Claimed(t)
    BY <1>1, <2>1, <2>2, <2>3 DEF CtaInv, InClear
  <2>5. \A v \in Existing : v # p.survey => ~Chosen(surveys'[v])
    BY <1>1, <1>8, <2>1, <2>3 DEF CtaInv, InClear, Existing
  <2>6. Existing' = Existing
    BY <1>8 DEF Existing
  <2>7. \A v, w \in Existing' : Chosen(surveys'[v]) /\ Chosen(surveys'[w]) => v = w
    BY <2>5, <2>6
  <2>8. \A t \in Sessions : sess'[t].stage = "clear" =>
            \A v \in Surveys \ {sess'[t].survey} :
                surveys'[v].exists /\ Chosen(surveys'[v]) => v \in Claimed(t)
    BY <1>8, <2>4, <2>5 DEF Existing
  <2> QED
    BY <2>1, <2>2, <2>7, <2>8 DEF CtaInv, InClear, Claimed
<1> QED
  BY <1>9, <1>10, <1>11, <1>12 DEF IInv

-----------------------------------------------------------------------------
(* Every step keeps the invariant.                                         *)

LEMMA EditingKeepsIInv ==
    ASSUME IInv, NEW s \in Sessions, Editing(s)
    PROVE  IInv'
<1>1. ASSUME NEW v \in Surveys, Open(s, v)
      PROVE  IInv'
  <2> DEFINE to == [stage |-> "reading", survey |-> v, version |-> "current"]
  <2>1. to \in Session /\ to.stage \notin Locked
    BY DEF Session, Version, Locked
  <2>2. sess[s].stage \notin Locked /\ sess' = [sess EXCEPT ![s] = to]
        /\ UNCHANGED <<surveys, lock, answered>>
    BY <1>1 DEF Open, Locked
  <2> HIDE DEF to
  <2> QED
    BY <2>1, <2>2, ReadKeepsIInv
<1>2. ASSUME ReadStructure(s)
      PROVE  IInv'
  <2> DEFINE p == sess[s]
             to == [stage |-> "open", survey |-> p.survey, version |-> p.version,
                    seen |-> surveys[p.survey].structure]
  <2>1. p.stage = "reading" /\ sess' = [sess EXCEPT ![s] = to]
        /\ UNCHANGED <<surveys, lock, answered>>
    BY <1>2 DEF ReadStructure
  <2>2. p.survey \in Surveys /\ p.version \in Version
    BY <2>1, SessionFields DEF IInv, Loaded
  <2>3. surveys[p.survey].structure \in Structures
    BY <2>2 DEF IInv, TypeOK, Survey
  <2>4. to \in Session /\ to.stage \notin Locked /\ p.stage \notin Locked
    BY <2>1, <2>2, <2>3 DEF Session, Locked
  <2> HIDE DEF to
  <2> QED
    BY <2>1, <2>4, ReadKeepsIInv
<1>3. ASSUME NEW x \in Structures, BeginPut(s, x)
      PROVE  IInv'
  <2> DEFINE p == sess[s]
             to == [stage |-> "put", survey |-> p.survey, version |-> p.version,
                    seen |-> p.seen, new |-> x]
  <2>1. p.stage = "open" /\ Begin(s, p.survey, to)
    BY <1>3 DEF BeginPut
  <2>2. p.survey \in Surveys /\ p.version \in Version /\ p.seen \in Structures
    BY <2>1 DEF IInv, TypeOK, Session, Idle
  <2>3. to \in Session /\ to.stage = "put" /\ to.survey = p.survey
    BY <2>2 DEF Session
  <2> HIDE DEF to
  <2> QED
    BY <2>1, <2>2, <2>3, BeginKeepsIInv DEF Locked
<1>4. ASSUME PutCommit(s)
      PROVE  IInv'
  <2> DEFINE p == sess[s]
             row == [surveys[p.survey] EXCEPT !.structure = p.new]
  <2>1. p.stage = "put" /\ StructureEditable(surveys[p.survey]) /\ Commit(s, row)
        /\ answered' = answered
    BY <1>4 DEF PutCommit, PutAccepts
  <2>2. p.survey \in Surveys /\ p.new \in Structures
    BY <2>1, SessionFields DEF IInv, Locked
  <2>3. MayReplace(p.survey, row, answered[p.survey])
    BY <2>1, <2>2, EditKeepsRow
  <2>4. answered' = [answered EXCEPT ![p.survey] = answered[p.survey]]
    BY <2>1 DEF IInv, TypeOK
  <2> HIDE DEF row
  <2> QED
    BY <2>1, <2>3, <2>4, CommitKeepsIInv DEF Locked
<1>5. ASSUME PutNothing(s)
      PROVE  IInv'
  <2> DEFINE to == [stage |-> "reading", survey |-> sess[s].survey, version |-> "phantom"]
  <2>1. sess[s].survey \in Surveys
    BY <1>5, SessionFields DEF PutNothing, IInv, Locked
  <2>2. to \in Session /\ to.stage \notin Locked
    BY <2>1 DEF Session, Version, Locked
  <2>3. sess' = [sess EXCEPT ![s] = to] /\ lock' = FreeLocks(s)
        /\ UNCHANGED <<surveys, answered>>
    BY <1>5 DEF PutNothing
  <2> HIDE DEF to
  <2> QED
    BY <2>2, <2>3, ReleaseKeepsIInv
<1>6. ASSUME PutRefuse(s) \/ ItemRefuse(s)
      PROVE  IInv'
  BY <1>6, RollbackKeepsIInv DEF PutRefuse, ItemRefuse
<1>7. ASSUME NEW v \in Surveys, NEW x \in Structures, BeginItem(s, v, x)
      PROVE  IInv'
  <2> DEFINE to == [stage |-> "item", survey |-> v, new |-> x]
  <2>1. sess[s].stage \notin Locked /\ Begin(s, v, to)
    BY <1>7 DEF BeginItem, Idle, Locked
  <2>2. to \in Session /\ to.stage = "item" /\ to.survey = v
    BY DEF Session
  <2> HIDE DEF to
  <2> QED
    BY <2>1, <2>2, BeginKeepsIInv DEF Locked
<1>8. ASSUME ItemCommit(s)
      PROVE  IInv'
  <2> DEFINE p == sess[s]
             row == [surveys[p.survey] EXCEPT !.structure = p.new]
  <2>1. p.stage = "item" /\ StructureEditable(surveys[p.survey]) /\ Commit(s, row)
        /\ answered' = answered
    BY <1>8 DEF ItemCommit
  <2>2. p.survey \in Surveys /\ p.new \in Structures
    BY <2>1, SessionFields DEF IInv, Locked
  <2>3. MayReplace(p.survey, row, answered[p.survey])
    BY <2>1, <2>2, EditKeepsRow
  <2>4. answered' = [answered EXCEPT ![p.survey] = answered[p.survey]]
    BY <2>1 DEF IInv, TypeOK
  <2> HIDE DEF row
  <2> QED
    BY <2>1, <2>3, <2>4, CommitKeepsIInv DEF Locked
<1> QED
  BY <1>1, <1>2, <1>3, <1>4, <1>5, <1>6, <1>7, <1>8 DEF Editing

LEMMA UpdatingKeepsIInv ==
    ASSUME IInv, NEW s \in Sessions, Updating(s)
    PROVE  IInv'
<1>1. ASSUME NEW v \in Surveys, NEW c \in Bodies, BeginUpdate(s, v, c)
      PROVE  IInv'
  <2> DEFINE to == [stage |-> "update", survey |-> v, req |-> c]
  <2>1. sess[s].stage \notin Locked /\ Begin(s, v, to)
    BY <1>1 DEF BeginUpdate, Idle, Locked
  <2>2. to \in Session /\ to.stage = "update" /\ to.survey = v
    BY DEF Session
  <2> HIDE DEF to
  <2> QED
    BY <2>1, <2>2, BeginKeepsIInv DEF Locked
<1>2. ASSUME UpdateCommit(s)
      PROVE  IInv'
  <2> DEFINE p == sess[s]
             row == Applied(surveys[p.survey], p.req)
  <2>1. p.stage = "update" /\ UpdateAccepts(surveys[p.survey], p.req)
        /\ p.req.is_cta # TRUE /\ Commit(s, row) /\ answered' = answered
    BY <1>2 DEF UpdateCommit
  <2>2. p.survey \in Surveys /\ p.req \in Bodies /\ surveys[p.survey].exists
    BY <2>1, SessionFields DEF IInv, LockInv, Locked
  <2>3. surveys[p.survey] \in Survey
    BY <2>2 DEF IInv, TypeOK
  <2>4. /\ row \in Survey /\ row.exists
        /\ row.structure = surveys[p.survey].structure
        /\ row.responses = surveys[p.survey].responses
    BY <2>2, <2>3, AppliedIsSurvey
  <2>5. Chosen(row) => Chosen(surveys[p.survey])
    BY <2>1, <2>2, <2>3, AppliedKeepsCta
  <2>6. row.status = "Active" => row.structure \in Ready
    BY <2>1, <2>4 DEF UpdateAccepts
  <2>7. answered' = [answered EXCEPT ![p.survey] = answered[p.survey]]
        /\ answered[p.survey] \in SUBSET Structures
    BY <2>1, <2>2 DEF IInv, TypeOK
  <2> HIDE DEF row
  <2>8. MayReplace(p.survey, row, answered[p.survey])
    BY <2>2, <2>4, <2>5, <2>6, <2>7 DEF MayReplace, IInv, ViewInv, HasHistory
  <2> QED
    BY <2>1, <2>7, <2>8, CommitKeepsIInv DEF Locked
<1>3. ASSUME UpdateRefuse(s) \/ DeadlockVictim(s)
      PROVE  IInv'
  BY <1>3, RollbackKeepsIInv DEF UpdateRefuse, DeadlockVictim
<1> QED
  BY <1>1, <1>2, <1>3, BeginClearKeepsIInv, LockOtherKeepsIInv, ClearCommitKeepsIInv DEF Updating

LEMMA AnsweringKeepsIInv ==
    ASSUME IInv, NEW s \in Sessions, Answering(s)
    PROVE  IInv'
<1>1. ASSUME NEW v \in Surveys, BeginAnswer(s, v)
      PROVE  IInv'
  <2> DEFINE to == [stage |-> "answer", survey |-> v, seen |-> surveys[v].structure]
  <2>1. sess[s].stage \notin Locked /\ Begin(s, v, to)
    BY <1>1 DEF BeginAnswer, Idle, Locked
  <2>2. surveys[v].structure \in Structures
    BY DEF IInv, TypeOK, Survey
  <2>3. to \in Session /\ to.stage = "answer" /\ to.survey = v
        /\ to.seen = surveys[v].structure
    BY <2>2 DEF Session
  <2> HIDE DEF to
  <2> QED
    BY <2>1, <2>3, BeginKeepsIInv DEF Locked
<1>2. ASSUME Answer(s)
      PROVE  IInv'
  <2> DEFINE p == sess[s]
             row == [surveys[p.survey] EXCEPT !.responses = "live"]
             A == answered[p.survey] \cup {p.seen}
  <2>1. p.stage = "answer" /\ Commit(s, row) /\ answered' = [answered EXCEPT ![p.survey] = A]
    BY <1>2 DEF Answer, IInv, TypeOK
  <2>2. p.survey \in Surveys /\ p.seen \in Structures /\ surveys[p.survey].exists
    BY <2>1, SessionFields DEF IInv, LockInv, Locked
  <2>3. p.seen = surveys[p.survey].structure
    BY <2>1 DEF IInv, ViewInv
  <2>4. surveys[p.survey] \in Survey /\ answered[p.survey] \in SUBSET Structures
    BY <2>2 DEF IInv, TypeOK
  <2>5. MayReplace(p.survey, row, A)
    BY <2>2, <2>3, <2>4 DEF MayReplace, IInv, ViewInv, HasHistory, Survey, Chosen
  <2> HIDE DEF row, A
  <2> QED
    BY <2>1, <2>5, CommitKeepsIInv DEF Locked
<1> QED
  BY <1>1, <1>2 DEF Answering

LEMMA AdministeringKeepsIInv ==
    ASSUME IInv, NEW v \in Surveys, Administering(v)
    PROVE  IInv'
<1>1. surveys[v] \in Survey /\ answered[v] \in SUBSET Structures
  BY DEF IInv, TypeOK
<1>2. ASSUME NEW st \in Status, NEW x \in Structures, NEW c \in Contents, NEW cta \in BOOLEAN,
             Create(v, st, x, c, cta)
      PROVE  IInv'
  <2> DEFINE row == [exists |-> TRUE, status |-> st, is_deleted |-> FALSE, is_cta |-> cta,
                     chosen |-> FALSE, structure |-> x, content |-> c, responses |-> "none"]
  <2>1. ~surveys[v].exists /\ (st = "Active" => x \in Ready)
        /\ Write(v, row)
    BY <1>2 DEF Create
  <2>2. answered[v] = {}
    BY <2>1 DEF IInv, ViewInv
  <2>3. row \in Survey
    BY DEF Survey
  <2>4. MayReplace(v, row, answered[v])
    BY <2>1, <2>2, <2>3 DEF MayReplace, Chosen
  <2> HIDE DEF row
  <2> QED
    BY <2>1, <2>4, WriteKeepsIInv
<1>3. ASSUME Archive(v)
      PROVE  IInv'
  <2> DEFINE row == [surveys[v] EXCEPT !.is_deleted = TRUE]
  <2>1. surveys[v].exists /\ Write(v, row)
    BY <1>3 DEF Archive
  <2>2. MayReplace(v, row, answered[v])
    BY <1>1, <2>1 DEF MayReplace, IInv, ViewInv, HasHistory, Survey, Chosen
  <2> HIDE DEF row
  <2> QED
    BY <2>1, <2>2, WriteKeepsIInv
<1>4. ASSUME Restore(v)
      PROVE  IInv'
  <2> DEFINE row == [surveys[v] EXCEPT !.is_deleted = FALSE, !.status = "Inactive"]
  <2>1. surveys[v].exists /\ Write(v, row)
    BY <1>4 DEF Restore
  <2>2. MayReplace(v, row, answered[v])
    BY <1>1, <2>1 DEF MayReplace, IInv, ViewInv, HasHistory, Survey, Status, Chosen
  <2> HIDE DEF row
  <2> QED
    BY <2>1, <2>2, WriteKeepsIInv
<1>5. ASSUME EraseResponses(v)
      PROVE  IInv'
  <2> DEFINE row == [surveys[v] EXCEPT !.responses = "erased"]
  <2>1. surveys[v].exists /\ Write(v, row)
    BY <1>5 DEF EraseResponses
  <2>2. MayReplace(v, row, answered[v])
    BY <1>1, <2>1 DEF MayReplace, IInv, ViewInv, HasHistory, Survey, Chosen
  <2> HIDE DEF row
  <2> QED
    BY <2>1, <2>2, WriteKeepsIInv
<1> QED
  BY <1>2, <1>3, <1>4, <1>5 DEF Administering

-----------------------------------------------------------------------------
(* The theorems.                                                           *)

LEMMA InitIInv == Init => IInv
<1> SUFFICES ASSUME Init
             PROVE  IInv
  OBVIOUS
<1>1. PICK x \in Structures, c \in Contents :
          surveys = [v \in Surveys |->
              [exists |-> FALSE, status |-> "Inactive", is_deleted |-> FALSE,
               is_cta |-> FALSE, chosen |-> FALSE, structure |-> x, content |-> c, responses |-> "none"]]
  BY DEF Init
<1>2. /\ lock = [v \in Surveys |-> NULL]
      /\ sess = [s \in Sessions |-> Idle]
      /\ answered = [v \in Surveys |-> {}]
  BY DEF Init
<1>3. TypeOK
  BY <1>1, <1>2 DEF TypeOK, Survey, Session, Status
<1>4. LockInv
  BY <1>2 DEF LockInv, InClear, Idle, Locked
<1>5. ViewInv
  BY <1>1, <1>2 DEF ViewInv, InClear, Idle, HasHistory
<1>6. CtaInv
  BY <1>1, <1>2 DEF CtaInv, InClear, Idle, Existing, Chosen
<1> QED
  BY <1>3, <1>4, <1>5, <1>6 DEF IInv

LEMMA StutterIInv == IInv /\ UNCHANGED vars => IInv'
<1> SUFFICES ASSUME IInv, UNCHANGED vars
             PROVE  IInv'
  OBVIOUS
<1>1. surveys' = surveys /\ lock' = lock /\ sess' = sess /\ answered' = answered
  BY DEF vars
<1>2. TypeOK' /\ LockInv' /\ ViewInv'
  BY <1>1 DEF IInv, TypeOK, LockInv, ViewInv, InClear
<1>3. CtaInv'
  BY <1>1 DEF IInv, CtaInv, InClear, Claimed, Existing
<1> QED
  BY <1>2, <1>3 DEF IInv

LEMMA NextIInv == IInv /\ [Next]_vars => IInv'
<1> SUFFICES ASSUME IInv, [Next]_vars
             PROVE  IInv'
  OBVIOUS
<1>1. CASE \E s \in Sessions : Editing(s)
  BY <1>1, EditingKeepsIInv
<1>2. CASE \E s \in Sessions : Updating(s)
  BY <1>2, UpdatingKeepsIInv
<1>3. CASE \E s \in Sessions : Answering(s)
  BY <1>3, AnsweringKeepsIInv
<1>4. CASE \E s \in Sessions : Crash(s)
  BY <1>4, RollbackKeepsIInv DEF Crash
<1>5. CASE \E v \in Surveys : Administering(v)
  BY <1>5, AdministeringKeepsIInv
<1>6. CASE UNCHANGED vars
  BY <1>6, StutterIInv
<1> QED
  BY <1>1, <1>2, <1>3, <1>4, <1>5, <1>6 DEF Next

\* IInv holds in every reachable state.
THEOREM Invariance == Spec => []IInv
<1> QED
  BY InitIInv, NextIInv, PTL DEF Spec

\* Every variable keeps its type; a PATCH writes no field that was not sent.
THEOREM TypeCorrect == Spec => []TypeOK
<1>1. IInv => TypeOK
  BY DEF IInv
<1> QED
  BY <1>1, Invariance, PTL

\* However edits, updates, archives and restores interleave, a survey that
\* respondents can open has a section and no empty section.
THEOREM ActiveSurveysAreReady == Spec => []ActiveIsReady
<1>1. IInv => ActiveIsReady
  BY DEF IInv, ViewInv, ActiveIsReady, Existing
<1> QED
  BY <1>1, Invariance, PTL

\* Every stored response fits the questionnaire in force.
THEOREM AnswersStayValid == Spec => []AnswersFitStructure
<1>1. IInv => AnswersFitStructure
  BY DEF IInv, ViewInv, AnswersFitStructure
<1> QED
  BY <1>1, Invariance, PTL

\* However many administrators choose different surveys at the same time, and
\* whatever surveys others create, of the surveys that updates made the call to
\* action at most one still is.
THEOREM AtMostOneCta == Spec => []OneCta
<1>1. IInv => OneCta
  <2> SUFFICES ASSUME IInv
               PROVE  OneCta
    OBVIOUS
  <2> DEFINE F == {v \in Existing : Chosen(surveys[v])}
  <2>1. \A v, w \in F : v = w
    BY DEF IInv, CtaInv
  <2>2. CASE F = {}
    BY <2>2, FS_EmptySet DEF OneCta
  <2>3. CASE F # {}
    <3>1. PICK v \in F : TRUE
      BY <2>3
    <3>2. F = {v}
      BY <2>1, <3>1
    <3> HIDE DEF F
    <3>3. Cardinality(F) = 1
      BY <3>2, FS_Singleton
    <3> QED
      BY <3>3 DEF OneCta, F
  <2> QED
    BY <2>2, <2>3
<1> QED
  BY <1>1, Invariance, PTL

-----------------------------------------------------------------------------
(* The questionnaire is frozen once it has been answered.                  *)

\* A step freezes row v: answered before, it keeps its structure and content.
Frozen(v) ==
    HasHistory(surveys[v]) =>
        /\ surveys'[v].structure = surveys[v].structure
        /\ surveys'[v].content = surveys[v].content
        /\ HasHistory(surveys'[v])

LEMMA WriteFreezes ==
    ASSUME TypeOK, NEW v \in Surveys, NEW row,
           surveys' = [surveys EXCEPT ![v] = row],
           HasHistory(surveys[v]) =>
               row.structure = surveys[v].structure /\ row.content = surveys[v].content
               /\ HasHistory(row)
    PROVE  \A w \in Surveys : Frozen(w)
BY DEF Frozen, TypeOK

\* An update that is accepted keeps the content of an answered survey.
LEMMA UpdateFreezes ==
    ASSUME NEW row \in Survey, NEW c \in Bodies, UpdateAccepts(row, c), HasHistory(row)
    PROVE  /\ Applied(row, c).structure = row.structure
           /\ Applied(row, c).content = row.content
           /\ HasHistory(Applied(row, c))
BY AppliedIsSurvey DEF UpdateAccepts, HasHistory

LEMMA ClearFreezes ==
    ASSUME IInv, NEW s \in Sessions, ClearCommit(s), NEW v \in Surveys
    PROVE  Frozen(v)
<1> DEFINE p == sess[s]
<1>1. p.stage = "clear" /\ p.req \in Bodies /\ UpdateAccepts(surveys[p.survey], p.req)
  BY SessionFields DEF ClearCommit, IInv, ViewInv, InClear
<1>2. surveys'[v] = IF v = p.survey THEN Applied(surveys[v], p.req)
                    ELSE IF v \in p.done THEN Cleared(surveys[v]) ELSE surveys[v]
  BY DEF ClearCommit
<1>3. surveys[v] \in Survey
  BY DEF IInv, TypeOK
<1> HIDE DEF p
<1>4. CASE v = p.survey
  BY <1>1, <1>2, <1>3, <1>4, UpdateFreezes DEF Frozen
<1>5. CASE v # p.survey /\ v \in p.done
  <2>1. surveys'[v] = Cleared(surveys[v])
    BY <1>2, <1>5
  <2>2. /\ Cleared(surveys[v]).structure = surveys[v].structure
        /\ Cleared(surveys[v]).content = surveys[v].content
        /\ Cleared(surveys[v]).responses = surveys[v].responses
    BY <1>3 DEF Cleared, Survey
  <2> QED
    BY <2>1, <2>2 DEF Frozen, HasHistory
<1>6. CASE v # p.survey /\ v \notin p.done
  BY <1>2, <1>6 DEF Frozen
<1> QED
  BY <1>4, <1>5, <1>6

LEMMA StepFreezes ==
    ASSUME IInv, [Next]_vars
    PROVE  \A v \in Existing : Frozen(v)
<1> SUFFICES \A v \in Surveys : Frozen(v)
  BY DEF Existing
<1>1. TypeOK
  BY DEF IInv
<1>2. ASSUME surveys' = surveys
      PROVE  \A v \in Surveys : Frozen(v)
  BY <1>2 DEF Frozen
<1>3. ASSUME NEW s \in Sessions, Editing(s)
      PROVE  \A v \in Surveys : Frozen(v)
  <2>1. CASE PutCommit(s) \/ ItemCommit(s)
    <3>1. /\ sess[s].survey \in Surveys
          /\ StructureEditable(surveys[sess[s].survey])
          /\ Commit(s, [surveys[sess[s].survey] EXCEPT !.structure = sess[s].new])
      BY <1>1, <2>1, SessionFields DEF PutCommit, PutAccepts, ItemCommit, Locked
    <3> QED
      BY <1>1, <3>1, WriteFreezes DEF Commit, StructureEditable
  <2>2. CASE ~(PutCommit(s) \/ ItemCommit(s))
    BY <1>2, <1>3, <2>2 DEF Editing, Open, ReadStructure, BeginPut, PutNothing, PutRefuse,
       BeginItem, ItemRefuse, Begin, Rollback
  <2> QED
    BY <2>1, <2>2
<1>4. ASSUME NEW s \in Sessions, Updating(s)
      PROVE  \A v \in Surveys : Frozen(v)
  <2>1. CASE UpdateCommit(s)
    <3> DEFINE v == sess[s].survey
               row == Applied(surveys[v], sess[s].req)
    <3>1. v \in Surveys /\ sess[s].req \in Bodies /\ UpdateAccepts(surveys[v], sess[s].req)
      BY <1>1, <2>1, SessionFields DEF UpdateCommit, Locked
    <3>2. surveys[v] \in Survey
      BY <1>1, <3>1 DEF TypeOK
    <3>3. HasHistory(surveys[v]) =>
              row.structure = surveys[v].structure /\ row.content = surveys[v].content
              /\ HasHistory(row)
      BY <3>1, <3>2, UpdateFreezes
    <3>4. surveys' = [surveys EXCEPT ![v] = row]
      BY <2>1 DEF UpdateCommit, Commit
    <3> HIDE DEF v, row
    <3> QED
      BY <1>1, <3>1, <3>3, <3>4, WriteFreezes
  <2>2. CASE ClearCommit(s)
    BY <2>2, ClearFreezes
  <2>3. CASE ~UpdateCommit(s) /\ ~ClearCommit(s)
    BY <1>2, <1>4, <2>3 DEF Updating, BeginUpdate, UpdateRefuse, BeginClear, LockOther,
       DeadlockVictim, Begin, Rollback
  <2> QED
    BY <2>1, <2>2, <2>3
<1>5. ASSUME NEW s \in Sessions, Answering(s)
      PROVE  \A v \in Surveys : Frozen(v)
  <2>1. CASE Answer(s)
    <3> DEFINE v == sess[s].survey
               row == [surveys[v] EXCEPT !.responses = "live"]
    <3>1. v \in Surveys /\ surveys' = [surveys EXCEPT ![v] = row]
      BY <1>1, <2>1, SessionFields DEF Answer, Commit, Locked
    <3>2. surveys[v] \in Survey
      BY <1>1, <3>1 DEF TypeOK
    <3>3. row.structure = surveys[v].structure /\ row.content = surveys[v].content
          /\ HasHistory(row)
      BY <3>2 DEF Survey, HasHistory
    <3> HIDE DEF v, row
    <3> QED
      BY <1>1, <3>1, <3>3, WriteFreezes
  <2>2. CASE ~Answer(s)
    BY <1>2, <1>5, <2>2 DEF Answering, BeginAnswer, Begin
  <2> QED
    BY <2>1, <2>2
<1>6. ASSUME NEW v \in Surveys, Administering(v)
      PROVE  \A w \in Surveys : Frozen(w)
  <2>1. surveys[v] \in Survey
    BY <1>1 DEF TypeOK
  <2>2. ASSUME NEW st \in Status, NEW x \in Structures, NEW c \in Contents, NEW cta \in BOOLEAN,
               Create(v, st, x, c, cta)
        PROVE  \A w \in Surveys : Frozen(w)
    <3>1. ~HasHistory(surveys[v])
      BY <2>2 DEF Create, IInv, ViewInv
    <3> QED
      BY <1>1, <2>2, <3>1, WriteFreezes DEF Create, Write
  <2>3. CASE Archive(v) \/ Restore(v) \/ EraseResponses(v)
    <3>1. PICK row \in { [surveys[v] EXCEPT !.is_deleted = TRUE],
                         [surveys[v] EXCEPT !.is_deleted = FALSE, !.status = "Inactive"],
                         [surveys[v] EXCEPT !.responses = "erased"] } :
              surveys' = [surveys EXCEPT ![v] = row]
      BY <2>3 DEF Archive, Restore, EraseResponses, Write
    <3>2. HasHistory(surveys[v]) =>
              row.structure = surveys[v].structure /\ row.content = surveys[v].content
              /\ HasHistory(row)
      BY <2>1, <3>1 DEF Survey, HasHistory
    <3> QED
      BY <1>1, <3>1, <3>2, WriteFreezes
  <2> QED
    BY <1>6, <2>2, <2>3 DEF Administering
<1>7. ASSUME NEW s \in Sessions, Crash(s)
      PROVE  \A v \in Surveys : Frozen(v)
  BY <1>2, <1>7 DEF Crash, Rollback
<1> QED
  BY <1>2, <1>3, <1>4, <1>5, <1>6, <1>7 DEF Next, vars

\* Once a response has existed, tombstones included, no step of any actor
\* changes the survey's questionnaire or content, an update that waited for
\* other rows after its checks included.
THEOREM AnsweredSurveysAreFrozen == Spec => HistoryFreezes
<1>1. IInv /\ [Next]_vars =>
          [\A v \in Existing : HasHistory(surveys[v]) =>
              /\ surveys'[v].structure = surveys[v].structure
              /\ surveys'[v].content = surveys[v].content
              /\ HasHistory(surveys'[v])]_vars
  BY StepFreezes DEF Frozen
<1> QED
  BY <1>1, Invariance, PTL DEF Spec, HistoryFreezes

-----------------------------------------------------------------------------
(* A version that is still the row's belongs to the structure that is seen. *)

FitsVersion(s) ==
    sess[s].stage \in {"open", "put"} /\ sess[s].version = "current" =>
        sess[s].seen = surveys[sess[s].survey].structure

VersionInv == \A s \in Sessions : FitsVersion(s)

LEMMA OutdatedVersions ==
    ASSUME NEW S \in [Sessions -> Session], NEW mine, NEW others, NEW t \in Sessions,
           S[t].stage \in Loaded
    PROVE  /\ Outdated(S, mine, others)[t].survey = S[t].survey
           /\ Outdated(S, mine, others)[t].version = "current" =>
                 S[t].version = "current" /\ S[t].survey \notin mine
           /\ S[t].stage # "reading" => Outdated(S, mine, others)[t].seen = S[t].seen
BY DEF Outdated, Session, Idle, Loaded, Version

\* Whatever a step writes to the rows of `mine`, it keeps the other structures.
LEMMA OutdatedKeepsVersions ==
    ASSUME TypeOK, VersionInv, NEW S \in [Sessions -> Session],
           NEW mine, NEW others, sess' = Outdated(S, mine, others),
           \A t \in Sessions : S[t].stage \in Loaded => S[t] = sess[t],
           \A v \in Surveys \ mine : surveys'[v].structure = surveys[v].structure
    PROVE  VersionInv'
<1> SUFFICES ASSUME NEW t \in Sessions, sess'[t].stage \in {"open", "put"},
                    sess'[t].version = "current"
             PROVE  sess'[t].seen = surveys'[sess'[t].survey].structure
  BY DEF VersionInv, FitsVersion
<1>1. S[t].stage = sess'[t].stage
  BY OutdatedChangesVersions
<1>2. S[t].stage \in Loaded /\ S[t].stage # "reading" /\ S[t] = sess[t]
  BY <1>1 DEF Loaded
<1>3. /\ sess'[t].survey = sess[t].survey
      /\ sess[t].version = "current" /\ sess[t].survey \notin mine
      /\ sess'[t].seen = sess[t].seen
  BY <1>2, OutdatedVersions
<1>4. sess[t].survey \in Surveys
  BY <1>2, SessionFields
<1> QED
  BY <1>1, <1>2, <1>3, <1>4 DEF VersionInv, FitsVersion

\* One client moves, and what it has loaded fits; no structure changes.
LEMMA MoveKeepsVersions ==
    ASSUME TypeOK, VersionInv, NEW s \in Sessions, NEW to,
           sess' = [sess EXCEPT ![s] = to], surveys' = surveys,
           to.stage \in {"open", "put"} /\ to.version = "current" =>
               to.seen = surveys[to.survey].structure
    PROVE  VersionInv'
BY DEF TypeOK, VersionInv, FitsVersion

LEMMA CommitKeepsVersions ==
    ASSUME TypeOK, VersionInv, NEW s \in Sessions, NEW row, Commit(s, row)
    PROVE  VersionInv'
<1> DEFINE S == [sess EXCEPT ![s] = Idle]
<1>1. S \in [Sessions -> Session] /\ (\A t \in Sessions : S[t].stage \in Loaded => S[t] = sess[t])
  BY DEF TypeOK, Session, Idle, Loaded
<1>2. sess' = Outdated(S, {sess[s].survey}, {})
  BY DEF Commit
<1>3. \A v \in Surveys \ {sess[s].survey} : surveys'[v].structure = surveys[v].structure
  BY DEF Commit, TypeOK
<1> HIDE DEF S
<1> QED
  BY <1>1, <1>2, <1>3, OutdatedKeepsVersions

LEMMA WriteKeepsVersions ==
    ASSUME TypeOK, VersionInv, NEW v \in Surveys, NEW row, Write(v, row)
    PROVE  VersionInv'
<1>1. sess \in [Sessions -> Session] /\ sess' = Outdated(sess, {v}, {})
  BY DEF Write, TypeOK
<1>2. \A w \in Surveys \ {v} : surveys'[w].structure = surveys[w].structure
  BY DEF Write, TypeOK
<1> QED
  BY <1>1, <1>2, OutdatedKeepsVersions

LEMMA ClearKeepsVersions ==
    ASSUME IInv, VersionInv, NEW s \in Sessions, ClearCommit(s)
    PROVE  VersionInv'
<1> DEFINE S == [sess EXCEPT ![s] = Idle]
<1>1. S \in [Sessions -> Session] /\ (\A t \in Sessions : S[t].stage \in Loaded => S[t] = sess[t])
  BY DEF IInv, TypeOK, Session, Idle, Loaded
<1>2. sess' = Outdated(S, {sess[s].survey}, sess[s].done)
  BY DEF ClearCommit
<1>3. ASSUME NEW v \in Surveys \ {sess[s].survey}
      PROVE  surveys'[v].structure = surveys[v].structure
  <2>1. surveys[v] \in Survey
    BY DEF IInv, TypeOK
  <2>2. Cleared(surveys[v]).structure = surveys[v].structure
    BY <2>1 DEF Cleared, Survey
  <2>3. surveys'[v] = Cleared(surveys[v]) \/ surveys'[v] = surveys[v]
    BY DEF ClearCommit
  <2> QED
    BY <2>2, <2>3
<1> HIDE DEF S
<1> QED
  BY <1>1, <1>2, <1>3, OutdatedKeepsVersions DEF IInv

LEMMA NextVersions == IInv /\ VersionInv /\ [Next]_vars => VersionInv'
<1> SUFFICES ASSUME IInv, VersionInv, [Next]_vars
             PROVE  VersionInv'
  OBVIOUS
<1>1. TypeOK
  BY DEF IInv
<1>2. ASSUME NEW s \in Sessions, Rollback(s)
      PROVE  VersionInv'
  BY <1>1, <1>2, MoveKeepsVersions DEF Rollback, Idle
<1>3. ASSUME NEW s \in Sessions, NEW v, NEW to, Begin(s, v, to), to.stage \notin {"open", "put"}
      PROVE  VersionInv'
  BY <1>1, <1>3, MoveKeepsVersions DEF Begin
<1>4. ASSUME NEW s \in Sessions, Editing(s)
      PROVE  VersionInv'
  <2>1. CASE \E v \in Surveys : Open(s, v)
    BY <1>1, <2>1, MoveKeepsVersions DEF Open
  <2>2. CASE ReadStructure(s)
    BY <1>1, <2>2, MoveKeepsVersions DEF ReadStructure
  <2>3. ASSUME NEW x \in Structures, BeginPut(s, x)
        PROVE  VersionInv'
    <3> DEFINE to == [stage |-> "put", survey |-> sess[s].survey, version |-> sess[s].version,
                      seen |-> sess[s].seen, new |-> x]
    <3>1. sess' = [sess EXCEPT ![s] = to] /\ surveys' = surveys
      BY <2>3 DEF BeginPut, Begin
    <3>2. to.version = "current" => to.seen = surveys[to.survey].structure
      BY <2>3 DEF BeginPut, VersionInv, FitsVersion
    <3> HIDE DEF to
    <3> QED
      BY <1>1, <3>1, <3>2, MoveKeepsVersions
  <2>4. CASE PutCommit(s) \/ ItemCommit(s)
    BY <1>1, <2>4, CommitKeepsVersions DEF PutCommit, ItemCommit
  <2>5. CASE PutNothing(s)
    BY <1>1, <2>5, MoveKeepsVersions DEF PutNothing
  <2>6. CASE PutRefuse(s) \/ ItemRefuse(s)
    BY <1>2, <2>6 DEF PutRefuse, ItemRefuse
  <2>7. CASE \E v \in Surveys, x \in Structures : BeginItem(s, v, x)
    BY <1>3, <2>7 DEF BeginItem
  <2> QED
    BY <1>4, <2>1, <2>2, <2>3, <2>4, <2>5, <2>6, <2>7 DEF Editing
<1>5. ASSUME NEW s \in Sessions, Updating(s)
      PROVE  VersionInv'
  <2>1. CASE \E v \in Surveys, c \in Bodies : BeginUpdate(s, v, c)
    BY <1>3, <2>1 DEF BeginUpdate
  <2>2. CASE UpdateCommit(s)
    BY <1>1, <2>2, CommitKeepsVersions DEF UpdateCommit
  <2>3. CASE UpdateRefuse(s) \/ DeadlockVictim(s)
    BY <1>2, <2>3 DEF UpdateRefuse, DeadlockVictim
  <2>4. CASE BeginClear(s)
    BY <1>1, <2>4, MoveKeepsVersions DEF BeginClear
  <2>5. CASE LockOther(s)
    BY <1>1, <2>5, MoveKeepsVersions DEF LockOther
  <2>6. CASE ClearCommit(s)
    BY <2>6, ClearKeepsVersions
  <2> QED
    BY <1>5, <2>1, <2>2, <2>3, <2>4, <2>5, <2>6 DEF Updating
<1>6. ASSUME NEW s \in Sessions, Answering(s)
      PROVE  VersionInv'
  <2>1. CASE \E v \in Surveys : BeginAnswer(s, v)
    BY <1>3, <2>1 DEF BeginAnswer
  <2>2. CASE Answer(s)
    BY <1>1, <2>2, CommitKeepsVersions DEF Answer
  <2> QED
    BY <1>6, <2>1, <2>2 DEF Answering
<1>7. ASSUME NEW v \in Surveys, Administering(v)
      PROVE  VersionInv'
  BY <1>1, <1>7, WriteKeepsVersions DEF Administering, Create, Archive, Restore, EraseResponses
<1>8. ASSUME NEW s \in Sessions, Crash(s)
      PROVE  VersionInv'
  BY <1>2, <1>8 DEF Crash
<1>9. CASE UNCHANGED vars
  BY <1>9 DEF vars, VersionInv, FitsVersion
<1> QED
  BY <1>4, <1>5, <1>6, <1>7, <1>8, <1>9 DEF Next

\* Whatever the editors do, and although a survey is read without a lock and in
\* several statements, a save replaces the structure its editor had loaded.
THEOREM SavesLoseNoEdit == Spec => NoLostEdit
<1>1. Init => VersionInv
  BY DEF Init, VersionInv, FitsVersion, Idle
<1>2. VersionInv /\ [Next]_vars =>
          [\A s \in Sessions : PutCommit(s) =>
              surveys[sess[s].survey].structure = sess[s].seen]_vars
  BY DEF PutCommit, PutAccepts, VersionInv, FitsVersion
<1> QED
  BY <1>1, <1>2, NextVersions, Invariance, PTL DEF Spec, NoLostEdit
=============================================================================
