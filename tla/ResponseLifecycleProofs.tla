---------------------- MODULE ResponseLifecycleProofs ----------------------
(* Proofs about ResponseLifecycle, for every set of rows, respondents,     *)
(* keys, bodies, codes and sessions and every batch size and policy.       *)
EXTENDS ResponseLifecycle, FiniteSetTheorems, TLAPS

-----------------------------------------------------------------------------
(* What the helpers return.                                                *)

\* The live rows are finite, so their number is a natural number.
LEMMA LiveCardinality ==
    ASSUME NEW R
    PROVE  /\ IsFiniteSet(Live(R))
           /\ Cardinality(Live(R)) \in Nat
<1>1. Live(R) \subseteq Rows
  BY DEF Live
<1>2. IsFiniteSet(Live(R))
  BY <1>1, RowsFinite, FS_Subset
<1> QED
  BY <1>2, FS_CardinalityType

\* Fewer live rows never count as more.
LEMMA LiveMonotone ==
    ASSUME NEW R, NEW S, Live(S) \subseteq Live(R)
    PROVE  Cardinality(Live(S)) <= Cardinality(Live(R))
BY LiveCardinality, FS_Subset

LEMMA AbsentIsRow == Absent \in Row
BY DEF Absent, Row, Deadline

\* Phase 2 writes a row.
LEMMA CompletedIsRow ==
    ASSUME NEW row \in Row, NEW k \in Keys, NEW h \in Submission,
           NEW A \in SUBSET Submission, NEW t \in Nat, NEW d \in Deadline
    PROVE  [row EXCEPT !.answers = A, !.key = k, !.hash = h, !.at = t,
                       !.expires = d] \in Row
BY DEF Row

\* tombstone_responses makes a row of a row.
LEMMA TombstoneIsRow ==
    ASSUME NEW row \in Row, NEW preserve \in BOOLEAN
    PROVE  Tombstone(row, preserve) \in Row
BY DEF Tombstone, Row

\* A flush writes a row, whatever of it is left out of the UPDATE.
LEMMA FlushIsRow ==
    ASSUME NEW stored \in Row, NEW loaded \in Row, NEW new \in Row
    PROVE  Flush(stored, loaded, new) \in Row
BY DEF Flush, Written, Row

LEMMA TombstoneAllIsView ==
    ASSUME NEW R \in View, NEW S
    PROVE  TombstoneAll(R, S) \in View
BY TombstoneIsRow DEF TombstoneAll, View

LEMMA CountedIsSurvey ==
    ASSUME survey \in Survey, NEW n \in Nat
    PROVE  [survey EXCEPT !.responses_count = n] \in Survey
BY DEF Survey

LEMMA ReconciledIsSurvey ==
    ASSUME survey \in Survey, NEW R
    PROVE  Reconciled(R) \in Survey
BY LiveCardinality, CountedIsSurvey DEF Reconciled

LEMMA LoggedIsTrail ==
    ASSUME trail \in [Rows -> Seq(Event)], NEW S, NEW e \in Event
    PROVE  Logged(S, e) \in [Rows -> Seq(Event)]
BY DEF Logged

LEMMA ExpiresAtIsDeadline ==
    ASSUME survey \in Survey, NEW t \in Nat
    PROVE  ExpiresAt(t) \in Deadline
<1>1. survey.policy \in (Nat \ {0}) \cup {NULL}
  BY ConstantsAssumption DEF Survey
<1>2. CASE survey.policy = NULL
  BY <1>2 DEF ExpiresAt, Deadline
<1>3. CASE survey.policy \in Nat
  BY <1>3 DEF ExpiresAt, Deadline
<1> QED
  BY <1>1, <1>2, <1>3

\* The stage of a session says what its request is.
LEMMA FormSession ==
    ASSUME NEW x \in Session, x.stage \in {"submit", "phase2"}
    PROVE  x.req \in FormRequest /\ x.seen \in View
BY DEF Session, Idle

LEMMA EraseSession ==
    ASSUME NEW x \in Session, x.stage = "erase"
    PROVE  x.req \in EraseRequest /\ x.seen \in View
BY DEF Session, Idle

LEMMA ImportSession ==
    ASSUME NEW x \in Session, x.stage = "import"
    PROVE  x.req \in ImportRequest /\ x.seen \in View
BY DEF Session, Idle

LEMMA WithdrawSession ==
    ASSUME NEW x \in Session, x.stage \in {"candidate", "withdraw"}
    PROVE  x.req \in WithdrawRequest
BY DEF Session, Idle

LEMMA PurgeSession ==
    ASSUME NEW x \in Session, x.stage \in {"purge", "batch"}
    PROVE  x.req \in PurgeRequest /\ x.count \in Nat \cup {NULL}
BY DEF Session, Idle

-----------------------------------------------------------------------------
(* Type correctness.                                                       *)

USE DEF vars

\* The initial states are well typed.
THEOREM InitTypeOK == Init => TypeOK
<1> SUFFICES ASSUME Init PROVE TypeOK
  OBVIOUS
<1> USE DEF Init
<1>1. survey \in Survey
  <2>1. PICK st \in {"Active", "Inactive"}, p \in Policies :
          survey = [status |-> st, is_deleted |-> FALSE, responses_count |-> 0, policy |-> p]
    OBVIOUS
  <2> QED
    BY <2>1 DEF Survey
<1>2. rows \in [Rows -> Row]
  BY AbsentIsRow
<1>3. trail \in [Rows -> Seq(Event)]
  OBVIOUS
<1>4. sess \in [Sessions -> Session]
  BY DEF Session
<1> QED
  BY <1>1, <1>2, <1>3, <1>4 DEF TypeOK

LEMMA SubmittingTypeOK ==
    ASSUME TypeOK, NEW s \in Sessions, Submitting(s)
    PROVE  TypeOK'
<1> USE DEF TypeOK, Idle
<1>1. ASSUME NEW q \in FormRequest, BeginSubmit(s, q) PROVE TypeOK'
  BY <1>1 DEF BeginSubmit, Acquire, Session, View
<1>2. ASSUME NEW r \in Rows, SubmitCreate(s, r) PROVE TypeOK'
  <2> DEFINE q == sess[s].req
  <2>1. q \in FormRequest
    BY <1>2, FormSession DEF SubmitCreate
  <2>2. NewRow(q) \in Row
    BY <2>1, ExpiresAtIsDeadline, ConstantsAssumption
       DEF NewRow, Row, FormRequest, Submission, Deadline
  <2>3. rows' \in [Rows -> Row]
    BY <1>2, <2>2 DEF SubmitCreate
  <2>4. survey' \in Survey
    <3>1. survey.responses_count + 1 \in Nat
      BY DEF Survey
    <3> QED
      BY <1>2, <3>1, CountedIsSurvey DEF SubmitCreate
  <2>5. trail' \in [Rows -> Seq(Event)]
    BY <1>2, LoggedIsTrail DEF SubmitCreate, Event
  <2>6. acked' \subseteq Ack
    BY <1>2, <2>1 DEF SubmitCreate, Acknowledge, Ack, FormRequest
  <2> QED
    BY <1>2, <2>3, <2>4, <2>5, <2>6 DEF SubmitCreate, Release, Session
<1>3. CASE SubmitReplay(s)
  <2>1. sess[s].req \in FormRequest
    BY <1>3, FormSession DEF SubmitReplay
  <2>2. acked' \subseteq Ack
    BY <1>3, <2>1 DEF SubmitReplay, Acknowledge, Ack, FormRequest
  <2> QED
    BY <1>3, <2>2 DEF SubmitReplay, Release, Session
<1>4. CASE SubmitReject(s)
  BY <1>4 DEF SubmitReject, Release, Session
<1> QED
  BY <1>1, <1>2, <1>3, <1>4 DEF Submitting

LEMMA CompletingTypeOK ==
    ASSUME TypeOK, NEW s \in Sessions, Completing(s)
    PROVE  TypeOK'
<1> USE DEF TypeOK, Idle
<1>1. ASSUME NEW q \in FormRequest, BeginPhase2(s, q) PROVE TypeOK'
  BY <1>1 DEF BeginPhase2, Acquire, Session, View
<1>2. ASSUME NEW r \in Rows, Phase2Complete(s, r) PROVE TypeOK'
  <2> DEFINE q == sess[s].req
             old == sess[s].seen[r]
             new == [rows[r] EXCEPT !.answers = old.answers \cup {<<2, q.body>>},
                                    !.key = q.key, !.hash = <<2, q.body>>,
                                    !.at = now, !.expires = ExpiresAt(now)]
  <2>1. q \in FormRequest /\ sess[s].seen \in View
    BY <1>2, FormSession DEF Phase2Complete
  <2>2. ExpiresAt(now) \in Deadline
    BY ExpiresAtIsDeadline
  <2>3. old.answers \in SUBSET Submission
    BY <2>1 DEF View, Row
  <2>4. <<2, q.body>> \in Submission
    BY <2>1 DEF Submission, FormRequest
  <2>5. new \in Row
    <3>1. q.key \in Keys /\ old.answers \cup {<<2, q.body>>} \in SUBSET Submission
      BY <2>1, <2>3, <2>4 DEF FormRequest
    <3> QED
      BY <2>2, <2>4, <3>1, CompletedIsRow
  <2>6. rows' = [rows EXCEPT ![r] = new]
    BY <1>2 DEF Phase2Complete
  <2>7. rows' \in [Rows -> Row]
    <3> HIDE DEF new
    <3> QED BY <2>5, <2>6
  <2>8. trail' \in [Rows -> Seq(Event)]
    BY <1>2, LoggedIsTrail DEF Phase2Complete, Event
  <2>9. acked' \subseteq Ack
    BY <1>2, <2>1 DEF Phase2Complete, Acknowledge, Ack, FormRequest
  <2> QED
    BY <1>2, <2>7, <2>8, <2>9 DEF Phase2Complete, Release, Session
<1>3. CASE Phase2Replay(s)
  <2>1. sess[s].req \in FormRequest
    BY <1>3, FormSession DEF Phase2Replay
  <2>2. acked' \subseteq Ack
    BY <1>3, <2>1 DEF Phase2Replay, Acknowledge, Ack, FormRequest
  <2> QED
    BY <1>3, <2>2 DEF Phase2Replay, Release, Session
<1>4. CASE Phase2Reject(s)
  BY <1>4 DEF Phase2Reject, Release, Session
<1> QED
  BY <1>1, <1>2, <1>3, <1>4 DEF Completing

LEMMA WithdrawingTypeOK ==
    ASSUME TypeOK, NEW s \in Sessions, Withdrawing(s)
    PROVE  TypeOK'
<1> USE DEF TypeOK, Idle
<1>1. ASSUME NEW r \in Rows, NEW c \in Codes, FindCandidate(s, r, c) PROVE TypeOK'
  <2>1. [row |-> r, code |-> c, loaded |-> rows[r]] \in WithdrawRequest
    BY DEF WithdrawRequest
  <2>2. sess' \in [Sessions -> Session]
    BY <1>1, <2>1 DEF FindCandidate, Session
  <2> QED
    BY <1>1, <2>2 DEF FindCandidate
<1>2. CASE LockCandidate(s)
  <2>1. sess[s].req \in WithdrawRequest
    BY <1>2, WithdrawSession DEF LockCandidate, Acquire
  <2>2. sess' \in [Sessions -> Session]
    BY <1>2, <2>1 DEF LockCandidate, Acquire, Session
  <2> QED
    BY <1>2, <2>2 DEF LockCandidate, Acquire
<1>3. CASE Withdraw(s)
  <2> DEFINE q == sess[s].req
             new == Flush(rows[q.row], q.loaded, Tombstone(q.loaded, TRUE))
  <2>1. q.row \in Rows /\ q.loaded \in Row
    BY <1>3, WithdrawSession DEF Withdraw, WithdrawRequest
  <2>2. new \in Row
    BY <2>1, TombstoneIsRow, FlushIsRow
  <2>3. /\ rows' = [rows EXCEPT ![q.row] = new]
        /\ survey' = Reconciled([rows EXCEPT ![q.row] = new])
    BY <1>3 DEF Withdraw
  <2>4. rows' \in [Rows -> Row] /\ survey' \in Survey
    <3> HIDE DEF new
    <3> QED BY <2>1, <2>2, <2>3, ReconciledIsSurvey
  <2>5. trail' \in [Rows -> Seq(Event)]
    BY <1>3, LoggedIsTrail DEF Withdraw, Event
  <2> QED
    BY <1>3, <2>4, <2>5 DEF Withdraw, Release, Session
<1>4. CASE WithdrawRepeat(s)
  BY <1>4 DEF WithdrawRepeat, Release, Session
<1> QED
  BY <1>1, <1>2, <1>3, <1>4 DEF Withdrawing

LEMMA ErasingTypeOK ==
    ASSUME TypeOK, NEW s \in Sessions, Erasing(s)
    PROVE  TypeOK'
<1> USE DEF TypeOK, Idle
<1>1. ASSUME NEW q \in EraseRequest, BeginErase(s, q) PROVE TypeOK'
  BY <1>1 DEF BeginErase, Acquire, Session, View
<1>2. CASE Erase(s)
  <2> DEFINE q == sess[s].req
             S == Live(sess[s].seen) \cap ErasedBy(sess[s].seen, q)
  <2>1. q \in EraseRequest
    BY <1>2, EraseSession DEF Erase
  <2>2. rows' \in [Rows -> Row] /\ survey' \in Survey
    BY <1>2, TombstoneAllIsView, ReconciledIsSurvey DEF Erase, View
  <2>3. Cardinality(S) \in Nat
    BY LiveCardinality, FS_Subset, FS_CardinalityType
  <2>4. receipts' \in [AdminKeys -> Receipt \cup {NULL}]
    BY <1>2, <2>1, <2>3 DEF Erase, Receipt, EraseRequest
  <2>5. trail' \in [Rows -> Seq(Event)]
    BY <1>2, LoggedIsTrail DEF Erase, Event
  <2> QED
    BY <1>2, <2>2, <2>4, <2>5 DEF Erase, Release, Session
<1>3. CASE EraseReject(s)
  BY <1>3 DEF EraseReject, Release, Session
<1>4. ASSUME NEW k \in AdminKeys, NEW ids \in (SUBSET Rows) \ {{}}
      PROVE  [key |-> k, scope |-> "selected", ids |-> ids, expected |-> 0] \in EraseRequest
  BY DEF EraseRequest
<1>5. ASSUME NEW k \in AdminKeys, NEW n \in 0 .. Cardinality(Rows)
      PROVE  [key |-> k, scope |-> "all", ids |-> {}, expected |-> n] \in EraseRequest
  BY DEF EraseRequest
<1> QED
  BY <1>1, <1>2, <1>3, <1>4, <1>5 DEF Erasing

LEMMA ImportingTypeOK ==
    ASSUME TypeOK, NEW s \in Sessions, Importing(s)
    PROVE  TypeOK'
<1> USE DEF TypeOK, Idle
<1>1. ASSUME NEW q \in ImportRequest, BeginImport(s, q) PROVE TypeOK'
  BY <1>1 DEF BeginImport, Acquire, Session, View
<1> DEFINE q == sess[s].req
<1>2. ASSUME sess[s].stage = "import"
      PROVE  /\ q \in ImportRequest /\ sess[s].seen \in View
             /\ SheetAnswers(q) \in SUBSET Submission
  BY <1>2, ImportSession DEF SheetAnswers, ImportRequest, Submission
<1>3. CASE ImportInsert(s)
  <2> DEFINE new == [Absent EXCEPT !.status = "live", !.answers = SheetAnswers(q),
                                   !.at = q.at, !.expires = ExpiresAt(q.at)]
  <2>1. q \in ImportRequest /\ SheetAnswers(q) \in SUBSET Submission
    BY <1>2, <1>3 DEF ImportInsert
  <2>2. q.target \in Rows /\ q.at \in Nat
    BY <2>1 DEF ImportRequest
  <2>3. ExpiresAt(q.at) \in Deadline
    BY <2>2, ExpiresAtIsDeadline
  <2>4. new \in Row
    BY <2>1, <2>2, <2>3, AbsentIsRow DEF Row
  <2>5. /\ rows' = [rows EXCEPT ![q.target] = new]
        /\ survey' = Reconciled([rows EXCEPT ![q.target] = new])
    BY <1>3 DEF ImportInsert
  <2>6. rows' \in [Rows -> Row] /\ survey' \in Survey
    <3> HIDE DEF new
    <3> QED BY <2>2, <2>4, <2>5, ReconciledIsSurvey
  <2>7. trail' \in [Rows -> Seq(Event)]
    BY <1>3, LoggedIsTrail DEF ImportInsert, Event
  <2> QED
    BY <1>3, <2>6, <2>7 DEF ImportInsert, Release, Session
<1>4. CASE ImportFill(s)
  <2> DEFINE old == sess[s].seen[q.target]
             fill == {a \in SheetAnswers(q) : \A b \in old.answers : b[1] # a[1]}
             new == [rows[q.target] EXCEPT !.answers = old.answers \cup fill]
  <2>1. q.target \in Rows /\ old \in Row /\ fill \in SUBSET Submission
    BY <1>2, <1>4 DEF ImportFill, FillOneOf, ImportRequest, View
  <2>2. new \in Row
    <3> HIDE DEF old, fill
    <3> QED BY <2>1 DEF Row
  <2>3. /\ rows' = [rows EXCEPT ![q.target] = new]
        /\ survey' = Reconciled([rows EXCEPT ![q.target] = new])
    BY <1>4, <2>1 DEF ImportFill, FillOneOf
  <2>4. rows' \in [Rows -> Row] /\ survey' \in Survey
    <3> HIDE DEF new
    <3> QED BY <2>1, <2>2, <2>3, ReconciledIsSurvey
  <2>5. trail' \in [Rows -> Seq(Event)]
    BY <1>4, LoggedIsTrail DEF ImportFill, FillOneOf, Event
  <2> QED
    BY <1>4, <2>4, <2>5 DEF ImportFill, FillOneOf, Release, Session
<1>5. CASE ImportNothing(s)
  BY <1>5 DEF ImportNothing, Release, Session
<1>6. [sheet : Sheets, phases : (SUBSET (IF TwoPhase THEN {1, 2} ELSE {1})) \ {{}},
       target : Rows, at : 0 .. MaxTime] \subseteq ImportRequest
  BY ConstantsAssumption DEF ImportRequest
<1> QED
  BY <1>1, <1>3, <1>4, <1>5, <1>6 DEF Importing

LEMMA PurgingTypeOK ==
    ASSUME TypeOK, NEW s \in Sessions, Purging(s)
    PROVE  TypeOK'
<1> USE DEF TypeOK, Idle
<1>1. ASSUME NEW cutoff \in 0 .. MaxTime, StartPurge(s, cutoff) PROVE TypeOK'
  <2>1. cutoff \in Nat
    BY ConstantsAssumption
  <2>2. sess' \in [Sessions -> Session]
    BY <1>1, <2>1 DEF StartPurge, Session, PurgeRequest
  <2> QED
    BY <1>1, <2>2 DEF StartPurge
<1>2. ASSUME NEW B \in SUBSET Rows, LockBatch(s, B) PROVE TypeOK'
  <2>1. sess[s].req \in PurgeRequest /\ sess[s].count \in Nat \cup {NULL}
    BY <1>2, PurgeSession DEF LockBatch
  <2>2. [cutoff |-> sess[s].req.cutoff, batch |-> B] \in PurgeRequest
    BY <2>1 DEF PurgeRequest
  <2>3. (IF sess[s].count = NULL THEN survey.responses_count ELSE sess[s].count)
          \in Nat \cup {NULL}
    BY <2>1 DEF Survey
  <2>4. sess' \in [Sessions -> Session]
    BY <1>2, <2>2, <2>3 DEF LockBatch, Acquire, Session
  <2> QED
    BY <1>2, <2>4 DEF LockBatch, Acquire
<1>3. CASE PurgeBatch(s)
  <2> DEFINE n == Cardinality(Live(TombstoneAll(rows, sess[s].req.batch)))
  <2>1. n \in Nat
    BY LiveCardinality
  <2>2. sess[s].req \in PurgeRequest
    BY <1>3, PurgeSession DEF PurgeBatch, Purge
  <2>3. [cutoff |-> sess[s].req.cutoff, batch |-> {}] \in PurgeRequest
    BY <2>2 DEF PurgeRequest
  <2>4. sess' \in [Sessions -> Session]
    <3> HIDE DEF n
    <3> QED BY <1>3, <2>1, <2>3 DEF PurgeBatch, Purge, Session, n
  <2>5. Written(survey.responses_count, sess[s].count, n) \in Nat
    BY <2>1 DEF Written, Survey
  <2>6. survey' = [survey EXCEPT !.responses_count =
                      Written(survey.responses_count, sess[s].count, n)]
    BY <1>3 DEF PurgeBatch, Purge
  <2>7. survey' \in Survey
    BY <2>5, <2>6, CountedIsSurvey
  <2>8. rows' \in [Rows -> Row]
    BY <1>3, TombstoneAllIsView DEF PurgeBatch, Purge, View
  <2>9. trail' \in [Rows -> Seq(Event)]
    BY <1>3, LoggedIsTrail DEF PurgeBatch, Purge, Event
  <2> QED
    BY <1>3, <2>4, <2>7, <2>8, <2>9 DEF PurgeBatch, Purge
<1>4. CASE EndPurge(s)
  BY <1>4 DEF EndPurge, Session
<1> QED
  BY <1>1, <1>2, <1>3, <1>4 DEF Purging

LEMMA ManagingTypeOK ==
    ASSUME TypeOK, Managing \/ Tick
    PROVE  TypeOK'
<1> USE DEF TypeOK
<1>1. ASSUME NEW st \in {"Inactive", "Active", "Closed"}, UpdateStatus(st) PROVE TypeOK'
  BY <1>1 DEF UpdateStatus, Survey
<1>2. ASSUME NEW p \in Policies, UpdatePolicy(p) PROVE TypeOK'
  BY <1>2 DEF UpdatePolicy, Survey
<1>3. CASE Archive
  BY <1>3 DEF Archive, Survey
<1>4. CASE Restore
  BY <1>4 DEF Restore, Survey
<1>5. CASE Tick
  BY <1>5 DEF Tick
<1> QED
  BY <1>1, <1>2, <1>3, <1>4, <1>5 DEF Managing

\* Every handler leaves the state well typed.
THEOREM NextTypeOK == TypeOK /\ [Next]_vars => TypeOK'
<1> SUFFICES ASSUME TypeOK, [Next]_vars PROVE TypeOK'
  OBVIOUS
<1>1. ASSUME NEW s \in Sessions, Crash(s) PROVE TypeOK'
  BY <1>1 DEF Crash, TypeOK, Session
<1>2. CASE UNCHANGED vars
  BY <1>2 DEF TypeOK
<1> QED
  BY <1>1, <1>2, SubmittingTypeOK, CompletingTypeOK, WithdrawingTypeOK,
     ErasingTypeOK, ImportingTypeOK, PurgingTypeOK, ManagingTypeOK DEF Next

\* Every reachable state is well typed: each handler writes rows, counts,
\* receipts and session states of their types, for every size of the system.
THEOREM TypeCorrect == Spec => []TypeOK
BY InitTypeOK, NextTypeOK, PTL DEF Spec

(* The lock discipline.                                                    *)

\* A session is in a locked stage exactly when it holds the lock.
HolderIsLocked ==
    \A s \in Sessions : lock = s <=> sess[s].stage \in LockedStage

\* The inductive invariant behind every write: one handler at a time, and
\* what it read is what it writes to.
LockInv == TypeOK /\ HolderIsLocked /\ LockedViewIsCurrent

\* A step that leaves the rows and the lock alone and moves one session
\* between unlocked stages keeps the discipline.
LEMMA UnlockedStep ==
    ASSUME LockInv, NEW s \in Sessions, NEW x,
           sess[s].stage \notin LockedStage, x.stage \notin LockedStage,
           sess' = [sess EXCEPT ![s] = x], UNCHANGED <<rows, lock>>
    PROVE  HolderIsLocked' /\ LockedViewIsCurrent'
BY DEF LockInv, TypeOK, HolderIsLocked, LockedViewIsCurrent, LockedStage

\* Taking the lock and reading the rows as they are.
LEMMA AcquireStep ==
    ASSUME LockInv, NEW s \in Sessions, NEW from, NEW x, Acquire(s, from, x),
           x.stage \in LockedStage,
           x.stage \in {"submit", "phase2", "erase", "import"} => x.seen = rows
    PROVE  HolderIsLocked' /\ LockedViewIsCurrent'
<1> USE ConstantsAssumption
<1>1. \A t \in Sessions : sess[t].stage \notin LockedStage
  BY DEF LockInv, HolderIsLocked, Acquire
<1>2. sess' = [sess EXCEPT ![s] = x] /\ lock' = s /\ rows' = rows
  BY DEF Acquire
<1>3. HolderIsLocked'
  BY <1>1, <1>2 DEF LockInv, TypeOK, HolderIsLocked
<1>4. LockedViewIsCurrent'
  BY <1>1, <1>2 DEF LockInv, TypeOK, LockedViewIsCurrent, LockedStage
<1> QED
  BY <1>3, <1>4

\* The holder gives the lock back, whatever it wrote.
LEMMA ReleaseStep ==
    ASSUME LockInv, NEW s \in Sessions, NEW x, sess[s].stage \in LockedStage,
           x.stage \notin LockedStage, lock' = NULL,
           sess' = [sess EXCEPT ![s] = x]
    PROVE  HolderIsLocked' /\ LockedViewIsCurrent'
<1>1. \A t \in Sessions : t # s => sess[t].stage \notin LockedStage
  BY DEF LockInv, HolderIsLocked
<1>2. \A t \in Sessions : sess'[t].stage \notin LockedStage
  BY <1>1 DEF LockInv, TypeOK
<1> QED
  BY <1>2, ConstantsAssumption DEF HolderIsLocked, LockedViewIsCurrent, LockedStage

\* A request that ends.
LEMMA FinishStep ==
    ASSUME LockInv, NEW s \in Sessions, sess[s].stage \in LockedStage, Release(s)
    PROVE  HolderIsLocked' /\ LockedViewIsCurrent'
<1>1. Idle.stage \notin LockedStage
  BY DEF Idle, LockedStage
<1> QED
  BY <1>1, ReleaseStep DEF Release

\* Nobody holds the row lock at first.
THEOREM InitLockInv == Init => LockInv
<1> SUFFICES ASSUME Init PROVE LockInv
  OBVIOUS
<1>1. lock = NULL /\ \A s \in Sessions : sess[s].stage = "idle"
  BY DEF Init, Idle
<1>2. HolderIsLocked
  BY <1>1, ConstantsAssumption DEF HolderIsLocked, LockedStage
<1>3. LockedViewIsCurrent
  BY <1>1 DEF LockedViewIsCurrent
<1> QED
  BY <1>2, <1>3, InitTypeOK DEF LockInv

\* Every handler keeps the lock with one holder and its view current.
THEOREM NextLockInv == LockInv /\ [Next]_vars => LockInv'
<1> SUFFICES ASSUME LockInv, [Next]_vars PROVE HolderIsLocked' /\ LockedViewIsCurrent'
  BY NextTypeOK DEF LockInv
<1> USE DEF Idle
<1>1. ASSUME NEW s \in Sessions, Submitting(s)
      PROVE  HolderIsLocked' /\ LockedViewIsCurrent'
  <2>1. ASSUME NEW q \in FormRequest, BeginSubmit(s, q)
        PROVE  HolderIsLocked' /\ LockedViewIsCurrent'
    BY <2>1, AcquireStep DEF BeginSubmit, LockedStage
  <2>2. CASE (\E r \in Rows : SubmitCreate(s, r)) \/ SubmitReplay(s) \/ SubmitReject(s)
    <3>1. sess[s].stage \in LockedStage /\ Release(s)
      BY <2>2 DEF SubmitCreate, SubmitReplay, SubmitReject, LockedStage
    <3> QED
      BY <3>1, FinishStep
  <2> QED
    BY <1>1, <2>1, <2>2 DEF Submitting
<1>2. ASSUME NEW s \in Sessions, Completing(s)
      PROVE  HolderIsLocked' /\ LockedViewIsCurrent'
  <2>1. ASSUME NEW q \in FormRequest, BeginPhase2(s, q)
        PROVE  HolderIsLocked' /\ LockedViewIsCurrent'
    BY <2>1, AcquireStep DEF BeginPhase2, LockedStage
  <2>2. CASE (\E r \in Rows : Phase2Complete(s, r)) \/ Phase2Replay(s) \/ Phase2Reject(s)
    <3>1. sess[s].stage \in LockedStage /\ Release(s)
      BY <2>2 DEF Phase2Complete, Phase2Replay, Phase2Reject, LockedStage
    <3> QED
      BY <3>1, FinishStep
  <2> QED
    BY <1>2, <2>1, <2>2 DEF Completing
<1>3. ASSUME NEW s \in Sessions, Withdrawing(s)
      PROVE  HolderIsLocked' /\ LockedViewIsCurrent'
  <2>1. ASSUME NEW r \in Rows, NEW c \in Codes, FindCandidate(s, r, c)
        PROVE  HolderIsLocked' /\ LockedViewIsCurrent'
    <3> DEFINE x == [stage |-> "candidate",
                     req |-> [row |-> r, code |-> c, loaded |-> rows[r]]]
    <3>1. sess' = [sess EXCEPT ![s] = x] /\ UNCHANGED <<rows, lock>>
      BY <2>1 DEF FindCandidate
    <3>2. sess[s].stage \notin LockedStage /\ x.stage \notin LockedStage
      BY <2>1 DEF FindCandidate, LockedStage
    <3> HIDE DEF x
    <3> QED
      BY <3>1, <3>2, UnlockedStep
  <2>2. CASE LockCandidate(s)
    BY <2>2, AcquireStep DEF LockCandidate, LockedStage
  <2>3. CASE Withdraw(s) \/ WithdrawRepeat(s)
    <3>1. sess[s].stage \in LockedStage /\ Release(s)
      BY <2>3 DEF Withdraw, WithdrawRepeat, LockedStage
    <3> QED
      BY <3>1, FinishStep
  <2> QED
    BY <1>3, <2>1, <2>2, <2>3 DEF Withdrawing
<1>4. ASSUME NEW s \in Sessions, Erasing(s)
      PROVE  HolderIsLocked' /\ LockedViewIsCurrent'
  <2>1. ASSUME NEW q, BeginErase(s, q) PROVE HolderIsLocked' /\ LockedViewIsCurrent'
    BY <2>1, AcquireStep DEF BeginErase, LockedStage
  <2>2. CASE Erase(s) \/ EraseReject(s)
    <3>1. sess[s].stage \in LockedStage /\ Release(s)
      BY <2>2 DEF Erase, EraseReject, LockedStage
    <3> QED
      BY <3>1, FinishStep
  <2> QED
    BY <1>4, <2>1, <2>2 DEF Erasing
<1>5. ASSUME NEW s \in Sessions, Importing(s)
      PROVE  HolderIsLocked' /\ LockedViewIsCurrent'
  <2>1. ASSUME NEW q, BeginImport(s, q) PROVE HolderIsLocked' /\ LockedViewIsCurrent'
    BY <2>1, AcquireStep DEF BeginImport, LockedStage
  <2>2. CASE ImportInsert(s) \/ ImportFill(s) \/ ImportNothing(s)
    <3>1. sess[s].stage \in LockedStage /\ Release(s)
      BY <2>2 DEF ImportInsert, ImportFill, FillOneOf, ImportNothing, LockedStage
    <3> QED
      BY <3>1, FinishStep
  <2> QED
    BY <1>5, <2>1, <2>2 DEF Importing
<1>6. ASSUME NEW s \in Sessions, Purging(s)
      PROVE  HolderIsLocked' /\ LockedViewIsCurrent'
  <2>1. CASE (\E cutoff : StartPurge(s, cutoff)) \/ EndPurge(s)
    BY <2>1, UnlockedStep DEF StartPurge, EndPurge, LockedStage
  <2>2. ASSUME NEW B \in SUBSET Rows, LockBatch(s, B)
        PROVE  HolderIsLocked' /\ LockedViewIsCurrent'
    BY <2>2, AcquireStep DEF LockBatch, LockedStage
  <2>3. CASE PurgeBatch(s)
    <3> DEFINE x == [stage |-> "purge",
                     count |-> Cardinality(Live(TombstoneAll(rows, sess[s].req.batch))),
                     req |-> [cutoff |-> sess[s].req.cutoff, batch |-> {}]]
    <3>1. sess' = [sess EXCEPT ![s] = x] /\ lock' = NULL
      BY <2>3 DEF PurgeBatch, Purge
    <3>2. sess[s].stage \in LockedStage /\ x.stage \notin LockedStage
      BY <2>3 DEF PurgeBatch, Purge, LockedStage
    <3> HIDE DEF x
    <3> QED
      BY <3>1, <3>2, ReleaseStep
  <2> QED
    BY <1>6, <2>1, <2>2, <2>3 DEF Purging
<1>7. ASSUME NEW s \in Sessions, Crash(s)
      PROVE  HolderIsLocked' /\ LockedViewIsCurrent'
  <2>1. CASE lock = s
    <3>1. sess[s].stage \in LockedStage /\ Release(s)
      BY <1>7, <2>1 DEF Crash, Release, LockInv, HolderIsLocked
    <3> QED
      BY <3>1, FinishStep
  <2>2. CASE lock # s
    BY <1>7, <2>2, UnlockedStep DEF Crash, LockedStage, LockInv, HolderIsLocked
  <2> QED
    BY <2>1, <2>2
<1>8. CASE Managing \/ Tick \/ UNCHANGED vars
  <2>1. UNCHANGED <<rows, lock, sess>>
    BY <1>8 DEF Managing, UpdateStatus, UpdatePolicy, Archive, Restore, Tick
  <2> QED
    BY <2>1 DEF LockInv, HolderIsLocked, LockedViewIsCurrent
<1> QED
  BY <1>1, <1>2, <1>3, <1>4, <1>5, <1>6, <1>7, <1>8 DEF Next

\* What a handler read under the survey's row lock is what the database holds
\* when it writes: for any number of sessions, rows and keys.
THEOREM ViewsAreCurrent == Spec => []LockedViewIsCurrent
<1>1. LockInv => LockedViewIsCurrent
  BY DEF LockInv
<1> QED
  BY <1>1, InitLockInv, NextLockInv, PTL DEF Spec

-----------------------------------------------------------------------------
(* The count of responses.                                                 *)

CountInv == LockInv /\ CountNeverUnder

\* A handler that recounts leaves the count exact.
LEMMA RecountStep ==
    ASSUME TypeOK, survey' = Reconciled(rows')
    PROVE  CountNeverUnder'
BY LiveCardinality DEF CountNeverUnder, Reconciled, TypeOK, Survey

\* A step that adds no live response and does not lower the count.
LEMMA NoNewLiveStep ==
    ASSUME TypeOK, CountNeverUnder, Live(rows') \subseteq Live(rows),
           survey'.responses_count >= survey.responses_count,
           survey'.responses_count \in Nat
    PROVE  CountNeverUnder'
<1>1. Cardinality(Live(rows')) <= Cardinality(Live(rows))
  BY LiveMonotone
<1>2. Cardinality(Live(rows')) \in Nat /\ Cardinality(Live(rows)) \in Nat
  BY LiveCardinality
<1>3. survey.responses_count \in Nat
  BY DEF TypeOK, Survey
<1> QED
  BY <1>1, <1>2, <1>3 DEF CountNeverUnder

\* No handler lets the count fall under the live responses.
THEOREM NextCountInv == CountInv /\ [Next]_vars => CountInv'
<1> SUFFICES ASSUME LockInv, CountNeverUnder, [Next]_vars PROVE CountNeverUnder'
  BY NextLockInv DEF CountInv
<1> USE DEF LockInv
<1>1. ASSUME NEW s \in Sessions, NEW r \in Rows, SubmitCreate(s, r)
      PROVE  CountNeverUnder'
  <2>1. Live(rows') = Live(rows) \cup {r} /\ r \notin Live(rows)
    BY <1>1 DEF SubmitCreate, NewRow, Live, TypeOK
  <2>2. Cardinality(Live(rows')) = Cardinality(Live(rows)) + 1
    BY <2>1, LiveCardinality, FS_AddElement
  <2>3. survey'.responses_count = survey.responses_count + 1
    BY <1>1 DEF SubmitCreate, TypeOK, Survey
  <2> QED
    BY <2>2, <2>3, LiveCardinality DEF CountNeverUnder, TypeOK, Survey
<1>2. ASSUME NEW s \in Sessions, NEW r \in Rows, Phase2Complete(s, r)
      PROVE  CountNeverUnder'
  <2>1. Live(rows') = Live(rows)
    <3>1. PICK A, k, h, t, d : rows' = [rows EXCEPT
              ![r].answers = A, ![r].key = k, ![r].hash = h, ![r].at = t, ![r].expires = d]
      BY <1>2 DEF Phase2Complete
    <3>2. \A o \in Rows : rows'[o].status = rows[o].status
      BY <3>1 DEF TypeOK, Row
    <3> QED
      BY <3>2 DEF Live
  <2> QED
    BY <1>2, <2>1 DEF Phase2Complete, CountNeverUnder
<1>3. ASSUME NEW s \in Sessions, Withdraw(s) \/ Erase(s) \/ ImportInsert(s) \/ ImportFill(s)
      PROVE  CountNeverUnder'
  <2>1. survey' = Reconciled(rows')
    BY <1>3 DEF Withdraw, Erase, ImportInsert, ImportFill, FillOneOf
  <2> QED
    BY <2>1, RecountStep
<1>4. ASSUME NEW s \in Sessions, PurgeBatch(s)
      PROVE  CountNeverUnder'
  <2> DEFINE n == Cardinality(Live(TombstoneAll(rows, sess[s].req.batch)))
  <2>1. rows' = TombstoneAll(rows, sess[s].req.batch)
    BY <1>4 DEF PurgeBatch, Purge
  <2>2. Live(rows') \subseteq Live(rows)
    BY <2>1 DEF TombstoneAll, Live
  <2>3. survey'.responses_count = Written(survey.responses_count, sess[s].count, n)
    BY <1>4 DEF PurgeBatch, Purge, TypeOK, Survey
  <2>4. CASE n = sess[s].count
    BY <2>2, <2>3, <2>4, NoNewLiveStep DEF Written, TypeOK, Survey
  <2>5. CASE n # sess[s].count
    BY <2>1, <2>3, <2>5, LiveCardinality DEF Written, CountNeverUnder
  <2> QED
    BY <2>4, <2>5
<1>5. CASE UNCHANGED <<rows, survey.responses_count>>
  BY <1>5 DEF CountNeverUnder
<1>6. ASSUME NEW s \in Sessions,
             \/ \E q \in FormRequest : BeginSubmit(s, q) \/ BeginPhase2(s, q)
             \/ SubmitReplay(s) \/ SubmitReject(s) \/ Phase2Replay(s) \/ Phase2Reject(s)
             \/ \E r \in Rows, c \in Codes : FindCandidate(s, r, c)
             \/ LockCandidate(s) \/ WithdrawRepeat(s)
             \/ \E q : BeginErase(s, q) \/ BeginImport(s, q)
             \/ EraseReject(s) \/ ImportNothing(s)
             \/ (\E cutoff : StartPurge(s, cutoff)) \/ EndPurge(s)
             \/ (\E B \in SUBSET Rows : LockBatch(s, B))
             \/ Crash(s)
      PROVE  UNCHANGED <<rows, survey>>
  BY <1>6 DEF BeginSubmit, BeginPhase2, SubmitReplay, SubmitReject, Phase2Replay,
     Phase2Reject, FindCandidate, LockCandidate, WithdrawRepeat, BeginErase,
     BeginImport, EraseReject, ImportNothing, StartPurge, LockBatch, EndPurge,
     Crash, Acquire
<1>7. CASE Managing \/ Tick \/ UNCHANGED vars
  <2>1. UNCHANGED <<rows, survey.responses_count>>
    BY <1>7 DEF Managing, UpdateStatus, UpdatePolicy, Archive, Restore, Tick, TypeOK, Survey
  <2> QED
    BY <1>5, <2>1
<1> QED
  BY <1>1, <1>2, <1>3, <1>4, <1>5, <1>6, <1>7
     DEF Next, Submitting, Completing, Withdrawing, Erasing, Importing, Purging

\* No live response is ever missing from surveys.responses_count, although the
\* purge may leave the column out of its UPDATE.
THEOREM CountNeverMisses == Spec => []CountNeverUnder
<1>1. Init => CountInv
  <2> SUFFICES ASSUME Init PROVE CountNeverUnder
    BY InitLockInv DEF CountInv
  <2>1. Live(rows) = {} /\ survey.responses_count = 0
    BY DEF Init, Live, Absent
  <2> QED
    BY <2>1, FS_EmptySet DEF CountNeverUnder
<1>2. CountInv => CountNeverUnder
  BY DEF CountInv
<1> QED
  BY <1>1, <1>2, NextCountInv, PTL DEF Spec

-----------------------------------------------------------------------------
(* The history of a response: what a tombstone keeps, whom a withdrawal    *)
(* bars, and what an acknowledgement means.  The inductive invariant       *)
(* relates each row to its trail and to the candidates and batches that    *)
(* sessions hold.  On it rest the agreement of the handlers, the receipts  *)
(* of an erasure, the purge, and the refinement of ResponseContract.       *)

-----------------------------------------------------------------------------
(* Histories.                                                              *)

HasRemoval(t) == \E i \in DOMAIN t : t[i] \in Removals

IsFirst(t, i) ==
    /\ i \in DOMAIN t /\ t[i] \in Removals
    /\ \A j \in 1 .. (i - 1) : t[j] \notin Removals

\* The first removal is unique, so FirstRemoval finds it.
LEMMA FirstRemovalIs ==
    ASSUME NEW t \in Seq(Event), NEW i, IsFirst(t, i)
    PROVE  FirstRemoval(t) = t[i]
<1> DEFINE P(k) == t[k] \in Removals /\ \A j \in 1 .. (k - 1) : t[j] \notin Removals
           c == CHOOSE k \in DOMAIN t : P(k)
<1>1. i \in DOMAIN t /\ P(i)
  BY DEF IsFirst
<1>2. c \in DOMAIN t /\ P(c)
  <2> HIDE DEF P
  <2> QED BY <1>1
<1>3. c = i
  <2>1. c \in Nat /\ i \in Nat /\ c >= 1 /\ i >= 1
    BY <1>1, <1>2
  <2>2. ~(c < i) /\ ~(i < c)
    <3>1. c < i => c \in 1 .. (i - 1)
      BY <2>1
    <3>2. i < c => i \in 1 .. (c - 1)
      BY <2>1
    <3> QED
      BY <1>1, <1>2, <3>1, <3>2
  <2> QED
    BY <2>1, <2>2
<1>4. FirstRemoval(t) = t[c]
  BY <1>1 DEF FirstRemoval
<1> QED
  BY <1>3, <1>4

LEMMA NoRemovalIsNone ==
    ASSUME NEW t, ~HasRemoval(t)
    PROVE  FirstRemoval(t) = "none"
BY DEF FirstRemoval, HasRemoval

\* A history that holds a removal keeps its first one when it grows.
LEMMA AppendKeepsFirst ==
    ASSUME NEW t \in Seq(Event), NEW e \in Event, \E i : IsFirst(t, i)
    PROVE  /\ \E i : IsFirst(Append(t, e), i)
           /\ FirstRemoval(Append(t, e)) = FirstRemoval(t)
           /\ HasRemoval(Append(t, e))
<1>1. PICK i : IsFirst(t, i)
  OBVIOUS
<1>2. IsFirst(Append(t, e), i) /\ Append(t, e)[i] = t[i]
  BY <1>1 DEF IsFirst
<1>3. Append(t, e) \in Seq(Event)
  OBVIOUS
<1> QED
  BY <1>1, <1>2, <1>3, FirstRemovalIs DEF HasRemoval, IsFirst

LEMMA AppendRemoval ==
    ASSUME NEW t \in Seq(Event), NEW e \in Removals, ~HasRemoval(t)
    PROVE  /\ \E i : IsFirst(Append(t, e), i)
           /\ FirstRemoval(Append(t, e)) = e
           /\ HasRemoval(Append(t, e))
<1>1. Append(t, e) \in Seq(Event)
  BY DEF Removals, Event
<1>2. IsFirst(Append(t, e), Len(t) + 1) /\ Append(t, e)[Len(t) + 1] = e
  BY DEF IsFirst, HasRemoval
<1> QED
  BY <1>1, <1>2, FirstRemovalIs DEF HasRemoval, IsFirst

LEMMA AppendOther ==
    ASSUME NEW t \in Seq(Event), NEW e \in Event \ Removals, ~HasRemoval(t)
    PROVE  ~HasRemoval(Append(t, e))
BY DEF HasRemoval

-----------------------------------------------------------------------------
(* The inductive invariant.                                                *)

\* A response of the public form carries everything a tombstone clears.
Keyed(row) ==
    /\ row.key # NULL /\ row.hash # NULL /\ row.who # NULL
    /\ row.identity /\ row.answers # {}

Cleared(row) ==
    /\ row.status = "deleted" /\ row.key = NULL /\ row.hash = NULL
    /\ ~row.identity /\ row.answers = {}

RowShape(row) ==
    /\ row.status = "absent" => row.hash = NULL /\ row.code = NULL /\ row.who = NULL
    /\ row.status = "deleted" => Cleared(row)
    /\ row.status = "live" /\ row.who # NULL => row.answers # {}
    /\ row.status = "live" /\ row.code # NULL => Keyed(row)
    /\ row.status = "live" /\ row.hash # NULL => row.hash \in row.answers

\* What the history of a row says of its digests.
History(row, t) ==
    /\ HasRemoval(t) <=> row.status = "deleted"
    /\ HasRemoval(t) => \E i : IsFirst(t, i)
    /\ FirstRemoval(t) \in {"erase", "purge"} => row.who = NULL /\ row.code = NULL
    /\ FirstRemoval(t) = "withdraw" => row.who # NULL

WhoUnique ==
    \A r, o \in Rows : r # o /\ rows[r].who # NULL => rows[o].who # rows[r].who

\* A withdrawal's candidate was a response of the form, and while it is live
\* it still is.
CandidateHolds(s) ==
    sess[s].stage \in {"candidate", "withdraw"} =>
        LET q == sess[s].req
        IN  /\ q.loaded.status = "live" => Keyed(q.loaded)
            /\ rows[q.row].status # "absent"
            /\ rows[q.row].status = "live" => rows[q.row].code # NULL

\* A purge batch holds live responses.
BatchHolds(s) ==
    sess[s].stage = "batch" => sess[s].req.batch \subseteq Live(rows)

HistoryInv ==
    /\ LockInv
    /\ \A r \in Rows : RowShape(rows[r]) /\ History(rows[r], trail[r])
    /\ WhoUnique
    /\ \A s \in Sessions : CandidateHolds(s) /\ BatchHolds(s)

-----------------------------------------------------------------------------
(* The steps of one row: old and new are the row, t and u its history.     *)

Unchanged(old, new, t, u) == new = old /\ u = t

Created(old, new, t, u) ==
    /\ old.status = "absent" /\ new.status = "live" /\ RowShape(new)
    /\ \E e \in {"create", "import"} : u = Append(t, e)

Updated(old, new, t, u) ==
    /\ old.status = "live" /\ new.status = "live" /\ RowShape(new)
    /\ new.who = old.who /\ new.code = old.code
    /\ \E e \in {"phase2", "fill"} : u = Append(t, e)

Removed(old, new, t, u) ==
    /\ old.status = "live" /\ Cleared(new) /\ new.who = NULL /\ new.code = NULL
    /\ \E e \in {"erase", "purge"} : u = Append(t, e)

Withdrawn(old, new, t, u) ==
    /\ old.status \in {"live", "deleted"} /\ Cleared(new)
    /\ new.who = old.who /\ new.code = old.code
    /\ old.status = "live" => old.who # NULL
    /\ u = Append(t, "withdraw")

RowStep(old, new, t, u) ==
    \/ Unchanged(old, new, t, u)
    \/ Created(old, new, t, u)
    \/ Updated(old, new, t, u)
    \/ Removed(old, new, t, u)
    \/ Withdrawn(old, new, t, u)

\* Every step of a row keeps its shape and its history.
LEMMA RowStepKeeps ==
    ASSUME NEW old, NEW new, NEW t \in Seq(Event), NEW u,
           RowStep(old, new, t, u), RowShape(old), History(old, t)
    PROVE  RowShape(new) /\ History(new, u)
<1>1. CASE Unchanged(old, new, t, u)
  BY <1>1 DEF Unchanged
<1>2. CASE Created(old, new, t, u) \/ Updated(old, new, t, u)
  <2>1. PICK e \in Event \ Removals : u = Append(t, e)
    BY <1>2 DEF Created, Updated, Event, Removals
  <2>2. ~HasRemoval(t)
    BY <1>2 DEF Created, Updated, History
  <2>3. ~HasRemoval(u) /\ FirstRemoval(u) = "none"
    BY <2>1, <2>2, AppendOther, NoRemovalIsNone
  <2>4. RowShape(new) /\ new.status = "live"
    BY <1>2 DEF Created, Updated
  <2> QED
    BY <2>3, <2>4 DEF History
<1>3. CASE Removed(old, new, t, u)
  <2>1. PICK e \in {"erase", "purge"} : u = Append(t, e)
    BY <1>3 DEF Removed
  <2>2. ~HasRemoval(t)
    BY <1>3 DEF Removed, History
  <2>3. (\E i : IsFirst(u, i)) /\ FirstRemoval(u) = e /\ HasRemoval(u)
    BY <2>1, <2>2, AppendRemoval DEF Removals
  <2>4. Cleared(new) /\ new.who = NULL /\ new.code = NULL
    BY <1>3 DEF Removed
  <2> QED
    BY <2>3, <2>4 DEF History, RowShape, Cleared
<1>4. CASE Withdrawn(old, new, t, u)
  <2>1. u = Append(t, "withdraw") /\ Cleared(new)
    BY <1>4 DEF Withdrawn
  <2>2. RowShape(new)
    BY <2>1 DEF RowShape, Cleared
  <2>3. CASE old.status = "live"
    <3>1. ~HasRemoval(t)
      BY <2>3 DEF History
    <3>2. (\E i : IsFirst(u, i)) /\ FirstRemoval(u) = "withdraw" /\ HasRemoval(u)
      BY <2>1, <3>1, AppendRemoval DEF Removals
    <3>3. new.who # NULL
      BY <1>4, <2>3 DEF Withdrawn
    <3> QED
      BY <2>1, <2>2, <3>2, <3>3 DEF History, Cleared
  <2>4. CASE old.status = "deleted"
    <3>1. \E i : IsFirst(t, i)
      BY <2>4 DEF History
    <3>2. (\E i : IsFirst(u, i)) /\ FirstRemoval(u) = FirstRemoval(t) /\ HasRemoval(u)
      BY <2>1, <3>1, AppendKeepsFirst DEF Event
    <3> QED
      BY <1>4, <2>1, <2>2, <3>2 DEF History, Cleared, Withdrawn
  <2> QED
    BY <1>4, <2>3, <2>4 DEF Withdrawn
<1> QED
  BY <1>1, <1>2, <1>3, <1>4 DEF RowStep

\* A row that exists stays, and while it is live it keeps its code.
LEMMA RowStepKeepsCandidate ==
    ASSUME NEW old, NEW new, NEW t, NEW u, RowStep(old, new, t, u),
           old.status # "absent"
    PROVE  /\ new.status # "absent"
           /\ new.status = "live" => old.status = "live" /\ new.code = old.code
BY DEF RowStep, Unchanged, Created, Updated, Removed, Withdrawn, Cleared

-----------------------------------------------------------------------------
(* What each handler does to the rows.                                     *)

RowsStep == \A r \in Rows : RowStep(rows[r], rows'[r], trail[r], trail'[r])

\* Only a submission puts a digest on a row.
NoNewWho == \A r \in Rows : rows'[r].who \in {rows[r].who, NULL}

LEMMA NoNewWhoKeepsUnique ==
    ASSUME WhoUnique, NoNewWho
    PROVE  WhoUnique'
BY DEF WhoUnique, NoNewWho

\* A handler that writes one row.
LEMMA OneRowStep ==
    ASSUME TypeOK, NEW r \in Rows, NEW new, NEW e,
           rows' = [rows EXCEPT ![r] = new], trail' = Logged({r}, e),
           RowStep(rows[r], new, trail[r], Append(trail[r], e))
    PROVE  /\ RowsStep
           /\ new.who \in {rows[r].who, NULL} => NoNewWho
<1>1. RowsStep
  BY DEF TypeOK, Logged, RowsStep, RowStep, Unchanged
<1>2. new.who \in {rows[r].who, NULL} => NoNewWho
  BY DEF TypeOK, NoNewWho
<1> QED
  BY <1>1, <1>2

\* Erasure and purge clear live rows.
LEMMA ClearStep ==
    ASSUME TypeOK, NEW S, NEW e \in {"erase", "purge"},
           rows' = TombstoneAll(rows, S), trail' = Logged(Live(rows) \cap S, e)
    PROVE  RowsStep /\ NoNewWho
<1> SUFFICES ASSUME NEW r \in Rows
             PROVE  /\ RowStep(rows[r], rows'[r], trail[r], trail'[r])
                    /\ rows'[r].who \in {rows[r].who, NULL}
  BY DEF RowsStep, NoNewWho
<1>1. CASE r \in Live(rows) \cap S
  <2>1. rows'[r] = Tombstone(rows[r], FALSE) /\ trail'[r] = Append(trail[r], e)
    BY <1>1 DEF TombstoneAll, Logged, Live
  <2>2. Cleared(Tombstone(rows[r], FALSE))
        /\ Tombstone(rows[r], FALSE).who = NULL /\ Tombstone(rows[r], FALSE).code = NULL
    BY DEF TypeOK, Row, Tombstone, Cleared
  <2>3. Removed(rows[r], rows'[r], trail[r], trail'[r])
    BY <1>1, <2>1, <2>2 DEF Removed, Live
  <2> QED
    BY <2>1, <2>2, <2>3 DEF RowStep
<1>2. CASE r \notin Live(rows) \cap S
  BY <1>2 DEF TombstoneAll, Logged, Live, RowStep, Unchanged
<1> QED
  BY <1>1, <1>2

LEMMA SubmitCreateRows ==
    ASSUME HistoryInv, NEW s \in Sessions, NEW r \in Rows, SubmitCreate(s, r)
    PROVE  RowsStep /\ WhoUnique'
<1> DEFINE q == sess[s].req
<1> USE DEF HistoryInv, LockInv
<1>1. /\ rows' = [rows EXCEPT ![r] = NewRow(q)] /\ rows[r].status = "absent"
      /\ trail' = Logged({r}, "create") /\ Unique([rows EXCEPT ![r] = NewRow(q)], r)
  BY DEF SubmitCreate
<1>2. q \in FormRequest
  BY FormSession DEF SubmitCreate, TypeOK
<1>3. <<1, q.body>> \in Submission
  BY <1>2 DEF FormRequest, Submission
<1>4. RowShape(NewRow(q)) /\ NewRow(q).status = "live"
  BY <1>2, <1>3, ConstantsAssumption, NullIsNoSubmission
     DEF NewRow, RowShape, Keyed, FormRequest
<1>5. RowStep(rows[r], NewRow(q), trail[r], Append(trail[r], "create"))
  BY <1>1, <1>4 DEF RowStep, Created
<1>6. RowsStep
  <2> HIDE DEF q
  <2> QED BY <1>1, <1>5, OneRowStep
<1>7. WhoUnique'
  <2>1. NewRow(q).who # NULL
    BY <1>2, ConstantsAssumption DEF NewRow, FormRequest
  <2>2. \A o \in Rows \ {r} : rows'[o] = rows[o] /\ rows[o].who # NewRow(q).who
    BY <1>1, <2>1 DEF Unique, TypeOK
  <2>3. rows'[r] = NewRow(q)
    BY <1>1 DEF TypeOK
  <2> QED
    BY <2>1, <2>2, <2>3 DEF WhoUnique
<1> QED
  BY <1>6, <1>7

LEMMA Phase2CompleteRows ==
    ASSUME HistoryInv, NEW s \in Sessions, NEW r \in Rows, Phase2Complete(s, r)
    PROVE  RowsStep /\ NoNewWho
<1> DEFINE q == sess[s].req
           new == [rows[r] EXCEPT !.answers = rows[r].answers \cup {<<2, q.body>>},
                                  !.key = q.key, !.hash = <<2, q.body>>,
                                  !.at = now, !.expires = ExpiresAt(now)]
<1> USE DEF HistoryInv, LockInv
<1>1. sess[s].seen = rows /\ r \in Live(rows)
  BY DEF Phase2Complete, LockedViewIsCurrent, Phase2Targets
<1>2. q \in FormRequest
  BY FormSession DEF Phase2Complete, TypeOK
<1>3. rows' = [rows EXCEPT ![r] = new] /\ trail' = Logged({r}, "phase2")
  BY <1>1 DEF Phase2Complete, TypeOK
<1>4. /\ new.status = "live" /\ new.who = rows[r].who /\ new.code = rows[r].code
      /\ new.key = q.key /\ new.hash = <<2, q.body>> /\ new.identity = rows[r].identity
      /\ new.answers = rows[r].answers \cup {<<2, q.body>>}
  BY <1>1 DEF TypeOK, Row, Live
<1>5. q.key # NULL /\ <<2, q.body>> # NULL
  BY <1>2, ConstantsAssumption, NullIsNoSubmission DEF FormRequest, Submission
<1>6. RowShape(rows[r]) /\ rows[r].status = "live"
  BY <1>1 DEF Live
<1>7. RowShape(new)
  <2> HIDE DEF new
  <2> QED BY <1>4, <1>5, <1>6 DEF RowShape, Keyed
<1>8. RowStep(rows[r], new, trail[r], Append(trail[r], "phase2"))
  <2> HIDE DEF new
  <2> QED BY <1>4, <1>6, <1>7 DEF RowStep, Updated
<1> QED
  <2> HIDE DEF new
  <2> QED BY <1>3, <1>4, <1>8, OneRowStep

LEMMA WithdrawRows ==
    ASSUME HistoryInv, NEW s \in Sessions, Withdraw(s)
    PROVE  RowsStep /\ NoNewWho
<1> DEFINE q == sess[s].req
           old == rows[q.row]
           tomb == Tombstone(q.loaded, TRUE)
           new == Flush(old, q.loaded, tomb)
<1> USE DEF HistoryInv, LockInv
<1>1. q \in WithdrawRequest
  BY WithdrawSession DEF Withdraw, TypeOK
<1>2. q.row \in Rows /\ q.loaded \in Row /\ old \in Row
  BY <1>1 DEF WithdrawRequest, TypeOK
<1>3. rows' = [rows EXCEPT ![q.row] = new] /\ trail' = Logged({q.row}, "withdraw")
  BY DEF Withdraw
<1>4. Keyed(q.loaded) /\ q.loaded.status = "live"
  BY DEF Withdraw, CandidateHolds
<1>5. old.status # "absent" /\ (old.status = "live" => old.code # NULL)
  BY DEF Withdraw, CandidateHolds
<1>6. /\ tomb.status = "deleted" /\ tomb.key = NULL /\ tomb.hash = NULL
      /\ tomb.identity = FALSE /\ tomb.answers = {}
      /\ tomb.who = q.loaded.who /\ tomb.code = q.loaded.code
  BY <1>2 DEF Tombstone, Row
<1>7. Cleared(new) /\ new.who = old.who /\ new.code = old.code
  <2> HIDE DEF tomb, old
  <2> QED BY <1>4, <1>6 DEF Flush, Written, Cleared, Keyed
<1>8. old.status \in {"live", "deleted"}
  BY <1>2, <1>5 DEF Row
<1>9. old.status = "live" => old.who # NULL
  BY <1>2, <1>5 DEF RowShape, Keyed
<1>10. RowStep(old, new, trail[q.row], Append(trail[q.row], "withdraw"))
  <2> HIDE DEF new, old
  <2> QED BY <1>7, <1>8, <1>9 DEF RowStep, Withdrawn
<1> QED
  <2> HIDE DEF new
  <2> QED BY <1>2, <1>3, <1>7, <1>10, OneRowStep

LEMMA EraseRows ==
    ASSUME HistoryInv, NEW s \in Sessions, Erase(s)
    PROVE  RowsStep /\ NoNewWho
<1>1. sess[s].seen = rows
  BY DEF HistoryInv, LockInv, LockedViewIsCurrent, Erase
<1> QED
  BY <1>1, ClearStep DEF HistoryInv, LockInv, Erase

LEMMA PurgeRows ==
    ASSUME HistoryInv, NEW s \in Sessions, PurgeBatch(s)
    PROVE  RowsStep /\ NoNewWho
<1>1. sess[s].req.batch = Live(rows) \cap sess[s].req.batch
  BY DEF HistoryInv, BatchHolds, PurgeBatch, Purge
<1>2. /\ rows' = TombstoneAll(rows, sess[s].req.batch)
      /\ trail' = Logged(Live(rows) \cap sess[s].req.batch, "purge")
  BY <1>1 DEF PurgeBatch, Purge
<1> QED
  BY <1>2, ClearStep DEF HistoryInv, LockInv

LEMMA ImportRows ==
    ASSUME HistoryInv, NEW s \in Sessions, ImportInsert(s) \/ ImportFill(s)
    PROVE  RowsStep /\ NoNewWho
<1> DEFINE q == sess[s].req
<1> USE DEF HistoryInv, LockInv
<1>1. sess[s].seen = rows /\ q.target \in Rows
  BY ImportSession DEF ImportInsert, ImportFill, FillOneOf, TypeOK, ImportRequest,
     LockedViewIsCurrent
<1>2. CASE ImportInsert(s)
  <2> DEFINE new == [Absent EXCEPT !.status = "live", !.answers = SheetAnswers(q),
                                   !.at = q.at, !.expires = ExpiresAt(q.at)]
  <2>1. rows' = [rows EXCEPT ![q.target] = new] /\ trail' = Logged({q.target}, "import")
        /\ rows[q.target].status = "absent"
    BY <1>2 DEF ImportInsert
  <2>2. RowShape(new) /\ new.status = "live" /\ new.who = NULL
    BY DEF Absent, RowShape
  <2>3. RowStep(rows[q.target], new, trail[q.target], Append(trail[q.target], "import"))
    BY <2>1, <2>2 DEF RowStep, Created
  <2> QED
    <3> HIDE DEF new
    <3> QED BY <1>1, <2>1, <2>2, <2>3, OneRowStep
<1>3. CASE ImportFill(s)
  <2> DEFINE old == rows[q.target]
             fill == {a \in SheetAnswers(q) : \A b \in old.answers : b[1] # a[1]}
             new == [old EXCEPT !.answers = old.answers \cup fill]
  <2>1. rows' = [rows EXCEPT ![q.target] = new] /\ trail' = Logged({q.target}, "fill")
        /\ old.status = "live"
    BY <1>1, <1>3 DEF ImportFill, FillOneOf, Live, TypeOK
  <2>2. /\ new.status = old.status /\ new.who = old.who /\ new.code = old.code
        /\ new.key = old.key /\ new.hash = old.hash /\ new.identity = old.identity
        /\ new.answers = old.answers \cup fill
    BY <1>1 DEF TypeOK, Row
  <2>3. RowShape(old)
    BY <1>1
  <2>4. RowShape(new)
    <3> HIDE DEF new, old, fill
    <3> QED BY <2>1, <2>2, <2>3 DEF RowShape, Keyed
  <2>5. RowStep(old, new, trail[q.target], Append(trail[q.target], "fill"))
    <3> HIDE DEF new, old, fill
    <3> QED BY <2>1, <2>2, <2>4 DEF RowStep, Updated
  <2> QED
    <3> HIDE DEF new
    <3> QED BY <1>1, <2>1, <2>2, <2>5, OneRowStep
<1> QED
  BY <1>2, <1>3


-----------------------------------------------------------------------------
(* From the rows to the invariant.                                         *)

\* A writer: it holds the lock, so no other session has a batch, and what it
\* does to a row leaves every candidate a row that was a response of the form.
LEMMA WriteStep ==
    ASSUME HistoryInv, LockInv', RowsStep, WhoUnique', NEW s \in Sessions, NEW x,
           sess[s].stage \in LockedStage, sess' = [sess EXCEPT ![s] = x],
           x.stage \notin {"candidate", "withdraw", "batch"}
    PROVE  HistoryInv'
<1>1. TypeOK
  BY DEF HistoryInv, LockInv
<1>2. ASSUME NEW r \in Rows PROVE RowShape(rows'[r]) /\ History(rows'[r], trail'[r])
  BY <1>1, RowStepKeeps DEF HistoryInv, TypeOK, RowsStep
<1>3. sess'[s] = x /\ \A t \in Sessions \ {s} : sess'[t] = sess[t]
  BY <1>1 DEF TypeOK
<1>4. ASSUME NEW t \in Sessions PROVE BatchHolds(t)'
  <2>1. t # s => sess[t].stage # "batch"
    BY DEF HistoryInv, LockInv, HolderIsLocked, LockedStage
  <2> QED
    BY <1>3, <2>1 DEF BatchHolds
<1>5. ASSUME NEW t \in Sessions PROVE CandidateHolds(t)'
  <2>1. CASE t = s
    BY <1>3, <2>1 DEF CandidateHolds
  <2>2. CASE t # s /\ sess[t].stage \in {"candidate", "withdraw"}
    <3> DEFINE q == sess[t].req
    <3>1. q.row \in Rows
      BY <1>1, <2>2, WithdrawSession DEF TypeOK, WithdrawRequest
    <3>2. /\ q.loaded.status = "live" => Keyed(q.loaded)
          /\ rows[q.row].status # "absent"
          /\ rows[q.row].status = "live" => rows[q.row].code # NULL
      BY <2>2 DEF HistoryInv, CandidateHolds
    <3>3. /\ rows'[q.row].status # "absent"
          /\ rows'[q.row].status = "live" => rows'[q.row].code # NULL
      BY <3>1, <3>2, RowStepKeepsCandidate DEF RowsStep
    <3> QED
      BY <1>3, <2>2, <3>2, <3>3 DEF CandidateHolds
  <2>3. CASE t # s /\ sess[t].stage \notin {"candidate", "withdraw"}
    BY <1>3, <2>3 DEF CandidateHolds
  <2> QED
    BY <2>1, <2>2, <2>3
<1> QED
  BY <1>2, <1>4, <1>5 DEF HistoryInv

\* A step that writes no row and moves one session.
LEMMA ReadStep ==
    ASSUME HistoryInv, LockInv', UNCHANGED <<rows, trail>>, NEW s \in Sessions,
           NEW x, sess' = [sess EXCEPT ![s] = x],
           CandidateHolds(s)', BatchHolds(s)'
    PROVE  HistoryInv'
<1>1. \A t \in Sessions \ {s} : sess'[t] = sess[t]
  BY DEF HistoryInv, LockInv, TypeOK
<1>2. ASSUME NEW t \in Sessions PROVE CandidateHolds(t)' /\ BatchHolds(t)'
  BY <1>1 DEF HistoryInv, CandidateHolds, BatchHolds
<1>3. WhoUnique'
  BY DEF HistoryInv, WhoUnique
<1> QED
  BY <1>2, <1>3 DEF HistoryInv

\* A session that goes where nothing is asked of it.
LEMMA QuietStep ==
    ASSUME HistoryInv, LockInv', UNCHANGED <<rows, trail>>, NEW s \in Sessions,
           NEW x, sess' = [sess EXCEPT ![s] = x],
           x.stage \notin {"candidate", "withdraw", "batch"}
    PROVE  HistoryInv'
<1>1. sess'[s] = x
  BY DEF HistoryInv, LockInv, TypeOK
<1>2. CandidateHolds(s)' /\ BatchHolds(s)'
  BY <1>1 DEF CandidateHolds, BatchHolds
<1> QED
  BY <1>2, ReadStep

LEMMA FinishWriteStep ==
    ASSUME HistoryInv, LockInv', RowsStep, WhoUnique', NEW s \in Sessions,
           sess[s].stage \in LockedStage, Release(s)
    PROVE  HistoryInv'
<1>1. Idle.stage \notin {"candidate", "withdraw", "batch"}
  BY DEF Idle
<1> QED
  BY <1>1, WriteStep DEF Release

\* Without responses, every row has its (empty) history.
THEOREM InitHistoryInv == Init => HistoryInv
<1> SUFFICES ASSUME Init PROVE HistoryInv
  OBVIOUS
<1>1. ASSUME NEW r \in Rows PROVE RowShape(rows[r]) /\ History(rows[r], trail[r])
  <2>1. rows[r] = Absent /\ trail[r] = <<>>
    BY DEF Init
  <2>2. ~HasRemoval(trail[r]) /\ FirstRemoval(trail[r]) = "none"
    BY <2>1, NoRemovalIsNone DEF HasRemoval
  <2> QED
    BY <2>1, <2>2 DEF Absent, RowShape, History
<1>2. WhoUnique
  BY DEF Init, WhoUnique, Absent
<1>3. \A s \in Sessions : CandidateHolds(s) /\ BatchHolds(s)
  BY DEF Init, Idle, CandidateHolds, BatchHolds
<1> QED
  BY <1>1, <1>2, <1>3, InitLockInv DEF HistoryInv

\* Every handler keeps shape and history of every row.
THEOREM NextHistoryInv == HistoryInv /\ [Next]_vars => HistoryInv'
<1> SUFFICES ASSUME HistoryInv, [Next]_vars PROVE HistoryInv'
  OBVIOUS
<1>0. LockInv' /\ TypeOK /\ WhoUnique
  BY NextLockInv DEF HistoryInv, LockInv
<1>1. ASSUME NEW s \in Sessions, NEW r \in Rows, SubmitCreate(s, r)
      PROVE  HistoryInv'
  <2>1. sess[s].stage \in LockedStage /\ Release(s)
    BY <1>1 DEF SubmitCreate, LockedStage
  <2> QED
    BY <1>0, <1>1, <2>1, SubmitCreateRows, FinishWriteStep
<1>2. ASSUME NEW s \in Sessions, NEW r \in Rows, Phase2Complete(s, r)
      PROVE  HistoryInv'
  <2>1. sess[s].stage \in LockedStage /\ Release(s)
    BY <1>2 DEF Phase2Complete, LockedStage
  <2> QED
    BY <1>0, <1>2, <2>1, Phase2CompleteRows, NoNewWhoKeepsUnique, FinishWriteStep
<1>3. ASSUME NEW s \in Sessions,
             Withdraw(s) \/ Erase(s) \/ ImportInsert(s) \/ ImportFill(s)
      PROVE  HistoryInv'
  <2>1. sess[s].stage \in LockedStage /\ Release(s)
    BY <1>3 DEF Withdraw, Erase, ImportInsert, ImportFill, FillOneOf, LockedStage
  <2>2. RowsStep /\ NoNewWho
    BY <1>3, WithdrawRows, EraseRows, ImportRows
  <2> QED
    BY <1>0, <2>1, <2>2, NoNewWhoKeepsUnique, FinishWriteStep
<1>4. ASSUME NEW s \in Sessions, PurgeBatch(s)
      PROVE  HistoryInv'
  <2> DEFINE x == [stage |-> "purge",
                   count |-> Cardinality(Live(TombstoneAll(rows, sess[s].req.batch))),
                   req |-> [cutoff |-> sess[s].req.cutoff, batch |-> {}]]
  <2>1. sess' = [sess EXCEPT ![s] = x] /\ sess[s].stage \in LockedStage
    BY <1>4 DEF PurgeBatch, Purge, LockedStage
  <2>2. x.stage \notin {"candidate", "withdraw", "batch"}
    OBVIOUS
  <2>3. RowsStep /\ WhoUnique'
    BY <1>0, <1>4, PurgeRows, NoNewWhoKeepsUnique
  <2> HIDE DEF x
  <2> QED
    BY <1>0, <2>1, <2>2, <2>3, WriteStep
<1>5. ASSUME NEW s \in Sessions, NEW r \in Rows, NEW c \in Codes, FindCandidate(s, r, c)
      PROVE  HistoryInv'
  <2> DEFINE x == [stage |-> "candidate",
                   req |-> [row |-> r, code |-> c, loaded |-> rows[r]]]
  <2>1. sess' = [sess EXCEPT ![s] = x] /\ UNCHANGED <<rows, trail>>
    BY <1>5 DEF FindCandidate
  <2>2. rows[r].code # NULL /\ RowShape(rows[r])
    BY <1>5, ConstantsAssumption DEF FindCandidate, HistoryInv
  <2>3. rows[r].status # "absent" /\ (rows[r].status = "live" => Keyed(rows[r]))
    BY <2>2 DEF RowShape
  <2>4. sess'[s] = x
    BY <1>0, <2>1 DEF TypeOK
  <2>5. CandidateHolds(s)' /\ BatchHolds(s)'
    BY <2>1, <2>2, <2>3, <2>4 DEF CandidateHolds, BatchHolds, Keyed
  <2> HIDE DEF x
  <2> QED
    BY <1>0, <2>1, <2>5, ReadStep
<1>6. ASSUME NEW s \in Sessions, LockCandidate(s)
      PROVE  HistoryInv'
  <2> DEFINE x == [stage |-> "withdraw", req |-> sess[s].req]
  <2>1. /\ sess' = [sess EXCEPT ![s] = x] /\ UNCHANGED <<rows, trail>>
        /\ sess[s].stage = "candidate"
    BY <1>6 DEF LockCandidate, Acquire
  <2>2. sess'[s] = x
    BY <1>0, <2>1 DEF TypeOK
  <2>3. CandidateHolds(s)' /\ BatchHolds(s)'
    BY <2>1, <2>2 DEF HistoryInv, CandidateHolds, BatchHolds, Keyed
  <2> HIDE DEF x
  <2> QED
    BY <1>0, <2>1, <2>3, ReadStep
<1>7. ASSUME NEW s \in Sessions, NEW B \in SUBSET Rows, LockBatch(s, B)
      PROVE  HistoryInv'
  <2> DEFINE x == [stage |-> "batch",
                   req |-> [cutoff |-> sess[s].req.cutoff, batch |-> B],
                   count |-> IF sess[s].count = NULL THEN survey.responses_count
                                                     ELSE sess[s].count]
  <2>1. sess' = [sess EXCEPT ![s] = x]
    BY <1>7 DEF LockBatch, Acquire
  <2>2. UNCHANGED <<rows, trail>> /\ B \subseteq Live(rows)
    BY <1>7 DEF LockBatch, Acquire, Due
  <2>3. sess'[s] = x
    BY <1>0, <2>1 DEF TypeOK
  <2>4. CandidateHolds(s)' /\ BatchHolds(s)'
    BY <2>1, <2>2, <2>3 DEF CandidateHolds, BatchHolds
  <2> HIDE DEF x
  <2> QED
    BY <1>0, <2>1, <2>2, <2>4, ReadStep
<1>8. ASSUME NEW s \in Sessions,
             \/ SubmitReplay(s) \/ SubmitReject(s) \/ Phase2Replay(s) \/ Phase2Reject(s)
             \/ WithdrawRepeat(s) \/ EraseReject(s) \/ ImportNothing(s)
             \/ EndPurge(s) \/ Crash(s)
      PROVE  HistoryInv'
  <2>1. UNCHANGED <<rows, trail>> /\ sess' = [sess EXCEPT ![s] = Idle]
    BY <1>8 DEF SubmitReplay, SubmitReject, Phase2Replay, Phase2Reject,
       WithdrawRepeat, EraseReject, ImportNothing, EndPurge, Crash, Release
  <2> QED
    BY <1>0, <2>1, QuietStep DEF Idle
<1>9. ASSUME NEW s \in Sessions, NEW from, NEW x, Acquire(s, from, x),
             x.stage \in {"submit", "phase2", "erase", "import"}
      PROVE  HistoryInv'
  BY <1>0, <1>9, QuietStep DEF Acquire
<1>10. ASSUME NEW s \in Sessions,
              \/ \E q \in FormRequest : BeginSubmit(s, q) \/ BeginPhase2(s, q)
              \/ \E q : BeginErase(s, q) \/ BeginImport(s, q)
       PROVE  HistoryInv'
  <2>1. ASSUME NEW q, BeginSubmit(s, q) \/ BeginPhase2(s, q) PROVE HistoryInv'
    BY <1>9, <2>1 DEF BeginSubmit, BeginPhase2
  <2>2. ASSUME NEW q, BeginErase(s, q) \/ BeginImport(s, q) PROVE HistoryInv'
    BY <1>9, <2>2 DEF BeginErase, BeginImport
  <2> QED
    BY <1>10, <2>1, <2>2
<1>11. ASSUME NEW s \in Sessions, NEW cutoff, StartPurge(s, cutoff)
       PROVE  HistoryInv'
  BY <1>0, <1>11, QuietStep DEF StartPurge
<1>12. CASE Managing \/ Tick \/ UNCHANGED vars
  <2>1. UNCHANGED <<rows, trail, sess>>
    BY <1>12 DEF vars, Managing, UpdateStatus, UpdatePolicy, Archive, Restore, Tick
  <2> QED
    BY <1>0, <2>1 DEF HistoryInv, WhoUnique, CandidateHolds, BatchHolds
<1> QED
  BY <1>1, <1>2, <1>3, <1>4, <1>5, <1>6, <1>7, <1>8,
     <1>10, <1>11, <1>12
     DEF Next, Submitting, Completing, Withdrawing, Erasing, Importing, Purging

-----------------------------------------------------------------------------
(* What the invariant gives.                                               *)

\* Whatever order withdrawals, erasures and purges come in, also when a
\* withdrawal writes over a row that was removed after it had been read, a
\* tombstone keeps nothing of the respondent but a withdrawal's two digests.
THEOREM TombstonesStayClean == Spec => []TombstonesAreClean
<1>1. HistoryInv => TombstonesAreClean
  BY DEF HistoryInv, RowShape, Cleared, History, TombstonesAreClean
<1> QED
  BY <1>1, InitHistoryInv, NextHistoryInv, PTL DEF Spec

\* A respondent who withdrew never has a live response again, for any number
\* of rows, sessions and codes.
THEOREM WithdrawalBars == Spec => []WithdrawnStaysBarred
<1>1. HistoryInv => WithdrawnStaysBarred
  <2> SUFFICES ASSUME HistoryInv, NEW r \in Rows, FirstRemoval(trail[r]) = "withdraw"
               PROVE  /\ rows[r].who # NULL
                      /\ \A o \in Live(rows) : rows[o].who # rows[r].who
    BY DEF WithdrawnStaysBarred
  <2>1. HasRemoval(trail[r])
    BY NoRemovalIsNone
  <2>2. rows[r].status = "deleted" /\ rows[r].who # NULL
    BY <2>1 DEF HistoryInv, History
  <2> QED
    BY <2>2 DEF HistoryInv, WhoUnique, Live
<1> QED
  BY <1>1, InitHistoryInv, NextHistoryInv, PTL DEF Spec

Stored(a) ==
    \E r \in Rows : /\ rows[r].status = "live" /\ rows[r].who = a.who
                   /\ <<a.phase, a.body>> \in rows[r].answers

\* The four endings that acknowledge.
LEMMA CreateStores ==
    ASSUME TypeOK, NEW s \in Sessions, NEW r \in Rows, SubmitCreate(s, r)
    PROVE  \A a \in acked' \ acked : Stored(a)'
<1>1. rows'[r] = NewRow(sess[s].req)
  BY DEF SubmitCreate, TypeOK
<1>2. ASSUME NEW a \in acked' \ acked
      PROVE  a.who = sess[s].req.who /\ a.phase = 1 /\ a.body = sess[s].req.body
  BY DEF SubmitCreate, Acknowledge
<1> QED
  BY <1>1, <1>2 DEF Stored, NewRow

LEMMA CompleteStores ==
    ASSUME HistoryInv, NEW s \in Sessions, NEW r \in Rows, Phase2Complete(s, r)
    PROVE  \A a \in acked' \ acked : Stored(a)'
<1> DEFINE q == sess[s].req
<1>1. sess[s].seen = rows /\ r \in Live(rows) /\ rows[r].who = q.who /\ rows[r] \in Row
  BY DEF HistoryInv, LockInv, TypeOK, LockedViewIsCurrent, Phase2Complete, Phase2Targets
<1>2. rows'[r] = [rows[r] EXCEPT !.answers = rows[r].answers \cup {<<2, q.body>>},
                                 !.key = q.key, !.hash = <<2, q.body>>,
                                 !.at = now, !.expires = ExpiresAt(now)]
  BY <1>1 DEF Phase2Complete, HistoryInv, LockInv, TypeOK
<1>3. rows'[r].status = "live" /\ rows'[r].who = q.who /\ <<2, q.body>> \in rows'[r].answers
  BY <1>1, <1>2 DEF Row, Live
<1>4. ASSUME NEW a \in acked' \ acked
      PROVE  a.who = q.who /\ a.phase = 2 /\ a.body = q.body
  BY DEF Phase2Complete, Acknowledge
<1> QED
  BY <1>3, <1>4 DEF Stored

LEMMA ReplayStored ==
    ASSUME HistoryInv, NEW s \in Sessions, SubmitReplay(s) \/ Phase2Replay(s)
    PROVE  \A a \in acked' \ acked : Stored(a)'
<1> DEFINE q == sess[s].req
           p == IF sess[s].stage = "submit" THEN 1 ELSE 2
<1>1. sess[s].seen = rows /\ rows' = rows /\ q \in FormRequest
  BY FormSession DEF HistoryInv, LockInv, TypeOK, LockedViewIsCurrent, SubmitReplay, Phase2Replay
<1>2. PICK r \in Rows : rows[r].who = q.who /\ rows[r].hash = <<p, q.body>>
  BY <1>1 DEF SubmitReplay, Phase2Replay, SubmitReplays, Phase2Replays, Live
<1>3. <<p, q.body>> # NULL
  BY <1>1, NullIsNoSubmission DEF FormRequest, Submission
<1>4. rows[r].status = "live" /\ <<p, q.body>> \in rows[r].answers
  <2> HIDE DEF p, q
  <2>1. RowShape(rows[r]) /\ rows[r].status \in {"absent", "live", "deleted"}
    BY DEF HistoryInv, LockInv, TypeOK, Row
  <2> QED
    BY <1>2, <1>3, <2>1 DEF RowShape, Cleared
<1>5. ASSUME NEW a \in acked' \ acked
      PROVE  a.who = q.who /\ a.phase = p /\ a.body = q.body
  BY DEF SubmitReplay, Phase2Replay, Acknowledge
<1> QED
  <2> HIDE DEF p, q
  <2> QED BY <1>1, <1>2, <1>4, <1>5 DEF Stored

\* A submission is acknowledged, by its first ending or by any replay, only
\* when the respondent's live response holds exactly the body sent.
THEOREM AcknowledgedIsStored == Spec => AckMeansStored
<1>1. HistoryInv /\ [Next]_vars =>
        [\A a \in acked' \ acked :
            \E r \in Rows : /\ rows'[r].status = "live" /\ rows'[r].who = a.who
                           /\ <<a.phase, a.body>> \in rows'[r].answers]_vars
  <2> SUFFICES ASSUME HistoryInv, [Next]_vars
               PROVE  \A a \in acked' \ acked : Stored(a)'
    BY DEF Stored
  <2>1. CASE \E s \in Sessions : \/ \E r \in Rows : SubmitCreate(s, r) \/ Phase2Complete(s, r)
                                 \/ SubmitReplay(s) \/ Phase2Replay(s)
    BY <2>1, CreateStores, CompleteStores, ReplayStored DEF HistoryInv, LockInv
  <2>2. CASE acked' = acked
    BY <2>2
  <2>3. ASSUME NEW s \in Sessions,
               \/ \E q : BeginSubmit(s, q) \/ BeginPhase2(s, q) \/ BeginErase(s, q)
                         \/ BeginImport(s, q)
               \/ LockCandidate(s) \/ (\E B \in SUBSET Rows : LockBatch(s, B))
        PROVE  acked' = acked
    BY <2>3 DEF BeginSubmit, BeginPhase2, BeginErase, BeginImport, LockCandidate,
       LockBatch, Acquire
  <2>4. ASSUME NEW s \in Sessions,
               \/ SubmitReject(s) \/ Phase2Reject(s) \/ WithdrawRepeat(s)
               \/ \E r \in Rows, c \in Codes : FindCandidate(s, r, c)
               \/ Withdraw(s) \/ Erase(s) \/ EraseReject(s) \/ ImportInsert(s)
               \/ ImportFill(s) \/ ImportNothing(s) \/ (\E cutoff : StartPurge(s, cutoff))
               \/ PurgeBatch(s) \/ EndPurge(s) \/ Crash(s)
        PROVE  acked' = acked
    BY <2>4 DEF SubmitReject, Phase2Reject, WithdrawRepeat, FindCandidate, Withdraw,
       Erase, EraseReject, ImportInsert, ImportFill, FillOneOf, ImportNothing,
       StartPurge, PurgeBatch, Purge, EndPurge, Crash
  <2>5. CASE Managing \/ Tick \/ UNCHANGED vars
    BY <2>5 DEF vars, Managing, UpdateStatus, UpdatePolicy, Archive, Restore, Tick
  <2> QED
    BY <2>1, <2>2, <2>3, <2>4, <2>5
       DEF Next, Submitting, Completing, Withdrawing, Erasing, Importing, Purging
<1> QED
  BY <1>1, InitHistoryInv, NextHistoryInv, PTL DEF Spec, AckMeansStored

-----------------------------------------------------------------------------
(* What the form shows, and what a receipt reports.                        *)

\* What a respondent's row, if there is one, means to the three handlers.
LEMMA HandlersReadOneRow ==
    ASSUME HistoryInv, NEW q \in FormRequest, NEW r \in Rows, rows[r].who = q.who
    PROVE  /\ ~SubmitAccepts(rows, q)
           /\ {o \in Rows : rows[o].who = q.who} = {r}
           /\ rows[r].status = "live" => rows[r].answers # {}
           /\ rows[r].status \in {"live", "deleted"}
<1>1. q.who # NULL
  BY ConstantsAssumption DEF FormRequest
<1>2. rows[r] \in Row /\ RowShape(rows[r])
  BY DEF HistoryInv, LockInv, TypeOK
<1> QED
  BY <1>1, <1>2 DEF HistoryInv, WhoUnique, SubmitAccepts, RowShape, Row

\* GET, POST and PATCH agree on what a respondent may do next, for every
\* number of rows and respondents.
THEOREM FormAgreesWithHandlers == Spec => []FormMatchesHandlers
<1>1. HistoryInv => FormMatchesHandlers
  <2> SUFFICES ASSUME HistoryInv, NEW q \in FormRequest,
                      \A r \in Rows : rows[r].key # q.key
               PROVE  /\ (CollectionState(rows, q.who) = "phase1") <=> SubmitAccepts(rows, q)
                      /\ TwoPhase => (CollectionState(rows, q.who) = "phase2")
                                        <=> (Phase2Targets(rows, q) # {})
    BY DEF FormMatchesHandlers
  <2>1. CASE \A r \in Rows : rows[r].who # q.who
    <3>1. SubmitAccepts(rows, q) /\ Phase2Targets(rows, q) = {}
      BY <2>1 DEF SubmitAccepts, Phase2Targets, Live
    <3>2. CollectionState(rows, q.who) = "phase1"
      BY <2>1 DEF CollectionState
    <3> QED
      BY <3>1, <3>2
  <2>2. ASSUME NEW r \in Rows, rows[r].who = q.who
        PROVE  /\ (CollectionState(rows, q.who) = "phase1") <=> SubmitAccepts(rows, q)
               /\ TwoPhase => (CollectionState(rows, q.who) = "phase2")
                                 <=> (Phase2Targets(rows, q) # {})
    <3>1. /\ ~SubmitAccepts(rows, q) /\ {o \in Rows : rows[o].who = q.who} = {r}
          /\ rows[r].status = "live" => rows[r].answers # {}
          /\ rows[r].status \in {"live", "deleted"}
      BY <2>2, HandlersReadOneRow
    <3>2. CollectionState(rows, q.who) =
            IF rows[r].status = "deleted" THEN "withdrawn"
            ELSE IF Completed(rows[r]) \/ ~TwoPhase THEN "completed" ELSE "phase2"
      <4> DEFINE mine == {o \in Rows : rows[o].who = q.who}
      <4>1. mine = {r} /\ mine # {}
        BY <3>1
      <4>2. /\ (\E o \in mine : rows[o].status = "deleted") <=> rows[r].status = "deleted"
            /\ (\E o \in mine : rows[o].status = "live" /\ (Completed(rows[o]) \/ ~TwoPhase))
                  <=> rows[r].status = "live" /\ (Completed(rows[r]) \/ ~TwoPhase)
            /\ (\E o \in mine : rows[o].answers # {}) <=> rows[r].answers # {}
        BY <4>1
      <4> QED
        BY <3>1, <4>1, <4>2 DEF CollectionState
    <3>3. Phase2Targets(rows, q) # {} <=> rows[r].status = "live" /\ ~Completed(rows[r])
      BY <3>1 DEF Phase2Targets, Live
    <3> QED
      BY <3>1, <3>2, <3>3
  <2> QED
    BY <2>1, <2>2
<1> QED
  BY <1>1, InitHistoryInv, NextHistoryInv, PTL DEF Spec

\* What an erasure leaves live.
LEMMA TombstoneAllLive ==
    ASSUME TypeOK, NEW S
    PROVE  Live(TombstoneAll(rows, S)) = Live(rows) \ S
<1>1. ASSUME NEW r \in Rows
      PROVE  TombstoneAll(rows, S)[r].status = "live"
                <=> rows[r].status = "live" /\ r \notin S
  BY DEF TombstoneAll, Tombstone, TypeOK, Row
<1> QED
  BY <1>1 DEF Live

\* What one step does to the receipt of a key.
ReceiptStep(k) ==
    receipts'[k] # receipts[k] =>
        /\ receipts[k] = NULL
        /\ receipts'[k].erased = Cardinality(Live(rows) \ Live(rows'))
        /\ receipts'[k].request.scope = "all" =>
              /\ receipts'[k].erased = receipts'[k].request.expected
              /\ Live(rows') = {}

LEMMA EraseReceipt ==
    ASSUME LockInv, NEW s \in Sessions, Erase(s), NEW k \in AdminKeys
    PROVE  ReceiptStep(k)
<1> DEFINE q == sess[s].req
           S == Live(rows) \cap ErasedBy(rows, q)
           written == [request |-> q, erased |-> Cardinality(S)]
<1>1. sess[s].seen = rows /\ TypeOK
  BY DEF LockInv, LockedViewIsCurrent, Erase
<1>2. /\ receipts[q.key] = NULL /\ EraseAccepts(rows, q)
      /\ receipts' = [receipts EXCEPT ![q.key] = written]
      /\ rows' = TombstoneAll(rows, ErasedBy(rows, q))
  BY <1>1 DEF Erase
<1>3. Live(rows') = Live(rows) \ ErasedBy(rows, q)
  BY <1>1, <1>2, TombstoneAllLive
<1>4. Live(rows) \ Live(rows') = S
  BY <1>3
<1>5. q.scope = "all" => q.expected = Cardinality(S) /\ Live(rows') = {}
  <2> SUFFICES ASSUME q.scope = "all"
               PROVE  q.expected = Cardinality(S) /\ Live(rows') = {}
    OBVIOUS
  <2>1. Live(rows) \subseteq ErasedBy(rows, q)
    BY DEF ErasedBy, Live
  <2>2. S = Live(rows) /\ Live(rows') = {}
    BY <1>3, <2>1
  <2> QED
    BY <1>2, <2>2 DEF EraseAccepts
<1>6. CASE k = q.key
  <2>1. receipts'[k] = written
    BY <1>1, <1>2, <1>6 DEF TypeOK
  <2> QED
    BY <1>2, <1>4, <1>5, <1>6, <2>1 DEF ReceiptStep
<1>7. CASE k # q.key
  BY <1>1, <1>2, <1>7 DEF TypeOK, ReceiptStep
<1> QED
  BY <1>6, <1>7

\* Every step but a successful erasure leaves the receipts alone.
LEMMA OthersKeepReceipts ==
    ASSUME [Next]_vars, \A s \in Sessions : ~Erase(s)
    PROVE  receipts' = receipts
<1>1. ASSUME NEW s \in Sessions,
             \/ \E q : BeginSubmit(s, q) \/ BeginPhase2(s, q) \/ BeginErase(s, q)
                       \/ BeginImport(s, q)
             \/ LockCandidate(s) \/ (\E B \in SUBSET Rows : LockBatch(s, B))
      PROVE  receipts' = receipts
  BY <1>1 DEF BeginSubmit, BeginPhase2, BeginErase, BeginImport, LockCandidate,
     LockBatch, Acquire
<1>2. ASSUME NEW s \in Sessions,
             \/ \E r \in Rows : SubmitCreate(s, r) \/ Phase2Complete(s, r)
             \/ SubmitReplay(s) \/ Phase2Replay(s) \/ SubmitReject(s) \/ Phase2Reject(s)
             \/ \E r \in Rows, c \in Codes : FindCandidate(s, r, c)
             \/ Withdraw(s) \/ WithdrawRepeat(s) \/ EraseReject(s) \/ ImportInsert(s)
             \/ ImportFill(s) \/ ImportNothing(s) \/ (\E cutoff : StartPurge(s, cutoff))
             \/ PurgeBatch(s) \/ EndPurge(s) \/ Crash(s)
      PROVE  receipts' = receipts
  BY <1>2 DEF SubmitCreate, Phase2Complete, SubmitReplay, Phase2Replay, SubmitReject,
     Phase2Reject, WithdrawRepeat, FindCandidate, Withdraw, EraseReject, ImportInsert,
     ImportFill, FillOneOf, ImportNothing, StartPurge, PurgeBatch, Purge, EndPurge, Crash
<1>3. CASE Managing \/ Tick \/ UNCHANGED vars
  BY <1>3 DEF vars, Managing, UpdateStatus, UpdatePolicy, Archive, Restore, Tick
<1> QED
  BY <1>1, <1>2, <1>3
     DEF Next, Submitting, Completing, Withdrawing, Erasing, Importing, Purging

\* A receipt is written once and reports exactly what its erasure erased, for
\* every number of rows and sessions: no other handler ran between the count
\* the administrator confirmed and the erasure.
THEOREM ReceiptsReportErasures == Spec => ReceiptsMatchErasures
<1>1. LockInv /\ [Next]_vars =>
        [\A k \in AdminKeys : receipts'[k] # receipts[k] =>
            /\ receipts[k] = NULL
            /\ receipts'[k].erased = Cardinality(Live(rows) \ Live(rows'))
            /\ receipts'[k].request.scope = "all" =>
                  /\ receipts'[k].erased = receipts'[k].request.expected
                  /\ Live(rows') = {}]_vars
  <2> SUFFICES ASSUME LockInv, [Next]_vars, NEW k \in AdminKeys PROVE ReceiptStep(k)
    BY DEF ReceiptStep
  <2>1. CASE \E s \in Sessions : Erase(s)
    BY <2>1, EraseReceipt
  <2>2. CASE \A s \in Sessions : ~Erase(s)
    BY <2>2, OthersKeepReceipts DEF ReceiptStep
  <2> QED
    BY <2>1, <2>2
<1> QED
  BY <1>1, InitLockInv, NextLockInv, PTL DEF Spec, ReceiptsMatchErasures

-----------------------------------------------------------------------------
(* The purge and the clock.                                                *)

\* The batch of a purge is due at its cutoff as long as the purge holds the
\* lock.
PurgeHolds(s) ==
    sess[s].stage = "batch" => sess[s].req.batch \subseteq Due(rows, sess[s].req.cutoff)

PurgeInv == LockInv /\ \A s \in Sessions : PurgeHolds(s)

\* One session moves; it writes rows only while it holds the lock.
LEMMA MoveKeepsPurges ==
    ASSUME PurgeInv, NEW s \in Sessions, NEW x, sess' = [sess EXCEPT ![s] = x],
           now' = now, rows' = rows \/ sess[s].stage \in LockedStage, PurgeHolds(s)'
    PROVE  \A t \in Sessions : PurgeHolds(t)'
<1> SUFFICES ASSUME NEW t \in Sessions, t # s PROVE PurgeHolds(t)'
  OBVIOUS
<1>1. sess'[t] = sess[t]
  BY DEF PurgeInv, LockInv, TypeOK
<1>2. sess[t].stage = "batch" => rows' = rows
  BY DEF PurgeInv, LockInv, HolderIsLocked, LockedStage
<1> QED
  BY <1>1, <1>2 DEF PurgeInv, PurgeHolds

\* ... and is no purge afterwards.
LEMMA OtherMoveKeepsPurges ==
    ASSUME PurgeInv, NEW s \in Sessions, NEW x, sess' = [sess EXCEPT ![s] = x],
           now' = now, rows' = rows \/ sess[s].stage \in LockedStage,
           x.stage \notin {"purge", "batch"}
    PROVE  \A t \in Sessions : PurgeHolds(t)'
<1>1. sess'[s] = x
  BY DEF PurgeInv, LockInv, TypeOK
<1>2. PurgeHolds(s)'
  BY <1>1 DEF PurgeHolds
<1> QED
  BY <1>2, MoveKeepsPurges

LEMMA PurgingKeepsPurges ==
    ASSUME PurgeInv, NEW s \in Sessions, Purging(s)
    PROVE  \A t \in Sessions : PurgeHolds(t)'
<1> USE DEF PurgeInv, LockInv, TypeOK
<1>1. ASSUME NEW cutoff, StartPurge(s, cutoff)
      PROVE  \A t \in Sessions : PurgeHolds(t)'
  <2> DEFINE x == [stage |-> "purge", count |-> NULL,
                   req |-> [cutoff |-> cutoff, batch |-> {}]]
  <2>1. sess' = [sess EXCEPT ![s] = x] /\ now' = now /\ rows' = rows
    BY <1>1 DEF StartPurge
  <2>2. PurgeHolds(s)'
    BY <2>1 DEF PurgeHolds
  <2> QED
    <3> HIDE DEF x
    <3> QED BY <2>1, <2>2, MoveKeepsPurges
<1>2. ASSUME NEW B \in SUBSET Rows, LockBatch(s, B)
      PROVE  \A t \in Sessions : PurgeHolds(t)'
  <2> DEFINE x == [stage |-> "batch",
                   req |-> [cutoff |-> sess[s].req.cutoff, batch |-> B],
                   count |-> IF sess[s].count = NULL THEN survey.responses_count
                                                     ELSE sess[s].count]
  <2>1. /\ sess' = [sess EXCEPT ![s] = x] /\ now' = now /\ rows' = rows
        /\ sess[s].stage = "purge" /\ B \subseteq Due(rows, sess[s].req.cutoff)
    BY <1>2 DEF LockBatch, Acquire
  <2>2. PurgeHolds(s)'
    BY <2>1 DEF PurgeHolds
  <2> QED
    <3> HIDE DEF x
    <3> QED BY <2>1, <2>2, MoveKeepsPurges
<1>3. CASE PurgeBatch(s)
  <2> DEFINE x == [stage |-> "purge",
                   count |-> Cardinality(Live(TombstoneAll(rows, sess[s].req.batch))),
                   req |-> [cutoff |-> sess[s].req.cutoff, batch |-> {}]]
  <2>1. sess' = [sess EXCEPT ![s] = x] /\ now' = now /\ sess[s].stage = "batch"
    BY <1>3 DEF PurgeBatch, Purge
  <2>2. PurgeHolds(s)'
    BY <2>1 DEF PurgeHolds
  <2> QED
    <3> HIDE DEF x
    <3> QED BY <2>1, <2>2, MoveKeepsPurges DEF LockedStage
<1>4. CASE EndPurge(s)
  BY <1>4, OtherMoveKeepsPurges DEF EndPurge, Idle
<1> QED
  BY <1>1, <1>2, <1>3, <1>4 DEF Purging

\* Without a purge under way, none holds anything.
THEOREM InitPurgeInv == Init => PurgeInv
<1> SUFFICES ASSUME Init PROVE \A s \in Sessions : PurgeHolds(s)
  BY InitLockInv DEF PurgeInv
<1> QED
  BY DEF Init, Idle, PurgeHolds

\* What a purge holds stays due at its cutoff, whatever runs between its batches.
THEOREM NextPurgeInv == PurgeInv /\ [Next]_vars => PurgeInv'
<1> SUFFICES ASSUME PurgeInv, [Next]_vars PROVE \A t \in Sessions : PurgeHolds(t)'
  BY NextLockInv DEF PurgeInv
<1>1. ASSUME NEW s \in Sessions, NEW from, NEW x, Acquire(s, from, x),
             x.stage \notin {"purge", "batch"}
      PROVE  \A t \in Sessions : PurgeHolds(t)'
  BY <1>1, OtherMoveKeepsPurges DEF Acquire
<1>2. ASSUME NEW s \in Sessions,
             \/ \E q : BeginSubmit(s, q) \/ BeginPhase2(s, q) \/ BeginErase(s, q)
                       \/ BeginImport(s, q)
             \/ LockCandidate(s)
      PROVE  \A t \in Sessions : PurgeHolds(t)'
  <2>1. ASSUME NEW q, BeginSubmit(s, q) \/ BeginPhase2(s, q)
        PROVE  \A t \in Sessions : PurgeHolds(t)'
    BY <1>1, <2>1 DEF BeginSubmit, BeginPhase2
  <2>2. ASSUME NEW q, BeginErase(s, q) \/ BeginImport(s, q)
        PROVE  \A t \in Sessions : PurgeHolds(t)'
    BY <1>1, <2>2 DEF BeginErase, BeginImport
  <2>3. CASE LockCandidate(s)
    BY <1>1, <2>3 DEF LockCandidate
  <2> QED
    BY <1>2, <2>1, <2>2, <2>3
<1>3. ASSUME NEW s \in Sessions, sess[s].stage \in LockedStage, Release(s), now' = now
      PROVE  \A t \in Sessions : PurgeHolds(t)'
  BY <1>3, OtherMoveKeepsPurges DEF Release, Idle
<1>4. ASSUME NEW s \in Sessions,
             \/ \E r \in Rows : SubmitCreate(s, r) \/ Phase2Complete(s, r)
             \/ SubmitReplay(s) \/ Phase2Replay(s) \/ SubmitReject(s) \/ Phase2Reject(s)
             \/ Withdraw(s) \/ WithdrawRepeat(s) \/ Erase(s) \/ EraseReject(s)
             \/ ImportInsert(s) \/ ImportFill(s) \/ ImportNothing(s)
      PROVE  \A t \in Sessions : PurgeHolds(t)'
  <2>1. sess[s].stage \in LockedStage /\ Release(s) /\ now' = now
    BY <1>4 DEF SubmitCreate, Phase2Complete, SubmitReplay, Phase2Replay, SubmitReject,
       Phase2Reject, Withdraw, WithdrawRepeat, Erase, EraseReject, ImportInsert,
       ImportFill, FillOneOf, ImportNothing, LockedStage
  <2> QED
    BY <1>3, <2>1
<1>5. ASSUME NEW s \in Sessions, NEW r \in Rows, NEW c \in Codes, FindCandidate(s, r, c)
      PROVE  \A t \in Sessions : PurgeHolds(t)'
  <2> DEFINE x == [stage |-> "candidate",
                   req |-> [row |-> r, code |-> c, loaded |-> rows[r]]]
  <2>1. sess' = [sess EXCEPT ![s] = x] /\ now' = now /\ rows' = rows
    BY <1>5 DEF FindCandidate
  <2>2. x.stage \notin {"purge", "batch"}
    OBVIOUS
  <2> HIDE DEF x
  <2> QED
    BY <2>1, <2>2, OtherMoveKeepsPurges
<1>6. ASSUME NEW s \in Sessions, Crash(s)
      PROVE  \A t \in Sessions : PurgeHolds(t)'
  BY <1>6, OtherMoveKeepsPurges DEF Crash, Idle
<1>7. CASE Managing \/ Tick \/ UNCHANGED vars
  <2>1. UNCHANGED <<rows, sess>>
    BY <1>7 DEF vars, Managing, UpdateStatus, UpdatePolicy, Archive, Restore, Tick
  <2> QED
    BY <2>1 DEF PurgeInv, PurgeHolds
<1> QED
  BY <1>2, <1>4, <1>5, <1>6, <1>7, PurgingKeepsPurges
     DEF Next, Submitting, Completing, Withdrawing, Erasing, Importing

\* What the last step of a row's history says of a step that added to it.
PurgedOverdue(r) ==
    /\ trail'[r] # trail[r]
    /\ trail'[r][Len(trail'[r])] = "purge"
    => \E s \in Sessions :
          /\ sess[s].stage = "batch"
          /\ rows[r].expires # NULL
          /\ rows[r].expires <= sess[s].req.cutoff
          /\ sess[s].req.cutoff <= now => rows[r].expires <= now

LEMMA LoggedOther ==
    ASSUME trail \in [Rows -> Seq(Event)], NEW S, NEW e \in Event \ {"purge"},
           trail' = Logged(S, e), NEW r \in Rows
    PROVE  PurgedOverdue(r)
<1>1. CASE r \in S
  <2>1. trail'[r] = Append(trail[r], e) /\ trail[r] \in Seq(Event)
    BY <1>1 DEF Logged
  <2>2. trail'[r][Len(trail'[r])] = e
    BY <2>1
  <2> QED
    BY <2>2 DEF PurgedOverdue
<1>2. CASE r \notin S
  BY <1>2 DEF Logged, PurgedOverdue
<1> QED
  BY <1>1, <1>2

LEMMA PurgedWasOverdue ==
    ASSUME PurgeInv, NEW s \in Sessions, PurgeBatch(s), NEW r \in Rows
    PROVE  PurgedOverdue(r)
<1> DEFINE q == sess[s].req
<1> USE DEF PurgeInv, LockInv, TypeOK
<1>1. trail' = Logged(q.batch, "purge") /\ sess[s].stage = "batch"
  BY DEF PurgeBatch, Purge
<1>2. CASE r \in q.batch
  <2>1. r \in Due(rows, q.cutoff)
    BY <1>1, <1>2 DEF PurgeHolds
  <2>2. rows[r].expires # NULL /\ rows[r].expires <= q.cutoff
    BY <2>1 DEF Due
  <2>3. rows[r].expires \in Nat /\ q.cutoff \in Nat /\ now \in Nat
    BY <1>1, <2>2, PurgeSession DEF Row, Deadline, PurgeRequest
  <2>4. q.cutoff <= now => rows[r].expires <= now
    BY <2>2, <2>3
  <2> QED
    BY <1>1, <2>2, <2>4 DEF PurgedOverdue
<1>3. CASE r \notin q.batch
  BY <1>1, <1>3 DEF Logged, PurgedOverdue
<1> QED
  BY <1>2, <1>3

\* The purge removes nothing that is not due at the cutoff it was given, and
\* nothing before its deadline unless that cutoff lies in the future, whatever
\* runs between the reading of its cutoff, its batches and the removals.
THEOREM PurgesAreOverdue == Spec => PurgeOnlyOverdue
<1>1. PurgeInv /\ [Next]_vars =>
        [\A r \in Rows :
            /\ trail'[r] # trail[r]
            /\ trail'[r][Len(trail'[r])] = "purge"
            => \E s \in Sessions :
                  /\ sess[s].stage = "batch"
                  /\ rows[r].expires # NULL
                  /\ rows[r].expires <= sess[s].req.cutoff
                  /\ sess[s].req.cutoff <= now => rows[r].expires <= now]_vars
  <2> SUFFICES ASSUME PurgeInv, [Next]_vars, NEW r \in Rows PROVE PurgedOverdue(r)
    BY DEF PurgedOverdue
  <2>0. trail \in [Rows -> Seq(Event)]
    BY DEF PurgeInv, LockInv, TypeOK
  <2>1. ASSUME NEW s \in Sessions,
               \/ \E o \in Rows : SubmitCreate(s, o) \/ Phase2Complete(s, o)
               \/ Withdraw(s) \/ Erase(s) \/ ImportInsert(s) \/ ImportFill(s)
        PROVE  PurgedOverdue(r)
    <3>1. ASSUME NEW o \in Rows, SubmitCreate(s, o) PROVE PurgedOverdue(r)
      <4>1. trail' = Logged({o}, "create")
        BY <3>1 DEF SubmitCreate
      <4> QED
        BY <2>0, <4>1, LoggedOther DEF Event
    <3>2. ASSUME NEW o \in Rows, Phase2Complete(s, o) PROVE PurgedOverdue(r)
      <4>1. trail' = Logged({o}, "phase2")
        BY <3>2 DEF Phase2Complete
      <4> QED
        BY <2>0, <4>1, LoggedOther DEF Event
    <3>3. CASE Withdraw(s)
      <4>1. trail' = Logged({sess[s].req.row}, "withdraw")
        BY <3>3 DEF Withdraw
      <4> QED
        BY <2>0, <4>1, LoggedOther DEF Event
    <3>4. CASE Erase(s)
      <4>1. trail' = Logged(Live(sess[s].seen) \cap ErasedBy(sess[s].seen, sess[s].req), "erase")
        BY <3>4 DEF Erase
      <4> QED
        BY <2>0, <4>1, LoggedOther DEF Event
    <3>5. CASE ImportInsert(s) \/ ImportFill(s)
      <4>1. \/ trail' = Logged({sess[s].req.target}, "import")
            \/ trail' = Logged({sess[s].req.target}, "fill")
        BY <3>5 DEF ImportInsert, ImportFill, FillOneOf
      <4> QED
        BY <2>0, <4>1, LoggedOther DEF Event
    <3> QED
      BY <2>1, <3>1, <3>2, <3>3, <3>4, <3>5
  <2>2. ASSUME NEW s \in Sessions, PurgeBatch(s) PROVE PurgedOverdue(r)
    BY <2>2, PurgedWasOverdue
  <2>3. CASE trail' = trail
    BY <2>3 DEF PurgedOverdue
  <2>4. ASSUME NEW s \in Sessions,
               \/ \E q : BeginSubmit(s, q) \/ BeginPhase2(s, q) \/ BeginErase(s, q)
                         \/ BeginImport(s, q)
               \/ LockCandidate(s) \/ (\E B \in SUBSET Rows : LockBatch(s, B))
        PROVE  trail' = trail
    BY <2>4 DEF BeginSubmit, BeginPhase2, BeginErase, BeginImport, LockCandidate,
       LockBatch, Acquire
  <2>5. ASSUME NEW s \in Sessions,
               \/ SubmitReplay(s) \/ Phase2Replay(s) \/ SubmitReject(s) \/ Phase2Reject(s)
               \/ WithdrawRepeat(s) \/ (\E o \in Rows, c \in Codes : FindCandidate(s, o, c))
               \/ EraseReject(s) \/ ImportNothing(s)
               \/ (\E cutoff : StartPurge(s, cutoff)) \/ EndPurge(s)
               \/ Crash(s)
        PROVE  trail' = trail
    BY <2>5 DEF SubmitReplay, Phase2Replay, SubmitReject, Phase2Reject, WithdrawRepeat,
       FindCandidate, EraseReject, ImportNothing, StartPurge, EndPurge, Crash
  <2>6. CASE Managing \/ Tick \/ UNCHANGED vars
    BY <2>3, <2>6 DEF vars, Managing, UpdateStatus, UpdatePolicy, Archive, Restore, Tick
  <2> QED
    BY <2>1, <2>2, <2>3, <2>4, <2>5, <2>6
       DEF Next, Submitting, Completing, Withdrawing, Erasing, Importing, Purging
<1> QED
  BY <1>1, InitPurgeInv, NextPurgeInv, PTL DEF Spec, PurgeOnlyOverdue

-----------------------------------------------------------------------------
(* The handlers implement ResponseContract.                                *)

\* Where the account of one row stands.
StandingOf(row) ==
    IF row.status = "deleted" THEN "withdrawn"
    ELSE IF TwoPhase /\ ~Completed(row) THEN "phase1" ELSE "complete"

StandingIn(R, w) ==
    IF \A r \in Rows : R[r].who # w THEN "none"
    ELSE IF \E r \in Rows : R[r].who = w /\ R[r].status = "deleted" THEN "withdrawn"
    ELSE IF TwoPhase /\ \A r \in Rows : R[r].who = w => ~Completed(R[r])
         THEN "phase1" ELSE "complete"

UniqueIn(R) == \A r, o \in Rows : r # o /\ R[r].who # NULL => R[o].who # R[r].who

\* As an account has at most one row, its standing is that row's.
LEMMA StandingOfRow ==
    ASSUME NEW R, UniqueIn(R), NEW r \in Rows, NEW w \in Respondents, R[r].who = w
    PROVE  StandingIn(R, w) = StandingOf(R[r])
<1>1. \A o \in Rows : R[o].who = w <=> o = r
  BY ConstantsAssumption DEF UniqueIn
<1> QED
  BY <1>1 DEF StandingIn, StandingOf

LEMMA StandingOfOthers ==
    ASSUME NEW R, NEW R2, NEW w,
           \A r \in Rows : R[r] = R2[r] \/ (R[r].who # w /\ R2[r].who # w)
    PROVE  StandingIn(R, w) = StandingIn(R2, w)
<1>1. \A r \in Rows : R[r].who = w <=> R2[r].who = w
  OBVIOUS
<1>2. \A r \in Rows : R[r].who = w => R[r] = R2[r]
  OBVIOUS
<1> QED
  BY <1>1, <1>2 DEF StandingIn

LEMMA StandingIsIn ==
    /\ Standing = [w \in Respondents |-> StandingIn(rows, w)]
    /\ Standing' = [w \in Respondents |-> StandingIn(rows', w)]
    /\ WhoUnique <=> UniqueIn(rows)
    /\ WhoUnique' <=> UniqueIn(rows')
BY DEF Standing, StandingIn, WhoUnique, UniqueIn

ContractStep == [Contract!Next]_Standing

\* A handler that writes one row and leaves its account: the step of that
\* account decides.
LEMMA OneAccountStep ==
    ASSUME WhoUnique, WhoUnique', NEW r \in Rows,
           \A o \in Rows \ {r} : rows'[o] = rows[o],
           rows'[r].who = rows[r].who, rows[r].who \in Respondents \cup {NULL},
           \/ StandingOf(rows'[r]) = StandingOf(rows[r])
           \/ StandingOf(rows[r]) = "phase1" /\ StandingOf(rows'[r]) = "complete"
           \/ /\ StandingOf(rows[r]) \in {"phase1", "complete"}
              /\ StandingOf(rows'[r]) = "withdrawn"
    PROVE  ContractStep
<1> DEFINE w == rows[r].who
<1>1. \A v \in Respondents \ {w} : StandingIn(rows', v) = StandingIn(rows, v)
  <2> SUFFICES ASSUME NEW v \in Respondents \ {w}
               PROVE  StandingIn(rows, v) = StandingIn(rows', v)
    OBVIOUS
  <2> QED
    BY StandingOfOthers
<1>2. CASE w \notin Respondents
  <2>1. Standing' = Standing
    BY <1>1, <1>2, StandingIsIn
  <2> QED
    BY <2>1 DEF ContractStep
<1>3. CASE w \in Respondents
  <2>1. StandingIn(rows, w) = StandingOf(rows[r])
    BY <1>3, StandingOfRow, StandingIsIn
  <2>2. StandingIn(rows', w) = StandingOf(rows'[r])
    BY <1>3, StandingOfRow, StandingIsIn
  <2>3. Standing' = [Standing EXCEPT ![w] = StandingOf(rows'[r])]
    BY <1>1, <1>3, <2>2, StandingIsIn
  <2>4. Standing[w] = StandingOf(rows[r])
    BY <1>3, <2>1, StandingIsIn
  <2>5. CASE StandingOf(rows'[r]) = StandingOf(rows[r])
    <3>1. Standing' = Standing
      BY <2>3, <2>4, <2>5, StandingIsIn
    <3> QED
      BY <3>1 DEF ContractStep
  <2>6. CASE StandingOf(rows[r]) = "phase1" /\ StandingOf(rows'[r]) = "complete"
    <3>1. Contract!Complete(w)
      BY <2>3, <2>4, <2>6 DEF Contract!Complete
    <3> QED
      BY <1>3, <3>1 DEF ContractStep, Contract!Next
  <2>7. CASE /\ StandingOf(rows[r]) \in {"phase1", "complete"}
             /\ StandingOf(rows'[r]) = "withdrawn"
    <3>1. Contract!Withdraw(w)
      BY <2>3, <2>4, <2>7 DEF Contract!Withdraw, Contract!Answered
    <3> QED
      BY <1>3, <3>1 DEF ContractStep, Contract!Next
  <2> QED
    BY <2>5, <2>6, <2>7
<1> QED
  BY <1>2, <1>3

LEMMA SubmitCreateContract ==
    ASSUME HistoryInv, NEW s \in Sessions, NEW r \in Rows, SubmitCreate(s, r)
    PROVE  ContractStep
<1> DEFINE q == sess[s].req
           R == [rows EXCEPT ![r] = NewRow(q)]
<1> USE DEF HistoryInv, LockInv
<1>1. q \in FormRequest /\ q.who \in Respondents /\ q.who # NULL
  BY FormSession, ConstantsAssumption DEF SubmitCreate, TypeOK, FormRequest
<1>2. rows' = R /\ rows[r].status = "absent" /\ Unique(R, r)
  BY DEF SubmitCreate
<1>3. /\ rows[r].who = NULL
      /\ rows'[r] = NewRow(q) /\ \A o \in Rows \ {r} : rows'[o] = rows[o]
  BY <1>2 DEF RowShape, TypeOK
<1>4. NewRow(q).who = q.who /\ NewRow(q).status = "live" /\ ~Completed(NewRow(q))
  BY DEF NewRow, Completed
<1>5. \A o \in Rows : rows[o].who # q.who
  BY <1>1, <1>2, <1>3, <1>4 DEF Unique, TypeOK
<1>6. StandingIn(rows, q.who) = "none"
  BY <1>5 DEF StandingIn
<1>7. StandingIn(rows', q.who) = IF TwoPhase THEN "phase1" ELSE "complete"
  <2>1. UniqueIn(rows')
    BY SubmitCreateRows, StandingIsIn
  <2>2. StandingIn(rows', q.who) = StandingOf(rows'[r])
    BY <1>1, <1>3, <1>4, <2>1, StandingOfRow
  <2> QED
    BY <1>3, <1>4, <2>2 DEF StandingOf
<1>8. \A v \in Respondents \ {q.who} : StandingIn(rows, v) = StandingIn(rows', v)
  <2> SUFFICES ASSUME NEW v \in Respondents \ {q.who}
               PROVE  StandingIn(rows, v) = StandingIn(rows', v)
    OBVIOUS
  <2>1. v # NULL
    BY ConstantsAssumption
  <2> QED
    BY <1>3, <1>4, <2>1, StandingOfOthers
<1>9. /\ Standing[q.who] = "none"
      /\ Standing' = [Standing EXCEPT ![q.who] = IF TwoPhase THEN "phase1" ELSE "complete"]
  BY <1>1, <1>6, <1>7, <1>8, StandingIsIn
<1>10. Contract!Answer(q.who)
  BY <1>9 DEF Contract!Answer
<1> QED
  BY <1>1, <1>10 DEF ContractStep, Contract!Next

\* Erasures and purges remove the accounts of the rows they clear.
LEMMA ClearContract ==
    ASSUME HistoryInv, NEW S, rows' = TombstoneAll(rows, S)
    PROVE  ContractStep
<1> DEFINE gone == Live(rows) \cap S
           W == {w \in Respondents : \E r \in gone : rows[r].who = w}
<1> USE DEF HistoryInv, LockInv
<1>1. \A r \in Rows \ gone : rows'[r] = rows[r]
  BY DEF TombstoneAll, Live
<1>2. \A r \in gone : r \in Rows /\ rows[r].status = "live" /\ rows'[r].who = NULL
  BY DEF TombstoneAll, Tombstone, Live, TypeOK, Row
<1>3. \A w \in Respondents \ W : StandingIn(rows, w) = StandingIn(rows', w)
  <2> SUFFICES ASSUME NEW w \in Respondents \ W
               PROVE  StandingIn(rows, w) = StandingIn(rows', w)
    OBVIOUS
  <2>1. w # NULL
    BY ConstantsAssumption
  <2>2. \A r \in Rows : rows[r] = rows'[r] \/ (rows[r].who # w /\ rows'[r].who # w)
    BY <1>1, <1>2, <2>1
  <2> QED
    BY <2>2, StandingOfOthers
<1>4. \A w \in W : StandingIn(rows', w) = "none" /\ StandingIn(rows, w) \in {"phase1", "complete"}
  <2> SUFFICES ASSUME NEW w \in W
               PROVE  /\ StandingIn(rows', w) = "none"
                      /\ StandingIn(rows, w) \in {"phase1", "complete"}
    OBVIOUS
  <2>1. PICK r \in gone : rows[r].who = w
    OBVIOUS
  <2>2. w \in Respondents /\ w # NULL
    BY ConstantsAssumption
  <2>3. \A o \in Rows \ {r} : rows[o].who # w
    BY <1>2, <2>1, <2>2 DEF WhoUnique
  <2>4. \A o \in Rows : rows'[o].who # w
    BY <1>1, <1>2, <2>1, <2>2, <2>3
  <2>5. StandingIn(rows, w) = StandingOf(rows[r])
    BY <1>2, <2>1, <2>2, StandingOfRow, StandingIsIn
  <2> QED
    BY <1>2, <2>1, <2>4, <2>5 DEF StandingIn, StandingOf
<1>5. CASE W = {}
  <2>1. Standing' = Standing
    BY <1>3, <1>5, StandingIsIn
  <2> QED
    BY <2>1 DEF ContractStep
<1>6. CASE W # {}
  <2> HIDE DEF W
  <2>1. W \in SUBSET Respondents
    BY DEF W
  <2>2. /\ \A w \in W : Standing[w] \in {"phase1", "complete"}
        /\ Standing' = [w \in Respondents |-> IF w \in W THEN "none" ELSE Standing[w]]
    BY <1>3, <1>4, <2>1, StandingIsIn
  <2>3. Contract!Remove(W)
    BY <2>2 DEF Contract!Remove, Contract!Answered
  <2> QED
    BY <1>6, <2>1, <2>3 DEF ContractStep, Contract!Next
<1> QED
  BY <1>5, <1>6

\* An answer added to a live row leaves its account or completes it.
LEMMA UpdatedContract ==
    ASSUME HistoryInv, WhoUnique', NEW r \in Rows, NEW new,
           rows' = [rows EXCEPT ![r] = new], rows[r].status = "live", new.status = "live",
           new.who = rows[r].who, rows[r].answers \subseteq new.answers
    PROVE  ContractStep
<1> USE DEF HistoryInv, LockInv
<1>1. rows'[r] = new /\ \A o \in Rows \ {r} : rows'[o] = rows[o]
  BY DEF TypeOK
<1>2. rows[r].who \in Respondents \cup {NULL}
  BY DEF TypeOK, Row
<1>3. Completed(rows[r]) => Completed(new)
  BY DEF Completed
<1>4. \/ StandingOf(new) = StandingOf(rows[r])
      \/ StandingOf(rows[r]) = "phase1" /\ StandingOf(new) = "complete"
  BY <1>3 DEF StandingOf
<1> QED
  BY <1>1, <1>2, <1>4, OneAccountStep

LEMMA Phase2CompleteContract ==
    ASSUME HistoryInv, NEW s \in Sessions, NEW r \in Rows, Phase2Complete(s, r)
    PROVE  ContractStep
<1> DEFINE q == sess[s].req
           new == [rows[r] EXCEPT !.answers = rows[r].answers \cup {<<2, q.body>>},
                                  !.key = q.key, !.hash = <<2, q.body>>,
                                  !.at = now, !.expires = ExpiresAt(now)]
<1> USE DEF HistoryInv, LockInv
<1>1. sess[s].seen = rows /\ r \in Live(rows)
  BY DEF Phase2Complete, LockedViewIsCurrent, Phase2Targets
<1>2. rows' = [rows EXCEPT ![r] = new]
  BY <1>1 DEF Phase2Complete, TypeOK
<1>3. /\ new.status = "live" /\ new.who = rows[r].who /\ rows[r].status = "live"
      /\ rows[r].answers \subseteq new.answers
  BY <1>1 DEF TypeOK, Row, Live
<1>4. WhoUnique'
  BY Phase2CompleteRows, NoNewWhoKeepsUnique
<1> QED
  <2> HIDE DEF new
  <2> QED BY <1>2, <1>3, <1>4, UpdatedContract

LEMMA ImportContract ==
    ASSUME HistoryInv, NEW s \in Sessions, ImportInsert(s) \/ ImportFill(s)
    PROVE  ContractStep
<1> DEFINE q == sess[s].req
<1> USE DEF HistoryInv, LockInv
<1>1. sess[s].seen = rows /\ q.target \in Rows
  BY ImportSession DEF ImportInsert, ImportFill, FillOneOf, TypeOK, ImportRequest,
     LockedViewIsCurrent
<1>2. WhoUnique'
  BY ImportRows, NoNewWhoKeepsUnique
<1>3. CASE ImportInsert(s)
  <2>1. /\ rows[q.target].status = "absent" /\ rows'[q.target].who = NULL
        /\ \A o \in Rows \ {q.target} : rows'[o] = rows[o]
    BY <1>1, <1>3 DEF ImportInsert, Absent, TypeOK
  <2>2. rows[q.target].who = NULL
    BY <1>1, <2>1 DEF RowShape
  <2>3. \A w \in Respondents : StandingIn(rows, w) = StandingIn(rows', w)
    <3> SUFFICES ASSUME NEW w \in Respondents
                 PROVE  StandingIn(rows, w) = StandingIn(rows', w)
      OBVIOUS
    <3>1. w # NULL
      BY ConstantsAssumption
    <3>2. \A o \in Rows : rows[o] = rows'[o] \/ (rows[o].who # w /\ rows'[o].who # w)
      BY <2>1, <2>2, <3>1
    <3> QED
      BY <3>2, StandingOfOthers
  <2>4. Standing' = Standing
    BY <2>3, StandingIsIn
  <2> QED
    BY <2>4 DEF ContractStep
<1>4. CASE ImportFill(s)
  <2> DEFINE old == rows[q.target]
             fill == {a \in SheetAnswers(q) : \A b \in old.answers : b[1] # a[1]}
             new == [old EXCEPT !.answers = old.answers \cup fill]
  <2>1. rows' = [rows EXCEPT ![q.target] = new] /\ old.status = "live"
    BY <1>1, <1>4 DEF ImportFill, FillOneOf, Live, TypeOK
  <2>2. new.status = old.status /\ new.who = old.who /\ old.answers \subseteq new.answers
    BY <1>1 DEF TypeOK, Row
  <2> QED
    <3> HIDE DEF new
    <3> QED BY <1>1, <1>2, <2>1, <2>2, UpdatedContract
<1> QED
  BY <1>3, <1>4

LEMMA WithdrawContract ==
    ASSUME HistoryInv, NEW s \in Sessions, Withdraw(s)
    PROVE  ContractStep
<1> DEFINE q == sess[s].req
           old == rows[q.row]
<1> USE DEF HistoryInv, LockInv
<1>1. q.row \in Rows
  BY WithdrawSession DEF Withdraw, TypeOK, WithdrawRequest
<1>2. \A o \in Rows \ {q.row} : rows'[o] = rows[o]
  BY DEF Withdraw, TypeOK
<1>3. trail[q.row] \in Seq(Event) /\ trail'[q.row] = Append(trail[q.row], "withdraw")
  BY <1>1 DEF Withdraw, Logged, TypeOK
<1>4. RowStep(old, rows'[q.row], trail[q.row], trail'[q.row])
  BY <1>1, WithdrawRows DEF RowsStep
<1>5. Withdrawn(old, rows'[q.row], trail[q.row], trail'[q.row])
  <2>1. ASSUME NEW e, trail'[q.row] = Append(trail[q.row], e) PROVE e = "withdraw"
    BY <1>3, <2>1
  <2>2. trail'[q.row] # trail[q.row]
    BY <1>3
  <2> QED
    BY <1>4, <2>1, <2>2 DEF RowStep, Unchanged, Created, Updated, Removed
<1>6. /\ old.status \in {"live", "deleted"} /\ rows'[q.row].status = "deleted"
      /\ rows'[q.row].who = old.who
  BY <1>5 DEF Withdrawn, Cleared
<1>7. old.who \in Respondents \cup {NULL}
  BY <1>1 DEF TypeOK, Row
<1>8. WhoUnique'
  BY WithdrawRows, NoNewWhoKeepsUnique
<1> QED
  BY <1>1, <1>2, <1>6, <1>7, <1>8, OneAccountStep DEF StandingOf

\* The interleaved handlers, with their locks, keys, candidates and
\* tombstones, do for every respondent only the steps of the contract.
THEOREM HandlersImplementContract == Spec => ImplementsContract
<1>1. Init => Contract!Init
  <2> SUFFICES ASSUME Init PROVE Standing = [w \in Respondents |-> "none"]
    BY DEF Contract!Init
  <2>1. \A w \in Respondents : StandingIn(rows, w) = "none"
    BY ConstantsAssumption DEF Init, Absent, StandingIn
  <2> QED
    BY <2>1, StandingIsIn
<1>2. HistoryInv /\ [Next]_vars => [Contract!Next]_Standing
  <2> SUFFICES ASSUME HistoryInv, [Next]_vars PROVE ContractStep
    BY DEF ContractStep
  <2>1. ASSUME NEW s \in Sessions, NEW r \in Rows, SubmitCreate(s, r) \/ Phase2Complete(s, r)
        PROVE  ContractStep
    BY <2>1, SubmitCreateContract, Phase2CompleteContract
  <2>2. ASSUME NEW s \in Sessions, Withdraw(s) \/ ImportInsert(s) \/ ImportFill(s)
        PROVE  ContractStep
    BY <2>2, WithdrawContract, ImportContract
  <2>3. ASSUME NEW s \in Sessions, Erase(s) \/ PurgeBatch(s) PROVE ContractStep
    <3>1. CASE Erase(s)
      BY <3>1, ClearContract DEF Erase, HistoryInv, LockInv, LockedViewIsCurrent
    <3>2. CASE PurgeBatch(s)
      BY <3>2, ClearContract DEF PurgeBatch, Purge
    <3> QED
      BY <2>3, <3>1, <3>2
  <2>4. CASE rows' = rows
    BY <2>4 DEF ContractStep, Standing
  <2>5. ASSUME NEW s \in Sessions,
               \/ \E q : BeginSubmit(s, q) \/ BeginPhase2(s, q) \/ BeginErase(s, q)
                         \/ BeginImport(s, q)
               \/ LockCandidate(s) \/ (\E B \in SUBSET Rows : LockBatch(s, B))
        PROVE  rows' = rows
    BY <2>5 DEF BeginSubmit, BeginPhase2, BeginErase, BeginImport, LockCandidate,
       LockBatch, Acquire
  <2>6. ASSUME NEW s \in Sessions,
               \/ SubmitReplay(s) \/ Phase2Replay(s) \/ SubmitReject(s) \/ Phase2Reject(s)
               \/ WithdrawRepeat(s) \/ (\E o \in Rows, c \in Codes : FindCandidate(s, o, c))
               \/ EraseReject(s) \/ ImportNothing(s)
               \/ (\E cutoff : StartPurge(s, cutoff)) \/ EndPurge(s)
               \/ Crash(s)
        PROVE  rows' = rows
    BY <2>6 DEF SubmitReplay, Phase2Replay, SubmitReject, Phase2Reject, WithdrawRepeat,
       FindCandidate, EraseReject, ImportNothing, StartPurge, EndPurge, Crash
  <2>7. CASE Managing \/ Tick \/ UNCHANGED vars
    BY <2>4, <2>7 DEF vars, Managing, UpdateStatus, UpdatePolicy, Archive, Restore, Tick
  <2> QED
    BY <2>1, <2>2, <2>3, <2>4, <2>5, <2>6, <2>7
       DEF Next, Submitting, Completing, Withdrawing, Erasing, Importing, Purging
<1> QED
  BY <1>1, <1>2, InitHistoryInv, NextHistoryInv, PTL
     DEF Spec, ImplementsContract, Contract!Spec
=============================================================================
