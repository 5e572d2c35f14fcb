------------------------- MODULE ResponseLifecycle -------------------------
(***************************************************************************)
(* The life of the responses of one survey: the public form's two phases,  *)
(* respondent withdrawal, administrative erasure, the import of a          *)
(* spreadsheet and the scheduled retention purge, each run by a database   *)
(* session of its own (backend/services/response_service.py,               *)
(* response_import_service.py, response_retention_service.py).             *)
(*                                                                         *)
(* Every handler locks the survey row (resolve_survey(for_update=True)),   *)
(* reads, writes, and commits.  A handler is therefore two steps: Begin,   *)
(* which takes the lock and reads, and Finish, which writes what follows   *)
(* from what was read and releases the lock.  Two handlers read before the *)
(* lock: withdrawal finds its candidate row, and the purge carries the     *)
(* survey object of its previous batch.  A session keeps one object per    *)
(* row (the identity map): a later SELECT ... FOR UPDATE does not refresh  *)
(* an object the session already holds, and an UPDATE leaves out the       *)
(* columns whose new value equals the one that was loaded.                 *)
(***************************************************************************)
EXTENDS Naturals, FiniteSets, Sequences, Nullable

CONSTANTS
    Rows,          \* response ids (random UUIDs, never reused)
    Respondents,   \* Google accounts: the survey-scoped respondent digest
    Keys,          \* Idempotency-Key values of the public form
    Payloads,      \* request bodies: answers, consent version, code
    CodeOf,        \* CodeOf[p]: the withdrawal code in body p, or NULL
    Codes,         \* withdrawal codes (their HMAC digests)
    Sheets,        \* answer sets found in imported files ({}: no imports)
    AdminKeys,     \* Idempotency-Key values of erasure requests
    Sessions,      \* database sessions that may run at the same time
    Policies,      \* retention policies: a number of days, or NULL
    BatchSize,     \* rows per transaction of the retention purge
    MaxTime,       \* bound on the clock and on the cutoffs of a purge
    TwoPhase       \* does the questionnaire carry phase metadata?

ASSUME ConstantsAssumption ==
    /\ BatchSize \in Nat \ {0}
    /\ MaxTime \in Nat
    /\ TwoPhase \in BOOLEAN
    /\ NULL \notin Respondents \cup Keys \cup Codes \cup Sessions \cup Nat
    /\ CodeOf \in [Payloads -> Codes \cup {NULL}]
    /\ Policies \subseteq (Nat \ {0}) \cup {NULL}
    /\ Policies # {}

ASSUME RowsFinite == IsFiniteSet(Rows)

VARIABLES
    survey,    \* the survey's row
    rows,      \* survey_responses of that survey
    receipts,  \* response_erasure_receipts, by Idempotency-Key
    lock,      \* the session that holds the survey's row lock, or NULL
    sess,      \* what each session is doing and what it has read
    now,       \* the clock
    trail,     \* history: the committed steps that touched each row
    acked      \* history: submissions answered with accepted = true

vars == <<survey, rows, receipts, lock, sess, now, trail, acked>>

-----------------------------------------------------------------------------
(* Types.  A submission <<phase, body>> stands for the answers and for the *)
(* idempotency hash computed from them.                                    *)

Submission == {1, 2} \X (Payloads \cup Sheets)

ASSUME NullIsNoSubmission == NULL \notin Submission

Deadline == Nat \cup {NULL}

Row == [status   : {"absent", "live", "deleted"},
        key      : Keys \cup {NULL},
        hash     : Submission \cup {NULL},
        who      : Respondents \cup {NULL},   \* respondent_key_digest
        identity : BOOLEAN,                   \* name, email, consent evidence
        code     : Codes \cup {NULL},         \* withdrawal_credential_digest
        answers  : SUBSET Submission,
        at       : Nat,                       \* when the deadline was set
        expires  : Deadline]                  \* retention_expires_at

Absent == [status |-> "absent", key |-> NULL, hash |-> NULL, who |-> NULL,
           identity |-> FALSE, code |-> NULL, answers |-> {}, at |-> 0,
           expires |-> NULL]

Survey == [status : {"Inactive", "Active", "Closed"}, is_deleted : BOOLEAN,
           responses_count : Nat, policy : Policies]

FormRequest == [who : Respondents, key : Keys, body : Payloads]
EraseRequest == [key : AdminKeys, scope : {"selected", "all"},
                 ids : SUBSET Rows, expected : Nat]
WithdrawRequest == [row : Rows, code : Codes, loaded : Row]
PurgeRequest == [cutoff : Nat, batch : SUBSET Rows]
ImportRequest == [sheet : Sheets, phases : SUBSET {1, 2}, target : Rows,
                  at : Nat]
View == [Rows -> Row]   \* rows as a session read them under the lock

Idle == [stage |-> "idle"]
Session ==
    {Idle}
      \cup [stage : {"submit", "phase2"}, req : FormRequest, seen : View]
      \cup [stage : {"erase"}, req : EraseRequest, seen : View]
      \cup [stage : {"import"}, req : ImportRequest, seen : View]
      \* withdrawal: candidate found, then the lock held
      \cup [stage : {"candidate", "withdraw"}, req : WithdrawRequest]
      \* purge: between two batches, then inside one; count is the
      \* responses_count of the survey object the session holds
      \cup [stage : {"purge", "batch"}, req : PurgeRequest,
            count : Nat \cup {NULL}]

LockedStage == {"submit", "phase2", "erase", "import", "withdraw", "batch"}

Receipt == [request : EraseRequest, erased : Nat]
Event == {"create", "import", "fill", "phase2", "withdraw", "erase", "purge"}
Removals == {"withdraw", "erase", "purge"}
Ack == [who : Respondents, key : Keys, body : Payloads, phase : {1, 2}]

-----------------------------------------------------------------------------
(* What the handlers compute from the rows they read.                      *)

Live(R) == {r \in Rows : R[r].status = "live"}
\* Faulty variant: the age of a row is compared instead of its deadline.
DueByAge(R, cutoff) == {r \in Live(R) : R[r].expires # NULL /\ R[r].at <= cutoff}
Due(R, cutoff) == {r \in Live(R) : R[r].expires # NULL /\ R[r].expires <= cutoff}
Completed(row) == \E a \in row.answers : a[1] = 2
ExpiresAt(t) == IF survey.policy = NULL THEN NULL ELSE t + survey.policy

\* Faulty variant: the stored hash is not compared.
SubmitReplaysByKey(R, q) == \E r \in Rows : R[r].key = q.key /\ R[r].who = q.who

SubmitReplays(R, q) ==
    \E r \in Rows : /\ R[r].key = q.key /\ R[r].who = q.who /\ R[r].identity
                   /\ R[r].hash = <<1, q.body>>

SubmitAccepts(R, q) == \A r \in Rows : R[r].key # q.key /\ R[r].who # q.who

Phase2Replays(R, q) ==
    \E r \in Live(R) : /\ R[r].key = q.key /\ R[r].who = q.who
                      /\ R[r].hash = <<2, q.body>>

\* Faulty variant: a completed response can be completed again.
Phase2TargetsRepeatable(R, q) ==
    {r \in Live(R) : R[r].who = q.who /\ \A o \in Rows : R[o].key # q.key}

Phase2Targets(R, q) ==
    {r \in Live(R) : /\ R[r].who = q.who /\ R[r].answers # {}
                    /\ ~Completed(R[r])
                    /\ \A o \in Rows : R[o].key # q.key}

\* What GET /survey/{id} tells the respondent to do next.
CollectionState(R, w) ==
    LET mine == {r \in Rows : R[r].who = w}
    IN  IF \E r \in mine : R[r].status = "deleted" THEN "withdrawn"
        ELSE IF \E r \in mine : R[r].status = "live" /\ (Completed(R[r]) \/ ~TwoPhase)
             THEN "completed"
        ELSE IF \E r \in mine : R[r].answers # {} THEN "phase2"
        ELSE "phase1"

\* Faulty variants: withdrawal clears the digests too; erasure keeps them.
TombstoneForgets(row, preserve) ==
    [row EXCEPT !.status = "deleted", !.key = NULL, !.hash = NULL,
                !.identity = FALSE, !.answers = {}, !.who = NULL, !.code = NULL]
TombstoneKeeps(row, preserve) ==
    [row EXCEPT !.status = "deleted", !.key = NULL, !.hash = NULL,
                !.identity = FALSE, !.answers = {}]

Tombstone(row, preserve) ==
    [row EXCEPT !.status = "deleted", !.key = NULL, !.hash = NULL,
                !.identity = FALSE, !.answers = {},
                !.who = IF preserve THEN @ ELSE NULL,
                !.code = IF preserve THEN @ ELSE NULL]

\* Faulty variant: existing tombstones are not skipped.
TombstoneAllAgain(R, S) ==
    [r \in Rows |-> IF r \in S THEN Tombstone(R[r], FALSE) ELSE R[r]]

\* tombstone_responses without preserve_withdrawal_digest: rows that are
\* tombstones already are skipped.
TombstoneAll(R, S) ==
    [r \in Rows |-> IF r \in S /\ R[r].status = "live"
                    THEN Tombstone(R[r], FALSE) ELSE R[r]]

\* The UPDATE of one column: left out when it equals what was loaded.
Written(stored, loaded, new) == IF new = loaded THEN stored ELSE new

\* Flush of an object loaded as `loaded` and changed to `new`.
Flush(stored, loaded, new) ==
    [status   |-> Written(stored.status, loaded.status, new.status),
     key      |-> Written(stored.key, loaded.key, new.key),
     hash     |-> Written(stored.hash, loaded.hash, new.hash),
     who      |-> Written(stored.who, loaded.who, new.who),
     identity |-> Written(stored.identity, loaded.identity, new.identity),
     code     |-> Written(stored.code, loaded.code, new.code),
     answers  |-> Written(stored.answers, loaded.answers, new.answers),
     at       |-> Written(stored.at, loaded.at, new.at),
     expires  |-> Written(stored.expires, loaded.expires, new.expires)]

\* Faulty variant: off by one.
ReconciledShort(R) == [survey EXCEPT !.responses_count = Cardinality(Live(R)) - 1]

\* _reconcile_response_count on a survey object freshly loaded.
Reconciled(R) == [survey EXCEPT !.responses_count = Cardinality(Live(R))]

\* The step of a history that first removed the response, or "none".
FirstRemoval(t) ==
    IF \E i \in DOMAIN t : t[i] \in Removals
    THEN t[CHOOSE i \in DOMAIN t : /\ t[i] \in Removals
                                  /\ \A j \in 1 .. (i - 1) : t[j] \notin Removals]
    ELSE "none"

Logged(S, e) == [r \in Rows |-> IF r \in S THEN Append(trail[r], e) ELSE trail[r]]

\* The unique constraints of survey_responses, checked by the database when
\* row r is inserted or updated.
Unique(R, r) ==
    \A o \in Rows \ {r} :
        /\ R[r].key # NULL => R[o].key # R[r].key
        /\ R[r].who # NULL => R[o].who # R[r].who
        /\ R[r].code # NULL => R[o].code # R[r].code

-----------------------------------------------------------------------------
(* Sessions and the survey's row lock.                                     *)

Init ==
    /\ survey \in [status : {"Active", "Inactive"}, is_deleted : {FALSE},
                   responses_count : {0}, policy : Policies]
    /\ rows = [r \in Rows |-> Absent]
    /\ receipts = [k \in AdminKeys |-> NULL]
    /\ lock = NULL
    /\ sess = [s \in Sessions |-> Idle]
    /\ now = 0
    /\ trail = [r \in Rows |-> <<>>]
    /\ acked = {}

Acquire(s, from, to) ==
    /\ lock = NULL
    /\ sess[s].stage = from
    /\ lock' = s
    /\ sess' = [sess EXCEPT ![s] = to]
    /\ UNCHANGED <<survey, rows, receipts, now, trail, acked>>

\* Commit or rollback: the lock is released; the request's session is closed.
Release(s) ==
    /\ lock' = NULL
    /\ sess' = [sess EXCEPT ![s] = Idle]

Acknowledge(q, p) ==
    acked' = acked \cup {[who |-> q.who, key |-> q.key, body |-> q.body, phase |-> p]}

Crash(s) ==   \* the request fails or the process dies: everything rolls back
    /\ sess[s] # Idle
    /\ sess' = [sess EXCEPT ![s] = Idle]
    /\ lock' = IF lock = s THEN NULL ELSE lock
    /\ UNCHANGED <<survey, rows, receipts, now, trail, acked>>

-----------------------------------------------------------------------------
(* POST /survey/{id}/respond: submit_response.                             *)

\* Faulty variant: the survey is read without FOR UPDATE.
BeginSubmitUnlocked(s, q) ==
    /\ survey.status = "Active" /\ ~survey.is_deleted
    /\ \E r \in Rows : rows[r] = Absent
    /\ sess[s] = Idle
    /\ sess' = [sess EXCEPT ![s] = [stage |-> "submit", req |-> q, seen |-> rows]]
    /\ UNCHANGED <<survey, rows, receipts, lock, now, trail, acked>>

BeginSubmit(s, q) ==
    /\ survey.status = "Active" /\ ~survey.is_deleted
    /\ \E r \in Rows : rows[r] = Absent   \* bound on the rows ever created
    /\ Acquire(s, "idle", [stage |-> "submit", req |-> q, seen |-> rows])

NewRow(q) ==
    [status |-> "live", key |-> q.key, hash |-> <<1, q.body>>, who |-> q.who,
     identity |-> TRUE, code |-> CodeOf[q.body], answers |-> {<<1, q.body>>},
     at |-> now, expires |-> ExpiresAt(now)]

SubmitCreate(s, r) ==
    LET q == sess[s].req
        R == [rows EXCEPT ![r] = NewRow(q)]
    IN  /\ sess[s].stage = "submit"
        /\ SubmitAccepts(sess[s].seen, q)
        /\ rows[r].status = "absent"
        /\ Unique(R, r)
        /\ rows' = R
        /\ survey' = [survey EXCEPT !.responses_count = @ + 1]
        /\ trail' = Logged({r}, "create")
        /\ Acknowledge(q, 1)
        /\ Release(s)
        /\ UNCHANGED <<receipts, now>>

SubmitReplay(s) ==
    /\ sess[s].stage = "submit"
    /\ SubmitReplays(sess[s].seen, sess[s].req)
    /\ Acknowledge(sess[s].req, 1)
    /\ Release(s)
    /\ UNCHANGED <<survey, rows, receipts, now, trail>>

SubmitReject(s) ==   \* 409, or the unique constraint on the code fired
    LET q == sess[s].req
    IN  /\ sess[s].stage = "submit"
        /\ ~SubmitReplays(sess[s].seen, q)
        /\ \/ ~SubmitAccepts(sess[s].seen, q)
           \/ \A r \in Rows : rows[r].status = "absent"
                                => ~Unique([rows EXCEPT ![r] = NewRow(q)], r)
        /\ Release(s)
        /\ UNCHANGED <<survey, rows, receipts, now, trail, acked>>

-----------------------------------------------------------------------------
(* PATCH /survey/{id}/respond: submit_phase2_response.                     *)

BeginPhase2(s, q) ==
    /\ TwoPhase
    /\ survey.status = "Active" /\ ~survey.is_deleted
    /\ Acquire(s, "idle", [stage |-> "phase2", req |-> q, seen |-> rows])

Phase2Complete(s, r) ==
    LET q == sess[s].req
    IN  /\ sess[s].stage = "phase2"
        /\ r \in Phase2Targets(sess[s].seen, q)
        /\ rows' = [rows EXCEPT
                ![r].answers = sess[s].seen[r].answers \cup {<<2, q.body>>},
                ![r].key = q.key, ![r].hash = <<2, q.body>>,
                ![r].at = now, ![r].expires = ExpiresAt(now)]
        /\ trail' = Logged({r}, "phase2")
        /\ Acknowledge(q, 2)
        /\ Release(s)
        /\ UNCHANGED <<survey, receipts, now>>

Phase2Replay(s) ==
    /\ sess[s].stage = "phase2"
    /\ Phase2Replays(sess[s].seen, sess[s].req)
    /\ Acknowledge(sess[s].req, 2)
    /\ Release(s)
    /\ UNCHANGED <<survey, rows, receipts, now, trail>>

Phase2Reject(s) ==
    /\ sess[s].stage = "phase2"
    /\ ~Phase2Replays(sess[s].seen, sess[s].req)
    /\ Phase2Targets(sess[s].seen, sess[s].req) = {}
    /\ Release(s)
    /\ UNCHANGED <<survey, rows, receipts, now, trail, acked>>

-----------------------------------------------------------------------------
(* POST /survey/responses/withdraw: withdraw_response.                     *)

\* The candidate is loaded before any lock; the session keeps this object.
FindCandidate(s, r, c) ==
    /\ sess[s] = Idle
    /\ rows[r].code = c
    /\ sess' = [sess EXCEPT ![s] = [stage |-> "candidate",
            req |-> [row |-> r, code |-> c, loaded |-> rows[r]]]]
    /\ UNCHANGED <<survey, rows, receipts, lock, now, trail, acked>>

\* Locks the survey and the row; the object found above is not refreshed.
LockCandidate(s) ==
    Acquire(s, "candidate", [stage |-> "withdraw", req |-> sess[s].req])

Withdraw(s) ==
    LET q == sess[s].req
        R == [rows EXCEPT ![q.row] =
                  Flush(rows[q.row], q.loaded, Tombstone(q.loaded, TRUE))]
    IN  /\ sess[s].stage = "withdraw"
        /\ q.loaded.code = q.code
        /\ q.loaded.status = "live"
        /\ rows' = R
        /\ survey' = Reconciled(R)
        /\ trail' = Logged({q.row}, "withdraw")
        /\ Release(s)
        /\ UNCHANGED <<receipts, now, acked>>

WithdrawRepeat(s) ==
    /\ sess[s].stage = "withdraw"
    /\ sess[s].req.loaded.status = "deleted"
    /\ Release(s)
    /\ UNCHANGED <<survey, rows, receipts, now, trail, acked>>

-----------------------------------------------------------------------------
(* POST /surveys/{id}/responses/erase: erase_responses.                    *)

BeginErase(s, q) ==
    Acquire(s, "idle", [stage |-> "erase", req |-> q, seen |-> rows])

\* Faulty variant: the confirmed number is not compared with the live rows.
EraseAcceptsUnconfirmed(R, q) ==
    IF q.scope = "selected" THEN q.ids \subseteq Live(R) ELSE survey.is_deleted

EraseAccepts(R, q) ==
    IF q.scope = "selected"
    THEN q.ids \subseteq Live(R)
    ELSE /\ survey.is_deleted
         /\ q.expected = Cardinality(Live(R))
         /\ survey.responses_count = q.expected

ErasedBy(R, q) ==   \* the rows read: for "all", tombstones included
    IF q.scope = "selected" THEN q.ids ELSE {r \in Rows : R[r].status # "absent"}

Erase(s) ==
    LET q == sess[s].req
        S == Live(sess[s].seen) \cap ErasedBy(sess[s].seen, q)
        R == TombstoneAll(rows, ErasedBy(sess[s].seen, q))
    IN  /\ sess[s].stage = "erase"
        /\ receipts[q.key] = NULL
        /\ EraseAccepts(sess[s].seen, q)
        /\ rows' = R
        /\ survey' = Reconciled(R)
        /\ receipts' = [receipts EXCEPT ![q.key] =
                            [request |-> q, erased |-> Cardinality(S)]]
        /\ trail' = Logged(S, "erase")
        /\ Release(s)
        /\ UNCHANGED <<now, acked>>

EraseReject(s) ==   \* the stored receipt is returned, or 404/409
    LET q == sess[s].req
    IN  /\ sess[s].stage = "erase"
        /\ receipts[q.key] # NULL \/ ~EraseAccepts(sess[s].seen, q)
        /\ Release(s)
        /\ UNCHANGED <<survey, rows, receipts, now, trail, acked>>

-----------------------------------------------------------------------------
(* POST /surveys/{id}/responses/import: import_responses, one data row.    *)

BeginImport(s, q) ==
    /\ ~survey.is_deleted
    /\ q.at <= now
    /\ ExpiresAt(q.at) # NULL => ExpiresAt(q.at) > now
    /\ Acquire(s, "idle", [stage |-> "import", req |-> q, seen |-> rows])

SheetAnswers(q) == {<<p, q.sheet>> : p \in q.phases}

\* A data row that matches no respondent becomes a response without
\* identity, digest, key or code.
ImportInsert(s) ==
    LET q == sess[s].req
        R == [rows EXCEPT ![q.target] = [Absent EXCEPT
                  !.status = "live", !.answers = SheetAnswers(q),
                  !.at = q.at, !.expires = ExpiresAt(q.at)]]
    IN  /\ sess[s].stage = "import"
        /\ rows[q.target].status = "absent"
        /\ rows' = R
        /\ survey' = Reconciled(R)
        /\ trail' = Logged({q.target}, "import")
        /\ Release(s)
        /\ UNCHANGED <<receipts, now, acked>>

\* A data row that matches a live response fills the phases it left blank.
FillOneOf(s, S) ==
    LET q == sess[s].req
        old == sess[s].seen[q.target]
        fill == {a \in SheetAnswers(q) : \A b \in old.answers : b[1] # a[1]}
        R == [rows EXCEPT ![q.target].answers = old.answers \cup fill]
    IN  /\ sess[s].stage = "import"
        /\ q.target \in S
        /\ fill # {}
        /\ rows' = R
        /\ survey' = Reconciled(R)
        /\ trail' = Logged({q.target}, "fill")
        /\ Release(s)
        /\ UNCHANGED <<receipts, now, acked>>

ImportFill(s) == FillOneOf(s, Live(rows))

ImportNothing(s) ==
    LET q == sess[s].req
    IN  /\ sess[s].stage = "import"
        /\ rows[q.target].status # "absent"
        /\ \/ q.target \notin Live(rows)
           \/ \A a \in SheetAnswers(q) : \E b \in sess[s].seen[q.target].answers :
                  b[1] = a[1]
        /\ Release(s)
        /\ UNCHANGED <<survey, rows, receipts, now, trail, acked>>

-----------------------------------------------------------------------------
(* scripts/purge_expired_responses.py: purge_expired_responses.            *)

\* _due_survey_ids, without a lock.  The cutoff is the clock or whatever the
\* operator gives as --cutoff, earlier or later: nothing compares the two.
StartPurge(s, cutoff) ==
    /\ sess[s] = Idle
    /\ Due(rows, cutoff) # {}
    /\ sess' = [sess EXCEPT ![s] = [stage |-> "purge", count |-> NULL,
            req |-> [cutoff |-> cutoff, batch |-> {}]]]
    /\ UNCHANGED <<survey, rows, receipts, lock, now, trail, acked>>

\* The survey object of the previous batch is still held by the session, so
\* its responses_count is not refreshed by the locking SELECT.
LockBatch(s, B) ==
    LET q == sess[s].req
        due == Due(rows, q.cutoff)
    IN  /\ sess[s].stage = "purge"
        /\ B # {} /\ B \subseteq due
        /\ \/ B = due /\ Cardinality(B) <= BatchSize
           \/ Cardinality(B) = BatchSize
        /\ Acquire(s, "purge", [stage |-> "batch",
               req |-> [cutoff |-> q.cutoff, batch |-> B],
               count |-> IF sess[s].count = NULL THEN survey.responses_count
                                                 ELSE sess[s].count])

Purge(s, n) ==   \* n: the responses_count the recount assigns
    LET q == sess[s].req
    IN  /\ sess[s].stage = "batch"
        /\ rows' = TombstoneAll(rows, q.batch)
        /\ survey' = [survey EXCEPT !.responses_count =
                         Written(@, sess[s].count, n)]
        /\ trail' = Logged(q.batch, "purge")
        /\ lock' = NULL
        /\ sess' = [sess EXCEPT ![s] = [stage |-> "purge", count |-> n,
                req |-> [cutoff |-> q.cutoff, batch |-> {}]]]
        /\ UNCHANGED <<receipts, now, acked>>

PurgeBatch(s) ==
    Purge(s, Cardinality(Live(TombstoneAll(rows, sess[s].req.batch))))

\* Faulty variant: waits until no live response has a deadline at all.
EndPurgeLate(s) ==
    /\ lock = NULL
    /\ sess[s].stage = "purge"
    /\ \A r \in Live(rows) : rows[r].expires = NULL
    /\ sess' = [sess EXCEPT ![s] = Idle]
    /\ UNCHANGED <<survey, rows, receipts, lock, now, trail, acked>>

EndPurge(s) ==
    /\ lock = NULL
    /\ sess[s].stage = "purge"
    /\ Due(rows, sess[s].req.cutoff) = {}
    /\ sess' = [sess EXCEPT ![s] = Idle]
    /\ UNCHANGED <<survey, rows, receipts, lock, now, trail, acked>>

-----------------------------------------------------------------------------
(* survey_service: each is one transaction on the locked survey row.       *)

UpdateStatus(st) ==
    /\ lock = NULL /\ ~survey.is_deleted /\ survey.status # st
    /\ survey' = [survey EXCEPT !.status = st]
    /\ UNCHANGED <<rows, receipts, lock, sess, now, trail, acked>>

UpdatePolicy(p) ==   \* refused once any row, tombstones included, exists
    /\ lock = NULL /\ ~survey.is_deleted
    /\ \A r \in Rows : rows[r].status = "absent"
    /\ survey' = [survey EXCEPT !.policy = p]
    /\ UNCHANGED <<rows, receipts, lock, sess, now, trail, acked>>

Archive ==
    /\ lock = NULL /\ ~survey.is_deleted
    /\ survey' = [survey EXCEPT !.is_deleted = TRUE]
    /\ UNCHANGED <<rows, receipts, lock, sess, now, trail, acked>>

Restore ==
    /\ lock = NULL /\ survey.is_deleted
    /\ survey' = [survey EXCEPT !.is_deleted = FALSE, !.status = "Inactive"]
    /\ UNCHANGED <<rows, receipts, lock, sess, now, trail, acked>>

Tick ==
    /\ now < MaxTime
    /\ now' = now + 1
    /\ UNCHANGED <<survey, rows, receipts, lock, sess, trail, acked>>

-----------------------------------------------------------------------------
Submitting(s) ==
    \/ \E q \in FormRequest : BeginSubmit(s, q)
    \/ \E r \in Rows : SubmitCreate(s, r)
    \/ SubmitReplay(s)
    \/ SubmitReject(s)

Completing(s) ==
    \/ \E q \in FormRequest : BeginPhase2(s, q)
    \/ \E r \in Rows : Phase2Complete(s, r)
    \/ Phase2Replay(s)
    \/ Phase2Reject(s)

Withdrawing(s) ==
    \/ \E r \in Rows, c \in Codes : FindCandidate(s, r, c)
    \/ LockCandidate(s)
    \/ Withdraw(s)
    \/ WithdrawRepeat(s)

Erasing(s) ==
    \/ \E k \in AdminKeys, ids \in (SUBSET Rows) \ {{}} :
          BeginErase(s, [key |-> k, scope |-> "selected", ids |-> ids, expected |-> 0])
    \/ \E k \in AdminKeys, n \in 0 .. Cardinality(Rows) :
          BeginErase(s, [key |-> k, scope |-> "all", ids |-> {}, expected |-> n])
    \/ Erase(s)
    \/ EraseReject(s)

Importing(s) ==
    \/ \E q \in [sheet : Sheets, phases : (SUBSET (IF TwoPhase THEN {1, 2} ELSE {1})) \ {{}},
                 target : Rows, at : 0 .. MaxTime] : BeginImport(s, q)
    \/ ImportInsert(s)
    \/ ImportFill(s)
    \/ ImportNothing(s)

Purging(s) ==
    \/ \E cutoff \in 0 .. MaxTime : StartPurge(s, cutoff)
    \/ \E B \in SUBSET Rows : LockBatch(s, B)
    \/ PurgeBatch(s)
    \/ EndPurge(s)

Managing ==
    \/ \E st \in {"Inactive", "Active", "Closed"} : UpdateStatus(st)
    \/ \E p \in Policies : UpdatePolicy(p)
    \/ Archive
    \/ Restore

Next ==
    \/ \E s \in Sessions :
          \/ Submitting(s) \/ Completing(s) \/ Withdrawing(s)
          \/ Erasing(s) \/ Importing(s) \/ Purging(s) \/ Crash(s)
    \/ Managing
    \/ Tick

Spec == Init /\ [][Next]_vars

\* A handler that holds the lock runs to its commit, and PostgreSQL grants a
\* row lock in arrival order, so a session that waits for it gets it.
Fairness ==
    \A s \in Sessions :
        /\ WF_vars(\E r \in Rows : SubmitCreate(s, r))
        /\ WF_vars(SubmitReplay(s) \/ SubmitReject(s))
        /\ WF_vars(\E r \in Rows : Phase2Complete(s, r))
        /\ WF_vars(Phase2Replay(s) \/ Phase2Reject(s))
        /\ WF_vars(Withdraw(s) \/ WithdrawRepeat(s))
        /\ WF_vars(Erase(s) \/ EraseReject(s))
        /\ WF_vars(ImportInsert(s) \/ ImportFill(s) \/ ImportNothing(s))
        /\ WF_vars(PurgeBatch(s))
        /\ SF_vars(LockCandidate(s))
        /\ SF_vars((\E B \in SUBSET Rows : LockBatch(s, B)) \/ EndPurge(s))

FairSpec == Spec /\ Fairness

-----------------------------------------------------------------------------
(* Invariants.                                                             *)

\* Every variable has its type; in particular the row a handler writes is a
\* row, and a session's request matches the stage it is in.
TypeOK ==
    /\ survey \in Survey
    /\ rows \in [Rows -> Row]
    /\ receipts \in [AdminKeys -> Receipt \cup {NULL}]
    /\ lock \in Sessions \cup {NULL}
    /\ sess \in [Sessions -> Session]
    /\ now \in Nat
    /\ trail \in [Rows -> Seq(Event)]
    /\ acked \subseteq Ack

\* The lock discipline: what a submission, a Phase 2 completion, an erasure
\* or an import read under the survey lock is still what the database holds
\* when the handler writes, because every other writer takes the same lock.
LockedViewIsCurrent ==
    \A s \in Sessions :
        sess[s].stage \in {"submit", "phase2", "erase", "import"}
            => sess[s].seen = rows

\* surveys.responses_count is the number of live responses: the increment of
\* submit_response and the recounts of the other handlers agree.
CountMatchesLive == survey.responses_count = Cardinality(Live(rows))

\* Whatever the purge's stale survey object makes of the count, a live
\* response is never left out of it.
CountNeverUnder == Cardinality(Live(rows)) <= survey.responses_count

\* A tombstone keeps nothing of the respondent but, after a withdrawal, the
\* two digests: also when a withdrawal wrote over a row that another session
\* erased or purged after the candidate had been read.
TombstonesAreClean ==
    \A r \in Rows : rows[r].status = "deleted" =>
        /\ rows[r].key = NULL /\ rows[r].hash = NULL
        /\ ~rows[r].identity /\ rows[r].answers = {}
        /\ FirstRemoval(trail[r]) \in {"erase", "purge"}
              => rows[r].who = NULL /\ rows[r].code = NULL

\* A respondent who withdrew is barred from the survey for good: the digest
\* stays on the tombstone whatever erasures, purges and repeated withdrawals
\* follow, and no live response of the same account appears.
WithdrawnStaysBarred ==
    \A r \in Rows : FirstRemoval(trail[r]) = "withdraw" =>
        /\ rows[r].who # NULL
        /\ \A o \in Live(rows) : rows[o].who # rows[r].who

\* The three handlers agree: GET reports Phase 1 exactly when a POST with a
\* fresh key would be accepted, and Phase 2 exactly when a PATCH would, so
\* no respondent is shown a form that cannot be submitted.
FormMatchesHandlers ==
    \A q \in FormRequest : (\A r \in Rows : rows[r].key # q.key) =>
        /\ (CollectionState(rows, q.who) = "phase1") <=> SubmitAccepts(rows, q)
        /\ TwoPhase => (CollectionState(rows, q.who) = "phase2")
                          <=> (Phase2Targets(rows, q) # {})

-----------------------------------------------------------------------------
(* What the handlers together promise a respondent (ResponseContract).     *)

Standing == [w \in Respondents |->
    IF \A r \in Rows : rows[r].who # w THEN "none"
    ELSE IF \E r \in Rows : rows[r].who = w /\ rows[r].status = "deleted"
         THEN "withdrawn"
    ELSE IF TwoPhase /\ \A r \in Rows : rows[r].who = w => ~Completed(rows[r])
         THEN "phase1" ELSE "complete"]

Contract == INSTANCE ResponseContract WITH standing <- Standing

\* For each respondent the interleaved handlers do nothing but the steps of
\* the contract: answer, complete, withdraw for good, or be removed by an
\* administrator or a deadline and start over.
ImplementsContract == Contract!Spec

-----------------------------------------------------------------------------
(* Properties of steps, and progress.                                      *)

\* An acknowledged submission is in the database when it is acknowledged: the
\* respondent has a live response that holds exactly the body sent, for a
\* first submission and for a replay alike.
AckMeansStored ==
    [][\A a \in acked' \ acked :
          \E r \in Rows : /\ rows'[r].status = "live" /\ rows'[r].who = a.who
                         /\ <<a.phase, a.body>> \in rows'[r].answers]_vars

\* A purge removes a response only when the deadline it has at that moment is
\* not after the cutoff the run was started with, although cutoff and batches
\* are read earlier and Phase 2 moves deadlines; without a cutoff in the future
\* nothing goes before its time.
PurgeOnlyOverdue ==
    [][\A r \in Rows :
          /\ trail'[r] # trail[r]
          /\ trail'[r][Len(trail'[r])] = "purge"
          => \E s \in Sessions :
                /\ sess[s].stage = "batch"
                /\ rows[r].expires # NULL
                /\ rows[r].expires <= sess[s].req.cutoff
                /\ sess[s].req.cutoff <= now => rows[r].expires <= now]_vars

\* A receipt is written once, together with the erasure it reports, and says
\* what was erased: for "all", exactly the number the administrator confirmed.
ReceiptsMatchErasures ==
    [][\A k \in AdminKeys : receipts'[k] # receipts[k] =>
          /\ receipts[k] = NULL
          /\ receipts'[k].erased = Cardinality(Live(rows) \ Live(rows'))
          /\ receipts'[k].request.scope = "all" =>
                /\ receipts'[k].erased = receipts'[k].request.expected
                /\ Live(rows') = {}]_vars

\* Every request and every purge run ends, however the others interleave: the
\* purge's loop over batches terminates because nothing new becomes due at a
\* cutoff that is fixed and not in the future.  Of a cutoff in the future it
\* shows less: each round leaves a tombstone, and Rows is bounded.
EverySessionEnds == \A s \in Sessions : (sess[s] # Idle) ~> (sess[s] = Idle)

-----------------------------------------------------------------------------
(* Claims of the repository that the code does not keep.                   *)

\* docs/privacy-and-retention.md: the purge is of "due live responses".  A
\* response is not removed before its deadline, whatever the operator asks.
NothingBeforeItsDeadline ==
    [][\A r \in Rows :
          /\ trail'[r] # trail[r]
          /\ trail'[r][Len(trail'[r])] = "purge"
          => rows[r].expires # NULL /\ rows[r].expires <= now]_vars

\* tests/test_response_withdrawal.py: one withdrawal, one audit entry; a
\* response is removed once.
RemovedOnce ==
    \A r \in Rows : Cardinality({i \in DOMAIN trail[r] : trail[r][i] \in Removals}) <= 1

\* docs/privacy-and-retention.md: a replay with the same idempotency key
\* returns the same acknowledgement (while the response is live and the key
\* was acknowledged for it).
ReplayAcknowledged ==
    \A a \in acked :
        (\E r \in Live(rows) : rows[r].who = a.who /\ <<a.phase, a.body>> \in rows[r].answers)
            => IF a.phase = 1 THEN SubmitReplays(rows, a) ELSE Phase2Replays(rows, a)

=============================================================================
