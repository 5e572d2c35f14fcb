-------------------------- MODULE SurveyLifecycle --------------------------
(***************************************************************************)
(* Administration of several surveys: status, metadata and retention       *)
(* settings, archive and restore, the questionnaire's structure with its   *)
(* optimistic version, and the landing page's call to action              *)
(* (backend/services/survey_service.py, survey_structure_service.py and    *)
(* the item edits of survey_section_service.py and                        *)
(* survey_question_service.py), against first submissions.                *)
(*                                                                         *)
(* Every request locks the row of its survey (SELECT ... FOR UPDATE), then *)
(* checks and commits.  Making a survey the call to action also updates    *)
(* every other survey's row, one row lock after the other.                 *)
(*                                                                         *)
(* updated_at is compared for equality only and a microsecond stamp never  *)
(* comes twice, so a version an editor holds is represented by what became *)
(* of it: current, or no longer the row's.                                 *)
(***************************************************************************)
EXTENDS Naturals, FiniteSets, Nullable

CONSTANTS
    Surveys,       \* survey ids
    Sessions,      \* clients: one editor's tab or one request each
    Structures,    \* valid questionnaires: ordered sections and questions
    Ready,         \* those with a section and no empty section
    Contents,      \* title, description, cohort and retention settings
    Bodies         \* bodies of PATCH requests; NULL for a field not sent

Status == {"Inactive", "Active", "Closed"}

ASSUME SurveyAssumption ==
    /\ Ready \subseteq Structures
    /\ Bodies \subseteq [status : Status \cup {NULL}, content : Contents \cup {NULL},
                        is_cta : BOOLEAN \cup {NULL}]
    /\ NULL \notin Surveys \cup Sessions \cup Contents
    /\ NULL \notin Status
    /\ NULL \notin BOOLEAN

VARIABLES
    surveys,   \* rows of surveys, with their questionnaire
    lock,      \* lock[v]: the session that holds the lock on row v, or NULL
    sess,      \* what each client is doing
    answered   \* history: questionnaires a stored response was checked against

vars == <<surveys, lock, sess, answered>>

-----------------------------------------------------------------------------
\* responses: none ever, some live, or tombstones only.  chosen is history: it
\* was an update that set is_cta, not the survey's creation.
Survey == [exists : BOOLEAN, status : Status, is_deleted : BOOLEAN,
           is_cta : BOOLEAN, chosen : BOOLEAN, structure : Structures, content : Contents,
           responses : {"none", "live", "erased"}]

\* A version is the row's, or a request addressed to the survey renewed
\* updated_at since, or only a bulk UPDATE did, or it was never committed.
Version == {"current", "edited", "overtaken", "phantom"}

Existing == {v \in Surveys : surveys[v].exists}

Idle == [stage |-> "idle"]
Session ==
    {Idle}
      \* an editor loads a survey: first its version, then its structure
      \cup [stage : {"reading"}, survey : Surveys, version : Version]
      \cup [stage : {"open"}, survey : Surveys, version : Version, seen : Structures]
      \cup [stage : {"put"}, survey : Surveys, version : Version, seen : Structures,
            new : Structures]
      \cup [stage : {"item"}, survey : Surveys, new : Structures]
      \cup [stage : {"update"}, survey : Surveys, req : Bodies]
      \* clearing the other surveys' flag: rows locked, rows to come and the row
      \* the statement is at, NULL at the end
      \cup [stage : {"clear"}, survey : Surveys, req : Bodies, done : SUBSET Surveys,
            todo : SUBSET Surveys, at : Surveys \cup {NULL}]
      \cup [stage : {"answer"}, survey : Surveys, seen : Structures]

Locked == {"put", "item", "update", "clear", "answer"}

-----------------------------------------------------------------------------
(* Checks of the handlers.                                                 *)

HasHistory(row) == row.responses # "none"

\* Faulty variant: tombstones are not history.
EditableWhenErased(row) ==
    ~row.is_deleted /\ row.status = "Inactive" /\ row.responses # "live"

\* Faulty variant: any survey that nobody answered can be edited.
EditableInAnyStatus(row) == ~row.is_deleted /\ ~HasHistory(row)

\* get_survey_for_structure_edit
StructureEditable(row) ==
    /\ ~row.is_deleted
    /\ row.status = "Inactive"
    /\ ~HasHistory(row)

Applied(row, c) ==
    [row EXCEPT !.status = IF c.status = NULL THEN @ ELSE c.status,
                !.content = IF c.content = NULL THEN @ ELSE c.content,
                !.is_cta = IF c.is_cta = NULL THEN @ ELSE c.is_cta,
                !.chosen = IF c.is_cta = NULL THEN @ ELSE c.is_cta]

\* Content is locked by history; an update that leaves the survey active
\* checks its readiness again.
UpdateAccepts(row, c) ==
    /\ Applied(row, c).content # row.content => ~HasHistory(row)
    /\ Applied(row, c).status = "Active" => row.structure \in Ready

Loaded == {"reading", "open", "put"}

\* The clients S after a request to one of the surveys `mine` and a bulk UPDATE
\* of `others` renewed updated_at.
Outdated(S, mine, others) ==
    [t \in Sessions |->
        IF S[t].stage \in Loaded /\ S[t].survey \in mine
        THEN [S[t] EXCEPT !.version = "edited"]
        ELSE IF /\ S[t].stage \in Loaded /\ S[t].survey \in others
                /\ S[t].version = "current"
        THEN [S[t] EXCEPT !.version = "overtaken"]
        ELSE S[t]]

-----------------------------------------------------------------------------
Init ==
    /\ \E x \in Structures, c \in Contents :
          surveys = [v \in Surveys |->
              [exists |-> FALSE, status |-> "Inactive", is_deleted |-> FALSE,
               is_cta |-> FALSE, chosen |-> FALSE, structure |-> x, content |-> c,
               responses |-> "none"]]
    /\ lock = [v \in Surveys |-> NULL]
    /\ sess = [s \in Sessions |-> Idle]
    /\ answered = [v \in Surveys |-> {}]

\* The row lock of an existing, not archived survey.
Begin(s, v, to) ==
    /\ surveys[v].exists /\ ~surveys[v].is_deleted
    /\ lock[v] = NULL
    /\ lock' = [lock EXCEPT ![v] = s]
    /\ sess' = [sess EXCEPT ![s] = to]
    /\ UNCHANGED <<surveys, answered>>

FreeLocks(s) == [v \in Surveys |-> IF lock[v] = s THEN NULL ELSE lock[v]]

\* Commit of a request that writes the row of its own survey.
Commit(s, row) ==
    /\ surveys' = [surveys EXCEPT ![sess[s].survey] = row]
    /\ lock' = FreeLocks(s)
    /\ sess' = Outdated([sess EXCEPT ![s] = Idle], {sess[s].survey}, {})

\* Faulty variant: the database session is not closed.
RollbackKeepsLocks(s) ==
    /\ sess' = [sess EXCEPT ![s] = Idle]
    /\ UNCHANGED <<surveys, lock, answered>>

Rollback(s) ==
    /\ lock' = FreeLocks(s)
    /\ sess' = [sess EXCEPT ![s] = Idle]
    /\ UNCHANGED <<surveys, answered>>

\* A request that is one step: its row is locked, written and committed.
Write(v, row) ==
    /\ lock[v] = NULL
    /\ surveys' = [surveys EXCEPT ![v] = row]
    /\ sess' = Outdated(sess, {v}, {})
    /\ UNCHANGED <<lock, answered>>

-----------------------------------------------------------------------------
(* Creation, archive, restore: nothing is read before the row is locked.   *)

\* A survey may be created as the call to action; no other one is cleared.
Create(v, st, x, c, cta) ==
    /\ ~surveys[v].exists
    /\ st = "Active" => x \in Ready
    /\ Write(v, [exists |-> TRUE, status |-> st, is_deleted |-> FALSE, is_cta |-> cta,
                 chosen |-> FALSE, structure |-> x, content |-> c, responses |-> "none"])

Archive(v) ==
    /\ surveys[v].exists /\ ~surveys[v].is_deleted
    /\ Write(v, [surveys[v] EXCEPT !.is_deleted = TRUE])

Restore(v) ==
    /\ surveys[v].exists /\ surveys[v].is_deleted
    /\ Write(v, [surveys[v] EXCEPT !.is_deleted = FALSE, !.status = "Inactive"])

-----------------------------------------------------------------------------
(* The questionnaire: whole-structure PUT and item edits.                  *)

\* get_survey_with_sections, without a lock: one SELECT for the survey's row,
\* then the SELECTs of its sections and questions.
Open(s, v) ==
    /\ sess[s].stage \in {"idle", "open"}
    /\ surveys[v].exists /\ ~surveys[v].is_deleted
    /\ sess' = [sess EXCEPT ![s] = [stage |-> "reading", survey |-> v,
                                   version |-> "current"]]
    /\ UNCHANGED <<surveys, lock, answered>>

ReadStructure(s) ==
    LET p == sess[s]
    IN  /\ p.stage = "reading"
        /\ sess' = [sess EXCEPT ![s] = [stage |-> "open", survey |-> p.survey,
                version |-> p.version, seen |-> surveys[p.survey].structure]]
        /\ UNCHANGED <<surveys, lock, answered>>

BeginPut(s, x) ==
    LET o == sess[s]
    IN  /\ o.stage = "open"
        /\ Begin(s, o.survey, [stage |-> "put", survey |-> o.survey,
                               version |-> o.version, seen |-> o.seen, new |-> x])

PutAccepts(s) ==
    LET row == surveys[sess[s].survey]
    IN  /\ StructureEditable(row)
        /\ sess[s].version = "current"

PutCommit(s) ==
    LET p == sess[s]
        row == surveys[p.survey]
    IN  /\ p.stage = "put"
        /\ PutAccepts(s)
        /\ p.new # row.structure
        /\ Commit(s, [row EXCEPT !.structure = p.new])
        /\ UNCHANGED answered

\* Nothing changed: rollback, but survey_id is assigned to the expired object,
\* so the router's next SELECT flushes an UPDATE that sets updated_at; it is
\* never committed, and the answer carries this version.  (After a commit the
\* router reads the survey again as any other client does: Open.)
PutNothing(s) ==
    LET p == sess[s]
    IN  /\ p.stage = "put"
        /\ PutAccepts(s)
        /\ p.new = surveys[p.survey].structure
        /\ lock' = FreeLocks(s)
        /\ sess' = [sess EXCEPT ![s] = [stage |-> "reading", survey |-> p.survey,
                                       version |-> "phantom"]]
        /\ UNCHANGED <<surveys, answered>>

PutRefuse(s) ==
    /\ sess[s].stage = "put"
    /\ ~PutAccepts(s)
    /\ Rollback(s)

\* Create, change, delete or reorder sections or questions, one at a time.
BeginItem(s, v, x) ==
    /\ sess[s] = Idle
    /\ Begin(s, v, [stage |-> "item", survey |-> v, new |-> x])

\* Faulty variant: the survey's version is not renewed.
ItemCommitSilently(s) ==
    LET p == sess[s]
    IN  /\ p.stage = "item"
        /\ StructureEditable(surveys[p.survey])
        /\ p.new # surveys[p.survey].structure
        /\ surveys' = [surveys EXCEPT ![p.survey].structure = p.new]
        /\ lock' = FreeLocks(s)
        /\ sess' = [sess EXCEPT ![s] = Idle]
        /\ UNCHANGED answered

ItemCommit(s) ==
    LET p == sess[s]
        row == surveys[p.survey]
    IN  /\ p.stage = "item"
        /\ StructureEditable(row)
        /\ p.new # row.structure
        /\ Commit(s, [row EXCEPT !.structure = p.new])
        /\ UNCHANGED answered

ItemRefuse(s) ==   \* 404, 409, or nothing to change
    LET row == surveys[sess[s].survey]
    IN  /\ sess[s].stage = "item"
        /\ ~StructureEditable(row) \/ sess[s].new = row.structure
        /\ Rollback(s)

-----------------------------------------------------------------------------
(* PATCH /surveys/{id}: update_survey.                                     *)

BeginUpdate(s, v, c) ==
    /\ sess[s] = Idle
    /\ Begin(s, v, [stage |-> "update", survey |-> v, req |-> c])

UpdateCommit(s) ==
    LET p == sess[s]
        row == surveys[p.survey]
    IN  /\ p.stage = "update"
        /\ UpdateAccepts(row, p.req)
        /\ p.req.is_cta # TRUE
        /\ Commit(s, Applied(row, p.req))
        /\ UNCHANGED answered

UpdateRefuse(s) ==
    /\ sess[s].stage = "update"
    /\ ~UpdateAccepts(surveys[sess[s].survey], sess[s].req)
    /\ Rollback(s)

\* UPDATE surveys SET is_cta = false WHERE id <> :id, of the rows that exist now.
BeginClear(s) ==
    LET p == sess[s]
        others == Existing \ {p.survey}
    IN  /\ p.stage = "update"
        /\ UpdateAccepts(surveys[p.survey], p.req)
        /\ p.req.is_cta = TRUE
        /\ \E at \in IF others = {} THEN {NULL} ELSE others :
              sess' = [sess EXCEPT ![s] = [stage |-> "clear", survey |-> p.survey,
                  req |-> p.req, done |-> {}, todo |-> others, at |-> at]]
        /\ UNCHANGED <<surveys, lock, answered>>

LockOther(s) ==
    LET p == sess[s]
        rest == p.todo \ {p.at}
    IN  /\ p.stage = "clear"
        /\ p.at # NULL
        /\ lock[p.at] = NULL
        /\ lock' = [lock EXCEPT ![p.at] = s]
        /\ \E at \in IF rest = {} THEN {NULL} ELSE rest :
              sess' = [sess EXCEPT ![s] = [stage |-> "clear", survey |-> p.survey,
                  req |-> p.req, done |-> p.done \cup {p.at}, todo |-> rest, at |-> at]]
        /\ UNCHANGED <<surveys, answered>>

\* Faulty variant: archived surveys keep the flag.
ClearedUnlessArchived(row) == [row EXCEPT !.is_cta = row.is_deleted /\ @]

Cleared(row) == [row EXCEPT !.is_cta = FALSE, !.chosen = FALSE]

\* The bulk UPDATE renews updated_at of every other row, whatever is_cta was.
ClearCommit(s) ==
    LET p == sess[s]
    IN  /\ p.stage = "clear"
        /\ p.at = NULL
        /\ surveys' = [v \in Surveys |->
               IF v = p.survey THEN Applied(surveys[v], p.req)
               ELSE IF v \in p.done THEN Cleared(surveys[v])
               ELSE surveys[v]]
        /\ lock' = FreeLocks(s)
        /\ sess' = Outdated([sess EXCEPT ![s] = Idle], {p.survey}, p.done)
        /\ UNCHANGED answered

WaitsForLock(s) ==
    /\ sess[s].stage = "clear" /\ sess[s].at # NULL
    /\ lock[sess[s].at] # NULL

\* PostgreSQL aborts a transaction that is on a cycle of waits.
DeadlockVictim(s) ==
    /\ \E W \in SUBSET Sessions :
          /\ s \in W
          /\ \A t \in W : WaitsForLock(t)
          /\ W = {lock[sess[t].at] : t \in W}
    /\ Rollback(s)

-----------------------------------------------------------------------------
(* The responses, as far as the questionnaire is concerned.                *)

\* Faulty variant: the questionnaire is read without the lock.
BeginAnswerUnlocked(s, v) ==
    /\ sess[s] = Idle
    /\ surveys[v].exists /\ ~surveys[v].is_deleted
    /\ sess' = [sess EXCEPT ![s] = [stage |-> "answer", survey |-> v,
                                    seen |-> surveys[v].structure]]
    /\ UNCHANGED <<surveys, lock, answered>>

\* A submission to an active survey, or an import into a survey of any status:
\* answers are checked against the questions read under the lock.
BeginAnswer(s, v) ==
    /\ sess[s] = Idle
    /\ Begin(s, v, [stage |-> "answer", survey |-> v, seen |-> surveys[v].structure])

Answer(s) ==   \* responses_count changes, and updated_at with it
    LET p == sess[s]
    IN  /\ p.stage = "answer"
        /\ Commit(s, [surveys[p.survey] EXCEPT !.responses = "live"])
        /\ answered' = [answered EXCEPT ![p.survey] = @ \cup {p.seen}]

\* Erasure, withdrawal or purge of the last live response.
EraseResponses(v) ==
    /\ surveys[v].exists /\ surveys[v].responses = "live"
    /\ Write(v, [surveys[v] EXCEPT !.responses = "erased"])

Crash(s) ==   \* the request fails, or the tab is closed
    /\ sess[s] # Idle
    /\ Rollback(s)

-----------------------------------------------------------------------------
Editing(s) ==
    \/ \E v \in Surveys : Open(s, v)
    \/ ReadStructure(s)
    \/ \E x \in Structures : BeginPut(s, x)
    \/ PutCommit(s) \/ PutNothing(s) \/ PutRefuse(s)
    \/ \E v \in Surveys, x \in Structures : BeginItem(s, v, x)
    \/ ItemCommit(s) \/ ItemRefuse(s)

Updating(s) ==
    \/ \E v \in Surveys, c \in Bodies : BeginUpdate(s, v, c)
    \/ UpdateCommit(s) \/ UpdateRefuse(s)
    \/ BeginClear(s) \/ LockOther(s) \/ ClearCommit(s) \/ DeadlockVictim(s)

Answering(s) ==
    \/ \E v \in Surveys : BeginAnswer(s, v)
    \/ Answer(s)

Administering(v) ==
    \/ \E st \in Status, x \in Structures, c \in Contents, cta \in BOOLEAN :
          Create(v, st, x, c, cta)
    \/ Archive(v) \/ Restore(v) \/ EraseResponses(v)

Next ==
    \/ \E s \in Sessions : Editing(s) \/ Updating(s) \/ Answering(s) \/ Crash(s)
    \/ \E v \in Surveys : Administering(v)

Spec == Init /\ [][Next]_vars

\* A request that holds its lock runs to its end; row locks are granted in
\* arrival order; PostgreSQL's deadlock detector always runs.
Fairness ==
    \A s \in Sessions :
        /\ WF_vars(PutCommit(s) \/ PutNothing(s) \/ PutRefuse(s))
        /\ WF_vars(ItemCommit(s) \/ ItemRefuse(s))
        /\ WF_vars(UpdateCommit(s) \/ UpdateRefuse(s) \/ BeginClear(s))
        /\ WF_vars(ClearCommit(s))
        /\ WF_vars(Answer(s))
        /\ WF_vars(DeadlockVictim(s))
        /\ SF_vars(LockOther(s))

FairSpec == Spec /\ Fairness

-----------------------------------------------------------------------------
(* Invariants.                                                             *)

\* Every variable has its type; in particular a PATCH writes no field that
\* was not sent.
TypeOK ==
    /\ surveys \in [Surveys -> Survey]
    /\ lock \in [Surveys -> Sessions \cup {NULL}]
    /\ sess \in [Sessions -> Session]
    /\ answered \in [Surveys -> SUBSET Structures]

\* A survey respondents can open has a section and no empty section: neither
\* an edit that interleaves with the activation nor an archive and restore
\* leaves an active survey unready.
ActiveIsReady ==
    \A v \in Existing : surveys[v].status = "Active" => surveys[v].structure \in Ready

\* Every stored response was checked against the questionnaire that is in
\* force, now and for ever.
AnswersFitStructure ==
    \A v \in Surveys : answered[v] \subseteq {surveys[v].structure}

\* Of the surveys that updates made the call to action at most one still is,
\* archived ones included, also when several administrators choose different
\* surveys at the same time and others create surveys with the flag set.
Chosen(row) == row.is_cta /\ row.chosen
OneCta == Cardinality({v \in Existing : Chosen(surveys[v])}) <= 1

-----------------------------------------------------------------------------
(* Properties of steps, and progress.                                      *)

\* Once a response has existed, tombstones included, neither the structure nor
\* the content of the survey changes.
HistoryFreezes ==
    [][\A v \in Existing : HasHistory(surveys[v]) =>
          /\ surveys'[v].structure = surveys[v].structure
          /\ surveys'[v].content = surveys[v].content
          /\ HasHistory(surveys'[v])]_vars

\* A whole-structure save replaces exactly the structure its editor had
\* loaded: no other editor's change is lost.
NoLostEdit ==
    [][\A s \in Sessions : PutCommit(s) => surveys[sess[s].survey].structure = sess[s].seen]_vars

\* Every request ends, also when two updates wait for each other's rows.
EveryRequestEnds == \A s \in Sessions : sess[s].stage \in Locked ~> sess[s].stage \notin Locked

-----------------------------------------------------------------------------
(* Claims of the repository that the code does not keep.                   *)

\* survey_service.py clears the flag of the others when an update sets it: one
\* call to action.  A survey created with is_cta clears no other one.
SingleCta == Cardinality({v \in Existing : surveys[v].is_cta}) <= 1

\* survey_service.py: a structure edit is refused because it is stale or the
\* survey has responses.  A save is not refused as stale when all that happened
\* since its editor loaded the survey is a save that changed nothing, or the
\* choice of another survey for the landing page.
StaleMeansEdited ==
    \A s \in Sessions : sess[s].stage = "put" /\ sess[s].version \notin {"current", "edited"} =>
        ~StructureEditable(surveys[sess[s].survey])

=============================================================================
