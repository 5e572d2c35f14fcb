# TLA+ models of the alumni survey platform

The repository is a survey platform for alumni: a FastAPI backend
(`src/backend`, PostgreSQL through SQLAlchemy, Redis, Supabase as identity
provider) and a Next.js frontend (`src/frontend`). Respondents sign in with
Google, answer a survey in one or two phases and may withdraw; staff build
surveys, import spreadsheets, read analytics, export and erase; scheduled jobs
purge expired data and a model scores free-text answers.

This directory models the parts whose correctness depends on interleaving,
retries, crashes and long sequences of edits. Every definition is translated from the
source lines that `PROJECT.json` names under `map`.

## Inventory

| Part | State it keeps | Operations | Interacts with | Hard behaviour | What makes it correct |
|---|---|---|---|---|---|
| Response lifecycle (`services/response_service.py`) | `survey_responses`, `surveys.responses_count`, `response_erasure_receipts` | submit, Phase 2, withdraw, erase; GET state | row lock on the survey; caches; sentiment analysis after the answer | concurrent handlers, retries with idempotency keys, reads before the lock | one participation per account, withdrawal for good, count, receipts, acknowledgements |
| Retention purge (`services/response_retention_service.py`, script) | the same rows; Google session proofs | batches of tombstones, recount | runs in a process of its own | one session over many transactions, fixed cutoff that the operator may choose | removes only rows due at the cutoff, count, terminates |
| Import (`services/response_import_service.py`, `_mapping.py`) | the same rows | preview, import (insert, fill blanks) | survey lock, structure version | matching people, dry run against final run | fills blanks only, deadlines inside the policy |
| Survey administration (`services/survey_service.py`) | `surveys` | create, update, archive, restore, call to action | readiness, response history | updates that other surveys' rows depend on | policy frozen once answered, restore leaves Inactive |
| Questionnaire structure (`survey_structure_`, `_section_`, `_question_service.py`, `question_validation.py`) | sections, questions | whole-structure edit, item edits | survey version, status | optimistic version against activation and first answer | structure frozen once answered or active |
| Role-based access, users (`rbac_service.py`, `user_service.py`) | roles, user roles, users; permission cache | assign, edit, deactivate, invite | Supabase invite | concurrent removals, cache, provider call before commit | an administrator always remains |
| Staff authentication (`auth_service.py`, `supabase_auth_service.py`, `password_reset_grant.py`) | replay keys in Redis | sign in, reset | identity provider | one-time grant, failure after consumption | a grant works once |
| Google attestation (`google_survey_auth_service.py`) | session proofs | attest | provider calls, purge | unlocked read, re-read, insert race | one proof per session and subject |
| Sentiment (`ml_service.py`, `false_positive_service.py`) | `ml_sentiments` | analyse in background, override | responses | lost updates between analyses and corrections | a decided polarity is the one shown |
| Analytics and caches (`survey_analytics_service.py`, `core/analytics_cache.py`, `core/cache.py`) | two cache levels | compute, invalidate | every mutation | fill after invalidation, other processes | cached data includes every change its version stands for |
| Export (`response_export_service.py`, `export_storage_service.py`) | audit entries, artifacts | authorise, stream, clean | storage | failure midway, answers and withdrawals meanwhile | every file was announced, every link audited |
| Rate limiting (`core/rate_limit.py`, middleware) | Redis windows | check | every public route | window boundary, several buckets, Redis down | bound per window, failure policy |
| Audit (`audit_service.py`) | `audit_logs` | `commit_with_audit` | every mutation | failure at commit | change and entry together or not at all |
| Public form (`ClientSurveyForm.tsx`, `lib/survey-conditions.ts`, the survey proxy) | answers, section, consent, idempotency key | answer, prune, navigate, submit, retry, reload | submission handlers | late, lost and unreadable answers; two implementations of visibility | form and server agree; one key while unsure; "done" means stored |
| Survey sign-in (`app/auth/survey`, `lib/survey-oauth-state.ts`) | state cookie, code verifiers, session cookie | start, callback, attest | Google, attestation | tabs share the cookies, any step may fail | the session is attested; a tab lands on its survey |
| Survey editor (`survey-management/`) | the questionnaire as edited; list, filters, sessions, template | every edit; save, archive, restore, erase, generate | survey and structure endpoints | late answers, conflicts, two requests per save | no condition on a lost option; a save replaces what was seen |
| Responses panel (`SurveyResponsesPanel.tsx`, `useSurveyManagement.ts`) | what is loaded and ticked, what is running | load, page, export, import, erase | response endpoints | answers to earlier questions | the panel shows the survey in view; actions end |
| Import dialog (`survey-response-import/`) | check, mapping choices | check, remap, import | import endpoints | edits between check and import | what is stored is what was checked |
| Portal sign-in, reset, MFA (`app/login`, `app/auth/confirm`, `app/reset-password`, `app/mfa`) | cookies, reset grant, setup in progress | sign in and out, reset, enroll, verify, remove | backend, Supabase | several browsers and requests at once, step order | one change per link; a reset ends older sessions |
| Administration pages (`AdminUserManagement.tsx`, `AdminRoleManagement.tsx`, `AdminAuditLogs.tsx`) | filters, list, dialogs | search, page, change | user, role and audit endpoints | answers out of order | the newest answer stays |
| Alumni counts (`alumni_count_service.py`, `AdminAlumniCounts.tsx`) | totals per batch and program | edit, import, save the table | table lock | two administrators replace the table | the table is one administrator's |
| Dashboards, reports, API proxy, infrastructure, migrations, deployment | – | – | – | presentation or wiring | not modelled |

## Plan

Done, in this order: **ResponseLifecycle** with **ResponseContract**,
**SurveyLifecycle**, the frontend's **QuestionnaireEditor**, **SurveyDesk**,
**RespondentForm**, **SurveySignIn**, **ResponsePanel** and **ImportDialog**, then
**PortalAccess**, **AccessControl**, **AdminPages**, **AlumniCounts**, and
**FeedbackScores**, **AnalyticsCache** and **ResponseExport**; proofs for all of them,
and the step simulation of **ResponseContract**.

Left, in the order of what it would add:

1. **GoogleAttest**: the attestation that is read without a lock, re-read and
   inserted by two first requests (`google_survey_auth_service.py:284`).
2. **ImportMatching**: the matching of spreadsheet rows to people and the fill
   rules, as functions checked against a reference.
3. **UserInvitation**: the calls to the identity provider before the local commit,
   and the permission cache.
4. **RateLimiter**: several fixed windows counted concurrently.
5. The cache of the PEII scores, which has no version in its key.

How modules fit together. Each component is a module with its own variables and
constants; `NULL` is declared once, in `Nullable`. The components meet at requests
between the browser and the backend, and each side is modelled where its hazard is:
the module of a screen has the server's answer as an action with every outcome the
real handler can give, the module of a handler lets requests arrive at any time.
`ResponseLifecycle` and `ResponseContract` are joined by a refinement mapping.

A run that covers several components (`MCAuthoring`, `MCAnswers`,
`MCAdministration`, `MCStoredResponses`) adds one variable `part` that is chosen
first and never changes; a behaviour is a behaviour of that part while the others
keep their initial state. Nothing is shared, so such a run is exactly the runs of
its parts. `MCResponses` and `MCSurveys` have one module with several bounded instances
and choose between them by `scope`: a behaviour stays in the part of the state
space that `InScope` describes. Requests that would leave the scope never begin;
what has begun can always end within it, so fairness is not weakened.

## Runs

| Run | Module | Shows |
|---|---|---|
| `Lifecycle` | MCResponses | GET, POST and PATCH agree; an acknowledgement is only given for what is stored; the count never loses a live response; a purge removes only what is due at its cutoff |
| `StoredResponses` | MCStoredResponses | withdrawal bars for good, tombstones are clean, receipts report what was erased, ResponseContract is implemented; a decided score is shown; cached aggregates include what their version stands for; exports are audited |
| `LifecycleLiveness` | MCResponses | every request and every purge ends |
| `Surveys` | MCSurveys | an active survey is ready, answers fit their questionnaire, history freezes it, no save loses an edit, one chosen call to action, every request ends |
| `Authoring` | MCAuthoring | the editor's references and branches; the surveys page |
| `Answers` | MCAnswers | sign-in, form, panel and import dialog |
| `Administration` | MCAdministration | staff sign-in and reset, roles, the administration pages, alumni counts |
| `AdminRemains` | AccessControl | violated: an administrator remains |
| `RespondentOptional` | MCRespondentForm | violated: the server accepts what the form sends, with an optional question in a phase |
| `ImportReviewed` | MCImportDialog | violated: a column is stored under the question it was reviewed for |
| `FlipShows` | MCFeedbackScores | violated: a flip shows the other sign |
| `ExportAuditCount` | ResponseExport | violated: the end entry counts the rows of the file |

Deadlock is checked in `Lifecycle`, `LifecycleLiveness` and `Surveys`, where some
request can always arrive. The other runs bound what people do (clicks, visits,
sends, changes), and a behaviour ends when its budget is used up.

## ResponseLifecycle

State. `survey` and `rows` are the survey's row and its responses, with the
columns some handler decides on: status (`is_deleted`), idempotency key and
hash, the respondent digest `who`, whether identity and consent columns are
filled, the withdrawal digest `code`, the answers, the deadline and when it was
set. A submission `<<phase, body>>` stands for answers and for the hash computed
from them. `receipts` are the erasure receipts, `lock` is the survey's row lock,
`sess` is what each database session does and has read, `now` the clock.
`trail` and `acked` are history variables that only properties read.

Actions. A handler that locks the survey first is two steps: Begin (take the lock
and read) and one of its endings (write and commit, answer a replay, refuse).
Between the two any other session may do whatever needs no lock, and time may
pass. Withdrawal has a step before the lock (`FindCandidate`) and the purge keeps
its session, with the survey object in it, over all its batches.

| Code | Actions |
|---|---|
| `submit_response` | `BeginSubmit`, `SubmitCreate`, `SubmitReplay`, `SubmitReject` |
| `submit_phase2_response` | `BeginPhase2`, `Phase2Complete`, `Phase2Replay`, `Phase2Reject` |
| `withdraw_response` | `FindCandidate`, `LockCandidate`, `Withdraw`, `WithdrawRepeat` |
| `erase_responses` | `BeginErase`, `Erase`, `EraseReject` |
| `import_responses` | `BeginImport`, `ImportInsert`, `ImportFill`, `ImportNothing` |
| `purge_expired_responses` | `StartPurge`, `LockBatch`, `PurgeBatch`, `EndPurge` |
| `update_survey`, `soft_delete_survey`, `restore_survey` | `UpdateStatus`, `UpdatePolicy`, `Archive`, `Restore` |
| rollback in `commit_with_audit`, or the death of the process | `Crash` |

A purge starts with a cutoff, which is the clock's or what the operator gives as
`--cutoff` (`scripts/purge_expired_responses.py`). Nothing compares it with the
clock, so `StartPurge` takes any `cutoff`, earlier or later than `now`, and keeps it.

Two facts about SQLAlchemy decide the interesting cases, and both are modelled
by what they do. A session holds one object per row and a later `SELECT ... FOR
UPDATE` does not refresh it (no `populate_existing`; the session factory sets
`expire_on_commit=False`): `loaded` in a withdrawal and `count` in a purge are
such objects. And an `UPDATE` leaves out a column whose new value equals the
loaded one: `Written` and `Flush`.

Abstractions. One survey, as no handler but withdrawal crosses surveys (the same
code in two surveys, where the lowest id wins, is not modelled). Answers that
fail validation, that are too large or that name an unknown consent version are
refused before any state changes, so only acceptable bodies are enumerated. A
response is complete when it holds a Phase 2 submission; which questions are
visible is left to RespondentForm. One import action handles one data row. The replay
of responses recorded before consent evidence existed cannot be reached over HTTP,
where a respondent is always present and such a row matches none. Audit entries
are not a variable of their own: each is written in the transaction that `trail`
records. `skip_locked` never skips a row here because every handler that locks a
response holds the survey lock; the sentiment writer does not, and is in
FeedbackScores.

`ResponseContract` says what the handlers together promise one respondent:
answer, complete, withdraw for good, or be removed by an administrator or a
deadline and start over. `Standing` is the refinement mapping.

### Bounds

| Run | Bounds |
|---|---|
| `Lifecycle`, scope form | 2 rows, 2 respondents, 2 keys, 2 bodies with their own codes, 2 sessions, two phases, no policy and no time |
| `Lifecycle`, scope import | 2 rows, 1 respondent, 1 body, 1 sheet, 2 ticks, a one-day policy or none, purges that take one row at a time |
| `StoredResponses`, part responses | 2 rows, 2 respondents, 2 keys, 1 erasure key, a one-day policy and one tick, single-phase |
| `LifecycleLiveness`, scope phases | 2 rows, 1 respondent, 2 keys, 1 body, 1 sheet, two phases, imports, no time |
| `LifecycleLiveness`, scope erase | as above with 1 key, 1 erasure key, no Phase 2 and no imports |
| `LifecycleLiveness`, scope purge | as above with 1 key, a one-day policy, one tick and Phase 1 imports; no scope of this run uses symmetry |

Two sessions are one writer and one that read before it; two rows are one that is
removed and one that comes after it, or the second account of a conflict; two keys
are the Phase 1 and the Phase 2 key of one respondent. `Rows` bounds the rows ever
created (ids are never reused), `MaxTime` the clock and the cutoffs of purges, so that a
cutoff may be before, at or after the time, `BatchSize` the purge's batch.
Symmetry is over rows, sessions, respondents and keys, which no definition tells
apart. `TypeOK` and `LockedViewIsCurrent` are proved and are in no run.

### Fairness

A handler that holds the lock runs to its commit or refusal (weak fairness of the
finishing steps). A session that waits for the lock gets it (strong fairness of
`LockCandidate` and of the purge's next batch): PostgreSQL grants a row lock in
arrival order, so a waiter is not overtaken for ever. Nothing obliges a request
to arrive or a process to crash.

`EverySessionEnds` shows less of a purge whose cutoff is in the future: what is
submitted meanwhile may be due as well, and the rounds end because `Rows` is bounded.
With any other cutoff nothing new is due, and they end because what is due does.

### Known disagreements

These properties are stated in the module and do not hold; no run checks them. Each
is reproduced by a copy of a configuration above with the property in place of the
listed ones.

* `CountMatchesLive` (import constants, three rows, two respondents, no sheet,
  single-phase, batches of one, a one-day policy): a purge of several batches that a
  submission interleaves leaves `responses_count` too high
  (`response_retention_service.py:204`). The survey object is stale, the recount
  equals the stale value, and the UPDATE leaves the column out. `CountNeverUnder` is
  what remains true.
* `RemovedOnce`: two withdrawals at the same time, or a withdrawal and an erasure,
  both tombstone the row and both write an audit entry (`response_service.py:1180`),
  as the re-check under the lock reads the object loaded before it. That the row
  ends clean all the same is `TombstonesAreClean`.
* `ReplayAcknowledged` (two phases): a replay of a Phase 1 request after Phase 2 is
  answered 409 (`response_service.py:993`), although
  `docs/privacy-and-retention.md:76-77` promises the same acknowledgement.
* `NothingBeforeItsDeadline`: a purge with a cutoff in the future removes responses
  that are not overdue (`response_retention_service.py:33-37`). `PurgeOnlyOverdue`
  says what holds for every cutoff.

`docs/privacy-and-retention.md:126-127` says of the digest that a withdrawal keeps
that "Administrative erasure clears that digest". It does not: `tombstone_responses`
skips rows that are already deleted. `WithdrawnStaysBarred` states what the code
does.

### Proofs

`ResponseLifecycleProofs` holds for every value of the constants that satisfies
`ConstantsAssumption` (a positive batch size, policies of at least one day,
`NULL` distinct), `RowsFinite` and `NullIsNoSubmission`.

* `TypeCorrect`: `Spec => []TypeOK`. One lemma per group of handlers; the lemmas
  on helpers say that `Tombstone`, `Flush` and `TombstoneAll` make rows of rows
  and that a recount is a natural number.
* `ViewsAreCurrent`: `Spec => []LockedViewIsCurrent`. Not inductive alone: a
  second holder could write under the first. `LockInv` adds `HolderIsLocked`: a
  session is in a locked stage exactly when it holds the lock. Three step lemmas
  (take the lock, give it back, move without it) cover all actions.
* `CountNeverMisses`: `Spec => []CountNeverUnder`. A recount makes the count exact,
  a submission adds one to both sides, and a purge whose recount is left out of
  the UPDATE only removes live rows.

Its second half extends this with the history of a response.

* `HistoryInv` is the inductive invariant: `LockInv`, and for each row a shape
  (a tombstone is cleared; a live row with a code is a complete form response; a
  live row's hash is among its answers) and what its trail says of its digests,
  no two rows with one account, and two facts about sessions without which it is
  not inductive. A withdrawal's candidate was a complete form response and its row
  still is one or is a tombstone: so every cleared column differs from the loaded
  one and is really written. A purge's batch holds live rows only.
* The argument classifies what a step does to one row (`RowStep`: created, updated,
  removed, withdrawn) and proves once that each kind keeps shape and history; one
  lemma per writing handler then says which kind it is.
* `TombstonesStayClean`, `WithdrawalBars`: `Spec => []TombstonesAreClean` and
  `Spec => []WithdrawnStaysBarred`. `AcknowledgedIsStored`: `Spec =>
  AckMeansStored`; a replay answers from the view that `LockInv` keeps current, and
  the shape says that the row whose hash matched is live and holds the body.
* `FormAgreesWithHandlers`: `Spec => []FormMatchesHandlers`, from the same invariant:
  there is at most one row of an account, so what GET reads of a respondent and what
  POST and PATCH decide by are the same row, and its shape fixes all three answers.
* `ReceiptsReportErasures`: `Spec => ReceiptsMatchErasures`. The erasure counts and
  tombstones under one lock, under which `LockInv` keeps its view current, and no other
  step writes a receipt.
* `PurgesAreOverdue`: `Spec => PurgeOnlyOverdue`, for every cutoff an operator may give:
  what a purge removes is due at its cutoff by the deadline it has then, and is overdue
  unless the cutoff is in the future. Not a consequence of the lock, which a purge gives
  up between batches. `PurgeInv` adds that the batch it holds under the lock is due at
  its cutoff: rows only change by the lock's holder.
* `HandlersImplementContract`: `Spec => ImplementsContract`. The refinement mapping takes
  a respondent's rows to the standing of `ResponseContract`. The initial standing is
  initial there, and one lemma per handler shows that it takes the respondents it
  concerns through one step of the contract and leaves the standing of all others
  alone; `HistoryInv` is what makes the mapping a function of one row.

Proving `FormAgreesWithHandlers` showed that `CollectionState` was written with a CASE
whose arms overlap, which TLA+ leaves open; it now decides in the order of the code
(`response_service.py`), as do `ServerAnswer` of `RespondentForm` and `LoadAnswer` of
`ResponsePanel`.

## SurveyLifecycle

State. `surveys[v]` is a survey's row with its questionnaire, one value
`structure`; the texts, the cohort and the retention settings are one value
`content`; `responses` says whether the survey never had a response, has a live
one, or has tombstones only. `lock[v]` is the lock on the row, `sess` what each
client is doing (an editor's open tab or one request), `answered` a history
variable: the questionnaires that stored responses were checked against.

Versions. The code compares `updated_at` for equality only. A stamp is taken in
microseconds at every write and is taken not to repeat, so a version that a client
holds is represented by what became of it since: `current`, `edited` (a request
addressed to this survey renewed it), `overtaken` (only the bulk UPDATE of another
survey's request did) or `phantom` (it was never committed). A save accepts
`current` and nothing else; the other three only differ in `StaleMeansEdited`. Every
commit that writes the row renews it, submissions included, as `responses_count` is a
column of that row: `Outdated`.

Actions. A request that needs its row locked is Begin and an ending. What reads
nothing before the lock and ends at once (`Create`, `Archive`, `Restore`,
`EraseResponses`) is one step.

| Code | Actions |
|---|---|
| `get_survey_with_sections` | `Open` (the survey's row), `ReadStructure` (its sections and questions) |
| `replace_structure` | `BeginPut`, `PutCommit`, `PutNothing`, `PutRefuse` |
| create, change, delete, reorder of sections and questions | `BeginItem`, `ItemCommit`, `ItemRefuse` |
| `update_survey` | `BeginUpdate`, `UpdateCommit`, `UpdateRefuse`; with `is_cta` true `BeginClear`, `LockOther` for each other row, `ClearCommit` |
| `create_survey`, `create_survey_with_structure`, `soft_delete_survey`, `restore_survey` | `Create`, `Archive`, `Restore` |
| `submit_response`, `import_responses` | `BeginAnswer`, `Answer` |
| erasure, withdrawal or purge of the last live response | `EraseResponses` |
| PostgreSQL's deadlock detector (external) | `DeadlockVictim` |
| rollback, death of the process, a closed tab | `Crash` |

Abstractions. An item edit moves the questionnaire to any other valid one; a
submission or an import into a survey that any handler would accept is
`BeginAnswer`, whatever the status, which allows more than the code. The cached
answer of `GET /surveys/{id}` is that of a client that opened the survey earlier.
A survey that is not there yet has the columns it will be created with
overwritten, so its initial values do not matter. The bulk UPDATE visits the rows
in any order and only those that exist when it starts.

### Bounds

`Surveys`, scope editing: 1 survey, 2 sessions, 3 questionnaires of which one is
unready, 2 contents, every PATCH body. Scope cta: 2 surveys, 2 sessions, 1
questionnaire, bodies that choose or close; one of the surveys may be created as the
call to action and may be answered. Two sessions are enough for an editor and whoever
overtakes it, and for two updates that wait for each other; three questionnaires
tell a lost edit from a repeated one. Nothing counts upwards, so no bound beyond the
sets is needed. No symmetry, as the run checks liveness.

### Fairness

A request that holds its row runs to its end. A bulk UPDATE that waits for a row
gets it (strong fairness of `LockOther`), as row locks are granted in arrival
order. PostgreSQL finds every cycle of waits after `deadlock_timeout` and aborts
one of its transactions (weak fairness of `DeadlockVictim`): two updates that choose
different surveys end by it alone. Nothing obliges a client to
come.

### Known disagreements

Stated in the module and not kept; no run checks them in this form.

* `SingleCta`: a survey created with `is_cta` (`schemas/survey.py:29`) does not clear
  the others (`survey_service.py:343`, `406`), although the editor tells the user
  that only one can be the call to action (`SurveyEditorSidebar.tsx:177`). `OneCta`
  is about those that an update chose: `chosen`, a history field of the row, tells
  them from those created so.
* `StaleMeansEdited`: a save that changes nothing answers a version that was never
  committed (`survey_structure_service.py:392`), and the editor's next save is
  refused as stale or answered. With a second survey there is a second cause:
  choosing the landing page's survey renews the version of every survey
  (`overtaken`), edited or not.

### Proofs

`SurveyLifecycleProofs` assumes `SurveyAssumption` only. The inductive invariant
`IInv` was checked by TLC before it was proved.

* `LockInv`: a session in a locked stage holds its survey's row and the rows its
  bulk UPDATE has visited.
* `ViewInv`: a submission under way has read the questionnaire that is still in
  force; active surveys are ready; stored answers fit; a survey with answers has
  history. `ActiveIsReady` and `AnswersFitStructure` follow. A questionnaire only
  changes in an Inactive survey without history and only under the lock, so
  neither an activation nor a submission can have it pulled away
  (`ActiveSurveysAreReady`, `AnswersStayValid`).
* `CtaInv`: at most one row is `Chosen`; a request of the bulk UPDATE has every other
  chosen row among those it has locked or has still to lock; and of two such requests
  one has the other's survey on its list, for the later one lists every row that
  exists. So the later one waits for the earlier one's row, and clears the flag that
  the earlier one sets. `AtMostOneCta` (`OneCta`) follows, whatever surveys are
  created with.
* `AnsweredSurveysAreFrozen` (`HistoryFreezes`) follows from the same invariant step
  by step; `SavesLoseNoEdit` (`NoLostEdit`) from `VersionInv`: while a client's
  version is current, the structure it has seen is the row's.

## QuestionnaireEditor

State. `sections` is the questionnaire in the editor: per section its questions,
per question id, type, options and the configuration that other questions are
related to (`question_key`, `survey_phase`, `visible_when`, `options_by_answer`,
columns). `drag` is what is being dragged. An option is a text, and conditions and
branches name options by value.

Actions. Every control of the editor: options (`UpdateOption`, `AddOption`,
`RemoveOption`, `MoveOption`), branches (`UpdateDependentOption`, ...), types
(`ChangeType` with the normalisation of the structure), sections and questions
(`AddSection`, `RemoveQuestion`, `MoveQuestionBy`, ...), columns, drag and drop, and
closing and opening again. `SynchronizeDependentChoices`
is the code's walk over the later questions after each change of options.

Properties (run `Authoring`). `OptionEditsKeepReferences`: edits of options and
branches leave no condition or branch on an option that is gone, for the options of
questions without branches. `BranchesOfferOptions`: whatever a branch offers is an
option of the question. `MovesDisturbNothing`: reordering keeps the questions; a
dropped one stands right before its target and the others keep their order.

Bounds: two sections and four questions (a source, a question that depends on it, a
matrix, a text with a condition), three texts, `MaxEdits` = 3. A reference breaks by
an edit of its source after an edit of the dependent question, which is two steps;
the third is room for a type change or a move between them.

Known disagreement: `ReferencedChoicesStay`, which is `OptionEditsKeepReferences` for the
options of every question. The editor refuses to remove an option "because another
question uses it as a visibility condition" (`useSurveyManagement.ts:1361`). The options
of a question with branches are the union of its branches' choices, and an edit of a
branch, or of the source whose answers the branches hang on, takes one away without a
look at the conditions that name it (`questionWithDependentChoices`, 201-219, and
`synchronizeDependentChoices`, 134-162). Such a condition can never be met again, and
neither the editor nor the server compares it with the options when the survey is saved.
`ChainedQuestionnaire` of `MCQuestionnaireEditor` as `Loaded` and one edit reproduce it.

### Proofs

`QuestionnaireEditorProofs` holds for any questionnaires loaded, any texts typed and
any number of edits. It assumes what the server has checked of what it stores
(`LoadedValid`: the save rules, and the record shapes of `SectionsShaped`) and that the
texts are strings (`TextAssumption`; the provers do not know that of a literal).

* `EditorInvariant`: most save rules may be broken while one edits, so the invariant is
  what no edit breaks. `QuestionOK`: a question keeps its shape, one with branches is no
  matrix, and each choice its branches offer is one of its options. `EditorInv` says
  this of every section, and that what is dragged is there. The central lemmas are about
  `SynchronizedFlatOptions` (what a change of the branches makes of the options) and
  `SynchronizeDependentChoices` (the walk over the later questions); one lemma per edit
  then shows that it replaces a question by one that is `QuestionOK`.
* `BranchesOffered`: `EditorSpec => []BranchesOfferOptions` follows.
* `EditsKeepReferences`: `EditorSpec => OptionEditsKeepReferences`. A rename reaches the
  references by `NextChoices` and `NextCondition`, a removal is refused while a condition
  names the option, and a branch edit leaves the options of questions without branches
  alone.
* `MovesAreFaithful`: `EditorSpec => MovesDisturbNothing`. The ids are split by section;
  taking a question out of a list and putting it in elsewhere leaves the list without it
  as it was, as flattening distributes over concatenation; and the index at which it is
  put in is where the target has come to stand.

## SurveyDesk

State. `server` the stored surveys, `list` the page of them on screen with the query
it answers, `fetches` the list requests under way, `task` what `runExclusive` runs,
`editor` the editor's session (the version and fields it was opened on, what was
typed), `dialog`, and `cache`, the template as the page knows it.

Actions. `SetStatusFilter`, `SetShowArchived`, `SetOffset` and `ListAnswer` for the
list; `HandleDelete`, `HandleRestore`, `HandleEraseAll` with their answers;
`HandleOpenEdit`, `EditField`, `HandleSaveSurvey` with `PutAnswer` (sections under
their version), `PatchAnswer` (fields), `ConflictAnswer` and `ReloadAnswer`;
`OpenTemplate`, `TemplateFound`, `TemplateReady`, `TemplateStored`, `GenerateAnswer`.
An answer may say success, a refusal, or be lost after the server did what was asked.
`Elsewhere` is anybody else's change of a survey.

Properties (run `Authoring`). `ListFollowsFilters`, `PageNotEmpty` (own archives and
restores leave no empty page in front of surveys that are there),
`SectionsSavedWereSeen` (a save replaces no sections that the session did not show)
and `GeneratedIsCurrent` (a survey is generated from the template as it is stored).

Bounds: two surveys on pages of one, one template, two status filters, `MaxClicks` = 5,
`MaxUnseen` = 1 change or answer that the page misses. Opening, editing, saving, and
archiving around one change of another person takes four clicks.

Known disagreement: `StarSavedWasSet` (a save changes the call-to-action star only if
its session changed it) does not hold. Observed and not stated as a property: when the
sections are stored and the PATCH of the fields fails, the session keeps the version of
before, and its next save of sections is refused; a template in that situation keeps new
sections under its old title; after a list request failed, paging may show an empty
page.

## RespondentForm

State. `survey` the published questionnaire, `page` what the tab shows, `form` the
mounted form (section, answers, consent, idempotency key), `wire` the submission it
waits for, `late` submissions that the proxy or the browser gave up and that may
still arrive, `session` the Google session, `server` a record per account. `last` and
`tried` are history: the last submission and all submissions of the mounted form, each
with its key and what the form took it for.

Actions. `Visit`, `Reload`, `ContinueToPhase2`; `Answer` of every type of question
with the pruning after it; `AgreeNotice`, `GoNext`, `GoPrev`, `Submit`; `Answered`,
`AnsweredEarly` (the proxy
answers itself, or the backend refuses before it reads anything), `TimedOut`, `LateArrival`,
`RetryTimer`; `SignIn`, `SessionEnds`, `ServerChanges` (closed, or a new consent
notice). `PruneConditionalAnswers` is the frontend's repeated passes and
`ServerValid` the backend's `_validate_answers` and visibility, translated
separately: the two implementations are compared.

Typed answers (text, number, date) are empty, usual or extreme. The backend limits them
(`response_service.py:398-423`, `448-456`): numbers by bounds, step and wholeness, texts
by length, dates by their form, and the whole payload by its size (`575`, `897`). The
form has no such check (`ClientSurveyForm.tsx:242-266`, `QuestionInput.tsx:207-219`,
`248-258`). So a question says what it `takes`, a usual and an extreme value may each be
within its limits or beyond them, and a payload has room for `Room` extreme values:
`ValidAnswer` and `TooLarge` refuse what the form lets through.

Properties (run `Answers`). `FormAgreesWithServer`: of what the form sends the server
finds every answer valid, except typed ones beyond the limits of their own question: the
two agree about visibility, options, order and completeness, and a value that is refused
makes no other answer wrong. `DoneMeansStored`: "done" is shown only for what is stored.
`KeyKeptWhileUnsure`: over all submissions of a form, a new one has another key than an
earlier one only if that earlier key was definitely refused meanwhile.

`FormAgreesWithServer` is proved too (`AnswersProofs`, below), for surveys without
optional questions in a phase. With one it does not hold: `RespondentOptional`.

Bounds: a survey with both phases whose first has a chain of three dependent
questions (the shortest in which one pass of the pruning is not enough), one without
phases with optional questions of each kind, and one of a single question. A note takes
both typed values and does not fit the payload when extreme (`Room` = 0), a reason takes
the usual one only. One account, three submissions (`MaxAttempts`: one that stays
unsure, one that is refused, one more), two visits, one event from outside.
`FewSubmissions` leaves all three to the survey of one question, two to the one with
phases and one to the other: what a submission's outcome does to the key depends on no
answer.

Known disagreements, stated in the module and in no run:

* `AcceptedIsValid`: what the form accepts is valid. Values beyond the limits above are
  sent and refused, and the refusal does not say which answer to change.
* `OneKeyUntilCertain`: no new key while an earlier submission may still be stored. When
  the first submission times out and its repetition is refused, the form drops the key
  (`ClientSurveyForm.tsx:390`), and the third goes out with a new one while the first may
  still arrive.

## SurveySignIn

State. `jar` is the browser's cookies, shared by its tabs: the signed state cookie
(destination and flow), code verifiers, the session. `tabs` is where each tab is and
which cookies its request carried; `attested` the flows that the backend attested.

Actions. `Start`, `StartFails`, `GoogleReturns`, `CallbackRefused`, `CallbackBegins`,
`Exchange`, `Attest`, `AttestUnheard` (the answer is lost), `StepFails`, `Store`,
`CleanUp`, `StateExpires`, `Revisit`. Signing and encoding of the cookie are one
refusal that may happen at any time.

Properties (run `Answers`): `SessionIsAttested` and `LandsOnItsSurvey`. Bounds: two
tabs of two surveys, two accounts, four flows: each tab may start again after the
other replaced its cookie.

## ResponsePanel

State. `view` and `tab` of the details dialog, `panel` what was loaded (aggregates,
a page of records, identities) with its origin, `importing`, `exclusive` and
`requests` under way. All loads share one request number; a request here carries
`live`: whether its number is still the latest.

Actions. Opening and closing a survey, paging, loading identities, selecting,
exporting, erasing, importing, and `RequestAnswered` with success, refusal or
failure, which applies the answer and issues the requests its handler awaits next.

Properties (run `Answers`): `AggregatesOfView`; `ActionsEnd`, under `PanelFairness`.
Bounds: two surveys, two pages, all capabilities, seven clicks.

Fairness: every request is answered or times out, as `lib/api.ts` gives each one a
deadline; nothing obliges the reader to click.

Known disagreements: `RecordsOfView` and `LoadingIsUnderWay`. A refresh awaits its
three loads in turn and does not ask again whether the panel still shows its survey
(`useSurveyManagement.ts:634-657`): after a switch the records of the previous survey
may be loaded and shown, and a flag may say "loading" with nothing under way.

## ImportDialog

State. What the person chose (`file`, `sheet`, `column`, `values`), whether it
changed since the check (`dirty`, `needsRecheck`), the check's answer `preview`, the
request in flight, the survey's questions `structure`, and `imports`, a history of
what was stored with the check it followed.

Actions. The dialog's controls, `CheckFile`, `CheckAgain`, `Import`, the server's
`ServerChecks` and `ServerImports` (which maps the column again under the lock), the
answers heard, and `EditSurvey` by other administrators.

Property (run `Answers`): `ImportsTheCheck`. `ImportedAsReviewed` is refuted by
`ImportReviewed`. Bounds: a workbook of two sheets and a file of one, two questions
with two wordings and two option lists, four requests, one edit of the survey by
others.

## PortalAccess

State. One staff account: the identity provider's `password`, `sessions`, `factors`
and recovery `link`; per browser its cookies `jar` and the authenticator `setup` on
screen; `used`, the grants marked in Redis; `op`, the requests in flight, each with
the cookies it was sent with and the step it has reached.

Actions. Sign-in (with undoing a session that has no portal account), sign-out here
and everywhere, recovery link and grant, reset (`ConsumeGrant`, `RecordChange`,
`ChangePassword`, `EndAfterReset`), challenge, and the settings' enroll, cancel (listing
the setup and unenrolling it are two calls: `FindSetup`, `CancelSetup`), verify
and remove, step by step in the order of the code; every call to the provider may fail
or be done without being heard.

Properties (run `Administration`): `OneChangePerGrant` and `ResetEndsOldSessions`.
Bounds: two browsers, two requests at once, two sessions and two factors ever, and the
kinds of requests that meet in one behaviour (`Mixes`: reset, sessions, settings).

Known disagreement: `VerifiedKeptUntilRemoved`. Starting a setup removes the
unfinished factors it has listed, by id (`app/mfa/actions.ts:59-71`), and cancelling one
removes what it has listed (`41-48`); one that another
tab verifies in between is removed although it is in use.

## AccessControl

State. `status` and `assigned` roles per user, `enabled` staff roles, `ops` the
requests in progress, `adminLock` the row lock of the Admin role, and the history
`slipped`: users removed as ordinary users while they had become administrators.

Actions. `Begin`, `Look` (the unlocked read of who is an administrator),
`LockAndCheck`, `CommitRoles`, `CommitRemoval`, `Abort`; `Reinstate`, `UpdateRole`.

Properties: `OnlyUnlockedRemovalsLoseAdmins` (run `Administration`, and proved);
`AdminRemains` is refuted by the run of that name. Bounds: two users, one staff role,
two requests.

## AdminPages

State. One of the three pages: its controls `view`, the debounce `timer`, list
requests `asked` and the `newest`, what is `shown`, open `dialog`, changes being sent,
and for the audit page the details' requests.

Actions. Filters, paging, lists and their answers in any order, dialogs, changes and
the reload after each, details.

Properties (run `Administration`): `ListIsNewest` and `OwnChangesShown`. Bounds: two
searches, two offsets, three list or detail requests, one change.

Known disagreements: `ListFollowsControls` (a change that ends after the filters were
changed reloads with the filters of its click, `AdminUserManagement.tsx:81-118`) and
`RolesListIsNewest` (the roles page does not number its requests,
`AdminRoleManagement.tsx:47-56`). Observed: the pager is hidden when there are at
most 20 users although a later offset is shown (`AdminUserManagement.tsx:445`); a
profile edit sends the row's old active flag again (`120-139`).

## AlumniCounts

State. `stored` the table of totals, `tableLock`, and per administrator `copy` (what
was loaded, the grid, whether the confirmation is open) and `put`, the save in flight.
`version` and `lastSaved` are history.

Actions. Loading, typing, importing a CSV, removing a batch, discarding, saving with
confirmation of removals; `LockTable`, `CommitTable`, `ListForAnswer`, `SaveFails` and
`PutAnswered` for the request.

Properties (run `Administration`, both proved): `StoredIsLastSave`,
`RemovalsWereAsked`. Bounds: two administrators, two batches, one college, one total
next to a blank and a malformed one, two saves. Observed: what is typed while a save is
under way is overwritten by its answer (`AdminAlumniCounts.tsx:186-190`); of two
concurrent saves the later table stays as a whole.

## FeedbackScores

State. One response: its answered texts, `sentiments` (the stored scores, one polarity
per question), `feedback` (the rows of corrections), `diskCache` (the analyzer's file
cache); `analysis` and `correction` are the background tasks and requests under way,
with the scores they have read. `verdict` and `overlapped` are history.

| Code | Actions |
|---|---|
| submission of a phase, removal | `AnswerPhase`, `Remove` |
| `analyze_response_background` | `ReadAnswers`, `Compute`, `WriteScores` |
| `mark_false_positive` | `ReadResponse`, `ReadFeedback`, `Save`, `NotSaved` |
| `register_false_positive`, in its own thread | `Register` |
| `compute_peii_scores`, the polarity of one answer | `Shown` |

An analysis and a correction both write back all scores from what they read, so
either may undo the other's. Of several rows for one answer (nothing makes them
unique) analytics takes whichever comes last: `Shown` is a set. The classifier and
the keyword rules are constants, and so are the `Placeholders`, answers such as "N/A":
analytics shows 0 for them and looks neither at the score nor at a correction
(`survey_analytics_service.py:1061-1063`), although one may be saved.

Properties. `ForcedShows` (run `StoredResponses`, and proved): a decided polarity is
the one shown, since the row wins over any stored score, unless corrections of the same
answer ran together or the answer is a placeholder. `FlipShows` is refuted, of an answer
that is none: a correction without a polarity is
applied twice. Known disagreement, in no run: `AnyForcedShows`, the first without the
exception for placeholders. `docs/analytics-calculation.md:196-205` lets any answer be
flagged and a forced polarity replace the score entirely. Bounds: one text per phase, one
a placeholder, one analysis, two correction requests, a
flip and a positive verdict. `SmallFeedbackNext` lets the second correction begin only
while the first runs, none after two ran together, and one only when the second text
is answered: a correction that nobody overlaps behaves like the first.

Observed: scores and feedback rows stay on tombstones; of two analyses the one that
read Phase 1 only may write last; an analyzer that could not load its model writes
empty scores over existing ones.

## AnalyticsCache

State. `changes` is what was committed and how far its invalidation got; data is the
number of changes it includes. `version` is the survey's version in the entries' keys,
`local[p]` the cache of process p, `shared` the one in Redis, `query` the requests.

Actions. `Ask`, `AskShared`, `Read` (from the primary), `StoreLocal`, `StoreShared`;
`Mutate` of a process, renewing the version or not; `Lapse`, a response's deadline;
`CleanLocal`, `CleanShared` (which may fail), `DieBeforeCleaning`; expiry at any time.

Property. `AggregatesIncludeImports` (run `StoredResponses`, and proved): a cached
entry includes every change up to the one that renewed its version, though it be
stored after the invalidation and the invalidation of other processes never comes.
The bounds of the run are two processes, two requests and one change, which has one
request on each side of it; the theorem holds for any numbers.

Known disagreement: `LapsedNotShown`. A deadline renews no version and cleans nothing,
so expired responses stay in cached aggregates until the entry expires, while
`docs/privacy-and-retention.md:104-107` says that expired rows disappear immediately.
The same holds for follow-ups, analyses and corrections stored late. Observed: a request
between the two halves of an invalidation copies the old entry from Redis back into the
process, with a full TTL.

## ResponseExport

State. `exportable` the live responses, `exporting` per export its step, count and file,
`audit` the entries, `artifacts` the storage, `links` what was answered.

Actions. `Count` (413 above the limit), `AuditStart`, `Build` (the query is limited to
the count), `Upload`, `Sign`, `AuditEnd`, `AuditAbort`, `ExportDies`; `Submitted` and
`Removed` between any two. The storage may store the file and lose its answer; each
audit entry may fail.

Properties. `ExportsAreAudited` (run `StoredResponses`, and proved): a stored file was
announced with at least as many responses as it holds, within the limit, and a link is
only answered for a stored file whose end was audited. `EndsReportTheFile` is refuted.
Bounds: one export (exports share nothing but the responses), three responses, a limit
of two: enough for one more than the limit and for one more than was counted.

Observed: a failure while the file is built writes `export_aborted` twice, with
different counts; a failure of signing leaves the uploaded file in storage.

## Proofs of the other modules

Each theorem is `Spec => []P` (or `Spec => P` for an action property) for every value of
the constants that satisfies the module's assumption, proved from an inductive invariant
with one lemma per group of actions.

* `AdministrationProofs`. `AccessInv`: who commits a change of roles holds the lock; the
  holder's check is still true when it commits, unless a user slipped: whatever else
  takes an administrator away needs the lock or is recorded in `slipped`. Gives
  `LockedChangesKeepAnAdmin`. `AlumniInv`: a page or a save that has seen the present
  version has seen the present table, and a save holding the lock replaces the table it
  read under it. Gives `SavesAreWhole` and `RemovalsAreAsked`.
  `PagesInv`: the request with the newest number asks for what is on screen, and once the
  server has read for it, it has read every change of this page. Gives `NewestListWins`
  and `OwnChangesAreListed`.
  `GrantInv`: a request about to change the password has used up a
  grant that no other such request has, and unused grants have changed nothing. Gives
  `ResetLinksAreSingleUse`. `ResetInv` adds what a reset has done at each of its steps:
  past the change the password has changed with its grant, and past the sign-out of the
  other sessions none that began before the change is left; no step of anybody revives
  one. Gives `ConfirmedResetsEndSessions`.
* `AnswersProofs`, four parts that share no state.
  * `SignInInv`: a state cookie, in the jar or carried by a request, `Fits` — every tab
    under way with its flow was opened for its destination — and a tab past the
    attestation carries the flow that was attested. Gives `SessionsAreAttested` and
    `TabsLandOnTheirSurvey`.
  * `FormInv`: every submission of the form carried the key the form holds now, or a key
    that was definitely refused (`KeyInv`); a submission under way carries what the form
    shows, and what a closing page shows is stored (`DoneInv`); `ServerInv` is the shape
    of the records. Gives `DoneAnswersAreStored` and `UnsureAttemptsKeepTheirKey`.
  * `AgreeInv`: the answers in the form fit their questions and their sources
    (`AnswersOK`), every section before the one on screen is complete (`PassedUpto`),
    and a submission under way satisfies the backend's rules up to the limits of typed
    answers. Pruning in passes is what
    re-establishes `AnswersOK` after each answer: a pass that deletes nothing leaves
    nothing out of place, and any other deletes one of at most as many answers as there
    are questions. Gives `AcceptedByFormIsValid` (`FormAgreesWithServer`) under the hypothesis
    `RequiredInPhases`, without which the property is false. Assumed of the
    questionnaires (`RespondentAssumption`) is what the backend checks before it
    publishes one: `PhaseValid` (`question_validation.py`), one phase or two
    (`response_service.py:163-178`), no empty section (`survey_service.py:157-210`).
  * `PanelInv`: a live load of aggregates is for the survey shown, and a refresh loads
    them first or not at all (`Shows`); the one load that does not ask what is on screen,
    an erasure's refresh, runs while `exclusive` keeps another survey from being opened
    (`Exclusive`). Gives `AggregatesFollowView`.
  * `CheckedImportInv`: a dialog that is not dirty shows the answer to exactly what is
    chosen, and an import under way repeats the check's request and version. Gives
    `ImportsAreChecked`.
* `SurveyDeskProofs`. `DeskInv`: the live request is for the filters on screen
  (`ListInv`); versions never go back and sections change under a new version only, so
  the version a session was opened on stands for the sections it has shown
  (`EditorCurrent`), its own saves included; what the page holds of the template is
  current, and stays so (`CacheInv`). Gives `RowsAnswerFilters`,
  `GeneratedFromCurrentTemplate` and `SavesReplaceSeenSections`. `PageInv` on top of it:
  while this page has missed no change, its total (which a generated survey leaves one
  short) is at most the number of surveys there are, an offset lies before their end, and
  a settled page is full or reaches the total. Positions are ranked without gaps
  (`RankBijective`, by counting), so a page that starts before the end has a row; an
  archiving takes one survey away (`CountShrinks`) and is the only step that does. Gives
  `PagesAreNotEmpty`.
* `StoredResponsesProofs`. `CacheInv`: what is cached, or about to be stored, for a version
  includes it. `ExportInv`: past each step the entry and the file that it promises are
  there; a set of responses streamed under the count is no larger. `FeedbackInv`: of an
  answer without overlapping corrections there is at most one row and it has the verdict
  committed last, also as the correction under way has read it (`DecisionsShow` is of
  answers that are no placeholders). Give
  `AggregatesAreOfTheirVersion`, `FilesAreAudited` and `DecisionsShow`.
* `QuestionnaireEditorProofs` is described with its module. It and `AnswersProofs` rest
  on `SequenceLemmas`. The library's induction theorems cannot be instantiated by the
  provers, so `Induction` is derived there from the well-foundedness of `<` on the
  naturals, for a set instead of a predicate; from it, that an iteration over `1..N`
  exists, what `FlattenSeq` of a list of lists holds and how it distributes over
  concatenation, and what the edits of a list leave in it and where.

## Disagreements that a run shows

* `AdminRemains` (code): deactivating or deleting a user reads without the lock whether
  the user is an administrator (`user_service.py:245`, `375`). A user who becomes one in
  between is removed as an ordinary user, and the last administrator may be lost.
* `RespondentOptional` (code): in a survey with phases the server requires every visible
  question of the phase (`response_service.py:506`), the form only those marked required.
* `ImportReviewed` (document): the structure version does not cover the wording by which
  columns are mapped (`response_import_service.py:237`).
* `FlipShows` (code): "Mark as positive" negates the stored score and leaves a row by
  which analytics negates it again (`survey_analytics_service.py:1081`).
* `ExportAuditCount` (document): the entry of a finished export carries the count read
  first (`response_export_service.py:340`).

## Only model-checked

Liveness (`EverySessionEnds`, `EveryRequestEnds`, `ActionsEnd`) and the fairness it
needs are outside the proof system. Every other property of a passing run is stated by
a theorem. No module has a RECURSIVE operator.

Assumptions that only the proofs need, each evaluated by TLC: `NULL` is no number, and a
published questionnaire is one the backend accepts (`RespondentAssumption`); a stored
questionnaire satisfies the save rules (`LoadedValid`) and texts are strings, `NULL` is
none (`TextAssumption`); `NULL` is none of the panel's words (`CanAssumption`); the
template is not among the surveys of the list (`DeskAssumption`;
`useSurveyManagement.ts:360` asks for surveys that are no templates), and each survey
has one position in it (`survey_service.py:92` sorts rows of one table, ties by id).

## Not modelled

* Google attestation, rate limiting, invitations and the permission cache, the matching
  of import rows: state machines or functions worth modelling, in the plan above. The
  attestation is external to `SurveySignIn`, where it may succeed, fail or be unheard.
* The cache of the PEII scores: like the aggregates' cache but without a version in the
  key and read from a replica, so that only its TTL bounds how old it is.
* The arithmetic of analytics and reports, the classifier and its training: numeric
  functions of their inputs without state.
* The server's diff of a whole-structure save and its renumbering: `SurveyLifecycle`
  treats a questionnaire as one value.
* Forwarding rules of the API proxy, configuration, logging, migrations, operator scripts
  and deployment: wiring without a state of the program.
