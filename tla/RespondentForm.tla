--------------------------- MODULE RespondentForm ---------------------------
(* The public survey as one browser tab shows it: the page decides what to *)
(* show (survey/[surveyId]/page.tsx), ClientSurveyForm collects answers    *)
(* section by section, and a submission goes through the survey proxy to   *)
(* the backend, whose answer may be late, lost or unreadable.              *)
(*                                                                         *)
(* A question is a record [id, type, options, cols, takes, required, when,  *)
(* by]: `when` is visible_when, `by` options_by_answer.  Answers are a      *)
(* function from the ids of the answered questions.  Text, numbers and      *)
(* dates are typed: an extreme value may be a long text, a number out of    *)
(* bounds, between two steps or broken, a year after 9999; `takes` is what  *)
(* is within the limits of the question.  A scale answer is a position of   *)
(* `options`.                                                              *)
EXTENDS Nullable, SequencesExt

CONSTANTS
    Questionnaires,   \* phase -> sections, for each survey; phase 0: a survey without phases
    ConsentQuestion,  \* the question whose "No" ends participation
    Accounts,         \* Google accounts this browser may be signed in with
    Room,             \* extreme answers that a payload of 10000 characters has room for
    MaxAttempts,      \* bound on the submissions of this browser
    MaxVisits,        \* bound on page loads
    MaxEvents         \* bound on what happens outside the form

Types == {"single_choice", "multiple_choice", "ranking", "matrix", "scale", "boolean", "typed",
          "file"}
Typed == {"", "usual", "extreme"}

\* What the backend checks of one question before a survey is published ...
QuestionValid(q) ==
    /\ q.type \in Types
    /\ q.options \in Seq(ToSet(q.options)) /\ IsInjective(q.options)
    /\ q.type = "matrix" => q.options # <<>>
    /\ q.by # NULL =>
          /\ q.type = "single_choice"
          /\ \A a \in DOMAIN q.by.choices : q.by.choices[a] \in Seq(ToSet(q.options)) \ {<<>>}

\* ... and of the questions of one phase together: a condition names a single
\* choice that precedes the question.
PhaseValid(sections) ==
    /\ sections # <<>>
    /\ sections \in Seq(Seq(UNION {ToSet(sections[i]) : i \in DOMAIN sections}))
    /\ \A i, k \in DOMAIN sections : \A q \in ToSet(sections[i]), r \in ToSet(sections[k]) :
          q.id = r.id => i = k /\ q = r
    /\ \A i \in DOMAIN sections : \A q \in ToSet(sections[i]) :
          /\ QuestionValid(q)
          /\ \A reference \in {q.when, q.by} \ {NULL} : \E k \in 1..i :
                \E s \in ToSet(sections[k]) : s.id = reference.source /\ s.type = "single_choice"

\* A form without a key has none (useRef(null)); keys are numbered here.
ASSUME RespondentAssumption ==
    /\ NULL \notin Nat
    /\ \A S \in Questionnaires : /\ DOMAIN S \in {{0}, {1, 2}}
                               /\ \A p \in DOMAIN S : PhaseValid(S[p])

VARIABLES
    survey,     \* the questionnaire published
    page,       \* what the tab shows
    form,       \* state of the mounted form
    wire,       \* the submission the form waits for, or NULL
    late,       \* submissions given up by the proxy or the browser, still on their way
    last,       \* key and outcome of the form's latest submission, or NULL
    tried,      \* history: key and outcome of every submission of this form
    session,    \* the account of the session cookie, or NULL
    server,     \* the backend: is the survey open, the consent notice, a record per account
    stored,     \* every <<phase, answers>> the backend ever stored
    attempts, visits, events

respondentVars == <<survey, page, form, wire, late, last, tried, session, server, stored,
                    attempts, visits, events>>

NoAnswers == [id \in {} |-> NULL]
NoRecord == [at |-> "none", key |-> NULL, body |-> NULL]

-----------------------------------------------------------------------------
(* Conditions between questions: survey-conditions.ts.                     *)

Questions(p) == FlattenSeq(survey[p])

SourceAnswer(id, a) == IF id \in DOMAIN a THEN a[id] ELSE NULL

AvailableOptions(q, a) ==
    IF q.by = NULL THEN ToSet(q.options)
    ELSE LET answer == SourceAnswer(q.by.source, a)
         IN  IF answer \in DOMAIN q.by.choices
             THEN ToSet(q.by.choices[answer]) \cap ToSet(q.options)
             ELSE {}

IsVisible(q, a) ==
    /\ q.when # NULL => SourceAnswer(q.when.source, a) \in q.when.values
    /\ q.by # NULL => AvailableOptions(q, a) # {}

\* Faulty variant: a choice that is no longer offered is kept.
OutOfPlaceIfHidden(q, a) == ~IsVisible(q, a)

OutOfPlace(q, a) ==
    \/ ~IsVisible(q, a)
    \/ q.by # NULL /\ a[q.id] \notin AvailableOptions(q, a)

\* The answer to q is deleted if it is out of place among the others.
PruneAnswer(q, a) ==
    IF q.id \in DOMAIN a /\ OutOfPlace(q, a) THEN Restrict(a, DOMAIN a \ {q.id}) ELSE a

\* One pass over the questions, deleting in place.
PrunePass(questions, answers) ==
    LET after[n \in 0..Len(questions)] ==
            IF n = 0 THEN answers ELSE PruneAnswer(questions[n], after[n - 1])
    IN  after[Len(questions)]

\* As many passes as there are questions; one that deletes nothing ends them.
PruneConditionalAnswers(questions, answers) ==
    LET after[n \in 0..Len(questions)] ==
            IF n = 0 THEN answers ELSE PrunePass(questions, after[n - 1])
    IN  after[Len(questions)]

-----------------------------------------------------------------------------
(* What the form requires of a section.                                    *)

IsBlank(q, a) ==
    \/ q.id \notin DOMAIN a
    \/ CASE q.type = "typed" -> a[q.id] = ""
         [] q.type = "multiple_choice" -> a[q.id] = {}
         [] q.type = "matrix" -> DOMAIN a[q.id] = {}
         [] OTHER -> FALSE

MatrixComplete(q, a) ==
    /\ q.id \in DOMAIN a
    /\ DOMAIN a[q.id] = ToSet(q.options)
    /\ \A row \in DOMAIN a[q.id] : Contains(q.cols, a[q.id][row])

Complete(q, a) ==
    \/ ~IsVisible(q, a)
    \/ IF q.type = "matrix" /\ (q.required \/ ~IsBlank(q, a)) THEN MatrixComplete(q, a)
       ELSE q.required => \/ q.type = "ranking" /\ q.options # <<>>
                          \/ ~IsBlank(q, a)

Section == survey[form.phase][form.section]
ValidateSection == \A q \in ToSet(Section) : Complete(q, form.answers)
IsLast == form.section = Len(survey[form.phase])
NeedsConsent == form.phase \in {0, 1}
Declined == SourceAnswer(ConsentQuestion, form.answers) = "No"
Submitting == wire # NULL

\* The answers a submission carries: pruned, a ranking nobody touched in its
\* listed order.
SubmittedAnswers ==
    LET questions == Questions(form.phase)
        pruned == PruneConditionalAnswers(questions, form.answers)
        untouched == {q \in ToSet(questions) : /\ q.type = "ranking"
                                               /\ q.id \notin DOMAIN pruned
                                               /\ IsVisible(q, pruned)}
    IN  [id \in DOMAIN pruned \cup {q.id : q \in untouched} |->
            IF id \in DOMAIN pruned THEN pruned[id]
            ELSE (CHOOSE q \in untouched : q.id = id).options]

-----------------------------------------------------------------------------
(* The backend's own validation of answers, and what it answers.           *)

ServerVisible(q, a) ==
    /\ q.when # NULL => SourceAnswer(q.when.source, a) \in q.when.values
    /\ q.by # NULL => SourceAnswer(q.by.source, a) \in DOMAIN q.by.choices

EffectiveOptions(q, a) ==
    IF q.by = NULL THEN ToSet(q.options)
    ELSE IF SourceAnswer(q.by.source, a) \in DOMAIN q.by.choices
         THEN ToSet(q.by.choices[SourceAnswer(q.by.source, a)]) ELSE {}

ValidAnswer(q, a) ==
    LET v == a[q.id]
    IN  CASE q.type = "single_choice" -> v \in EffectiveOptions(q, a)
          [] q.type = "multiple_choice" -> v \subseteq EffectiveOptions(q, a)
          [] q.type = "ranking" -> IsInjective(v) /\ ToSet(v) = EffectiveOptions(q, a)
          [] q.type = "matrix" -> /\ DOMAIN v = EffectiveOptions(q, a)
                                  /\ \A row \in DOMAIN v : Contains(q.cols, v[row])
          [] q.type = "scale" -> v \in DOMAIN q.options
          [] q.type = "boolean" -> v \in BOOLEAN
          [] q.type = "typed" -> v \in q.takes
          [] q.type = "file" -> v \in Typed   \* any string; the form has no control for it

\* In a survey with phases every visible question must be there, whether it is
\* required or not.
AcceptsQuestion(p, q, a) ==
    IF ~ServerVisible(q, a) THEN q.id \notin DOMAIN a
    ELSE IF q.id \notin DOMAIN a THEN p = 0 /\ ~q.required
    ELSE IF IsBlank(q, a) THEN ~q.required
    ELSE ValidAnswer(q, a)

Known(p, a) == DOMAIN a \subseteq {q.id : q \in ToSet(Questions(p))}

\* _validate_answers
ServerValid(p, a) ==
    Known(p, a) /\ \A q \in ToSet(Questions(p)) : AcceptsQuestion(p, q, a)

\* _validate_phase_answer_ids: the questions of Phase 1, before any value.
PhaseAnswered(a) ==
    Known(1, a) /\ \A q \in ToSet(Questions(1)) : ServerVisible(q, a) => q.id \in DOMAIN a

TooLarge(p, a) ==
    Cardinality({q \in ToSet(Questions(p)) : /\ q.type = "typed" /\ q.id \in DOMAIN a
                                            /\ a[q.id] = "extreme"}) > Room

\* The state of the respondent that the public survey reports.
CollectionState(r) ==
    CASE r.at = "none" -> IF 0 \in DOMAIN survey THEN "single" ELSE "phase1"
      [] r.at = "phase1" -> "phase2"
      [] OTHER -> r.at

\* What POST and PATCH /respond answer, in the order of their checks.
ServerAnswer(req, who) ==
    LET mine == server.records[who]
        owners == {w \in Accounts : server.records[w].key = req.key}
    IN  IF req.phase \in {0, 1}
        THEN IF req.notice # server.notice THEN "stale_consent"
             ELSE IF \/ TooLarge(req.phase, req.answers) \/ ~server.open
                     \/ req.phase = 1 /\ ~PhaseAnswered(req.answers) THEN "refused"
             ELSE IF owners \notin {{}, {who}} THEN "idempotency_conflict"
             ELSE IF owners = {who} THEN
                  IF mine.body.notice # req.notice THEN "conflict"
                  ELSE IF mine.body = req THEN "accepted" ELSE "idempotency_conflict"
             ELSE IF mine.at = "withdrawn" THEN "withdrawn"
             ELSE IF mine.at # "none" THEN "already_submitted"
             ELSE IF ~ServerValid(req.phase, req.answers) THEN "refused"
             ELSE "accepted"
        ELSE IF ~server.open \/ ~ServerValid(2, req.answers) \/ TooLarge(2, req.answers)
             THEN "refused"
             ELSE IF mine.at = "withdrawn" THEN "withdrawn"
             ELSE IF owners \notin {{}, {who}} THEN "idempotency_conflict"
             ELSE IF owners = {who} THEN
                  IF mine.body = req THEN "accepted" ELSE "idempotency_conflict"
             ELSE IF mine.at = "none" THEN "phase1_required"
             ELSE IF mine.at = "completed" THEN "already_completed"
             ELSE "accepted"

\* The backend takes a submission: it stores what it accepts, unless it is a replay.
Take(req, who) ==
    /\ server' = IF ServerAnswer(req, who) = "accepted"
                 THEN [server EXCEPT !.records[who] =
                          [at |-> IF req.phase = 1 THEN "phase1" ELSE "completed",
                           key |-> req.key, body |-> req]]
                 ELSE server
    /\ stored' = IF ServerAnswer(req, who) = "accepted"
                 THEN stored \cup {<<req.phase, req.answers>>} ELSE stored

-----------------------------------------------------------------------------
(* Loading the page.                                                       *)

Mounted(p, notice) ==
    [phase |-> p, section |-> 1, answers |-> NoAnswers, notice |-> notice,
     agreed |-> FALSE, stale |-> FALSE, waiting |-> FALSE, key |-> NULL]

RespondentInit ==
    /\ survey \in Questionnaires
    /\ page = "blank"
    /\ form = Mounted(1, 1)
    /\ wire = NULL /\ late = {} /\ last = NULL /\ tried = {}
    /\ session \in Accounts \cup {NULL}
    /\ server = [open |-> TRUE, notice |-> 1, records |-> [w \in Accounts |-> NoRecord]]
    /\ stored = {}
    /\ attempts = 0 /\ visits = 0 /\ events = 0

\* getSurvey: the backend may also be unreachable or limit the rate.
PageShown ==
    IF session = NULL THEN {"signin"}
    ELSE IF ~server.open THEN {"unavailable"}
    ELSE {"try_later", CollectionState(server.records[session])}

\* Anything but a form forgets the state of the form there was.
LoadPage(shown) ==
    /\ visits < MaxVisits
    /\ ~Submitting
    /\ shown \in PageShown
    /\ visits' = visits + 1
    /\ last' = NULL /\ tried' = {}
    /\ IF shown \in {"single", "phase1", "phase2"}
       THEN /\ page' = "form"
            /\ form' = Mounted(CASE shown = "single" -> 0
                                 [] shown = "phase1" -> 1
                                 [] shown = "phase2" -> 2, server.notice)
       ELSE page' = shown /\ form' = Mounted(1, 1)
    /\ UNCHANGED <<survey, wire, late, session, server, stored, attempts, events>>

\* The page is loaded by its address, by a button that reloads it, or by the
\* return from Google (SurveySignIn).
Visit == page \in {"blank", "signin", "try_later"} /\ \E shown \in PageShown : LoadPage(shown)
ContinueToPhase2 == page = "done" /\ form.phase = 1 /\ \E shown \in PageShown : LoadPage(shown)
Reload == /\ page = "form" /\ last # NULL
          /\ last.outcome \in {"sign_in", "stale_consent", "already_submitted",
                               "phase1_required", "already_completed", "withdrawn"}
          /\ \E shown \in PageShown : LoadPage(shown)

-----------------------------------------------------------------------------
(* Answering.                                                              *)

Untouched == UNCHANGED <<survey, page, wire, late, last, tried, session, server, stored,
                         attempts, visits, events>>

OnScreen(type) == {q \in ToSet(Section) : q.type = type /\ IsVisible(q, form.answers)}

SetAnswer(q, value) ==
    /\ ~Submitting
    /\ form' = [form EXCEPT !.answers = PruneConditionalAnswers(Questions(form.phase),
                    [id \in DOMAIN @ \cup {q.id} |-> IF id = q.id THEN value ELSE @[id]])]
    /\ Untouched

Choose(q, option) ==
    option \in AvailableOptions(q, form.answers) /\ SetAnswer(q, option)

Current(q, default) == IF q.id \in DOMAIN form.answers THEN form.answers[q.id] ELSE default

ToggleMultiple(q, option) ==
    LET chosen == Current(q, {})
    IN  SetAnswer(q, IF option \in chosen THEN chosen \ {option} ELSE chosen \cup {option})

Type(q, text) == Current(q, "") # text /\ SetAnswer(q, text)

Rate(q, n) == SetAnswer(q, n)

\* The arrow that moves the choice at position i down, or the next one up.
MoveRank(q, i) ==
    LET order == Current(q, q.options)
    IN  i + 1 \in DOMAIN order /\ SetAnswer(q, [order EXCEPT ![i] = order[i + 1], ![i + 1] = order[i]])

TickCell(q, row, col) ==
    LET cells == Current(q, NoAnswers)
    IN  SetAnswer(q, [r \in DOMAIN cells \cup {row} |-> IF r = row THEN col ELSE cells[r]])

Decide(q, yes) == SetAnswer(q, yes)

Answer ==
    /\ page = "form"
    /\ \/ \E q \in OnScreen("single_choice") : \E o \in ToSet(q.options) : Choose(q, o)
       \/ \E q \in OnScreen("multiple_choice") : \E o \in ToSet(q.options) : ToggleMultiple(q, o)
       \/ \E q \in OnScreen("typed"), t \in Typed : Type(q, t)
       \/ \E q \in OnScreen("scale") : \E n \in DOMAIN q.options : Rate(q, n)
       \/ \E q \in OnScreen("ranking") : \E i \in DOMAIN q.options : MoveRank(q, i)
       \/ \E q \in OnScreen("matrix") :
              \E row \in ToSet(q.options), col \in ToSet(q.cols) : TickCell(q, row, col)
       \/ \E q \in OnScreen("boolean"), yes \in BOOLEAN : Decide(q, yes)

AgreeNotice(yes) ==
    /\ page = "form" /\ NeedsConsent /\ form.section = 1
    /\ ~Submitting /\ ~form.stale
    /\ form' = [form EXCEPT !.agreed = yes]
    /\ Untouched

GoNext ==
    /\ page = "form"
    /\ ~Submitting /\ ~Declined
    /\ NeedsConsent /\ form.section = 1 => form.agreed
    /\ ValidateSection
    /\ ~IsLast
    /\ form' = [form EXCEPT !.section = @ + 1]
    /\ Untouched

GoPrev ==
    /\ page = "form"
    /\ ~Submitting
    /\ form.section > 1
    /\ form' = [form EXCEPT !.section = @ - 1]
    /\ Untouched

-----------------------------------------------------------------------------
(* Submitting.                                                             *)

Submit ==
    /\ page = "form" /\ IsLast
    /\ ~Submitting /\ ~form.stale /\ ~form.waiting /\ ~Declined
    /\ NeedsConsent => form.agreed
    /\ ValidateSection
    /\ attempts < MaxAttempts
    /\ attempts' = attempts + 1
    /\ LET key == IF form.key = NULL THEN attempts + 1 ELSE form.key
       IN  /\ form' = [form EXCEPT !.key = key]
           /\ wire' = [phase |-> form.phase, key |-> key, answers |-> SubmittedAnswers,
                       notice |-> IF NeedsConsent THEN form.notice ELSE NULL]
    /\ UNCHANGED <<survey, page, late, last, tried, session, server, stored, visits, events>>

\* Faulty variants: a failed call forgets its key; a conflict counts as recorded.
KeepsKeyIfAnswered(outcome) == outcome \notin {"refused", "stale_consent", "failed"}
CountsAsRecorded(outcome) == outcome \in {"accepted", "already_submitted", "idempotency_conflict"}

KeepsKey(outcome) == outcome \notin {"refused", "stale_consent"}
Recorded(outcome) == outcome = "accepted"

\* The form hears of its submission: a definite refusal or an outdated notice
\* forgets the key, everything else keeps it for the next attempt.
Hear(outcome) ==
    /\ wire' = NULL
    /\ last' = [key |-> wire.key, outcome |-> outcome]
    /\ tried' = tried \cup {last'}
    /\ page' = IF Recorded(outcome) THEN "done" ELSE page
    /\ form' = [form EXCEPT !.key = IF KeepsKey(outcome) THEN @ ELSE NULL,
                            !.stale = @ \/ outcome = "stale_consent",
                            !.waiting = outcome = "rate_limited"]
    /\ UNCHANGED <<survey, session, attempts, visits, events>>

\* The survey proxy answers itself: no session, a request it refuses, or an
\* upstream that cannot be reached; the backend answers 401 and 429 before it
\* reads anything.
AnsweredEarly ==
    /\ Submitting
    /\ \/ session = NULL /\ Hear("sign_in")
       \/ Hear("refused")
       \/ session # NULL /\ Hear("rate_limited")
       \/ Hear("failed")
    /\ UNCHANGED <<late, server, stored>>

\* The backend's answer arrives, or arrives unreadable.
Answered ==
    /\ Submitting /\ session # NULL
    /\ Take(wire, session)
    /\ \/ Hear(ServerAnswer(wire, session))
       \/ ServerAnswer(wire, session) = "accepted" /\ Hear("unconfirmed")
    /\ UNCHANGED late

\* The headers take too long, or the connection breaks: the backend may still
\* get the submission, under the account it was forwarded for.
TimedOut ==
    /\ Submitting /\ session # NULL
    /\ Hear("failed")
    /\ late' = late \cup {[req |-> wire, who |-> session]}
    /\ UNCHANGED <<server, stored>>

LateArrival(call) ==
    /\ call \in late
    /\ Take(call.req, call.who)
    /\ late' = late \ {call}
    /\ UNCHANGED <<survey, page, form, wire, last, tried, session, attempts, visits, events>>

RetryTimer ==
    /\ page = "form" /\ form.waiting
    /\ form' = [form EXCEPT !.waiting = FALSE]
    /\ Untouched

-----------------------------------------------------------------------------
(* What happens outside the form.                                          *)

Outside == events < MaxEvents /\ events' = events + 1

\* The session cookie is the browser's: another tab may sign in or it expires.
SignIn(who) ==
    /\ page \in {"signin", "form"} /\ session # who
    /\ Outside
    /\ session' = who
    /\ UNCHANGED <<survey, page, form, wire, late, last, tried, server, stored, attempts,
                   visits>>

SessionEnds ==
    /\ session # NULL
    /\ Outside
    /\ session' = NULL
    /\ UNCHANGED <<survey, page, form, wire, late, last, tried, server, stored, attempts,
                   visits>>

\* The survey is closed, its notice changes, a response is withdrawn.
ServerChanges ==
    /\ Outside
    /\ \/ server.open /\ server' = [server EXCEPT !.open = FALSE]
       \/ server.notice = 1 /\ server' = [server EXCEPT !.notice = 2]
       \/ \E w \in Accounts :
              /\ server.records[w].at \in {"phase1", "completed"}
              /\ server' = [server EXCEPT !.records[w] = [NoRecord EXCEPT !.at = "withdrawn"]]
    /\ UNCHANGED <<survey, page, form, wire, late, last, tried, session, stored, attempts,
                   visits>>

RespondentNext ==
    \/ Visit \/ ContinueToPhase2 \/ Reload
    \/ Answer
    \/ \E yes \in BOOLEAN : AgreeNotice(yes)
    \/ GoNext \/ GoPrev
    \/ Submit
    \/ AnsweredEarly \/ Answered \/ TimedOut
    \/ \E call \in late : LateArrival(call)
    \/ RetryTimer
    \/ \E who \in Accounts : SignIn(who)
    \/ SessionEnds
    \/ ServerChanges

RespondentSpec == RespondentInit /\ [][RespondentNext]_respondentVars

-----------------------------------------------------------------------------
(* Properties.                                                             *)

\* What was typed is beyond the limits of its question, which the form does not
\* check.
BeyondLimits(q, a) ==
    /\ q.type = "typed" /\ ServerVisible(q, a) /\ q.id \in DOMAIN a
    /\ a[q.id] \notin q.takes \cup {""}

ValidUpToLimits(p, a) ==
    /\ Known(p, a)
    /\ \A q \in ToSet(Questions(p)) : AcceptsQuestion(p, q, a) \/ BeyondLimits(q, a)

\* The form and the backend decide by separate code which questions are
\* visible, which options a choice offers and what is complete.  Of what the
\* form lets through after any sequence of answers, changes and steps back, the
\* backend finds each answer valid, except typed ones beyond the limits of
\* their own question.
FormAgreesWithServer == wire # NULL => ValidUpToLimits(wire.phase, wire.answers)

\* A form that has sent several submissions, none of them certain, sends all of
\* them under one idempotency key, also if the answers were changed in between:
\* the next one has another key than an earlier one only if the earlier key was
\* definitely refused since.  The backend can tell a repetition from a second
\* response.
KeyKeptWhileUnsure ==
    [][wire = NULL /\ wire' # NULL =>
         \A t \in tried :
            \/ t.key = wire'.key
            \/ \E r \in tried : r.key = t.key /\ r.outcome \in {"refused", "stale_consent"}
      ]_respondentVars

\* The closing page is shown only when the answers on this form are the ones
\* the backend stored for this phase, not those of an earlier attempt whose
\* answer was lost.
DoneMeansStored == page = "done" => <<form.phase, SubmittedAnswers>> \in stored

-----------------------------------------------------------------------------
(* What a reader may expect and the code does not keep.                    *)

\* Answers the form accepts are valid: it checks no limits and no size.
AcceptedIsValid ==
    wire # NULL => /\ ServerValid(wire.phase, wire.answers)
                   /\ ~TooLarge(wire.phase, wire.answers)

\* No new key while an earlier submission may still be stored: the refusal of a
\* repetition ends the key, though the first may still be on its way.
OneKeyUntilCertain ==
    [][wire = NULL /\ wire' # NULL =>
         \A t \in tried : t.outcome \in {"failed", "unconfirmed"} => t.key = wire'.key
      ]_respondentVars

=============================================================================
