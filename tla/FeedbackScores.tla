---------------------------- MODULE FeedbackScores ----------------------------
(***************************************************************************)
(* The polarity shown for the free-text answers of one response            *)
(* (backend/services/ml_service.py, false_positive_service.py,             *)
(* survey_analytics_service.py): background analyses score the answers,    *)
(* administrators correct the scores, analytics shows them.                *)
(*                                                                         *)
(* An analysis reads the response without a lock, computes for seconds and *)
(* replaces all its scores.  A correction keeps a row of its own, changes  *)
(* the stored scores, which it too writes back whole, and later the        *)
(* analyzer's file cache.  Dimensions are left out, a polarity is -1, 0    *)
(* or 1, and an answer is its question.                                    *)
(***************************************************************************)
EXTENDS Integers, Nullable

CONSTANTS
    Phase1, Phase2,   \* the text questions of each phase
    Placeholders,     \* those answered with "N/A", "wala" or the like
    Analyses,         \* background tasks that run at the same time
    Corrections,      \* requests to correct a score, likewise
    Verdicts,         \* what a correction asks for: a polarity, or Flip
    Flip,
    Classified,       \* the polarity the model gives each answer
    ByKeywords,       \* the polarity keywords give it when it has no score
    CrossChecked      \* what keywords make of each polarity of it

Texts == Phase1 \cup Phase2
Polarities == {-1, 0, 1}

ASSUME FeedbackAssumption ==
    /\ Phase1 \cap Phase2 = {}
    /\ Placeholders \subseteq Texts
    /\ Verdicts \subseteq Polarities \cup {Flip}
    /\ Flip \notin Polarities
    /\ NULL \notin Polarities \cup [by : Corrections, value : Verdicts]
    /\ {Classified, ByKeywords} \subseteq [Texts -> Polarities]
    /\ CrossChecked \in [Texts -> [Polarities -> Polarities]]

VARIABLES
    answered,      \* questions the response has a text for
    live,          \* the response was not removed
    sentiments,    \* ml_sentiments: per question a polarity, or NULL
    feedback,      \* per question its false_positive_feedbacks rows
    diskCache,     \* _disk_cache: per question a polarity, or NULL
    analysis,      \* what each background task is doing
    correction,    \* what each request to correct is doing
    verdict,       \* history: per question the verdict committed last
    overlapped     \* history: questions with corrections that ran together

feedbackVars == <<answered, live, sentiments, feedback, diskCache,
                  analysis, correction, verdict, overlapped>>

Unscored == [q \in Texts |-> NULL]
AtRest == [step |-> "none"]

FeedbackInit ==
    /\ answered = {} /\ live = TRUE
    /\ sentiments = Unscored /\ diskCache = Unscored
    /\ feedback = [q \in Texts |-> {}]
    /\ analysis = [a \in Analyses |-> AtRest]
    /\ correction = [c \in Corrections |-> AtRest]
    /\ verdict = Unscored /\ overlapped = {}

-----------------------------------------------------------------------------
(* The respondent                                                          *)

AnswerPhase ==
    /\ live
    /\ \/ answered = {} /\ answered' = Phase1
       \/ answered = Phase1 /\ answered' = Texts
    /\ UNCHANGED <<live, sentiments, feedback, diskCache, analysis, correction,
                   verdict, overlapped>>

Remove ==   \* withdrawn, erased or purged; scores and rows stay
    /\ live /\ answered # {}
    /\ live' = FALSE /\ answered' = {}
    /\ UNCHANGED <<sentiments, feedback, diskCache, analysis, correction,
                   verdict, overlapped>>

-----------------------------------------------------------------------------
(* analyze_response_background, scheduled by each submission and replay    *)

ReadAnswers(a) ==
    /\ analysis[a] = AtRest
    /\ live /\ answered # {}
    /\ analysis' = [analysis EXCEPT ![a] = [step |-> "compute", of |-> answered]]
    /\ UNCHANGED <<answered, live, sentiments, feedback, diskCache, correction,
                   verdict, overlapped>>

Analyzed(q) == IF diskCache[q] # NULL THEN diskCache[q] ELSE Classified[q]

\* An analyzer that could not load its model only has its cache.
Compute(a) ==
    LET Of(ready) == [q \in Texts |->
                          IF q \in analysis[a].of /\ (ready \/ diskCache[q] # NULL)
                          THEN Analyzed(q) ELSE NULL]
    IN  /\ analysis[a].step = "compute"
        /\ \E ready \in BOOLEAN :
              /\ analysis' = [analysis EXCEPT ![a] = [step |-> "write", scores |-> Of(ready)]]
              /\ diskCache' = [q \in Texts |-> IF Of(ready)[q] # NULL THEN Of(ready)[q]
                                               ELSE diskCache[q]]
        /\ UNCHANGED <<answered, live, sentiments, feedback, correction, verdict, overlapped>>

WriteScores(a) ==
    /\ analysis[a].step = "write"
    /\ \/ sentiments' = analysis[a].scores
       \/ UNCHANGED sentiments   \* the commit fails, or the process dies
    /\ analysis' = [analysis EXCEPT ![a] = AtRest]
    /\ UNCHANGED <<answered, live, feedback, diskCache, correction, verdict, overlapped>>

-----------------------------------------------------------------------------
(* mark_false_positive                                                     *)

ReadResponse(c) ==
    /\ correction[c] = AtRest
    /\ live
    /\ \E q \in answered, v \in Verdicts :
          correction' = [correction EXCEPT ![c] =
              [step |-> "feedback", of |-> q, verdict |-> v, scores |-> sentiments,
               late |-> FALSE, row |-> NULL]]
    /\ UNCHANGED <<answered, live, sentiments, feedback, diskCache, analysis,
                   verdict, overlapped>>

ReadFeedback(c) ==
    /\ correction[c].step = "feedback"
    /\ \E row \in IF feedback[correction[c].of] = {} THEN {NULL} ELSE feedback[correction[c].of] :
          correction' = [correction EXCEPT ![c].step = "write", ![c].row = row]
    /\ UNCHANGED <<answered, live, sentiments, feedback, diskCache, analysis,
                   verdict, overlapped>>

\* The row the correction read, with its verdict; or a new row.  A row that had
\* this verdict when it was read is left as it is.
Upserted(c) ==
    LET r == correction[c]
        q == r.of
    IN  IF r.row = NULL
        THEN feedback[q] \cup {[by |-> c, value |-> r.verdict]}
        ELSE IF r.row.value = r.verdict THEN feedback[q]
        ELSE {IF row.by = r.row.by THEN [row EXCEPT !.value = r.verdict] ELSE row :
                 row \in feedback[q]}

Corrected(score, v) == IF v = Flip THEN -score ELSE v

Save(c) ==
    LET r == correction[c]
        q == r.of
    IN  /\ r.step = "write"
        /\ ~(r.row # NULL /\ r.row.value = r.verdict /\ r.scores[q] = NULL)
        /\ feedback' = [feedback EXCEPT ![q] = Upserted(c)]
        /\ sentiments' = IF r.scores[q] = NULL THEN sentiments
                         ELSE [r.scores EXCEPT ![q] = Corrected(@, r.verdict)]
        /\ verdict' = [verdict EXCEPT ![q] = r.verdict]
        /\ overlapped' = IF r.late THEN overlapped \cup {q} ELSE overlapped
        /\ correction' = [d \in Corrections |->
               IF d = c THEN [step |-> "register", of |-> q]
               ELSE IF correction[d].step \in {"feedback", "write"} /\ correction[d].of = q
               THEN [correction[d] EXCEPT !.late = TRUE]
               ELSE correction[d]]
        /\ UNCHANGED <<answered, live, diskCache, analysis>>

NotSaved(c) ==   \* the commit fails, or there is nothing to change
    /\ correction[c].step = "write"
    /\ correction' = [correction EXCEPT ![c] = AtRest]
    /\ UNCHANGED <<answered, live, sentiments, feedback, diskCache, analysis,
                   verdict, overlapped>>

\* register_false_positive, in a thread of its own, if the process lives.
Register(c) ==
    LET q == correction[c].of
    IN  /\ correction[c].step = "register"
        /\ \/ diskCache' = [diskCache EXCEPT ![q] = -Analyzed(q)]
           \/ UNCHANGED diskCache
        /\ correction' = [correction EXCEPT ![c] = AtRest]
        /\ UNCHANGED <<answered, live, sentiments, feedback, analysis, verdict, overlapped>>

FeedbackNext ==
    \/ AnswerPhase \/ Remove
    \/ \E a \in Analyses : ReadAnswers(a) \/ Compute(a) \/ WriteScores(a)
    \/ \E c \in Corrections :
          ReadResponse(c) \/ ReadFeedback(c) \/ Save(c) \/ NotSaved(c) \/ Register(c)

FeedbackSpec == FeedbackInit /\ [][FeedbackNext]_feedbackVars

-----------------------------------------------------------------------------
(* compute_peii_scores                                                     *)

\* Faulty variant: analytics relies on the stored score, which was corrected too.
ShownFromScores(q) == {IF sentiments[q] # NULL THEN sentiments[q] ELSE ByKeywords[q]}

\* The polarities analytics may show: with several rows, any of them decides.
\* A placeholder counts as neutral whatever was scored or decided.
Shown(q) ==
    LET score == IF sentiments[q] # NULL THEN sentiments[q] ELSE ByKeywords[q]
    IN  IF q \in Placeholders THEN {0}
        ELSE IF feedback[q] = {} THEN {CrossChecked[q][score]}
        ELSE {Corrected(score, row.value) : row \in feedback[q]}

Settled(q) == live /\ q \in answered \ overlapped

\* What an administrator decided is what analytics shows, although an analysis
\* that read the response before or after writes its own scores, and other
\* corrections write back the scores they read; unless corrections of this very
\* answer ran together, or the answer is a placeholder.
ForcedShows ==
    \A q \in Texts \ Placeholders :
        Settled(q) /\ verdict[q] \in Polarities => Shown(q) = {verdict[q]}

(* Claims of docs/analytics-calculation.md that the code does not keep.    *)

\* "Researchers can flag any qualitative answer", "Replace entirely": of a
\* placeholder the decision is taken, committed and never shown.
AnyForcedShows ==
    \A q \in Texts : Settled(q) /\ verdict[q] \in Polarities => Shown(q) = {verdict[q]}

\* "`polarity_override = None` | Flip sign": the answer is shown with the other
\* sign than the model gave it.
FlipShows ==
    \A q \in Texts :
        Settled(q) /\ verdict[q] = Flip /\ sentiments[q] # NULL /\ q \notin Placeholders
            => Shown(q) = {-Classified[q]}
=============================================================================
