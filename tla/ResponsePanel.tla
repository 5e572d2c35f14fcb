---------------------------- MODULE ResponsePanel ----------------------------
(* The details dialog of a survey and its responses panel: what            *)
(* useSurveyManagement keeps of the responses it loaded, and the requests  *)
(* that are under way while the reader pages, switches surveys, imports,   *)
(* exports and erases (SurveyResponsesPanel shows the controls).           *)
(*                                                                         *)
(* All three kinds of loads share one request number.  A request here      *)
(* carries `live`: its number is still the latest one.  Data is named by   *)
(* its origin, the survey and the page it was answered for.                *)
EXTENDS Nullable, Sequences, Integers, FiniteSets

CONSTANTS
    Surveys,
    Pages,      \* offsets of the pages of raw records, 0..n
    Can,        \* capabilities of the account
    MaxClicks   \* bound on what the reader does

Kinds == {"aggregates", "raw", "identities"}

\* The read permissions are nested as getSurveyCapabilities nests them.
ASSUME CanAssumption ==
    /\ Can \subseteq {"readAggregates", "readRaw", "readIdentity", "export", "import", "erase"}
    /\ "readIdentity" \in Can => "readRaw" \in Can
    /\ 0 \in Pages
    /\ NULL \notin {"view", "responses", "erase", "import"}

VARIABLES
    view,       \* the survey the details dialog shows, or NULL
    tab,        \* its tab
    panel,      \* what is known of the responses
    importing,  \* the panel's own import: NULL, "dialog" or "refresh"
    exclusive,  \* what runExclusive runs: NULL, "view" or "responses"
    requests,   \* requests under way
    clicks

panelVars == <<view, tab, panel, importing, exclusive, requests, clicks>>

EmptyPanel == [survey |-> NULL, aggregates |-> NULL, raw |-> NULL, identities |-> NULL,
               loading |-> {}, selected |-> {}, action |-> NULL]

\* A request: what it asks for, the survey and page, whether its number is
\* the latest, what its handler awaits after it, and who waits for the end.
Request(kind, survey, page, rest, owner) ==
    [kind |-> kind, survey |-> survey, page |-> page, live |-> TRUE, rest |-> rest,
     owner |-> owner]

-----------------------------------------------------------------------------
(* The state of the panel and the requests change together: p is a record  *)
(* [panel, requests].                                                      *)

Now == [panel |-> panel, requests |-> requests]

\* The number moves on: no request under way has it any more.
Outrun(calls) == {[r EXCEPT !.live = FALSE] : r \in calls}

ClearResponseState(p) == [panel |-> EmptyPanel, requests |-> Outrun(p.requests)]

ShowSurvey(p, survey) ==
    IF p.panel.survey = survey THEN p
    ELSE [ClearResponseState(p) EXCEPT !.panel.survey = survey]

Numbered(p, r) ==
    [panel |-> [p.panel EXCEPT !.loading = @ \cup {r.kind}],
     requests |-> Outrun(p.requests) \cup {r}]

LoadRaw(p, r) ==
    Numbered([p EXCEPT !.panel.identities = NULL, !.panel.selected = {}], r)

\* One of the three loads, as its handler issues it.
Load(p, r) == IF r.kind = "raw" THEN LoadRaw(p, r) ELSE Numbered(p, r)

\* The load a refresh awaits next.  Whether the panel still shows its survey
\* is not asked again.
LoadNext(p, r) == Load(p, [r EXCEPT !.kind = Head(r.rest), !.rest = Tail(r.rest), !.live = TRUE])

\* What a refresh will load again, read when its handler was made: what was
\* loaded, unless it is being loaded.
Reloading ==
    (IF "readAggregates" \in Can THEN <<"aggregates">> ELSE <<>>)
    \o (IF panel.raw # NULL /\ "raw" \notin panel.loading /\ "readRaw" \in Can
        THEN <<"raw">> ELSE <<>>)
    \o (IF panel.identities # NULL /\ "identities" \notin panel.loading
            /\ "readIdentity" \in Can
        THEN <<"identities">> ELSE <<>>)
CurrentPage == IF panel.raw = NULL THEN 0 ELSE panel.raw[2]

Become(p) == panel' = p.panel /\ requests' = p.requests

\* Faulty variant: the action is not released.
FinishHeld(r) ==
    /\ importing' = IF r.owner = "import" THEN NULL ELSE importing
    /\ UNCHANGED exclusive

\* The handler of request r is over: whoever waited for it goes on.
Finish(r) ==
    /\ exclusive' = IF r.owner = "erase" THEN NULL ELSE exclusive
    /\ importing' = IF r.owner = "import" THEN NULL ELSE importing

Released(p, r) == IF r.owner = "erase" THEN [p EXCEPT !.panel.action = NULL] ELSE p

\* The handler of r goes on with p: with its next load, or to its end.
GoOn(p, r) ==
    IF r.rest = <<>> THEN Become(Released(p, r)) /\ Finish(r)
    ELSE Become(LoadNext(p, r)) /\ UNCHANGED <<exclusive, importing>>

-----------------------------------------------------------------------------
(* What the reader does.  The import dialog covers the panel.              *)

Click == clicks < MaxClicks /\ clicks' = clicks + 1 /\ importing # "dialog"
Busy == panel.action # NULL \/ importing = "refresh"
AtPanel == view # NULL /\ tab = "responses"
RowsShown == AtPanel /\ panel.raw # NULL /\ "raw" \notin panel.loading

PanelInit ==
    /\ view = NULL /\ tab = "questions" /\ panel = EmptyPanel
    /\ importing = NULL /\ exclusive = NULL /\ requests = {} /\ clicks = 0

\* runExclusive: the action is skipped while another one runs.
RunExclusive(action) == exclusive = NULL /\ exclusive' = action

HandleOpenView(survey) ==
    /\ Click /\ view = NULL
    /\ RunExclusive("view")
    /\ requests' = requests \cup {[Request("view", survey, 0, <<>>, NULL) EXCEPT !.live = FALSE]}
    /\ UNCHANGED <<view, tab, panel, importing>>

\* The dialog can be closed whatever is under way; its panel goes with it.
HandleCloseModal ==
    /\ Click /\ view # NULL
    /\ view' = NULL /\ tab' = "questions" /\ importing' = NULL
    /\ LET cleared == ClearResponseState(Now) IN
       /\ panel' = cleared.panel
       /\ requests' = {[r EXCEPT !.owner = IF @ = "import" THEN NULL ELSE @] : r \in cleared.requests}
    /\ UNCHANGED exclusive

HandleViewResponses ==
    /\ Click /\ view # NULL
    /\ tab' = "responses"
    /\ LET shown == ShowSurvey(Now, view)
           wanted == /\ "readAggregates" \in Can
                     /\ shown.panel.aggregates = NULL
                     /\ "aggregates" \notin panel.loading
       IN Become(IF wanted THEN Load(shown, Request("aggregates", view, 0, <<>>, NULL)) ELSE shown)
    /\ UNCHANGED <<view, importing, exclusive>>

HandleLoadRawResponses(page) ==
    /\ Click /\ AtPanel
    /\ "readRaw" \in Can /\ "raw" \notin panel.loading
    /\ panel.raw = NULL => page = 0
    /\ panel.raw # NULL => page - panel.raw[2] \in {-1, 0, 1}
    /\ Become(Load(ShowSurvey(Now, view), Request("raw", view, page, <<>>, NULL)))
    /\ UNCHANGED <<view, tab, importing, exclusive>>

HandleLoadIdentityResponses ==
    /\ Click /\ AtPanel
    /\ "readIdentity" \in Can /\ panel.raw # NULL
    /\ {"identities", "raw"} \cap panel.loading = {}
    /\ Become(Load(Now, Request("identities", view, CurrentPage, <<>>, NULL)))
    /\ UNCHANGED <<view, tab, importing, exclusive>>

\* Some records of the page on screen are ticked, or unticked.
ToggleSelection ==
    /\ Click /\ RowsShown /\ "erase" \in Can
    /\ panel' = [panel EXCEPT !.selected = IF panel.raw \in @ THEN @ \ {panel.raw}
                                           ELSE @ \cup {panel.raw}]
    /\ UNCHANGED <<view, tab, importing, exclusive, requests>>

HandleExportResponses ==
    /\ Click /\ AtPanel /\ ~Busy /\ "export" \in Can
    /\ panel' = [panel EXCEPT !.action = "export"]
    /\ requests' = requests \cup {[Request("export", view, 0, <<>>, NULL) EXCEPT !.live = FALSE]}
    /\ UNCHANGED <<view, tab, importing, exclusive>>

\* The request remembers what a refresh will load, as its handler saw it.
HandleEraseSelected ==
    /\ Click /\ AtPanel /\ ~Busy
    /\ {"erase", "readRaw"} \subseteq Can
    /\ panel.raw # NULL /\ panel.selected # {}
    /\ RunExclusive("responses")
    /\ panel' = [panel EXCEPT !.action = "erase"]
    /\ requests' = requests \cup
         {[Request("erase", view, CurrentPage, Reloading, "erase") EXCEPT !.live = FALSE]}
    /\ UNCHANGED <<view, tab, importing>>

OpenImport ==
    /\ Click /\ AtPanel /\ ~Busy /\ "import" \in Can
    /\ importing' = "dialog"
    /\ requests' = requests \cup
         {[Request("import", view, CurrentPage, Reloading, "import") EXCEPT !.live = FALSE]}
    /\ UNCHANGED <<view, tab, panel, exclusive>>

\* The panel is unmounted with its tab; what was loaded stays.
ShowQuestions ==
    /\ Click /\ AtPanel
    /\ tab' = "questions" /\ importing' = NULL
    /\ requests' = {[r EXCEPT !.owner = IF @ = "import" THEN NULL ELSE @] : r \in requests}
    /\ UNCHANGED <<view, panel, exclusive>>

-----------------------------------------------------------------------------
(* Answers.                                                                *)

Outcomes == {"ok", "error", "denied"}

Done(r) == [panel |-> panel, requests |-> requests \ {r}]

ViewAnswer(r, outcome) ==
    /\ r.kind = "view"
    /\ IF outcome = "ok" THEN view' = r.survey /\ Become(ClearResponseState(Done(r)))
       ELSE UNCHANGED view /\ Become(Done(r))
    /\ exclusive' = NULL
    /\ UNCHANGED <<tab, importing>>

\* Faulty variant: whatever answer comes is taken.
AcceptedAny(r) == TRUE

\* An answer counts only while no later request was issued.
Accepted(r) == r.live

LoadAnswer(r, outcome) ==
    LET p == Done(r)
        origin == <<r.survey, r.page>>
        settled == [p EXCEPT !.panel.loading = @ \ {r.kind}]
        after == IF ~Accepted(r) THEN p
                 ELSE IF outcome = "ok" THEN [settled EXCEPT !.panel[r.kind] = origin]
                 ELSE IF outcome = "denied" /\ r.kind # "identities" THEN ClearResponseState(p)
                 ELSE settled
    IN /\ r.kind \in Kinds
       /\ GoOn(after, r)
       /\ UNCHANGED <<view, tab>>

\* refreshResponseState, called when an import or an erasure is done: the
\* survey is fetched first, under the number of the moment.
BeginRefresh(r) ==
    IF r.owner # "erase" /\ view # r.survey
    THEN /\ Become(Done(r)) /\ Finish(r)
    ELSE /\ Become([Done(r) EXCEPT !.requests = @ \cup {[r EXCEPT !.kind = "survey", !.live = TRUE]}])
         /\ importing' = IF r.owner = "import" THEN "refresh" ELSE importing
         /\ UNCHANGED exclusive

ImportAnswer(r, outcome) ==
    /\ r.kind = "import"
    /\ outcome # "denied"
    /\ IF outcome = "ok" THEN BeginRefresh(r)
       ELSE Become(Done(r)) /\ Finish(r)
    /\ UNCHANGED <<view, tab>>

EraseAnswer(r, outcome) ==
    LET p == Done(r) IN
    /\ r.kind = "erase"
    /\ CASE outcome = "ok" -> BeginRefresh(r)
         [] outcome = "denied" -> Become(ClearResponseState(p)) /\ Finish(r)
         [] OTHER -> Become(Released(p, r)) /\ Finish(r)
    /\ UNCHANGED <<view, tab>>

\* The refresh is given up when the panel has moved on meanwhile.
RefreshAnswer(r, outcome) ==
    LET p == Done(r)
        current == r.live /\ (r.owner = "erase" \/ view = r.survey)
        emptied == [ClearResponseState(p) EXCEPT !.panel.survey = r.survey]
    IN /\ r.kind = "survey"
       /\ CASE outcome = "ok" /\ current -> GoOn(emptied, r)
            [] outcome = "denied" /\ r.owner = "erase" -> Become(ClearResponseState(p)) /\ Finish(r)
            [] OTHER -> Become(Released(p, r)) /\ Finish(r)
       /\ UNCHANGED <<view, tab>>

ExportAnswer(r, outcome) ==
    /\ r.kind = "export"
    /\ Become([Done(r) EXCEPT !.panel.action = NULL])
    /\ UNCHANGED <<view, tab, importing, exclusive>>

RequestAnswered(r, outcome) ==
    /\ \/ ViewAnswer(r, outcome) \/ LoadAnswer(r, outcome)
       \/ ImportAnswer(r, outcome) \/ EraseAnswer(r, outcome)
       \/ RefreshAnswer(r, outcome) \/ ExportAnswer(r, outcome)
    /\ UNCHANGED clicks

-----------------------------------------------------------------------------
PanelNext ==
    \/ \E survey \in Surveys : HandleOpenView(survey)
    \/ HandleCloseModal \/ HandleViewResponses \/ ShowQuestions
    \/ \E page \in Pages : HandleLoadRawResponses(page)
    \/ HandleLoadIdentityResponses \/ ToggleSelection
    \/ HandleExportResponses \/ HandleEraseSelected \/ OpenImport
    \/ \E r \in requests, outcome \in Outcomes : RequestAnswered(r, outcome)

\* Every request is answered or times out (lib/api.ts).
PanelFairness ==
    WF_panelVars(\E r \in requests, outcome \in Outcomes : RequestAnswered(r, outcome))
PanelSpec == PanelInit /\ [][PanelNext]_panelVars /\ PanelFairness

-----------------------------------------------------------------------------
(* Properties.                                                             *)

\* Aggregates on screen are those of the survey whose details are shown,
\* however surveys are switched while loads, imports and erasures go on.
AggregatesOfView ==
    view # NULL /\ panel.aggregates # NULL => panel.aggregates[1] = view

\* An exclusive action ends, so that the page's buttons work again.
ActionsEnd == exclusive # NULL ~> exclusive = NULL

\* Records on screen are those of the survey whose details are shown, as the
\* tests of the refresh demand ("does not refresh the previous survey after
\* switching View Details").
RecordsOfView ==
    AtPanel /\ panel.raw # NULL => panel.raw[1] = view

\* Whatever is shown as loading is being loaded.
LoadingIsUnderWay ==
    \A kind \in panel.loading : \E r \in requests : r.live /\ r.kind = kind

=============================================================================
