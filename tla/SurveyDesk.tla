----------------------------- MODULE SurveyDesk -----------------------------
(* The surveys page of the staff portal: the list and its filters, the      *)
(* archive, the sessions of the survey editor and the questionnaire         *)
(* template (useSurveyManagement and the components around it).             *)
(*                                                                          *)
(* `title` stands for the fields of a survey that are saved one by one;     *)
(* `structure` for its sections, saved as a whole under the version the     *)
(* editor was opened on.  What the server does to a request is coarse here: *)
(* SurveyLifecycle models it.                                               *)
EXTENDS Nullable, SequencesExt, Integers, FiniteSets

CONSTANTS
    SurveyOrder,   \* every survey the list may show, in the order it is sorted
    Template,      \* the one template
    Filters,       \* the status filters, "all" among them
    PageSize,
    MaxClicks,     \* bound on what the user does
    MaxUnseen      \* bound on the changes and answers this page misses

\* The template is kept apart: the list leaves it out.
ASSUME DeskAssumption ==
    /\ SurveyOrder \in Seq(ToSet(SurveyOrder)) /\ IsInjective(SurveyOrder)
    /\ PageSize \in Nat \ {0} /\ "all" \in Filters
    /\ Template \notin ToSet(SurveyOrder)

Surveys == ToSet(SurveyOrder)

VARIABLES
    server,     \* the stored surveys
    list,       \* the list on screen
    fetches,    \* list requests under way
    loading,    \* before the first list
    task,       \* what runExclusive runs, or NULL
    editor,     \* the editor's session, or NULL
    dialog,     \* another dialog: NULL, or its kind and survey
    cache,      \* the template as this page knows it, or NULL
    clicks,
    unseen      \* changes of the server, and answers, that did not reach this page

deskVars == <<server, list, fetches, loading, task, editor, dialog, cache, clicks, unseen>>

Stored(exists, content) ==
    [exists |-> exists, title |-> content, structure |-> content, status |-> "Inactive",
     is_cta |-> FALSE, history |-> FALSE, responses |-> 0, is_deleted |-> FALSE, version |-> 0]

FirstQuery == [archived |-> FALSE, status |-> "all", offset |-> 0]

\* All surveys but the first were answered.  A template saved by an earlier
\* release may be there, or none.
DeskInit ==
    /\ \E S \in {{SurveyOrder[1]}, Surveys}, template \in BOOLEAN :
          server = [v \in Surveys \cup {Template} |->
              IF v = Template THEN Stored(template, "old")
              ELSE IF v = SurveyOrder[1] THEN Stored(v \in S, "first")
              ELSE [Stored(v \in S, "first") EXCEPT !.history = v \in S,
                                                    !.responses = IF v \in S THEN 1 ELSE 0]]
    /\ list = [query |-> FirstQuery, rows |-> {}, total |-> 0, shown |-> NULL, failed |-> FALSE]
    /\ fetches = {[query |-> FirstQuery, live |-> TRUE]}
    /\ loading = TRUE
    /\ task = NULL /\ editor = NULL /\ dialog = NULL /\ cache = NULL
    /\ clicks = 0 /\ unseen = 0

Click == clicks < MaxClicks /\ clicks' = clicks + 1
InteractionLocked == loading \/ task # NULL
ListLoading == \E f \in fetches : f.live
\* The page itself is reached when nothing covers it, its rows once loaded.
AtPage == editor = NULL /\ dialog = NULL
Row(v) == CHOOSE row \in list.rows : row.id = v
Listed(v) == \E row \in list.rows : row.id = v
AtRow(v) == AtPage /\ ~ListLoading /\ Listed(v) /\ ~InteractionLocked

\* An answer may be an error after the server did its part ("lost": the
\* request timed out).
Outcomes == {"ok", "lost", "error"}

Told(outcome) == /\ outcome = "lost" => unseen < MaxUnseen
                 /\ unseen' = IF outcome = "lost" THEN unseen + 1 ELSE unseen

-----------------------------------------------------------------------------
(* The list.                                                               *)

\* What the server answers to a list query: a page of the surveys that match,
\* given by their positions in the order they are sorted.
Matching(query) ==
    {n \in DOMAIN SurveyOrder :
        LET survey == server[SurveyOrder[n]] IN
        /\ survey.exists
        /\ query.archived \/ ~survey.is_deleted
        /\ query.status \in {"all", survey.status}}
Rank(S, n) == Cardinality({m \in S : m <= n})
AsRow(S, v) == [id |-> v, status |-> S[v].status, responses |-> S[v].responses,
                is_deleted |-> S[v].is_deleted]
PageOf(query) ==
    {AsRow(server, SurveyOrder[n]) :
        n \in {m \in Matching(query) :
                  Rank(Matching(query), m) \in (query.offset + 1)..(query.offset + PageSize)}}

\* The effect runs again: the request before it is cancelled.
Fetch(query) == fetches' = {[f EXCEPT !.live = FALSE] : f \in fetches} \cup {[query |-> query, live |-> TRUE]}

Ask(next) == /\ list' = [next EXCEPT !.failed = FALSE]
             /\ Fetch(next.query)

FilterBy(status) == [list EXCEPT !.query.status = status, !.query.offset = 0]

SetStatusFilter ==
    \E status \in Filters \ {list.query.status} :
        /\ Click /\ AtPage
        /\ Ask(FilterBy(status))
        /\ UNCHANGED <<server, loading, task, editor, dialog, cache, unseen>>

SetShowArchived ==
    /\ Click /\ AtPage /\ ~InteractionLocked
    /\ Ask([list EXCEPT !.query.archived = ~@, !.query.offset = 0])
    /\ UNCHANGED <<server, loading, task, editor, dialog, cache, unseen>>

SetOffset ==
    /\ Click /\ AtPage /\ ~ListLoading /\ list.total > PageSize
    /\ \/ /\ list.query.offset > 0
          /\ Ask([list EXCEPT !.query.offset = IF @ > PageSize THEN @ - PageSize ELSE 0])
       \/ /\ list.query.offset + Cardinality(list.rows) < list.total
          /\ Ask([list EXCEPT !.query.offset = @ + PageSize])
    /\ UNCHANGED <<server, loading, task, editor, dialog, cache, unseen>>

\* Faulty variant: any answer is taken, in the order they come.
CurrentAny(f) == TRUE

Current(f) == f.live

ListAnswer(f) ==
    /\ f \in fetches
    /\ fetches' = fetches \ {f}
    /\ \/ ~Current(f) /\ UNCHANGED <<list, loading, unseen>>
       \/ /\ Current(f) /\ Told("ok")
          /\ loading' = FALSE
          /\ list' = [list EXCEPT !.rows = PageOf(f.query), !.total = Cardinality(Matching(f.query)),
                                  !.shown = f.query, !.failed = FALSE]
       \/ /\ Current(f) /\ Told("lost")
          /\ loading' = FALSE
          /\ list' = [list EXCEPT !.failed = TRUE]
    /\ UNCHANGED <<server, task, editor, dialog, cache, clicks>>

Without(v) == {row \in list.rows : row.id # v}
\* A row is replaced where it is listed.
Replaced(S, v) == IF Listed(v) THEN Without(v) \cup {AsRow(S, v)} ELSE list.rows

\* Faulty variant: the page is loaded again, wherever the list now ends.
AfterCountChangeHere(next, total) == [next EXCEPT !.total = total]

\* refreshListAfterCountChange: back a page when this one is past the end.
AfterCountChange(next, total) ==
    [next EXCEPT !.total = total,
                 !.query.offset = IF @ > 0 /\ @ >= total
                                  THEN (IF @ > PageSize THEN @ - PageSize ELSE 0) ELSE @]

LessOne == IF list.total > 0 THEN list.total - 1 ELSE 0

-----------------------------------------------------------------------------
(* Archiving, restoring, erasing.                                          *)

Begin(next) == task = NULL /\ task' = next

OpenDialog ==
    \E v \in Surveys, kind \in {"delete", "share"} :
        /\ Click /\ AtRow(v) /\ ~Row(v).is_deleted
        /\ dialog' = [kind |-> kind, survey |-> v]
        /\ UNCHANGED <<server, list, fetches, loading, task, editor, cache, unseen>>

CloseDialog ==
    /\ Click /\ dialog # NULL
    /\ dialog.kind # "share" => ~InteractionLocked
    /\ dialog' = NULL
    /\ UNCHANGED <<server, list, fetches, loading, task, editor, cache, unseen>>

HandleDelete ==
    /\ Click /\ dialog # NULL /\ dialog.kind = "delete"
    /\ Listed(dialog.survey) /\ ~InteractionLocked
    /\ Begin([kind |-> "delete", survey |-> dialog.survey, total |-> LessOne])
    /\ UNCHANGED <<server, list, fetches, loading, editor, dialog, cache, unseen>>

HandleRestore(v) ==
    /\ Click /\ AtRow(v) /\ Row(v).is_deleted
    /\ Begin([kind |-> "restore", survey |-> v, total |-> LessOne])
    /\ UNCHANGED <<server, list, fetches, loading, editor, dialog, cache, unseen>>

\* The count shown is sent along: the server refuses another one.
HandleEraseAll(v) ==
    /\ Click /\ AtRow(v) /\ Row(v).is_deleted /\ Row(v).responses > 0
    /\ Begin([kind |-> "erase", survey |-> v, expected |-> Row(v).responses])
    /\ UNCHANGED <<server, list, fetches, loading, editor, dialog, cache, unseen>>

\* Answer to a request that changes `server` to `done`; on success the list
\* becomes `next` and is asked for again.
Settle(possible, done, next, outcome) ==
    /\ outcome # "error" => possible
    /\ server' = IF outcome = "error" THEN server ELSE done
    /\ IF outcome = "ok" THEN Ask(next) ELSE UNCHANGED <<list, fetches>>
    /\ task' = NULL
    /\ UNCHANGED <<loading, editor, cache, clicks>>
    /\ Told(outcome)

Renewed(S, v) == [S EXCEPT ![v].version = @ + 1]

\* The dialog of an archiving closes whatever came of it.
DeleteAnswer(outcome) ==
    /\ task # NULL /\ task.kind = "delete"
    /\ LET v == task.survey IN
       Settle(~server[v].is_deleted, Renewed([server EXCEPT ![v].is_deleted = TRUE], v),
              AfterCountChange([list EXCEPT !.rows = Without(v)], task.total), outcome)
    /\ dialog' = NULL

RestoreAnswer(outcome) ==
    /\ task # NULL /\ task.kind = "restore"
    /\ LET v == task.survey
           done == Renewed([server EXCEPT ![v].is_deleted = FALSE, ![v].status = "Inactive"], v)
       IN Settle(server[v].is_deleted, done,
                 IF list.query.archived
                 THEN AfterCountChange([list EXCEPT !.rows = Without(v)], task.total)
                 ELSE [list EXCEPT !.rows = Replaced(done, v)], outcome)
    /\ UNCHANGED dialog

EraseAnswer(outcome) ==
    /\ task # NULL /\ task.kind = "erase"
    /\ LET v == task.survey
           done == [server EXCEPT ![v].responses = 0]
       IN Settle(server[v].is_deleted /\ server[v].responses = task.expected, done,
                 [list EXCEPT !.rows = Replaced(done, v)], outcome)
    /\ UNCHANGED dialog

-----------------------------------------------------------------------------
(* The template and what is generated from it.  A step that fails ends the  *)
(* whole; what the server did until then stays.                             *)

OpenTemplate(purpose) ==
    /\ Click /\ ~InteractionLocked
    /\ IF purpose = "generate" THEN dialog # NULL /\ dialog.kind = "preview" ELSE AtPage
    /\ Begin([kind |-> "template", step |-> "find", survey |-> Template, purpose |-> purpose])
    /\ UNCHANGED <<server, list, fetches, loading, editor, dialog, cache, unseen>>

\* Faulty variant: a saved template is taken as it is.
OutdatedNever(template) == FALSE

\* Its first question carries the version of the definition.
Outdated(template) == template.structure = "old"

Step(step) == task' = [task EXCEPT !.step = step]

AtTemplate(step) == task # NULL /\ task.kind = "template" /\ task.step = step

\* getTemplateSurvey: as cached, or as saved, created or brought up to date.
TemplateFound ==
    /\ AtTemplate("find")
    /\ \/ cache # NULL /\ Step("have") /\ UNCHANGED cache
       \/ /\ cache = NULL
          /\ \/ ~server[Template].exists /\ Step("create") /\ UNCHANGED cache
             \/ /\ server[Template].exists /\ Outdated(server[Template])
                /\ Step("put") /\ UNCHANGED cache
             \/ /\ server[Template].exists /\ ~Outdated(server[Template])
                /\ Step("have") /\ cache' = server[Template]
             \/ task' = NULL /\ UNCHANGED cache
    /\ UNCHANGED <<server, list, fetches, loading, editor, dialog, clicks, unseen>>

\* The three requests that make the template current.
TemplateStored(outcome) ==
    LET Next(step) == IF outcome = "ok" THEN Step(step) ELSE task' = NULL
        done == CASE AtTemplate("create") -> Stored(TRUE, "shipped")
                  [] AtTemplate("put") -> [server[Template] EXCEPT !.structure = "shipped"]
                  [] OTHER -> [server[Template] EXCEPT !.title = "shipped"]
    IN /\ \/ AtTemplate("create") /\ Next("have")
          \/ AtTemplate("put") /\ Next("patch")
          \/ AtTemplate("patch") /\ Next("find")
       /\ server' = IF outcome = "error" THEN server ELSE Renewed([server EXCEPT ![Template] = done], Template)
       /\ cache' = IF outcome = "ok" /\ AtTemplate("create") THEN server'[Template] ELSE cache
       /\ UNCHANGED <<list, fetches, loading, editor, dialog, clicks>>
       /\ Told(outcome)

\* What the editor shows of a survey, and what it sends back.
Form(survey) == [title |-> survey.title, structure |-> survey.structure,
                 status |-> survey.status, is_cta |-> survey.is_cta]

Session(v, survey) ==
    [survey |-> v, base |-> survey, original |-> survey.structure, form |-> Form(survey),
     touched |-> {}]

TemplateReady ==
    /\ AtTemplate("have")
    /\ editor' = IF task.purpose = "edit" THEN Session(Template, cache) ELSE editor
    /\ dialog' = IF task.purpose = "preview" THEN [kind |-> "preview", survey |-> Template] ELSE dialog
    /\ IF task.purpose = "generate" THEN Step("copy") ELSE task' = NULL
    /\ UNCHANGED <<server, list, fetches, loading, cache, clicks, unseen>>

\* The new survey is put before the rows; the count is not asked for again.
GenerateAnswer(outcome) ==
    /\ AtTemplate("copy")
    /\ \E v \in Surveys :
          LET done == [server EXCEPT ![v] = [Stored(TRUE, "first") EXCEPT
                           !.title = cache.title, !.structure = cache.structure]]
          IN /\ ~server[v].exists
             /\ server' = IF outcome = "error" THEN server ELSE done
             /\ list' = IF outcome = "ok" THEN [list EXCEPT !.rows = @ \cup {AsRow(done, v)}] ELSE list
    /\ dialog' = IF outcome = "ok" THEN NULL ELSE dialog
    /\ task' = NULL
    /\ UNCHANGED <<fetches, loading, editor, cache, clicks>>
    /\ Told(outcome)

-----------------------------------------------------------------------------
(* A session of the editor.                                                *)

HandleOpenEdit(v) ==
    /\ Click /\ AtRow(v) /\ ~Row(v).is_deleted
    /\ Begin([kind |-> "edit", survey |-> v])
    /\ UNCHANGED <<server, list, fetches, loading, editor, dialog, cache, unseen>>

EditAnswer(outcome) ==
    /\ task # NULL /\ task.kind = "edit"
    /\ outcome # "lost" /\ task' = NULL
    /\ LET v == task.survey IN
       IF outcome = "ok" /\ ~server[v].is_deleted
       THEN /\ list' = [list EXCEPT !.rows = Replaced(server, v)]
            /\ editor' = Session(v, server[v])
       ELSE UNCHANGED <<list, editor>>
    /\ UNCHANGED <<server, fetches, loading, dialog, cache, clicks, unseen>>

ContentLocked == editor.base.history
StructureEditable ==
    ~ContentLocked /\ (editor.survey = Template \/ editor.base.status = "Inactive")

EditField ==
    /\ Click /\ editor # NULL /\ ~InteractionLocked
    /\ \E field \in {"title", "structure", "status", "is_cta"} :
          /\ field = "title" => ~ContentLocked
          /\ field = "structure" => StructureEditable
          /\ editor' = [editor EXCEPT !.touched = @ \cup {field}, !.form[field] =
                 CASE field = "status" -> IF @ = "Active" THEN "Inactive" ELSE "Active"
                   [] field = "is_cta" -> ~@
                   [] OTHER -> "mine"]
    /\ UNCHANGED <<server, list, fetches, loading, task, dialog, cache, unseen>>

HandleCloseModal ==
    /\ Click /\ editor # NULL /\ ~InteractionLocked
    /\ editor' = NULL
    /\ UNCHANGED <<server, list, fetches, loading, task, dialog, cache, unseen>>

Changed(field) == editor.form[field] # editor.base[field]

\* The fields a save sends one by one: those that differ from what the
\* session was opened on.
Sent == {field \in {"title", "status", "is_cta"} :
            Changed(field) /\ (field = "title" => ~ContentLocked)}

AtSave(step) == task # NULL /\ task.kind = "save" /\ task.step = step

StructureChanged == ~ContentLocked /\ editor.form.structure # editor.original

\* Sections edited while the survey is not inactive (a template's) are not
\* sent: the editor only says so.
HandleSaveSurvey ==
    /\ Click /\ editor # NULL /\ ~InteractionLocked
    /\ ContentLocked => Changed("status") \/ Changed("is_cta")
    /\ StructureChanged => editor.base.status = "Inactive"
    /\ Begin([kind |-> "save", survey |-> editor.survey,
              step |-> IF StructureChanged THEN "put" ELSE "patch"])
    /\ UNCHANGED <<server, list, fetches, loading, editor, dialog, cache, unseen>>

\* Faulty variant: the structure is sent without the version it was read at.
ExpectedVersionOmitted(v) == server[v].version

ExpectedVersion(v) == editor.base.version

\* A session ends in an error: what was typed stays.
SaveFailed == task' = NULL /\ UNCHANGED <<list, editor, cache>>

\* The structure goes first, on its own.  The version is not renewed in the
\* session when it is stored.
PutAnswer(outcome) ==
    /\ AtSave("put")
    /\ LET v == editor.survey
           done == Renewed([server EXCEPT ![v].structure = editor.form.structure], v)
           conflict == \/ server[v].status # "Inactive" \/ server[v].history
                       \/ server[v].version # ExpectedVersion(v)
           accepted == ~server[v].is_deleted /\ ~conflict
       IN \/ /\ outcome = "ok" /\ accepted
             /\ server' = done /\ Step("patch")
             /\ editor' = [editor EXCEPT !.original = editor.form.structure]
             /\ list' = [list EXCEPT !.rows = Replaced(done, v)]
             /\ cache' = IF v = Template THEN done[v] ELSE cache
          \/ outcome = "lost" /\ accepted /\ server' = done /\ SaveFailed
          \/ outcome = "error" /\ UNCHANGED server /\ SaveFailed
          \/ /\ outcome = "ok" /\ conflict /\ ~server[v].is_deleted
             /\ Step("conflict") /\ UNCHANGED <<server, list, editor, cache>>
    /\ UNCHANGED <<fetches, loading, dialog, clicks>>
    /\ Told(outcome)

\* One starred survey: starring takes the star from all others.
Patched(v) ==
    LET sent(field) == IF field \in Sent THEN editor.form[field] ELSE server[v][field]
        starred == "is_cta" \in Sent /\ editor.form.is_cta
    IN [w \in DOMAIN server |->
          IF w = v THEN [server[v] EXCEPT !.title = sent("title"), !.status = sent("status"),
                                          !.is_cta = sent("is_cta"), !.version = @ + 1]
          ELSE IF starred THEN [server[w] EXCEPT !.is_cta = FALSE, !.version = @ + 1]
          ELSE server[w]]

PatchAnswer(outcome) ==
    /\ AtSave("patch")
    /\ LET v == editor.survey
           done == Patched(v)
           conflict == "title" \in Sent /\ server[v].history
           accepted == ~server[v].is_deleted /\ ~conflict
       IN \/ /\ outcome = "ok" /\ accepted
             /\ server' = done /\ UNCHANGED list
             /\ IF v = Template
                THEN /\ task' = NULL /\ editor' = NULL
                     /\ cache' = IF cache = NULL THEN NULL ELSE done[v]
                ELSE Step("reload") /\ UNCHANGED <<editor, cache>>
          \/ outcome = "lost" /\ accepted /\ server' = done /\ SaveFailed
          \/ outcome = "error" /\ UNCHANGED server /\ SaveFailed
          \/ /\ outcome = "ok" /\ conflict /\ ~server[v].is_deleted
             /\ Step("conflict") /\ UNCHANGED <<server, list, editor, cache>>
    /\ UNCHANGED <<fetches, loading, dialog, clicks>>
    /\ Told(outcome)

\* Saved: the row is fetched again and the session is over.
ReloadAnswer(outcome) ==
    /\ AtSave("reload") /\ outcome # "lost"
    /\ task' = NULL
    /\ IF outcome = "ok" /\ ~server[editor.survey].is_deleted
       THEN editor' = NULL /\ list' = [list EXCEPT !.rows = Replaced(server, editor.survey)]
       ELSE UNCHANGED <<editor, list>>
    /\ UNCHANGED <<server, fetches, loading, dialog, cache, clicks, unseen>>

\* After a conflict the session starts over from what is stored, except for
\* the star, which is left as it is in the form.
Refreshed(v) ==
    [editor EXCEPT !.base = server[v], !.original = server[v].structure,
                   !.form = [Form(server[v]) EXCEPT !.is_cta = editor.form.is_cta],
                   !.touched = @ \cap {"is_cta"}]

ConflictAnswer(outcome) ==
    /\ AtSave("conflict") /\ outcome # "lost"
    /\ task' = NULL
    /\ LET v == editor.survey IN
       IF outcome = "ok" /\ ~server[v].is_deleted
       THEN editor' = Refreshed(v) /\ list' = [list EXCEPT !.rows = Replaced(server, v)]
       ELSE UNCHANGED <<editor, list>>
    /\ UNCHANGED <<server, fetches, loading, dialog, cache, clicks, unseen>>

-----------------------------------------------------------------------------
(* Others: administrators at other screens, and respondents.  Nobody else   *)
(* works on the template.                                                   *)

Elsewhere ==
    /\ unseen < MaxUnseen /\ unseen' = unseen + 1
    /\ \E v \in {w \in Surveys : server[w].exists /\ ~server[w].is_deleted} :
          \/ /\ ~server[v].history
             /\ server' = Renewed([server EXCEPT ![v].title = "theirs"], v)
          \/ /\ ~server[v].history /\ server[v].status = "Inactive"
             /\ server' = Renewed([server EXCEPT ![v].structure = "theirs"], v)
          \/ server' = Renewed([server EXCEPT ![v].status = IF @ = "Active" THEN "Inactive" ELSE "Active"], v)
          \/ server' = Renewed([server EXCEPT ![v].is_cta = ~@], v)
          \/ server' = Renewed([server EXCEPT ![v].is_deleted = TRUE], v)
          \/ /\ server[v].status = "Active"
             /\ server' = Renewed([server EXCEPT ![v].history = TRUE, ![v].responses = @ + 1], v)
    /\ UNCHANGED <<list, fetches, loading, task, editor, dialog, cache, clicks>>

-----------------------------------------------------------------------------
DeskNext ==
    \/ SetStatusFilter \/ SetShowArchived \/ SetOffset
    \/ \E f \in fetches : ListAnswer(f)
    \/ OpenDialog \/ CloseDialog \/ HandleDelete
    \/ \E v \in Surveys : HandleRestore(v) \/ HandleEraseAll(v) \/ HandleOpenEdit(v)
    \/ \E purpose \in {"edit", "preview", "generate"} : OpenTemplate(purpose)
    \/ TemplateFound \/ TemplateReady
    \/ \E outcome \in Outcomes :
          \/ DeleteAnswer(outcome) \/ RestoreAnswer(outcome) \/ EraseAnswer(outcome)
          \/ TemplateStored(outcome) \/ GenerateAnswer(outcome)
          \/ EditAnswer(outcome) \/ PutAnswer(outcome) \/ PatchAnswer(outcome)
          \/ ReloadAnswer(outcome) \/ ConflictAnswer(outcome)
    \/ EditField \/ HandleCloseModal \/ HandleSaveSurvey
    \/ Elsewhere

DeskSpec == DeskInit /\ [][DeskNext]_deskVars

-----------------------------------------------------------------------------
(* Properties.                                                             *)

\* When nothing is loading, the rows answer the filters on screen, in
\* whatever order the answers to earlier filters came.
ListFollowsFilters == ListLoading \/ list.failed \/ list.shown = list.query

\* Archiving and restoring never leave an empty page in front of surveys that
\* are there: only others may empty it.
PageNotEmpty ==
    /\ unseen = 0 /\ list.query.status = "all"
    /\ ~ListLoading /\ ~list.failed /\ list.total > 0
    => list.rows # {}

\* A save never replaces sections it has not shown: what is stored when it
\* arrives is what the session was opened on, or itself saved, whatever
\* others and lost answers did meanwhile.
SectionsSavedWereSeen ==
    [][\A v \in Surveys :
          /\ server'[v].structure # server[v].structure
          /\ editor # NULL /\ task' # task
          => server[v].structure = editor.original]_deskVars

\* No survey is generated with the sections of an outdated template, whatever
\* step of bringing it up to date failed before.
GeneratedIsCurrent == \A v \in Surveys : server[v].structure # "old"

\* The star changes only if this session changed it.
StarSavedWasSet ==
    [][\A v \in Surveys :
          /\ editor # NULL /\ editor.survey = v /\ task' # task
          /\ server'[v].is_cta # server[v].is_cta
          => "is_cta" \in editor.touched]_deskVars

=============================================================================
