-------------------------- MODULE SurveyDeskProofs --------------------------
(* The surveys page: the rows answer the filters on screen, no survey is    *)
(* generated from an outdated template, a save replaces sections that its   *)
(* session has shown, and archiving leaves no empty page before the end.    *)
(*                                                                          *)
(* DeskInv is inductive.  Its heart is EditorCurrent: the version a session *)
(* of the editor was opened on stands for the sections it was opened on,    *)
(* since every change of them, the session's own included, renews the       *)
(* version (Evolves).  The template has no such guard: that nobody          *)
(* generates from an old one follows from what the page holds of it         *)
(* (CacheInv), read after it was brought up to date and never put back.     *)
(* PageInv, on top of it, bounds offsets and totals by the number of        *)
(* surveys there are, which only an archiving makes less.                   *)
EXTENDS SurveyDesk, TLAPS, FiniteSetTheorems

-----------------------------------------------------------------------------
(* Shapes.                                                                 *)

Texts == {"old", "first", "shipped", "mine", "theirs"}
Statuses == {"Active", "Inactive"}
Records == [exists : BOOLEAN, title : Texts, structure : Texts, status : Statuses,
            is_cta : BOOLEAN, history : BOOLEAN, responses : Nat, is_deleted : BOOLEAN,
            version : Nat]
Forms == [title : Texts, structure : Texts, status : Statuses, is_cta : BOOLEAN]
AllSurveys == Surveys \cup {Template}
Sessions == [survey : AllSurveys, base : Records, original : Texts, form : Forms,
             touched : SUBSET {"title", "structure", "status", "is_cta"}]

ListShape(l) == l = [query |-> l.query, rows |-> l.rows, total |-> l.total,
                     shown |-> l.shown, failed |-> l.failed]

-----------------------------------------------------------------------------
(* The invariant.                                                          *)

\* Only the latest fetch counts, and it is for the filters on screen.
ListInv ==
    /\ ListShape(list)
    /\ \A f \in fetches : f = [query |-> f.query, live |-> f.live]
                          /\ (f.live => f.query = list.query)
    /\ ListFollowsFilters

ServerInv == server \in [AllSurveys -> Records] /\ GeneratedIsCurrent

\* A session of the editor, from when it is opened until its last answer.
Saving == task # NULL /\ task.kind = "save"
Holding == editor # NULL \/ Saving

\* As long as the stored version is the session's, so are the sections: a save
\* of the session itself renews the version.
EditorCurrent ==
    /\ editor.survey \in Surveys =>
          LET v == server[editor.survey] IN
          /\ editor.base.version <= v.version
          /\ v.version = editor.base.version => v.structure = editor.original
    /\ editor.survey = Template => server[Template].structure # "old"

SessionInv ==
    /\ Holding => editor \in Sessions /\ editor.form.structure # "old" /\ EditorCurrent
    /\ dialog # NULL => ~Holding
    /\ task # NULL /\ task.kind # "save" => editor = NULL

TaskOK(t, d) ==
    t # NULL =>
        /\ t.kind \in {"delete", "restore", "erase", "edit"} => t.survey \in Surveys
        /\ t.kind = "template" =>
              t = [kind |-> "template", step |-> t.step, survey |-> Template, purpose |-> t.purpose]
        /\ t.kind = "save" => t = [kind |-> "save", survey |-> t.survey, step |-> t.step]
        /\ t.kind = "edit" \/ (t.kind = "template" /\ t.purpose = "edit") => d = NULL

TaskInv ==
    /\ TaskOK(task, dialog)
    /\ dialog # NULL /\ dialog.kind = "delete" => dialog.survey \in Surveys

\* The template this page holds is the current one, and stays it.
CacheInv ==
    cache # NULL \/ AtTemplate("have") \/ AtTemplate("copy") =>
        cache \in Records /\ cache.structure # "old" /\ server[Template].structure # "old"

DeskRest == ServerInv /\ SessionInv /\ TaskInv /\ CacheInv
DeskInv == ListInv /\ DeskRest

LEMMA TemplateApart == Template \notin Surveys
  BY DeskAssumption DEF Surveys

-----------------------------------------------------------------------------
(* The list.                                                               *)

LEMMA AskKeeps ==
    ASSUME ListInv, NEW next, ListShape(next), Ask(next) PROVE ListInv'
<1>1. list' = [query |-> next.query, rows |-> next.rows, total |-> next.total,
               shown |-> next.shown, failed |-> FALSE]
  BY DEF Ask, ListShape
<1>2. list'.query = next.query /\ ListShape(list')
  BY <1>1 DEF ListShape
<1>3. fetches' = {[f EXCEPT !.live = FALSE] : f \in fetches} \cup {[query |-> next.query, live |-> TRUE]}
  BY DEF Ask, Fetch
<1>4. PICK latest : latest = [query |-> next.query, live |-> TRUE]
  OBVIOUS
<1>5. latest.query = next.query /\ latest.live = TRUE
  BY <1>4
<1>6. ASSUME NEW f \in fetches'
      PROVE  f = [query |-> f.query, live |-> f.live] /\ (f.live => f.query = list'.query)
  <2>1. CASE f = latest
    BY <1>2, <1>4, <1>5, <2>1
  <2>2. ASSUME NEW g \in fetches, f = [g EXCEPT !.live = FALSE]
        PROVE  f = [query |-> f.query, live |-> f.live] /\ ~f.live
    <3>1. PICK q, l : g = [query |-> q, live |-> l]
      BY DEF ListInv
    <3>2. f = [query |-> q, live |-> FALSE]
      BY <2>2, <3>1
    <3> QED
      BY <3>2
  <2> QED
    BY <1>3, <1>4, <2>1, <2>2
<1>7. ListLoading'
  BY <1>3, <1>4, <1>5 DEF ListLoading
<1> QED
  BY <1>2, <1>6, <1>7 DEF ListInv, ListFollowsFilters

\* The filters, and how far they are answered, stay.
LEMMA SameListKeeps ==
    ASSUME ListInv, ListShape(list'), fetches' = fetches,
           list'.query = list.query, list'.shown = list.shown, list'.failed = list.failed
    PROVE  ListInv'
  BY DEF ListInv, ListFollowsFilters, ListLoading

LEMMA RowsKeep ==
    ASSUME ListInv, NEW rows, list' = [list EXCEPT !.rows = rows], fetches' = fetches
    PROVE  ListInv'
<1>1. list' = [query |-> list.query, rows |-> rows, total |-> list.total,
               shown |-> list.shown, failed |-> list.failed]
  BY DEF ListInv, ListShape
<1>2. ListShape(list') /\ list'.query = list.query /\ list'.shown = list.shown /\ list'.failed = list.failed
  BY <1>1 DEF ListShape
<1> QED
  BY <1>2, SameListKeeps

LEMMA ListAnswerKeeps == ASSUME ListInv, NEW f, ListAnswer(f) PROVE ListInv'
<1>1. fetches' \subseteq fetches
  BY DEF ListAnswer
<1>2. CASE ~Current(f) /\ UNCHANGED list
  <2>1. fetches' = fetches \ {f} /\ ~f.live
    BY <1>2 DEF ListAnswer, Current
  <2>2. ListLoading' <=> ListLoading
    BY <2>1 DEF ListLoading
  <2> QED
    BY <1>1, <1>2, <2>2 DEF ListInv, ListFollowsFilters
<1>3. ASSUME NEW rows, NEW total, Current(f), f \in fetches,
             list' = [list EXCEPT !.rows = rows, !.total = total, !.shown = f.query, !.failed = FALSE]
      PROVE  ListInv'
  <2>1. list' = [query |-> list.query, rows |-> rows, total |-> total,
                 shown |-> f.query, failed |-> FALSE]
    BY <1>3 DEF ListInv, ListShape
  <2>2. ListShape(list') /\ list'.query = list.query /\ list'.shown = f.query
    BY <2>1 DEF ListShape
  <2>3. f.query = list.query
    BY <1>3 DEF ListInv, Current
  <2> QED
    BY <1>1, <2>2, <2>3 DEF ListInv, ListFollowsFilters
<1>4. CASE list' = [list EXCEPT !.failed = TRUE]
  <2>1. list' = [query |-> list.query, rows |-> list.rows, total |-> list.total,
                 shown |-> list.shown, failed |-> TRUE]
    BY <1>4 DEF ListInv, ListShape
  <2>2. ListShape(list') /\ list'.query = list.query /\ list'.failed
    BY <2>1 DEF ListShape
  <2> QED
    BY <1>1, <2>2 DEF ListInv, ListFollowsFilters
<1> QED
  BY <1>2, <1>3, <1>4 DEF ListAnswer

\* The lists an action asks for.
LEMMA RowsShape ==
    ASSUME ListInv, NEW rows PROVE ListShape([list EXCEPT !.rows = rows])
<1>1. [list EXCEPT !.rows = rows] = [query |-> list.query, rows |-> rows, total |-> list.total,
                                     shown |-> list.shown, failed |-> list.failed]
  BY DEF ListInv, ListShape
<1> QED
  BY <1>1 DEF ListShape

LEMMA CountShape ==
    ASSUME NEW next, ListShape(next), NEW total PROVE ListShape(AfterCountChange(next, total))
<1>1. PICK q, rows, was, shown, failed :
        next = [query |-> q, rows |-> rows, total |-> was, shown |-> shown, failed |-> failed]
  BY DEF ListShape
<1>2. PICK offset : AfterCountChange(next, total)
                       = [next EXCEPT !.total = total, !.query.offset = offset]
  BY DEF AfterCountChange
<1>3. PICK query : query = [q EXCEPT !.offset = offset]
  OBVIOUS
<1>4. AfterCountChange(next, total) = [query |-> query, rows |-> rows, total |-> total,
                                       shown |-> shown, failed |-> failed]
  BY <1>1, <1>2, <1>3
<1> QED
  BY <1>4 DEF ListShape

LEMMA QueryShape ==
    ASSUME ListInv, NEW query PROVE ListShape([list EXCEPT !.query = query])
<1>1. [list EXCEPT !.query = query] = [query |-> query, rows |-> list.rows, total |-> list.total,
                                       shown |-> list.shown, failed |-> list.failed]
  BY DEF ListInv, ListShape
<1> QED
  BY <1>1 DEF ListShape

LEMMA FilterKeeps ==
    ASSUME ListInv, SetStatusFilter \/ SetShowArchived \/ SetOffset PROVE ListInv'
<1>1. PICK query : Ask([list EXCEPT !.query = query])
  <2>1. CASE SetStatusFilter
    <3>1. PICK status : Ask(FilterBy(status))
      BY <2>1 DEF SetStatusFilter
    <3>2. FilterBy(status) = [list EXCEPT !.query = [list.query EXCEPT !.status = status, !.offset = 0]]
      BY DEF FilterBy, ListInv, ListShape
    <3> QED
      BY <3>1, <3>2
  <2>2. CASE SetShowArchived
    <3>1. Ask([list EXCEPT !.query.archived = ~@, !.query.offset = 0])
      BY <2>2 DEF SetShowArchived
    <3>2. [list EXCEPT !.query.archived = ~@, !.query.offset = 0]
            = [list EXCEPT !.query = [list.query EXCEPT !.archived = ~@, !.offset = 0]]
      BY DEF ListInv, ListShape
    <3> QED
      BY <3>1, <3>2
  <2>3. CASE SetOffset
    <3>1. PICK offset : Ask([list EXCEPT !.query.offset = offset])
      BY <2>3 DEF SetOffset
    <3>2. [list EXCEPT !.query.offset = offset] = [list EXCEPT !.query = [list.query EXCEPT !.offset = offset]]
      BY DEF ListInv, ListShape
    <3> QED
      BY <3>1, <3>2
  <2> QED
    BY <2>1, <2>2, <2>3
<1> QED
  BY <1>1, QueryShape, AskKeeps

-----------------------------------------------------------------------------
(* What is stored.                                                         *)

\* Nothing goes back: sections change under a new version only, and a current
\* template does not become an outdated one.
Evolves ==
    /\ \A v \in Surveys :
          /\ server[v].version <= server'[v].version
          /\ server'[v].structure = server[v].structure \/ server[v].version < server'[v].version
    /\ server[Template].structure # "old" => server'[Template].structure # "old"

LEMMA NothingStored ==
    ASSUME ServerInv, server' = server PROVE ServerInv' /\ Evolves
  BY DEF ServerInv, GeneratedIsCurrent, Evolves, AllSurveys, Records

LEMMA OneStored ==
    ASSUME ServerInv, NEW v \in AllSurveys, NEW r \in Records, server' = [server EXCEPT ![v] = r],
           r.structure # "old" \/ r.structure = server[v].structure,
           v \in Surveys =>
              \/ r.version = server[v].version + 1
              \/ r.version = server[v].version /\ r.structure = server[v].structure
    PROVE  ServerInv' /\ Evolves
<1>1. \A w \in AllSurveys : server[w] \in Records /\ server'[w] = IF w = v THEN r ELSE server[w]
  BY DEF ServerInv
<1>2. server' \in [AllSurveys -> Records]
  BY DEF ServerInv
<1>3. \A w \in AllSurveys : server[w].version \in Nat
  BY <1>1 DEF Records
<1> QED
  BY <1>1, <1>2, <1>3, TemplateApart DEF ServerInv, GeneratedIsCurrent, Evolves, AllSurveys

\* A change with the version it makes.
LEMMA RenewedStored ==
    ASSUME ServerInv, NEW v \in AllSurveys, NEW r \in Records,
           server' = Renewed([server EXCEPT ![v] = r], v),
           v \in Surveys => r.version = server[v].version,
           r.structure # "old" \/ r.structure = server[v].structure
    PROVE  /\ ServerInv' /\ Evolves
           /\ server'[v].structure = r.structure /\ server'[v].version = r.version + 1
           /\ server'[v] \in Records
<1>1. server \in [AllSurveys -> Records]
  BY DEF ServerInv
<1>2. PICK q : q = [r EXCEPT !.version = @ + 1]
  OBVIOUS
<1>3. q \in Records /\ q.version = r.version + 1 /\ q.structure = r.structure
  BY <1>2 DEF Records
<1>4. server' = [server EXCEPT ![v] = q]
  BY <1>1, <1>2 DEF Renewed
<1> QED
  BY <1>1, <1>3, <1>4, OneStored

-----------------------------------------------------------------------------
(* Steps that leave the session and the template alone.                    *)

LEMMA EditorStays ==
    ASSUME ServerInv, Evolves, ServerInv', editor' = editor, editor \in Sessions, EditorCurrent
    PROVE  EditorCurrent'
<1>1. \A v \in Surveys : server[v].version \in Nat /\ server'[v].version \in Nat
  BY DEF ServerInv, AllSurveys, Records
<1>2. editor.base.version \in Nat
  BY DEF Sessions, Records
<1> QED
  BY <1>1, <1>2 DEF Evolves, EditorCurrent

LEMMA RestStays ==
    ASSUME DeskRest, ServerInv', Evolves, UNCHANGED <<editor, cache>>,
           dialog' \in {dialog, NULL}, task' \in {task, NULL}
    PROVE  DeskRest'
<1>1. Holding' => Holding
  BY DEF Holding, Saving
<1>2. SessionInv'
  BY <1>1, EditorStays DEF DeskRest, SessionInv
<1>3. TaskInv'
  BY DEF DeskRest, TaskInv, TaskOK
<1>4. CacheInv'
  BY DEF DeskRest, CacheInv, AtTemplate, Evolves
<1> QED
  BY <1>2, <1>3, <1>4 DEF DeskRest

LEMMA BeginKeeps ==
    ASSUME DeskRest, UNCHANGED <<server, editor, dialog, cache>>, task = NULL,
           TaskOK(task', dialog), task'.kind = "save" <=> editor # NULL,
           task'.kind = "template" => task'.step = "find"
    PROVE  DeskRest'
<1>1. ServerInv' /\ Evolves
  BY NothingStored DEF DeskRest
<1>2. Holding' => Holding
  BY DEF Holding, Saving
<1>3. SessionInv'
  BY <1>1, <1>2, EditorStays DEF DeskRest, SessionInv, Holding
<1>4. TaskInv'
  BY DEF DeskRest, TaskInv
<1>5. CacheInv'
  BY DEF DeskRest, CacheInv, AtTemplate
<1> QED
  BY <1>1, <1>3, <1>4, <1>5 DEF DeskRest

LEMMA FiltersKeep ==
    ASSUME DeskInv,
           SetStatusFilter \/ SetShowArchived \/ SetOffset \/ (\E f \in fetches : ListAnswer(f))
    PROVE  DeskInv'
<1>1. ListInv'
  BY FilterKeeps, ListAnswerKeeps DEF DeskInv
<1>2. UNCHANGED <<server, task, editor, dialog, cache>>
  BY DEF SetStatusFilter, SetShowArchived, SetOffset, ListAnswer
<1>3. DeskRest'
  BY <1>2, NothingStored, RestStays DEF DeskInv, DeskRest
<1> QED
  BY <1>1, <1>3 DEF DeskInv

LEMMA DialogsKeep == ASSUME DeskInv, OpenDialog \/ CloseDialog PROVE DeskInv'
<1>1. UNCHANGED <<server, list, fetches, task, editor, cache>>
  BY DEF OpenDialog, CloseDialog
<1>2. ListInv'
  BY <1>1, SameListKeeps DEF DeskInv, ListInv
<1>3. CASE CloseDialog
  BY <1>1, <1>2, <1>3, NothingStored, RestStays DEF DeskInv, DeskRest, CloseDialog
<1>4. CASE OpenDialog
  <2>1. task = NULL /\ editor = NULL /\ dialog'.survey \in Surveys
    BY <1>4 DEF OpenDialog, AtRow, AtPage, InteractionLocked
  <2>2. ~Holding'
    BY <1>1, <2>1 DEF Holding, Saving
  <2>3. SessionInv' /\ TaskInv' /\ CacheInv' /\ ServerInv'
    BY <1>1, <2>1, <2>2, NothingStored
       DEF DeskInv, DeskRest, SessionInv, TaskInv, TaskOK, CacheInv, AtTemplate
  <2> QED
    BY <1>2, <2>3 DEF DeskInv, DeskRest
<1> QED
  BY <1>3, <1>4

LEMMA BeginningsKeep ==
    ASSUME DeskInv,
           \/ HandleDelete
           \/ \E v \in Surveys : HandleRestore(v) \/ HandleEraseAll(v) \/ HandleOpenEdit(v)
           \/ \E purpose \in {"edit", "preview", "generate"} : OpenTemplate(purpose)
    PROVE  DeskInv'
<1>1. UNCHANGED <<server, list, fetches, editor, dialog, cache>> /\ task = NULL
  BY DEF HandleDelete, HandleRestore, HandleEraseAll, HandleOpenEdit, OpenTemplate, Begin
<1>2. ListInv'
  BY <1>1, SameListKeeps DEF DeskInv, ListInv
<1>3. dialog # NULL => editor = NULL
  BY DEF DeskInv, DeskRest, SessionInv, Holding
<1>4. CASE HandleDelete
  <2>1. PICK total : task' = [kind |-> "delete", survey |-> dialog.survey, total |-> total]
    BY <1>4 DEF HandleDelete, Begin
  <2>2. dialog # NULL /\ dialog.survey \in Surveys
    BY <1>4 DEF HandleDelete, DeskInv, DeskRest, TaskInv
  <2> QED
    BY <1>1, <1>2, <1>3, <2>1, <2>2, BeginKeeps DEF DeskInv, TaskOK
<1>5. ASSUME NEW v \in Surveys, HandleRestore(v) PROVE DeskInv'
  <2>1. PICK total : task' = [kind |-> "restore", survey |-> v, total |-> total]
    BY <1>5 DEF HandleRestore, Begin
  <2>2. editor = NULL
    BY <1>5 DEF HandleRestore, AtRow, AtPage
  <2> QED
    BY <1>1, <1>2, <2>1, <2>2, BeginKeeps DEF DeskInv, TaskOK
<1>6. ASSUME NEW v \in Surveys, HandleEraseAll(v) PROVE DeskInv'
  <2>1. PICK n : task' = [kind |-> "erase", survey |-> v, expected |-> n]
    BY <1>6 DEF HandleEraseAll, Begin
  <2>2. editor = NULL
    BY <1>6 DEF HandleEraseAll, AtRow, AtPage
  <2> QED
    BY <1>1, <1>2, <2>1, <2>2, BeginKeeps DEF DeskInv, TaskOK
<1>7. ASSUME NEW v \in Surveys, HandleOpenEdit(v) PROVE DeskInv'
  <2>1. task' = [kind |-> "edit", survey |-> v] /\ editor = NULL /\ dialog = NULL
    BY <1>7 DEF HandleOpenEdit, Begin, AtRow, AtPage
  <2> QED
    BY <1>1, <1>2, <2>1, BeginKeeps DEF DeskInv, TaskOK
<1>8. ASSUME NEW purpose \in {"edit", "preview", "generate"}, OpenTemplate(purpose) PROVE DeskInv'
  <2>1. task' = [kind |-> "template", step |-> "find", survey |-> Template, purpose |-> purpose]
    BY <1>8 DEF OpenTemplate, Begin
  <2>2. editor = NULL /\ (purpose = "edit" => dialog = NULL)
    BY <1>3, <1>8 DEF OpenTemplate, AtPage
  <2>3. TaskOK(task', dialog)
    BY <2>1, <2>2 DEF TaskOK
  <2> QED
    BY <1>1, <1>2, <2>1, <2>2, <2>3, BeginKeeps DEF DeskInv
<1> QED
  BY <1>4, <1>5, <1>6, <1>7, <1>8

-----------------------------------------------------------------------------
(* Archiving, restoring, erasing.                                          *)

LEMMA SettleKeeps ==
    ASSUME DeskInv, NEW possible, NEW done, NEW next, NEW outcome,
           Settle(possible, done, next, outcome), dialog' \in {dialog, NULL}, ListShape(next),
           server' = done => ServerInv' /\ Evolves
    PROVE  DeskInv'
<1>1. ServerInv' /\ Evolves
  BY NothingStored DEF Settle, DeskInv, DeskRest
<1>2. ListInv'
  BY AskKeeps, SameListKeeps DEF Settle, DeskInv, ListInv
<1> QED
  BY <1>1, <1>2, RestStays DEF Settle, DeskInv

LEMMA SettlementsKeep ==
    ASSUME DeskInv, NEW outcome,
           DeleteAnswer(outcome) \/ RestoreAnswer(outcome) \/ EraseAnswer(outcome)
    PROVE  DeskInv'
<1>1. PICK v : v = task.survey
  OBVIOUS
<1>2. v \in Surveys /\ v \in AllSurveys /\ ServerInv /\ ListInv
  BY <1>1 DEF DeskInv, DeskRest, TaskInv, TaskOK, DeleteAnswer, RestoreAnswer, EraseAnswer, AllSurveys
<1>3. server \in [AllSurveys -> Records] /\ server[v] \in Records
  BY <1>2 DEF ServerInv
<1>4. ASSUME NEW b \in BOOLEAN, server' = Renewed([server EXCEPT ![v].is_deleted = b], v)
      PROVE  ServerInv' /\ Evolves
  <2>1. PICK r : r = [server[v] EXCEPT !.is_deleted = b]
    OBVIOUS
  <2>2. r \in Records /\ r.version = server[v].version /\ r.structure = server[v].structure
    BY <1>3, <2>1 DEF Records
  <2>3. server' = Renewed([server EXCEPT ![v] = r], v)
    BY <1>3, <1>4, <2>1
  <2> QED
    BY <1>2, <2>2, <2>3, RenewedStored
<1>10. ASSUME server' = Renewed([server EXCEPT ![v].is_deleted = FALSE, ![v].status = "Inactive"], v)
       PROVE  ServerInv' /\ Evolves
  <2>1. PICK r : r = [server[v] EXCEPT !.is_deleted = FALSE, !.status = "Inactive"]
    OBVIOUS
  <2>2. r \in Records /\ r.version = server[v].version /\ r.structure = server[v].structure
    BY <1>3, <2>1 DEF Records, Statuses
  <2>3. server' = Renewed([server EXCEPT ![v] = r], v)
    BY <1>3, <1>10, <2>1
  <2> QED
    BY <1>2, <2>2, <2>3, RenewedStored
<1>5. ASSUME server' = [server EXCEPT ![v].responses = 0] PROVE ServerInv' /\ Evolves
  <2>1. PICK r : r = [server[v] EXCEPT !.responses = 0]
    OBVIOUS
  <2>2. r \in Records /\ r.version = server[v].version /\ r.structure = server[v].structure
    BY <1>3, <2>1 DEF Records
  <2>3. server' = [server EXCEPT ![v] = r]
    BY <1>3, <1>5, <2>1
  <2> QED
    BY <1>2, <2>2, <2>3, OneStored
<1>6. \A rows, total : /\ ListShape([list EXCEPT !.rows = rows])
                       /\ ListShape(AfterCountChange([list EXCEPT !.rows = rows], total))
  BY <1>2, RowsShape, CountShape
<1>7. CASE DeleteAnswer(outcome)
  <2>1. PICK possible, done, next :
          /\ Settle(possible, done, next, outcome) /\ dialog' = NULL /\ ListShape(next)
          /\ done = Renewed([server EXCEPT ![v].is_deleted = TRUE], v)
    BY <1>1, <1>6, <1>7 DEF DeleteAnswer
  <2> QED
    BY <1>4, <2>1, SettleKeeps
<1>8. CASE RestoreAnswer(outcome)
  <2>1. PICK possible, done, next :
          /\ Settle(possible, done, next, outcome) /\ dialog' = dialog /\ ListShape(next)
          /\ done = Renewed([server EXCEPT ![v].is_deleted = FALSE, ![v].status = "Inactive"], v)
    <3>1. PICK done : done = Renewed([server EXCEPT ![v].is_deleted = FALSE, ![v].status = "Inactive"], v)
      OBVIOUS
    <3>2. PICK next : /\ Settle(server[v].is_deleted, done, next, outcome)
                      /\ \/ next = AfterCountChange([list EXCEPT !.rows = Without(v)], task.total)
                         \/ next = [list EXCEPT !.rows = Replaced(done, v)]
      BY <1>1, <1>8, <3>1 DEF RestoreAnswer
    <3> QED
      BY <1>6, <1>8, <3>1, <3>2 DEF RestoreAnswer
  <2> QED
    BY <1>10, <2>1, SettleKeeps
<1>9. CASE EraseAnswer(outcome)
  <2>1. PICK possible, done, next :
          /\ Settle(possible, done, next, outcome) /\ dialog' = dialog /\ ListShape(next)
          /\ done = [server EXCEPT ![v].responses = 0]
    BY <1>1, <1>6, <1>9 DEF EraseAnswer
  <2> QED
    BY <1>5, <2>1, SettleKeeps
<1> QED
  BY <1>7, <1>8, <1>9

-----------------------------------------------------------------------------
(* The template.                                                           *)

\* While the template is made current, nothing else is going on.
LEMMA TemplateTask ==
    ASSUME DeskInv, NEW step, AtTemplate(step)
    PROVE  /\ editor = NULL /\ ~Holding /\ TaskOK(task, dialog)
           /\ task = [kind |-> "template", step |-> step, survey |-> Template, purpose |-> task.purpose]
           /\ task.purpose = "edit" => dialog = NULL
<1>1. editor = NULL /\ TaskOK(task, dialog)
  BY DEF AtTemplate, DeskInv, DeskRest, SessionInv, TaskInv
<1>2. ~Holding
  BY <1>1 DEF AtTemplate, Holding, Saving
<1> QED
  BY <1>1, <1>2 DEF AtTemplate, TaskOK

\* Its next step.
LEMMA StepTaken ==
    ASSUME DeskInv, NEW was, AtTemplate(was), NEW step, Step(step) \/ task' = NULL
    PROVE  /\ ~Saving' /\ TaskOK(task', dialog)
           /\ \A any : AtTemplate(any)' => any = step
<1>1. CASE task' = NULL
  BY <1>1 DEF Saving, TaskOK, AtTemplate
<1>2. CASE Step(step)
  <2>1. task' = [kind |-> "template", step |-> step, survey |-> Template, purpose |-> task.purpose]
    BY <1>2, TemplateTask DEF Step
  <2> QED
    BY <2>1, TemplateTask DEF Saving, TaskOK, AtTemplate
<1> QED
  BY <1>1, <1>2

LEMMA TemplateFoundKeeps == ASSUME DeskInv, TemplateFound PROVE DeskInv'
<1>1. AtTemplate("find") /\ UNCHANGED <<server, list, fetches, editor, dialog>>
  BY DEF TemplateFound
<1>2. ListInv'
  BY <1>1, SameListKeeps DEF DeskInv, ListInv
<1>3. ServerInv'
  BY <1>1, NothingStored DEF DeskInv, DeskRest
<1>4. PICK step \in {"create", "put", "have"} :
         /\ Step(step) \/ task' = NULL
         /\ \/ cache' = server[Template] /\ ~Outdated(server[Template])
            \/ cache' = cache /\ (step = "have" => cache # NULL)
  <2>1. CASE Step("create") /\ cache' = cache
    BY <2>1
  <2>2. CASE Step("put") /\ cache' = cache
    BY <2>2
  <2>3. CASE task' = NULL /\ cache' = cache
    BY <2>3
  <2>4. CASE Step("have") /\ cache' = cache /\ cache # NULL
    BY <2>4
  <2>5. CASE Step("have") /\ cache' = server[Template] /\ ~Outdated(server[Template])
    BY <2>5
  <2> QED
    BY <2>1, <2>2, <2>3, <2>4, <2>5 DEF TemplateFound
<1>5. ~Saving' /\ TaskOK(task', dialog) /\ \A any : AtTemplate(any)' => any = step
  BY <1>1, <1>4, StepTaken
<1>6. SessionInv'
  BY <1>1, <1>5, TemplateTask DEF SessionInv, Holding, DeskInv, DeskRest
<1>7. TaskInv'
  BY <1>1, <1>5 DEF TaskInv, DeskInv, DeskRest
<1>8. server[Template] \in Records
  BY DEF DeskInv, DeskRest, ServerInv, AllSurveys
<1>9. CacheInv'
  <2>1. CASE cache' = server[Template] /\ ~Outdated(server[Template])
    BY <1>1, <1>8, <2>1 DEF CacheInv, Outdated
  <2>2. CASE cache' = cache /\ (step = "have" => cache # NULL)
    BY <1>1, <1>4, <1>5, <2>2 DEF CacheInv, DeskInv, DeskRest
  <2> QED
    BY <1>4, <2>1, <2>2
<1> QED
  BY <1>2, <1>3, <1>6, <1>7, <1>9 DEF DeskInv, DeskRest

LEMMA TemplateStoredKeeps ==
    ASSUME DeskInv, NEW outcome, TemplateStored(outcome) PROVE DeskInv'
<1>1. UNCHANGED <<list, fetches, editor, dialog>>
  BY DEF TemplateStored
<1>2. PICK was \in {"create", "put", "patch"}, step \in {"have", "patch", "find"} :
         /\ AtTemplate(was) /\ (Step(step) \/ task' = NULL)
         /\ outcome # "ok" => task' = NULL
         /\ step = "have" <=> was = "create"
  BY DEF TemplateStored
<1>3. was = task.step
  BY <1>2 DEF AtTemplate
<1>4. PICK done : done = CASE AtTemplate("create") -> Stored(TRUE, "shipped")
                           [] AtTemplate("put") -> [server[Template] EXCEPT !.structure = "shipped"]
                           [] OTHER -> [server[Template] EXCEPT !.title = "shipped"]
  OBVIOUS
<1>5. /\ server' = IF outcome = "error" THEN server
                   ELSE Renewed([server EXCEPT ![Template] = done], Template)
      /\ cache' = IF outcome = "ok" /\ AtTemplate("create") THEN server'[Template] ELSE cache
  BY <1>4 DEF TemplateStored
<1>6. server \in [AllSurveys -> Records] /\ Template \in AllSurveys /\ server[Template] \in Records
  BY DEF DeskInv, DeskRest, ServerInv, AllSurveys
<1>7. /\ done \in Records /\ (done.structure # "old" \/ done.structure = server[Template].structure)
      /\ was = "create" => done.structure # "old"
  <2>1. CASE was = "create"
    <3>1. AtTemplate("create")
      BY <1>2, <2>1
    <3>2. done = Stored(TRUE, "shipped")
      BY <1>4, <3>1 DEF AtTemplate
    <3> QED
      BY <3>2 DEF Stored, Records, Texts, Statuses
  <2>2. CASE was = "put"
    <3>1. done = [server[Template] EXCEPT !.structure = "shipped"]
      BY <1>2, <1>4, <2>2 DEF AtTemplate
    <3> QED
      BY <1>6, <2>2, <3>1 DEF Records, Texts
  <2>3. CASE was = "patch"
    <3>1. done = [server[Template] EXCEPT !.title = "shipped"]
      BY <1>2, <1>4, <2>3 DEF AtTemplate
    <3> QED
      BY <1>6, <2>3, <3>1 DEF Records, Texts
  <2> QED
    BY <1>2, <2>1, <2>2, <2>3
<1>8. /\ ServerInv' /\ Evolves
      /\ outcome # "error" => server'[Template] \in Records /\ server'[Template].structure = done.structure
  BY <1>5, <1>6, <1>7, TemplateApart, NothingStored, RenewedStored DEF DeskInv, DeskRest
<1>9. ~Saving' /\ TaskOK(task', dialog) /\ \A any : AtTemplate(any)' => any = step
  BY <1>2, StepTaken
<1>10. ListInv'
  BY <1>1, SameListKeeps DEF DeskInv, ListInv
<1>11. SessionInv'
  BY <1>1, <1>2, <1>9, TemplateTask DEF SessionInv, Holding, DeskInv, DeskRest
<1>12. TaskInv'
  BY <1>1, <1>9 DEF TaskInv, DeskInv, DeskRest
<1>13. CacheInv'
  <2>1. CASE outcome = "ok" /\ was = "create"
    BY <1>2, <1>5, <1>7, <1>8, <2>1 DEF CacheInv
  <2>2. CASE ~(outcome = "ok" /\ was = "create")
    <3>1. cache' = cache
      BY <1>2, <1>3, <1>5, <2>2 DEF AtTemplate
    <3>2. ~AtTemplate("have")' /\ ~AtTemplate("copy")'
      BY <1>2, <1>9, <2>2 DEF AtTemplate
    <3> QED
      BY <1>8, <3>1, <3>2 DEF CacheInv, DeskInv, DeskRest, Evolves
  <2> QED
    BY <2>1, <2>2
<1> QED
  BY <1>8, <1>10, <1>11, <1>12, <1>13 DEF DeskInv, DeskRest

LEMMA FormIs ==
    ASSUME NEW r \in Records
    PROVE  Form(r) \in Forms /\ Form(r).structure = r.structure /\ Form(r).is_cta = r.is_cta
  BY DEF Form, Forms, Records

LEMMA SessionIs ==
    ASSUME NEW v \in AllSurveys, NEW r \in Records
    PROVE  /\ Session(v, r) \in Sessions /\ Session(v, r).survey = v /\ Session(v, r).base = r
           /\ Session(v, r).original = r.structure /\ Session(v, r).form.structure = r.structure
<1>1. r.structure \in Texts
  BY DEF Records
<1> QED
  BY <1>1, FormIs DEF Session, Sessions

LEMMA TemplateReadyKeeps == ASSUME DeskInv, TemplateReady PROVE DeskInv'
<1>1. AtTemplate("have") /\ UNCHANGED <<server, list, fetches, cache>>
  BY DEF TemplateReady
<1>2. ListInv'
  BY <1>1, SameListKeeps DEF DeskInv, ListInv
<1>3. ServerInv'
  BY <1>1, NothingStored DEF DeskInv, DeskRest
<1>4. cache \in Records /\ cache.structure # "old" /\ server[Template].structure # "old"
  BY <1>1 DEF DeskInv, DeskRest, CacheInv
<1>5. ~Saving' /\ TaskOK(task', dialog) /\ \A any : AtTemplate(any)' => any = "copy"
  BY <1>1, StepTaken DEF TemplateReady
<1>6. /\ editor = NULL /\ ~Holding /\ (task.purpose = "edit" => dialog = NULL)
      /\ task = [kind |-> "template", step |-> "have", survey |-> Template, purpose |-> task.purpose]
  BY <1>1, TemplateTask
<1>7. CacheInv'
  BY <1>1, <1>4 DEF CacheInv
<1>8. CASE task.purpose = "edit"
  <2>1. editor' = Session(Template, cache) /\ dialog' = NULL /\ task' = NULL
    BY <1>6, <1>8 DEF TemplateReady
  <2>2. editor' \in Sessions /\ editor'.form.structure # "old" /\ editor'.survey = Template
    BY <1>4, <2>1, SessionIs DEF AllSurveys
  <2>3. SessionInv'
    BY <1>1, <1>4, <2>1, <2>2, TemplateApart DEF SessionInv, EditorCurrent
  <2>4. TaskInv'
    BY <2>1 DEF TaskInv, TaskOK
  <2> QED
    BY <1>2, <1>3, <1>7, <2>3, <2>4 DEF DeskInv, DeskRest
<1>9. CASE task.purpose # "edit"
  <2>1. editor' = NULL
    BY <1>6, <1>9 DEF TemplateReady
  <2>2. \/ dialog' = dialog
        \/ dialog' = [kind |-> "preview", survey |-> Template]
    BY DEF TemplateReady
  <2>3. SessionInv'
    BY <1>5, <2>1 DEF SessionInv, Holding
  <2>4. task' = NULL \/ task' = [kind |-> "template", step |-> "copy", survey |-> Template,
                                 purpose |-> task.purpose]
    BY <1>6 DEF TemplateReady, Step
  <2>5. TaskOK(task', dialog')
    BY <1>9, <2>4 DEF TaskOK
  <2>6. TaskInv'
    BY <2>2, <2>5 DEF TaskInv, DeskInv, DeskRest
  <2> QED
    BY <1>2, <1>3, <1>7, <2>3, <2>6 DEF DeskInv, DeskRest
<1> QED
  BY <1>8, <1>9

\* The survey generated has the sections of the current template.
LEMMA GenerateAnswerKeeps ==
    ASSUME DeskInv, NEW outcome, GenerateAnswer(outcome) PROVE DeskInv'
<1>1. AtTemplate("copy") /\ UNCHANGED <<fetches, editor, cache>> /\ task' = NULL
  BY DEF GenerateAnswer
<1>2. editor = NULL /\ cache \in Records /\ cache.structure # "old" /\ server[Template].structure # "old"
  BY <1>1, TemplateTask DEF DeskInv, DeskRest, CacheInv
<1>3. PICK v, r :
         /\ v \in Surveys
         /\ r = [Stored(TRUE, "first") EXCEPT !.title = cache.title, !.structure = cache.structure]
         /\ server' = server \/ server' = [server EXCEPT ![v] = r]
         /\ \/ list' = list
            \/ \E rows : list' = [list EXCEPT !.rows = rows]
  BY DEF GenerateAnswer
<1>4. r \in Records /\ r.structure # "old"
  <2>1. Stored(TRUE, "first") \in Records /\ cache.title \in Texts /\ cache.structure \in Texts
    BY <1>2 DEF Stored, Records, Texts, Statuses
  <2> QED
    BY <1>2, <1>3, <2>1 DEF Records
<1>5. ListInv'
  BY <1>1, <1>3, SameListKeeps, RowsKeep DEF DeskInv, ListInv
<1>6. ServerInv' /\ server'[Template] = server[Template]
  BY <1>3, <1>4, TemplateApart DEF DeskInv, DeskRest, ServerInv, GeneratedIsCurrent, AllSurveys
<1>7. dialog' \in {dialog, NULL}
  BY DEF GenerateAnswer
<1>8. SessionInv' /\ TaskInv' /\ CacheInv'
  BY <1>1, <1>2, <1>6, <1>7
     DEF SessionInv, Holding, Saving, TaskInv, TaskOK, CacheInv, DeskInv, DeskRest
<1> QED
  BY <1>5, <1>6, <1>8 DEF DeskInv, DeskRest

-----------------------------------------------------------------------------
(* A session of the editor.                                                *)

\* Steps that store nothing, whatever becomes of the list's rows.
LEMMA RowsOnly ==
    ASSUME DeskInv, UNCHANGED <<server, fetches, cache>>,
           list' = list \/ \E rows : list' = [list EXCEPT !.rows = rows]
    PROVE  ListInv' /\ ServerInv' /\ Evolves
<1>1. ListInv'
  BY SameListKeeps, RowsKeep DEF DeskInv, ListInv
<1> QED
  BY <1>1, NothingStored DEF DeskInv, DeskRest

LEMMA EditAnswerKeeps == ASSUME DeskInv, NEW outcome, EditAnswer(outcome) PROVE DeskInv'
<1>1. PICK v : v = task.survey
  OBVIOUS
<1>2. /\ task # NULL /\ task.kind = "edit" /\ task' = NULL
      /\ UNCHANGED <<server, fetches, dialog, cache>>
  BY DEF EditAnswer
<1>3. v \in Surveys /\ v \in AllSurveys /\ dialog = NULL /\ editor = NULL
  BY <1>1, <1>2 DEF DeskInv, DeskRest, TaskInv, TaskOK, SessionInv, AllSurveys
<1>4. \/ editor' = editor
      \/ editor' = Session(v, server[v])
  BY <1>1 DEF EditAnswer
<1>5. list' = list \/ \E rows : list' = [list EXCEPT !.rows = rows]
  BY DEF EditAnswer
<1>6. ListInv' /\ ServerInv'
  BY <1>2, <1>5, RowsOnly
<1>7. server[v] \in Records /\ server[v].structure # "old"
  BY <1>3 DEF DeskInv, DeskRest, ServerInv, GeneratedIsCurrent
<1>8. SessionInv'
  <2>1. CASE editor' = editor
    BY <1>2, <1>3, <2>1 DEF SessionInv, Holding, Saving
  <2>2. CASE editor' = Session(v, server[v])
    <3>1. /\ editor' \in Sessions /\ editor'.survey = v /\ editor'.base = server[v]
          /\ editor'.original = server[v].structure /\ editor'.form.structure = server[v].structure
      BY <1>3, <1>7, <2>2, SessionIs
    <3>2. server[v].version \in Nat
      BY <1>7 DEF Records
    <3>3. EditorCurrent'
      BY <1>2, <1>3, <3>1, <3>2, TemplateApart DEF EditorCurrent
    <3> QED
      BY <1>2, <1>3, <1>7, <3>1, <3>3 DEF SessionInv
  <2> QED
    BY <1>4, <2>1, <2>2
<1>9. TaskInv' /\ CacheInv'
  BY <1>2 DEF TaskInv, TaskOK, CacheInv, AtTemplate, DeskInv, DeskRest
<1> QED
  BY <1>6, <1>8, <1>9 DEF DeskInv, DeskRest

\* The user types, or closes the editor.
LEMMA EditFieldKeeps == ASSUME DeskInv, EditField \/ HandleCloseModal PROVE DeskInv'
<1>1. UNCHANGED <<server, list, fetches, task, dialog, cache>> /\ editor # NULL /\ task = NULL
  BY DEF EditField, HandleCloseModal, InteractionLocked
<1>2. ListInv' /\ ServerInv' /\ Evolves
  BY <1>1, RowsOnly
<1>3. editor \in Sessions /\ editor.form.structure # "old" /\ EditorCurrent /\ dialog = NULL
  BY <1>1 DEF Holding, SessionInv, DeskInv, DeskRest
<1>4. SessionInv'
  <2>1. CASE HandleCloseModal
    BY <1>1, <2>1 DEF HandleCloseModal, SessionInv, Holding, Saving
  <2>2. CASE EditField
    <3>1. PICK field \in {"title", "structure", "status", "is_cta"} :
             editor' = [editor EXCEPT !.touched = @ \cup {field}, !.form[field] =
                 CASE field = "status" -> IF @ = "Active" THEN "Inactive" ELSE "Active"
                   [] field = "is_cta" -> ~@
                   [] OTHER -> "mine"]
      BY <2>2 DEF EditField
    <3>2. PICK value : /\ editor' = [editor EXCEPT !.touched = @ \cup {field}, !.form[field] = value]
                       /\ value = CASE field = "status" -> IF editor.form[field] = "Active" THEN "Inactive" ELSE "Active"
                                    [] field = "is_cta" -> ~editor.form[field]
                                    [] OTHER -> "mine"
      BY <1>3, <3>1 DEF Sessions, Forms
    <3>3. /\ field = "status" => value \in Statuses
          /\ field = "is_cta" => value \in BOOLEAN
          /\ field \in {"title", "structure"} => value = "mine"
      BY <1>3, <3>2 DEF Statuses, Sessions, Forms
    <3>4. PICK form : form = [editor.form EXCEPT ![field] = value]
      OBVIOUS
    <3>5. form \in Forms /\ form.structure # "old"
      BY <1>3, <3>3, <3>4 DEF Sessions, Forms, Texts
    <3>6. PICK touched : touched = editor.touched \cup {field}
      OBVIOUS
    <3>7. editor' = [editor EXCEPT !.touched = touched, !.form = form]
      BY <1>3, <3>2, <3>4, <3>6 DEF Sessions
    <3>8. /\ editor' \in Sessions /\ editor'.form = form /\ editor'.survey = editor.survey
          /\ editor'.base = editor.base /\ editor'.original = editor.original
      BY <1>3, <3>5, <3>6, <3>7 DEF Sessions
    <3>9. EditorCurrent'
      BY <1>1, <1>3, <3>8 DEF EditorCurrent
    <3> QED
      BY <1>1, <1>3, <3>5, <3>8, <3>9 DEF SessionInv
  <2> QED
    BY <2>1, <2>2
<1>5. TaskInv' /\ CacheInv'
  BY <1>1 DEF TaskInv, TaskOK, CacheInv, AtTemplate, DeskInv, DeskRest
<1> QED
  BY <1>2, <1>4, <1>5 DEF DeskInv, DeskRest

LEMMA HandleSaveSurveyKeeps == ASSUME DeskInv, HandleSaveSurvey PROVE DeskInv'
<1>1. UNCHANGED <<server, list, fetches, editor, dialog, cache>> /\ task = NULL /\ editor # NULL
  BY DEF HandleSaveSurvey, Begin
<1>2. PICK step : task' = [kind |-> "save", survey |-> editor.survey, step |-> step]
  BY DEF HandleSaveSurvey, Begin
<1>3. DeskRest'
  BY <1>1, <1>2, BeginKeeps DEF DeskInv, TaskOK
<1>4. ListInv'
  BY <1>1, SameListKeeps DEF DeskInv, ListInv
<1> QED
  BY <1>3, <1>4 DEF DeskInv

\* A step of a save: the session, and what the next step may be.
LEMMA SaveTask ==
    ASSUME DeskInv, NEW step, AtSave(step)
    PROVE  /\ editor \in Sessions /\ editor.form.structure # "old" /\ EditorCurrent
           /\ dialog = NULL /\ editor.survey \in AllSurveys
           /\ task = [kind |-> "save", survey |-> task.survey, step |-> step]
<1>1. Holding
  BY DEF AtSave, Holding, Saving
<1> QED
  BY <1>1 DEF AtSave, DeskInv, DeskRest, SessionInv, TaskInv, TaskOK, Sessions

LEMMA SaveStep ==
    ASSUME DeskInv, NEW was, AtSave(was), NEW step, Step(step) \/ task' = NULL
    PROVE  /\ task' # NULL => task'.kind = "save"
           /\ TaskOK(task', dialog)
           /\ \A any : ~AtTemplate(any)'
<1>1. CASE task' = NULL
  BY <1>1 DEF TaskOK, AtTemplate
<1>2. CASE Step(step)
  <2>1. task' = [kind |-> "save", survey |-> task.survey, step |-> step]
    BY <1>2, SaveTask DEF Step
  <2> QED
    BY <2>1 DEF TaskOK, AtTemplate
<1> QED
  BY <1>1, <1>2

LEMMA SaveKeeps ==
    ASSUME DeskInv, NEW was, AtSave(was), NEW step, Step(step) \/ task' = NULL,
           ListInv', ServerInv', Evolves, dialog' = dialog,
           cache' \in {cache, NULL, server'[Template]},
           cache' # cache => editor.survey = Template,
           \/ editor' = NULL /\ task' = NULL
           \/ editor' \in Sessions /\ editor'.form.structure # "old" /\ EditorCurrent'
    PROVE  DeskInv'
<1>1. task' # NULL => task'.kind = "save"
  BY SaveStep
<1>2. TaskOK(task', dialog) /\ \A any : ~AtTemplate(any)'
  BY SaveStep
<1>3. dialog = NULL /\ EditorCurrent
  BY SaveTask
<1>4. SessionInv'
  BY <1>1, <1>3 DEF SessionInv, Holding, Saving
<1>5. TaskInv'
  BY <1>2, <1>3 DEF TaskInv
<1>6. CacheInv'
  <2>1. server'[Template] \in Records
    BY DEF ServerInv, AllSurveys
  <2>2. CASE cache' = cache
    BY <1>2, <2>2 DEF CacheInv, DeskInv, DeskRest, Evolves
  <2>3. CASE cache' = NULL
    BY <1>2, <2>3 DEF CacheInv
  <2>4. CASE cache' # cache /\ cache' = server'[Template]
    BY <1>2, <1>3, <2>1, <2>4 DEF CacheInv, EditorCurrent, Evolves
  <2> QED
    BY <2>2, <2>3, <2>4
<1> QED
  BY <1>4, <1>5, <1>6 DEF DeskInv, DeskRest

\* What a save does to the sections: the version the session was opened on
\* is over with it.
LEMMA PutStores ==
    ASSUME DeskInv, AtSave("put"), NEW v, v = editor.survey,
           server' = Renewed([server EXCEPT ![v].structure = editor.form.structure], v)
    PROVE  /\ ServerInv' /\ Evolves
           /\ server'[v].structure = editor.form.structure
           /\ server'[v].version = server[v].version + 1
<1>1. editor \in Sessions /\ editor.form.structure # "old" /\ v \in AllSurveys
  BY SaveTask
<1>2. server \in [AllSurveys -> Records] /\ server[v] \in Records
  BY <1>1 DEF DeskInv, DeskRest, ServerInv
<1>3. PICK r : r = [server[v] EXCEPT !.structure = editor.form.structure]
  OBVIOUS
<1>4. r \in Records /\ r.structure = editor.form.structure /\ r.version = server[v].version
  BY <1>1, <1>2, <1>3 DEF Records, Sessions, Forms
<1>5. server' = Renewed([server EXCEPT ![v] = r], v)
  BY <1>2, <1>3
<1> QED
  BY <1>1, <1>4, <1>5, RenewedStored DEF DeskInv, DeskRest

LEMMA PutAnswerKeeps == ASSUME DeskInv, NEW outcome, PutAnswer(outcome) PROVE DeskInv'
<1>1. PICK v : v = editor.survey
  OBVIOUS
<1>2. PICK done : done = Renewed([server EXCEPT ![v].structure = editor.form.structure], v)
  OBVIOUS
<1>3. AtSave("put") /\ UNCHANGED <<fetches, dialog>>
  BY DEF PutAnswer
<1>4. /\ editor \in Sessions /\ editor.form.structure # "old" /\ EditorCurrent /\ v \in AllSurveys
      /\ server[v] \in Records
  BY <1>1, <1>3, SaveTask DEF DeskInv, DeskRest, ServerInv
<1>5. ListInv'
  <2>1. list' = list \/ \E rows : list' = [list EXCEPT !.rows = rows]
    BY DEF PutAnswer, SaveFailed
  <2> QED
    BY <1>3, <2>1, SameListKeeps, RowsKeep DEF DeskInv, ListInv
<1>6. CASE /\ server' = done /\ Step("patch")
           /\ editor' = [editor EXCEPT !.original = editor.form.structure]
           /\ cache' = IF v = Template THEN done[v] ELSE cache
  <2>1. /\ ServerInv' /\ Evolves /\ server'[v].structure = editor.form.structure
        /\ server'[v].version = server[v].version + 1
    BY <1>1, <1>2, <1>3, <1>6, PutStores
  <2>2. /\ editor' \in Sessions /\ editor'.form = editor.form /\ editor'.survey = v
        /\ editor'.base = editor.base
    BY <1>1, <1>4, <1>6 DEF Sessions, Forms
  <2>3. server[v].version \in Nat /\ editor.base.version \in Nat
    BY <1>4 DEF Sessions, Records
  <2>4. EditorCurrent'
    BY <1>1, <1>4, <2>1, <2>2, <2>3 DEF EditorCurrent
  <2> QED
    BY <1>1, <1>3, <1>4, <1>5, <1>6, <2>1, <2>2, <2>4, SaveKeeps
<1>7. CASE server' = done /\ SaveFailed
  <2>1. ServerInv' /\ Evolves
    BY <1>1, <1>2, <1>3, <1>7, PutStores
  <2>2. editor' = editor /\ cache' = cache /\ task' = NULL
    BY <1>7 DEF SaveFailed
  <2>3. EditorCurrent'
    BY <1>4, <2>1, <2>2, EditorStays DEF DeskInv, DeskRest
  <2> QED
    BY <1>3, <1>4, <1>5, <2>1, <2>2, <2>3, SaveKeeps
<1>8. CASE UNCHANGED <<server, editor, cache>> /\ (task' = NULL \/ Step("conflict"))
  <2>1. ServerInv' /\ Evolves
    BY <1>8, NothingStored DEF DeskInv, DeskRest
  <2>2. EditorCurrent'
    BY <1>4, <1>8, <2>1, EditorStays DEF DeskInv, DeskRest
  <2> QED
    BY <1>3, <1>4, <1>5, <1>8, <2>1, <2>2, SaveKeeps
<1> QED
  BY <1>1, <1>2, <1>6, <1>7, <1>8 DEF PutAnswer, SaveFailed

\* A patch renews versions and leaves sections as they are.
LEMMA PatchStores ==
    ASSUME DeskInv, AtSave("patch"), server' = Patched(editor.survey)
    PROVE  /\ ServerInv' /\ Evolves
           /\ \A w \in AllSurveys : /\ server'[w].structure = server[w].structure
                                    /\ server'[w].exists = server[w].exists
                                    /\ server'[w].is_deleted = server[w].is_deleted
<1>1. editor \in Sessions
  BY SaveTask
<1>2. server \in [AllSurveys -> Records] /\ DOMAIN server = AllSurveys
  BY DEF DeskInv, DeskRest, ServerInv
<1>3. /\ DOMAIN server' = AllSurveys
      /\ \A w \in AllSurveys :
            /\ server'[w] \in Records
            /\ server'[w].structure = server[w].structure
            /\ server'[w].exists = server[w].exists /\ server'[w].is_deleted = server[w].is_deleted
            /\ server'[w].version \in {server[w].version, server[w].version + 1}
  <2>1. PICK v : v = editor.survey
    OBVIOUS
  <2>2. v \in AllSurveys /\ editor.form \in Forms /\ server[v] \in Records
    BY <1>1, <1>2, <2>1 DEF Sessions
  <2>3. PICK title \in Texts : title = IF "title" \in Sent THEN editor.form["title"] ELSE server[v]["title"]
    BY <2>2 DEF Forms, Records
  <2>4. PICK status \in Statuses : status = IF "status" \in Sent THEN editor.form["status"] ELSE server[v]["status"]
    BY <2>2 DEF Forms, Records
  <2>5. PICK is_cta \in BOOLEAN : is_cta = IF "is_cta" \in Sent THEN editor.form["is_cta"] ELSE server[v]["is_cta"]
    BY <2>2 DEF Forms, Records
  <2>6. PICK starred : starred = ("is_cta" \in Sent /\ editor.form.is_cta)
    OBVIOUS
  <2>7. server' = [w \in AllSurveys |->
           IF w = v THEN [server[v] EXCEPT !.title = title, !.status = status,
                                           !.is_cta = is_cta, !.version = @ + 1]
           ELSE IF starred THEN [server[w] EXCEPT !.is_cta = FALSE, !.version = @ + 1]
           ELSE server[w]]
    BY <1>2, <2>1, <2>3, <2>4, <2>5, <2>6 DEF Patched
  <2>8. ASSUME NEW w \in AllSurveys
        PROVE  /\ server'[w] \in Records /\ server'[w].structure = server[w].structure
               /\ server'[w].exists = server[w].exists /\ server'[w].is_deleted = server[w].is_deleted
               /\ server'[w].version \in {server[w].version, server[w].version + 1}
    <3>1. PICK was : was = server[w]
      OBVIOUS
    <3>2. was \in Records
      BY <1>2, <3>1
    <3>6. PICK next \in Nat : next = was.version + 1
      BY <3>2 DEF Records
    <3>3. CASE w = v
      <4>1. PICK now : now = [was EXCEPT !.title = title, !.status = status,
                                         !.is_cta = is_cta, !.version = next]
        OBVIOUS
      <4>2. /\ now \in Records /\ now.structure = was.structure /\ now.version = next
            /\ now.exists = was.exists /\ now.is_deleted = was.is_deleted
        BY <3>2, <4>1 DEF Records
      <4>3. server'[w] = now
        BY <2>7, <3>1, <3>3, <3>6, <4>1
      <4> QED
        BY <3>1, <3>6, <4>2, <4>3
    <3>5. CASE w # v /\ starred
      <4>1. PICK now : now = [was EXCEPT !.is_cta = FALSE, !.version = next]
        OBVIOUS
      <4>2. /\ now \in Records /\ now.structure = was.structure /\ now.version = next
            /\ now.exists = was.exists /\ now.is_deleted = was.is_deleted
        BY <3>2, <4>1 DEF Records
      <4>3. server'[w] = now
        BY <2>7, <3>1, <3>5, <3>6, <4>1
      <4> QED
        BY <3>1, <3>6, <4>2, <4>3
    <3>4. CASE w # v /\ ~starred
      <4>1. server'[w] = server[w]
        BY <2>7, <3>4
      <4> QED
        BY <3>1, <3>2, <4>1
    <3> QED
      BY <3>3, <3>4, <3>5
  <2> QED
    BY <2>7, <2>8
<1>4. server' \in [AllSurveys -> Records]
  BY <1>3 DEF Patched
<1>5. \A w \in AllSurveys : server[w].version \in Nat
  BY <1>2 DEF Records
<1> QED
  BY <1>3, <1>4, <1>5 DEF ServerInv, GeneratedIsCurrent, Evolves, AllSurveys, DeskInv, DeskRest

LEMMA PatchAnswerKeeps == ASSUME DeskInv, NEW outcome, PatchAnswer(outcome) PROVE DeskInv'
<1>1. AtSave("patch") /\ UNCHANGED <<list, fetches, dialog>>
  BY DEF PatchAnswer, SaveFailed
<1>2. editor \in Sessions /\ editor.form.structure # "old" /\ EditorCurrent
  BY <1>1, SaveTask
<1>3. ListInv'
  BY <1>1, SameListKeeps DEF DeskInv, ListInv
<1>4. CASE /\ server' = Patched(editor.survey)
           /\ \/ /\ editor.survey = Template /\ task' = NULL /\ editor' = NULL
                 /\ cache' = IF cache = NULL THEN NULL ELSE server'[editor.survey]
              \/ Step("reload") /\ UNCHANGED <<editor, cache>>
              \/ SaveFailed
  <2>1. ServerInv' /\ Evolves
    BY <1>1, <1>4, PatchStores
  <2>2. ASSUME editor' = editor PROVE EditorCurrent'
    BY <1>2, <2>1, <2>2, EditorStays DEF DeskInv, DeskRest
  <2> QED
    BY <1>1, <1>2, <1>3, <1>4, <2>1, <2>2, SaveKeeps DEF SaveFailed
<1>5. CASE UNCHANGED <<server, editor, cache>> /\ (task' = NULL \/ Step("conflict"))
  <2>1. ServerInv' /\ Evolves
    BY <1>5, NothingStored DEF DeskInv, DeskRest
  <2>2. EditorCurrent'
    BY <1>2, <1>5, <2>1, EditorStays DEF DeskInv, DeskRest
  <2> QED
    BY <1>1, <1>2, <1>3, <1>5, <2>1, <2>2, SaveKeeps
<1> QED
  BY <1>4, <1>5 DEF PatchAnswer, SaveFailed

LEMMA ReloadAnswerKeeps == ASSUME DeskInv, NEW outcome, ReloadAnswer(outcome) PROVE DeskInv'
<1>1. AtSave("reload") /\ UNCHANGED <<server, fetches, dialog, cache>> /\ task' = NULL
  BY DEF ReloadAnswer
<1>2. list' = list \/ \E rows : list' = [list EXCEPT !.rows = rows]
  BY DEF ReloadAnswer
<1>3. ListInv' /\ ServerInv' /\ Evolves
  BY <1>1, <1>2, RowsOnly
<1>4. editor \in Sessions /\ editor.form.structure # "old" /\ EditorCurrent
  BY <1>1, SaveTask
<1>5. CASE editor' = editor
  <2>1. EditorCurrent'
    BY <1>3, <1>4, <1>5, EditorStays DEF DeskInv, DeskRest
  <2> QED
    BY <1>1, <1>3, <1>4, <1>5, <2>1, SaveKeeps
<1>6. CASE editor' = NULL
  BY <1>1, <1>3, <1>6, SaveKeeps
<1> QED
  BY <1>5, <1>6 DEF ReloadAnswer

\* The session starts over from what is stored.
LEMMA ConflictAnswerKeeps == ASSUME DeskInv, NEW outcome, ConflictAnswer(outcome) PROVE DeskInv'
<1>1. AtSave("conflict") /\ UNCHANGED <<server, fetches, dialog, cache>> /\ task' = NULL
  BY DEF ConflictAnswer
<1>2. list' = list \/ \E rows : list' = [list EXCEPT !.rows = rows]
  BY DEF ConflictAnswer
<1>3. ListInv' /\ ServerInv' /\ Evolves
  BY <1>1, <1>2, RowsOnly
<1>4. /\ editor \in Sessions /\ editor.form.structure # "old" /\ EditorCurrent
      /\ editor.survey \in AllSurveys
  BY <1>1, SaveTask
<1>5. CASE editor' = editor
  <2>1. EditorCurrent'
    BY <1>3, <1>4, <1>5, EditorStays DEF DeskInv, DeskRest
  <2> QED
    BY <1>1, <1>3, <1>4, <1>5, <2>1, SaveKeeps
<1>6. CASE editor' = Refreshed(editor.survey)
  <2>1. PICK r : r = server[editor.survey]
    OBVIOUS
  <2>2. r \in Records /\ r.structure # "old"
    BY <1>4, <2>1 DEF EditorCurrent, DeskInv, DeskRest, ServerInv, GeneratedIsCurrent, AllSurveys
  <2>3. PICK form : form = [Form(r) EXCEPT !.is_cta = editor.form.is_cta]
    OBVIOUS
  <2>4. editor.form.is_cta \in BOOLEAN
    BY <1>4 DEF Sessions, Forms
  <2>5. form \in Forms /\ form.structure = r.structure
    BY <2>2, <2>3, <2>4, FormIs DEF Forms
  <2>6. PICK touched : touched = editor.touched \cap {"is_cta"}
    OBVIOUS
  <2>7. editor' = [editor EXCEPT !.base = r, !.original = r.structure, !.form = form,
                                 !.touched = touched]
    BY <1>4, <1>6, <2>1, <2>3, <2>6 DEF Refreshed, Sessions
  <2>8. r.structure \in Texts /\ r.version \in Nat
    BY <2>2 DEF Records
  <2>9. /\ editor' \in Sessions /\ editor'.survey = editor.survey /\ editor'.base = r
        /\ editor'.original = r.structure /\ editor'.form = form
    BY <1>4, <2>2, <2>5, <2>6, <2>7, <2>8 DEF Sessions
  <2>10. EditorCurrent'
    BY <1>1, <1>4, <2>1, <2>8, <2>9 DEF EditorCurrent
  <2> QED
    BY <1>1, <1>3, <2>2, <2>5, <2>9, <2>10, SaveKeeps
<1> QED
  BY <1>5, <1>6 DEF ConflictAnswer

-----------------------------------------------------------------------------
(* Others.                                                                 *)

LEMMA ElsewhereKeeps == ASSUME DeskInv, Elsewhere PROVE DeskInv'
<1>1. UNCHANGED <<list, fetches, task, editor, dialog, cache>>
  BY DEF Elsewhere
<1>2. ListInv'
  BY <1>1, SameListKeeps DEF DeskInv, ListInv
<1>3. server \in [AllSurveys -> Records]
  BY DEF DeskInv, DeskRest, ServerInv
<1>4. PICK v \in Surveys :
         \/ server' = Renewed([server EXCEPT ![v].title = "theirs"], v)
         \/ server' = Renewed([server EXCEPT ![v].structure = "theirs"], v)
         \/ server' = Renewed([server EXCEPT ![v].status = IF @ = "Active" THEN "Inactive" ELSE "Active"], v)
         \/ server' = Renewed([server EXCEPT ![v].is_cta = ~@], v)
         \/ server' = Renewed([server EXCEPT ![v].is_deleted = TRUE], v)
         \/ server' = Renewed([server EXCEPT ![v].history = TRUE, ![v].responses = @ + 1], v)
  BY DEF Elsewhere
<1>5. PICK was : was = server[v]
  OBVIOUS
<1>6. was \in Records /\ v \in AllSurveys
  BY <1>3, <1>5 DEF AllSurveys
<1>7. PICK r : /\ \/ r = [was EXCEPT !.title = "theirs"]
                  \/ r = [was EXCEPT !.structure = "theirs"]
                  \/ r = [was EXCEPT !.status = IF @ = "Active" THEN "Inactive" ELSE "Active"]
                  \/ r = [was EXCEPT !.is_cta = ~@]
                  \/ r = [was EXCEPT !.is_deleted = TRUE]
                  \/ r = [was EXCEPT !.history = TRUE, !.responses = @ + 1]
               /\ server' = Renewed([server EXCEPT ![v] = r], v)
  <2>1. CASE server' = Renewed([server EXCEPT ![v].title = "theirs"], v)
    BY <1>3, <1>5, <1>6, <2>1
  <2>2. CASE server' = Renewed([server EXCEPT ![v].structure = "theirs"], v)
    BY <1>3, <1>5, <1>6, <2>2
  <2>3. CASE server' = Renewed([server EXCEPT ![v].status = IF @ = "Active" THEN "Inactive" ELSE "Active"], v)
    BY <1>3, <1>5, <1>6, <2>3
  <2>4. CASE server' = Renewed([server EXCEPT ![v].is_cta = ~@], v)
    BY <1>3, <1>5, <1>6, <2>4
  <2>5. CASE server' = Renewed([server EXCEPT ![v].is_deleted = TRUE], v)
    BY <1>3, <1>5, <1>6, <2>5
  <2>6. CASE server' = Renewed([server EXCEPT ![v].history = TRUE, ![v].responses = @ + 1], v)
    <3>1. [server EXCEPT ![v].history = TRUE, ![v].responses = @ + 1]
            = [server EXCEPT ![v] = [was EXCEPT !.history = TRUE, !.responses = @ + 1]]
      BY <1>3, <1>5, <1>6 DEF Records
    <3> QED
      BY <2>6, <3>1
  <2> QED
    BY <1>4, <2>1, <2>2, <2>3, <2>4, <2>5, <2>6
<1>8. /\ r \in Records /\ r.version = was.version
      /\ (r.structure # "old" \/ r.structure = was.structure)
  <2>1. ASSUME r = [was EXCEPT !.title = "theirs"] \/ r = [was EXCEPT !.structure = "theirs"]
        PROVE  r \in Records /\ r.version = was.version /\ r.structure \in {"theirs", was.structure}
    BY <1>6, <2>1 DEF Records, Texts
  <2>2. ASSUME NEW status \in Statuses, NEW b \in BOOLEAN, NEW n \in Nat,
               \/ r = [was EXCEPT !.status = status]
               \/ r = [was EXCEPT !.is_cta = b]
               \/ r = [was EXCEPT !.is_deleted = TRUE]
               \/ r = [was EXCEPT !.history = TRUE, !.responses = n]
        PROVE  r \in Records /\ r.version = was.version /\ r.structure = was.structure
    BY <1>6, <2>2 DEF Records
  <2>3. /\ (IF was.status = "Active" THEN "Inactive" ELSE "Active") \in Statuses
        /\ (~was.is_cta) \in BOOLEAN /\ was.responses + 1 \in Nat
    BY <1>6 DEF Records, Statuses
  <2>4. PICK status \in Statuses : status = IF was.status = "Active" THEN "Inactive" ELSE "Active"
    BY <2>3
  <2>5. PICK b \in BOOLEAN : b = ~was.is_cta
    BY <2>3
  <2>6. PICK n \in Nat : n = was.responses + 1
    BY <2>3
  <2>7. \/ r = [was EXCEPT !.title = "theirs"]
        \/ r = [was EXCEPT !.structure = "theirs"]
        \/ r = [was EXCEPT !.status = status]
        \/ r = [was EXCEPT !.is_cta = b]
        \/ r = [was EXCEPT !.is_deleted = TRUE]
        \/ r = [was EXCEPT !.history = TRUE, !.responses = n]
    BY <1>6, <1>7, <2>4, <2>5, <2>6 DEF Records
  <2> QED
    BY <2>1, <2>2, <2>7
<1>9. ServerInv' /\ Evolves
  BY <1>5, <1>6, <1>7, <1>8, RenewedStored DEF DeskInv, DeskRest
<1>10. DeskRest'
  BY <1>1, <1>9, RestStays DEF DeskInv
<1> QED
  BY <1>2, <1>10 DEF DeskInv

-----------------------------------------------------------------------------
(* The specification.                                                      *)

LEMMA InitDeskInv == ASSUME DeskInit PROVE DeskInv
<1>1. list = [query |-> FirstQuery, rows |-> {}, total |-> 0, shown |-> NULL, failed |-> FALSE]
  BY DEF DeskInit
<1>2. PICK first : first = [query |-> FirstQuery, live |-> TRUE]
  OBVIOUS
<1>3. fetches = {first} /\ first.query = FirstQuery /\ first.live = TRUE
  BY <1>2 DEF DeskInit
<1>4. ListInv
  <2>1. ListShape(list) /\ list.query = FirstQuery
    BY <1>1 DEF ListShape
  <2>2. ListLoading
    BY <1>3 DEF ListLoading
  <2> QED
    BY <1>2, <1>3, <2>1, <2>2 DEF ListInv, ListFollowsFilters
<1>5. PICK S \in {{SurveyOrder[1]}, Surveys}, template \in BOOLEAN :
         server = [v \in Surveys \cup {Template} |->
              IF v = Template THEN Stored(template, "old")
              ELSE IF v = SurveyOrder[1] THEN Stored(v \in S, "first")
              ELSE [Stored(v \in S, "first") EXCEPT !.history = v \in S,
                                                    !.responses = IF v \in S THEN 1 ELSE 0]]
  BY Zenon DEF DeskInit
<1>6. ASSUME NEW b \in BOOLEAN, NEW c \in {"old", "first"}
      PROVE  Stored(b, c) \in Records /\ Stored(b, c).structure = c
  BY <1>6 DEF Stored, Records, Texts, Statuses
<1>7. ASSUME NEW v \in AllSurveys
      PROVE  server[v] \in Records /\ (v # Template => server[v].structure = "first")
  <2>1. (v \in S) \in BOOLEAN /\ (IF v \in S THEN 1 ELSE 0) \in Nat
    OBVIOUS
  <2>2. PICK h \in BOOLEAN, n \in Nat : h = (v \in S) /\ n = IF v \in S THEN 1 ELSE 0
    BY <2>1
  <2>3. PICK r : r = Stored(h, "first")
    OBVIOUS
  <2>4. r \in Records /\ r.structure = "first"
    BY <1>6, <2>3
  <2>5. CASE v = Template
    BY <1>5, <1>6, <2>5 DEF AllSurveys
  <2>6. CASE v # Template /\ v = SurveyOrder[1]
    BY <1>5, <2>2, <2>3, <2>4, <2>6 DEF AllSurveys
  <2>7. CASE v # Template /\ v # SurveyOrder[1]
    <3>1. server[v] = [r EXCEPT !.history = h, !.responses = n]
      BY <1>5, <2>2, <2>3, <2>7 DEF AllSurveys
    <3> QED
      BY <2>4, <3>1 DEF Records
  <2> QED
    BY <2>5, <2>6, <2>7
<1>8. ServerInv
  BY <1>5, <1>7, TemplateApart DEF ServerInv, GeneratedIsCurrent, AllSurveys
<1>9. SessionInv /\ TaskInv /\ CacheInv
  BY DEF DeskInit, SessionInv, Holding, Saving, TaskInv, TaskOK, CacheInv, AtTemplate
<1> QED
  BY <1>4, <1>8, <1>9 DEF DeskInv, DeskRest

LEMMA StepDeskInv == ASSUME DeskInv, [DeskNext]_deskVars PROVE DeskInv'
<1>1. CASE UNCHANGED deskVars
  <2>1. UNCHANGED <<server, list, fetches, task, editor, dialog, cache>>
    BY <1>1 DEF deskVars
  <2>2. ListInv'
    BY <2>1, SameListKeeps DEF DeskInv, ListInv
  <2>3. DeskRest'
    BY <2>1, NothingStored, RestStays DEF DeskInv, DeskRest
  <2> QED
    BY <2>2, <2>3 DEF DeskInv
<1>2. CASE SetStatusFilter \/ SetShowArchived \/ SetOffset \/ (\E f \in fetches : ListAnswer(f))
  BY <1>2, FiltersKeep
<1>3. CASE OpenDialog \/ CloseDialog
  BY <1>3, DialogsKeep
<1>4. CASE \/ HandleDelete
           \/ \E v \in Surveys : HandleRestore(v) \/ HandleEraseAll(v) \/ HandleOpenEdit(v)
           \/ \E purpose \in {"edit", "preview", "generate"} : OpenTemplate(purpose)
  BY <1>4, BeginningsKeep
<1>5. CASE TemplateFound \/ TemplateReady
  BY <1>5, TemplateFoundKeeps, TemplateReadyKeeps
<1>6. ASSUME NEW outcome,
             \/ DeleteAnswer(outcome) \/ RestoreAnswer(outcome) \/ EraseAnswer(outcome)
             \/ TemplateStored(outcome) \/ GenerateAnswer(outcome)
             \/ EditAnswer(outcome) \/ PutAnswer(outcome) \/ PatchAnswer(outcome)
             \/ ReloadAnswer(outcome) \/ ConflictAnswer(outcome)
      PROVE  DeskInv'
  BY <1>6, SettlementsKeep, TemplateStoredKeeps, GenerateAnswerKeeps, EditAnswerKeeps,
     PutAnswerKeeps, PatchAnswerKeeps, ReloadAnswerKeeps, ConflictAnswerKeeps
<1>7. CASE EditField \/ HandleCloseModal \/ HandleSaveSurvey
  BY <1>7, EditFieldKeeps, HandleSaveSurveyKeeps
<1>8. CASE Elsewhere
  BY <1>8, ElsewhereKeeps
<1> QED
  BY <1>1, <1>2, <1>3, <1>4, <1>5, <1>6, <1>7, <1>8 DEF DeskNext

LEMMA DeskInvariant == DeskSpec => []DeskInv
<1>1. DeskInit => DeskInv
  BY InitDeskInv
<1>2. DeskInv /\ [DeskNext]_deskVars => DeskInv'
  BY StepDeskInv
<1> QED
  BY <1>1, <1>2, PTL DEF DeskSpec

\* The rows shown answer the filters on screen when no request is under way,
\* in whatever order the answers came (useSurveyManagement's list effect).
THEOREM RowsAnswerFilters == DeskSpec => []ListFollowsFilters
<1>1. DeskInv => ListFollowsFilters
  BY DEF DeskInv, ListInv
<1> QED
  BY <1>1, DeskInvariant, PTL

\* No survey is generated from an outdated template, whichever of the requests
\* that bring it up to date failed or was lost (getTemplateSurvey).
THEOREM GeneratedFromCurrentTemplate == DeskSpec => []GeneratedIsCurrent
<1>1. DeskInv => GeneratedIsCurrent
  BY DEF DeskInv, DeskRest, ServerInv
<1> QED
  BY <1>1, DeskInvariant, PTL

\* Of all steps only the accepted PUT of the sections counts, and its version
\* is the session's.
LEMMA SectionsSteps ==
    ASSUME DeskInv, DeskNext, NEW v \in Surveys,
           server'[v].structure # server[v].structure, editor # NULL, task' # task
    PROVE  server[v].structure = editor.original
<1>1. server' # server
  OBVIOUS
<1>2. task = NULL \/ task.kind = "save"
  BY DEF DeskInv, DeskRest, SessionInv
<1>3. PICK outcome : PutAnswer(outcome) \/ PatchAnswer(outcome)
  <2>1. ~(OpenDialog \/ CloseDialog \/ TemplateFound \/ TemplateReady \/ SetStatusFilter
          \/ SetShowArchived \/ SetOffset \/ (\E f \in fetches : ListAnswer(f)))
    BY <1>1 DEF OpenDialog, CloseDialog, TemplateFound, TemplateReady, SetStatusFilter,
                SetShowArchived, SetOffset, ListAnswer
  <2>2. ~(\/ HandleDelete \/ HandleSaveSurvey
          \/ \E w \in Surveys : HandleRestore(w) \/ HandleEraseAll(w) \/ HandleOpenEdit(w)
          \/ \E purpose \in {"edit", "preview", "generate"} : OpenTemplate(purpose))
    BY <1>1 DEF HandleDelete, HandleSaveSurvey, HandleRestore, HandleEraseAll, HandleOpenEdit,
                OpenTemplate
  <2>3. ~(EditField \/ HandleCloseModal \/ Elsewhere)
    BY DEF EditField, HandleCloseModal, Elsewhere
  <2>4. ASSUME NEW outcome
        PROVE  ~(\/ DeleteAnswer(outcome) \/ RestoreAnswer(outcome) \/ EraseAnswer(outcome)
                 \/ EditAnswer(outcome) \/ ReloadAnswer(outcome) \/ ConflictAnswer(outcome))
    BY <1>1, <1>2 DEF DeleteAnswer, RestoreAnswer, EraseAnswer, EditAnswer, ReloadAnswer, ConflictAnswer
  <2>5. ASSUME NEW outcome PROVE ~(TemplateStored(outcome) \/ GenerateAnswer(outcome))
    BY TemplateTask DEF TemplateStored, GenerateAnswer
  <2> QED
    BY <2>1, <2>2, <2>3, <2>4, <2>5 DEF DeskNext
<1>4. ServerInv /\ v \in AllSurveys /\ server \in [AllSurveys -> Records]
  BY DEF DeskInv, DeskRest, ServerInv, AllSurveys
<1>5. ASSUME PatchAnswer(outcome) PROVE FALSE
  <2>1. AtSave("patch") /\ server' = Patched(editor.survey)
    BY <1>1, <1>5 DEF PatchAnswer
  <2> QED
    BY <1>4, <2>1, PatchStores
<1>6. CASE PutAnswer(outcome)
  <2>1. PICK w : w = editor.survey
    OBVIOUS
  <2>2. /\ AtSave("put") /\ server[w].version = ExpectedVersion(w)
        /\ server' = Renewed([server EXCEPT ![w].structure = editor.form.structure], w)
    BY <1>1, <1>6, <2>1 DEF PutAnswer
  <2>3. EditorCurrent /\ w \in AllSurveys
    BY <2>1, <2>2, SaveTask
  <2>4. v = w
    BY <1>4, <2>2 DEF Renewed
  <2> QED
    BY <2>1, <2>2, <2>3, <2>4 DEF EditorCurrent, ExpectedVersion
<1> QED
  BY <1>3, <1>5, <1>6

\* A save replaces no sections that its session has not shown
\* (handleSaveSurvey with expected_version).
THEOREM SavesReplaceSeenSections == DeskSpec => SectionsSavedWereSeen
<1>1. DeskInv /\ [DeskNext]_deskVars =>
        [\A v \in Surveys :
            /\ server'[v].structure # server[v].structure
            /\ editor # NULL /\ task' # task
            => server[v].structure = editor.original]_deskVars
  BY SectionsSteps
<1> QED
  BY <1>1, DeskInvariant, PTL DEF DeskSpec, SectionsSavedWereSeen

-----------------------------------------------------------------------------
(* The pages of the list.  PageInv is inductive together with DeskInv: as   *)
(* long as this page misses nothing (unseen = 0), its total is at most the  *)
(* number of surveys there are, so a page that starts before the total      *)
(* starts before the end of the list.                                       *)

Live(archived) ==
    {n \in DOMAIN SurveyOrder : /\ server[SurveyOrder[n]].exists
                                /\ archived \/ ~server[SurveyOrder[n]].is_deleted}
Count(archived) == Cardinality(Live(archived))
Ids == {row.id : row \in list.rows}
Queries == [archived : BOOLEAN, status : Filters, offset : Nat]

\* A task that takes a survey off the page.
Removing == task # NULL /\ task.kind \in {"delete", "restore"}

PageShape ==
    /\ unseen \in Nat /\ list.query \in Queries /\ list.total \in Nat /\ IsFiniteSet(list.rows)
    /\ dialog # NULL /\ dialog.kind = "delete" =>
          ~ListLoading /\ (task # NULL => task.kind = "delete")
    /\ Removing => task.total \in Nat

Within(offset, count) == offset = 0 \/ offset < count

OffsetWithin == list.query.status = "all" => Within(list.query.offset, Count(list.query.archived))
TotalWithin == ~ListLoading => list.total <= Count(list.query.archived)
RemovalWithin == Removing => Within(task.total, Count(list.query.archived))
PageFull ==
    ~ListLoading /\ list.query.status = "all" =>
        /\ Within(list.query.offset, list.total)
        /\ Cardinality(Ids) >= PageSize \/ list.total <= list.query.offset + Cardinality(Ids)

Bounds == OffsetWithin /\ TotalWithin /\ RemovalWithin /\ PageFull
PageInv == PageShape /\ (unseen = 0 => Bounds)

\* The image of a finite set, given as a function.
LEMMA FiniteImage ==
    ASSUME NEW S, IsFiniteSet(S), NEW f, DOMAIN f = S
    PROVE  LET T == {f[x] : x \in S}
           IN  /\ IsFiniteSet(T) /\ Cardinality(T) \in Nat /\ Cardinality(S) \in Nat
               /\ Cardinality(T) <= Cardinality(S)
<1>1. PICK T : T = {f[x] : x \in S}
  OBVIOUS
<1>2. PICK g : g = [x \in S |-> f[x]]
  OBVIOUS
<1>3. g \in Surjection(S, T)
  BY <1>1, <1>2 DEF Surjection
<1> QED
  BY <1>1, <1>3, FS_Surjection, FS_CardinalityType

LEMMA FiniteIds ==
    ASSUME NEW rows, IsFiniteSet(rows)
    PROVE  LET ids == {row.id : row \in rows}
           IN  /\ IsFiniteSet(ids) /\ Cardinality(ids) \in Nat /\ Cardinality(rows) \in Nat
               /\ Cardinality(ids) <= Cardinality(rows)
<1>1. PICK f : f = [row \in rows |-> row.id]
  OBVIOUS
<1>2. DOMAIN f = rows /\ {f[row] : row \in rows} = {row.id : row \in rows}
  BY <1>1
<1> QED
  BY <1>2, FiniteImage

-----------------------------------------------------------------------------
LEMMA OrderIs ==
    /\ Len(SurveyOrder) \in Nat /\ DOMAIN SurveyOrder = 1..Len(SurveyOrder)
    /\ IsFiniteSet(DOMAIN SurveyOrder) /\ DOMAIN SurveyOrder \subseteq Nat
    /\ \A n \in DOMAIN SurveyOrder : SurveyOrder[n] \in Surveys
    /\ \A m, n \in DOMAIN SurveyOrder : SurveyOrder[m] = SurveyOrder[n] => m = n
<1>1. SurveyOrder \in Seq(ToSet(SurveyOrder)) /\ IsInjective(SurveyOrder)
  BY DeskAssumption
<1>2. Len(SurveyOrder) \in Nat /\ DOMAIN SurveyOrder = 1..Len(SurveyOrder)
  BY <1>1
<1>3. IsFiniteSet(DOMAIN SurveyOrder)
  BY <1>2, FS_Interval
<1>4. \A n \in DOMAIN SurveyOrder : SurveyOrder[n] \in Surveys
  BY DEF Surveys, ToSet
<1>5. \A m, n \in DOMAIN SurveyOrder : SurveyOrder[m] = SurveyOrder[n] => m = n
  BY <1>1 DEF IsInjective
<1>6. DOMAIN SurveyOrder \subseteq Nat
  BY <1>2
<1> QED
  BY <1>2, <1>3, <1>4, <1>5, <1>6

LEMMA LiveFinite ==
    ASSUME NEW archived
    PROVE  IsFiniteSet(Live(archived)) /\ Count(archived) \in Nat
<1>1. Live(archived) \in SUBSET DOMAIN SurveyOrder
  BY DEF Live
<1> QED
  BY <1>1, OrderIs, FS_Subset, FS_CardinalityType DEF Count

LEMMA LiveFinitePrime ==
    ASSUME NEW archived
    PROVE  IsFiniteSet(Live(archived)') /\ Count(archived)' \in Nat
<1>1. Live(archived)' \in SUBSET DOMAIN SurveyOrder
  BY DEF Live
<1> QED
  BY <1>1, OrderIs, FS_Subset, FS_CardinalityType DEF Count

\* The surveys listed can only become more, but for an archiving.
Appearing ==
    \A v \in Surveys : /\ server[v].exists => server'[v].exists
                       /\ server[v].exists /\ ~server[v].is_deleted => ~server'[v].is_deleted

LEMMA CountGrows ==
    ASSUME Appearing, NEW archived PROVE Count(archived) <= Count(archived)'
<1>1. Live(archived) \in SUBSET Live(archived)'
  BY OrderIs DEF Live, Appearing
<1> QED
  BY <1>1, LiveFinitePrime, FS_Subset DEF Count

\* An archiving takes one survey away.
LEMMA CountShrinks ==
    ASSUME NEW u \in Surveys, NEW archived,
           \A v \in Surveys \ {u} : /\ server[v].exists => server'[v].exists
                                    /\ server[v].exists /\ ~server[v].is_deleted => ~server'[v].is_deleted
    PROVE  Count(archived) - 1 <= Count(archived)'
<1>1. PICK n \in DOMAIN SurveyOrder : SurveyOrder[n] = u
  BY DEF Surveys, ToSet
<1>2. Live(archived) \ {n} \in SUBSET Live(archived)'
  BY <1>1, OrderIs DEF Live
<1>3. IsFiniteSet(Live(archived)) /\ Count(archived) \in Nat /\ Count(archived)' \in Nat
  BY LiveFinite, LiveFinitePrime
<1>4. /\ Cardinality(Live(archived) \ {n}) \in {Count(archived), Count(archived) - 1}
      /\ Cardinality(Live(archived) \ {n}) <= Count(archived)'
  BY <1>2, <1>3, LiveFinitePrime, FS_RemoveElement, FS_Subset DEF Count
<1> QED
  BY <1>3, <1>4

-----------------------------------------------------------------------------
(* The pages of a list.                                                    *)

LEMMA RankRange ==
    ASSUME NEW S \in SUBSET Nat, IsFiniteSet(S), NEW n \in S
    PROVE  Rank(S, n) \in 1..Cardinality(S)
<1>1. {m \in S : m <= n} \in SUBSET S /\ n \in {m \in S : m <= n}
  OBVIOUS
<1>2. IsFiniteSet({m \in S : m <= n}) /\ Rank(S, n) <= Cardinality(S)
  BY <1>1, FS_Subset DEF Rank
<1>3. Rank(S, n) \in Nat /\ Rank(S, n) # 0 /\ Cardinality(S) \in Nat
  BY <1>1, <1>2, FS_CardinalityType, FS_EmptySet DEF Rank
<1> QED
  BY <1>2, <1>3

LEMMA RankOrders ==
    ASSUME NEW S \in SUBSET Nat, IsFiniteSet(S), NEW m \in S, NEW n \in S, m < n
    PROVE  Rank(S, m) < Rank(S, n)
<1>1. IsFiniteSet({k \in S : k <= n})
  BY FS_Subset
<1>2. {k \in S : k <= m} \in SUBSET {k \in S : k <= n}
  <2>1. \A k \in S : k <= m => k <= n
    OBVIOUS
  <2> QED
    BY <2>1, Zenon
<1>3. n \in {k \in S : k <= n} /\ n \notin {k \in S : k <= m}
  OBVIOUS
<1>4. Rank(S, m) <= Rank(S, n) /\ Rank(S, m) # Rank(S, n)
  BY <1>1, <1>2, <1>3, FS_Subset DEF Rank
<1>5. Rank(S, m) \in Nat /\ Rank(S, n) \in Nat
  BY RankRange, FS_CardinalityType
<1> QED
  BY <1>4, <1>5

\* The elements are ranked without gaps.
LEMMA RankBijective ==
    ASSUME NEW S \in SUBSET Nat, IsFiniteSet(S)
    PROVE  /\ \A n \in S : Rank(S, n) \in 1..Cardinality(S)
           /\ \A m, n \in S : Rank(S, m) = Rank(S, n) => m = n
           /\ \A r \in 1..Cardinality(S) : \E n \in S : Rank(S, n) = r
<1>1. \A n \in S : Rank(S, n) \in 1..Cardinality(S)
  BY RankRange
<1>2. Cardinality(S) \in Nat
  BY FS_CardinalityType
<1>3. ASSUME NEW m \in S, NEW n \in S, Rank(S, m) = Rank(S, n) PROVE m = n
  <2>1. ~(m < n) /\ ~(n < m)
    BY <1>1, <1>2, <1>3, RankOrders
  <2> QED
    BY <2>1
<1>4. PICK f : f = [n \in S |-> Rank(S, n)]
  OBVIOUS
<1>5. f \in Injection(S, 1..Cardinality(S))
  BY <1>1, <1>3, <1>4 DEF Injection, IsInjective
<1>6. IsFiniteSet(1..Cardinality(S)) /\ Cardinality(1..Cardinality(S)) = Cardinality(S)
  BY <1>2, FS_Interval
<1>7. f \in Surjection(S, 1..Cardinality(S))
  BY <1>5, <1>6, FS_Injection
<1>8. \A r \in 1..Cardinality(S) : \E n \in S : f[n] = r
  BY <1>7 DEF Surjection
<1> QED
  BY <1>1, <1>3, <1>4, <1>8

OnPage(S, offset) == {n \in S : Rank(S, n) \in (offset + 1)..(offset + PageSize)}

LEMMA PageCount ==
    ASSUME NEW S \in SUBSET Nat, IsFiniteSet(S), NEW offset \in Nat
    PROVE  LET size == Cardinality(OnPage(S, offset))
           IN  /\ IsFiniteSet(OnPage(S, offset)) /\ size \in Nat
               /\ size >= PageSize \/ Cardinality(S) <= offset + size
<1> DEFINE size == Cardinality(OnPage(S, offset))
<1>1. IsFiniteSet(OnPage(S, offset)) /\ size \in Nat /\ Cardinality(S) \in Nat
  BY FS_Subset, FS_CardinalityType DEF OnPage
<1>2. PageSize \in Nat
  BY DeskAssumption
<1>3. PICK last \in Nat : last = IF Cardinality(S) <= offset + PageSize THEN Cardinality(S) ELSE offset + PageSize
  BY <1>1, <1>2
<1>4. PICK T : T = (offset + 1)..last
  OBVIOUS
<1>5. PICK f : f = [n \in OnPage(S, offset) |-> Rank(S, n)]
  OBVIOUS
<1>6. ASSUME NEW n \in OnPage(S, offset) PROVE f[n] \in T
  BY <1>1, <1>2, <1>3, <1>4, <1>5, RankBijective DEF OnPage
<1>7. ASSUME NEW r \in T PROVE \E n \in OnPage(S, offset) : f[n] = r
  <2>1. r \in 1..Cardinality(S) /\ r \in (offset + 1)..(offset + PageSize)
    BY <1>1, <1>2, <1>3, <1>4
  <2>2. PICK n \in S : Rank(S, n) = r
    BY <2>1, RankBijective
  <2> QED
    BY <1>5, <2>1, <2>2 DEF OnPage
<1>8. f \in Surjection(OnPage(S, offset), T)
  BY <1>5, <1>6, <1>7 DEF Surjection
<1>9. Cardinality(T) <= size
  BY <1>1, <1>8, FS_Surjection
<1>10. Cardinality(T) = IF offset + 1 > last THEN 0 ELSE last - (offset + 1) + 1
  BY <1>4, FS_Interval
<1> HIDE DEF size
<1>11. size >= PageSize \/ Cardinality(S) <= offset + size
  BY <1>1, <1>2, <1>3, <1>9, <1>10
<1> QED
  BY <1>1, <1>11 DEF size

-----------------------------------------------------------------------------
(* Steps.                                                                  *)

\* What the server answers to a query on the whole list.
LEMMA PageAnswered ==
    ASSUME NEW query \in Queries
    PROVE  /\ IsFiniteSet(PageOf(query))
           /\ Cardinality(Matching(query)) \in Nat
           /\ Cardinality(Matching(query)) <= Count(query.archived)
           /\ query.status = "all" => Cardinality(Matching(query)) = Count(query.archived)
           /\ LET ids == {row.id : row \in PageOf(query)}
              IN  \/ Cardinality(ids) >= PageSize
                  \/ Cardinality(Matching(query)) <= query.offset + Cardinality(ids)
<1> DEFINE M == Matching(query)
<1> DEFINE P == OnPage(M, query.offset)
<1> DEFINE ids == {row.id : row \in PageOf(query)}
<1>1. M \in SUBSET Live(query.archived) /\ (query.status = "all" => M = Live(query.archived))
  BY DEF Matching, Live
<1>2. IsFiniteSet(M) /\ Cardinality(M) \in Nat /\ Cardinality(M) <= Count(query.archived)
  BY <1>1, LiveFinite, FS_Subset, FS_CardinalityType DEF Count
<1>3. M \in SUBSET Nat
  BY OrderIs DEF Matching
<1>4. query.offset \in Nat
  BY DEF Queries
<1>5. /\ IsFiniteSet(P) /\ Cardinality(P) \in Nat
      /\ Cardinality(P) >= PageSize \/ Cardinality(M) <= query.offset + Cardinality(P)
  BY <1>2, <1>3, <1>4, PageCount
<1>6. PageOf(query) = {AsRow(server, SurveyOrder[n]) : n \in P}
  BY DEF PageOf, OnPage
<1>7. IsFiniteSet(PageOf(query))
  <2>1. PICK g : g = [n \in P |-> AsRow(server, SurveyOrder[n])]
    OBVIOUS
  <2>2. DOMAIN g = P /\ {g[n] : n \in P} = PageOf(query)
    BY <1>6, <2>1
  <2> QED
    BY <1>5, <2>2, FiniteImage
<1>8. ids = {SurveyOrder[n] : n \in P}
  <2>1. \A n : AsRow(server, SurveyOrder[n]).id = SurveyOrder[n]
    BY DEF AsRow
  <2> QED
    BY <1>6, <2>1
<1>9. PICK f : f = [n \in P |-> SurveyOrder[n]]
  OBVIOUS
<1>10. f \in Injection(P, ids)
  BY <1>8, <1>9, OrderIs DEF Injection, IsInjective, OnPage, Matching
<1>11. IsFiniteSet(ids)
  BY <1>7, FiniteIds
<1>12. Cardinality(ids) \in Nat /\ Cardinality(P) <= Cardinality(ids)
  BY <1>10, <1>11, FS_Injection, FS_CardinalityType
<1> HIDE DEF M, P, ids
<1>13. Cardinality(ids) >= PageSize \/ Cardinality(M) <= query.offset + Cardinality(ids)
  BY <1>2, <1>4, <1>5, <1>12, DeskAssumption
<1> QED
  BY <1>1, <1>2, <1>7, <1>13 DEF M, ids, Count

LEMMA IdsFinite ==
    ASSUME IsFiniteSet(list.rows)
    PROVE  /\ IsFiniteSet(Ids) /\ Cardinality(Ids) \in Nat /\ Cardinality(list.rows) \in Nat
           /\ Cardinality(Ids) <= Cardinality(list.rows)
  BY FiniteIds DEF Ids

LEMMA IdsFinitePrime ==
    ASSUME IsFiniteSet(list'.rows)
    PROVE  IsFiniteSet(Ids') /\ Cardinality(Ids') \in Nat
  BY FiniteIds DEF Ids

\* A step that keeps the query and the total, and what is listed.
LEMMA SamePage ==
    ASSUME PageInv, ListLoading' <=> ListLoading, list'.query = list.query, list'.total = list.total,
           IsFiniteSet(list'.rows), Ids \subseteq Ids', unseen' \in {unseen, unseen + 1},
           unseen' = unseen => Appearing,
           \/ ~Removing'
           \/ task' = task
           \/ ~ListLoading /\ task'.total = LessOne,
           \/ dialog' = NULL \/ dialog'.kind # "delete"
           \/ dialog' = dialog /\ (task' = NULL \/ task' = task \/ task'.kind = "delete")
           \/ ~ListLoading /\ task' = NULL
    PROVE  PageInv'
<1>1. ListLoading' <=> ListLoading
  OBVIOUS
<1>2. list.total \in Nat
  BY DEF PageInv, PageShape
<1>3. LessOne \in Nat /\ (LessOne = 0 \/ LessOne < list.total)
  BY <1>2 DEF LessOne
<1>4. PageShape'
  <2>1. unseen' \in Nat /\ list'.query \in Queries /\ list'.total \in Nat
    BY DEF PageInv, PageShape
  <2>2. dialog' # NULL /\ dialog'.kind = "delete" =>
          ~ListLoading' /\ (task' # NULL => task'.kind = "delete")
    BY <1>1 DEF PageInv, PageShape
  <2>3. Removing' => task'.total \in Nat
    BY <1>3 DEF PageInv, PageShape, Removing
  <2> QED
    BY <2>1, <2>2, <2>3 DEF PageShape
<1>5. ASSUME unseen' = 0 PROVE Bounds'
  <2>1. unseen = 0 /\ Bounds /\ Appearing
    BY <1>5 DEF PageInv, PageShape
  <2>2. PICK archived : archived = list.query.archived /\ archived = list'.query.archived
    OBVIOUS
  <2>3. /\ Count(archived) \in Nat /\ Count(archived)' \in Nat
        /\ Count(archived) <= Count(archived)'
    BY <2>1, CountGrows, LiveFinite, LiveFinitePrime
  <2>4. Count(list.query.archived) = Count(archived) /\ Count(list.query.archived)' = Count(archived)'
    BY <2>2 DEF Count, Live
  <2>5. list.query.offset \in Nat
    BY DEF PageInv, PageShape, Queries
  <2>6. OffsetWithin' /\ TotalWithin'
    BY <1>1, <1>2, <2>1, <2>3, <2>4, <2>5 DEF Bounds, OffsetWithin, TotalWithin, Within
  <2>7. RemovalWithin'
    <3>1. CASE task' = task
      BY <2>1, <2>3, <2>4, <3>1 DEF Bounds, RemovalWithin, Removing, Within, PageInv, PageShape
    <3>2. CASE ~ListLoading /\ task'.total = LessOne
      BY <1>2, <1>3, <2>1, <2>3, <2>4, <3>2 DEF Bounds, TotalWithin, RemovalWithin, Within
    <3> QED
      BY <3>1, <3>2 DEF RemovalWithin
  <2>8. PageFull'
    <3>1. Cardinality(Ids) \in Nat /\ Cardinality(Ids') \in Nat /\ Cardinality(Ids) <= Cardinality(Ids')
      BY IdsFinite, IdsFinitePrime, FS_Subset DEF PageInv, PageShape
    <3> QED
      BY <1>1, <1>2, <2>1, <2>5, <3>1, DeskAssumption DEF Bounds, PageFull, Within
  <2> QED
    BY <2>6, <2>7, <2>8 DEF Bounds
<1> QED
  BY <1>4, <1>5 DEF PageInv

\* A step after which the list is asked for again.
LEMMA AskedPage ==
    ASSUME PageInv, NEW next, ListShape(next), Ask(next), next.query \in Queries, next.total \in Nat,
           IsFiniteSet(next.rows), unseen' = unseen,
           dialog' = NULL \/ dialog'.kind # "delete",
           Removing' => task' = task,
           unseen = 0 /\ next.query.status = "all" =>
               Within(next.query.offset, Count(next.query.archived)'),
           unseen = 0 /\ Removing' =>
               Appearing /\ next.query.archived = list.query.archived
    PROVE  PageInv'
<1>1. list' = [query |-> next.query, rows |-> next.rows, total |-> next.total,
               shown |-> next.shown, failed |-> FALSE]
  BY DEF Ask, ListShape
<1>2. list'.query = next.query /\ list'.rows = next.rows /\ list'.total = next.total
  BY <1>1
<1>3. PICK latest : latest = [query |-> next.query, live |-> TRUE]
  OBVIOUS
<1>4. latest \in fetches' /\ latest.live
  BY <1>3 DEF Ask, Fetch
<1>5. ListLoading'
  BY <1>4 DEF ListLoading
<1>6. PageShape'
  BY <1>2 DEF PageInv, PageShape, Removing
<1>7. ASSUME unseen' = 0 PROVE Bounds'
  <2>1. unseen = 0 /\ Bounds
    BY <1>7 DEF PageInv
  <2>2. PICK archived : archived = next.query.archived
    OBVIOUS
  <2>3. Count(list.query.archived)' = Count(archived)'
    BY <1>2, <2>2 DEF Count, Live
  <2>4. OffsetWithin'
    BY <1>2, <2>1, <2>2, <2>3 DEF OffsetWithin
  <2>5. RemovalWithin'
    <3>1. SUFFICES ASSUME Removing' PROVE Within(task'.total, Count(archived)')
      BY <2>3 DEF RemovalWithin
    <3>2. Appearing /\ archived = list.query.archived /\ task' = task /\ Removing
      BY <2>1, <2>2, <3>1 DEF Removing
    <3>3. Count(archived) \in Nat /\ Count(archived)' \in Nat /\ Count(archived) <= Count(archived)'
      BY <3>2, CountGrows, LiveFinite, LiveFinitePrime
    <3> QED
      BY <2>1, <3>2, <3>3 DEF Bounds, RemovalWithin, Within, PageInv, PageShape
  <2> QED
    BY <1>5, <2>4, <2>5 DEF Bounds, TotalWithin, PageFull
<1> QED
  BY <1>6, <1>7 DEF PageInv

LEMMA SameServer == ASSUME server' = server PROVE Appearing
  BY DEF Appearing

LEMMA SameLoading == ASSUME fetches' = fetches PROVE ListLoading' <=> ListLoading
  BY DEF ListLoading

\* The steps that leave the list and the server alone.
LEMMA NothingListed ==
    ASSUME PageInv, UNCHANGED <<server, list, fetches>>, unseen' \in {unseen, unseen + 1},
           ~Removing' \/ task' = task \/ (~ListLoading /\ task'.total = LessOne),
           \/ dialog' = NULL \/ dialog'.kind # "delete"
           \/ dialog' = dialog /\ (task' = NULL \/ task' = task \/ task'.kind = "delete")
           \/ ~ListLoading /\ task' = NULL
    PROVE  PageInv'
<1>1. Ids \subseteq Ids' /\ IsFiniteSet(list'.rows)
  BY DEF Ids, PageInv, PageShape
<1> QED
  BY <1>1, SamePage, SameServer, SameLoading

LEMMA ReplacedRows ==
    ASSUME ListShape(list), IsFiniteSet(list.rows), NEW S, NEW v, list' = [list EXCEPT !.rows = Replaced(S, v)]
    PROVE  /\ list'.query = list.query /\ list'.total = list.total
           /\ IsFiniteSet(list'.rows) /\ Ids \subseteq Ids'
<1>1. /\ list'.query = list.query /\ list'.total = list.total /\ list'.rows = Replaced(S, v)
  BY DEF ListShape
<1>2. CASE ~Listed(v)
  BY <1>1, <1>2 DEF Replaced, Ids
<1>3. CASE Listed(v)
  <2>1. PICK row : row = AsRow(S, v)
    OBVIOUS
  <2>2. list'.rows = Without(v) \cup {row} /\ row.id = v
    BY <1>1, <1>3, <2>1 DEF Replaced, AsRow
  <2>3. IsFiniteSet(Without(v))
    BY FS_Subset DEF Without
  <2>4. IsFiniteSet(list'.rows)
    BY <2>2, <2>3, FS_AddElement
  <2>5. Ids \subseteq Ids'
    BY <2>2 DEF Ids, Without
  <2> QED
    BY <1>1, <2>4, <2>5
<1> QED
  BY <1>2, <1>3

\* A step that replaces a row, or none.
LEMMA RowReplaced ==
    ASSUME PageInv, ListInv, fetches' = fetches, unseen' \in {unseen, unseen + 1},
           list' = list \/ \E S, v : list' = [list EXCEPT !.rows = Replaced(S, v)],
           unseen' = unseen => Appearing, ~Removing',
           \/ dialog' = NULL \/ dialog'.kind # "delete" \/ (dialog' = dialog /\ task' = NULL)
    PROVE  PageInv'
<1>1. ListShape(list) /\ IsFiniteSet(list.rows)
  BY DEF ListInv, PageInv, PageShape
<1>2. /\ list'.query = list.query /\ list'.total = list.total
      /\ IsFiniteSet(list'.rows) /\ Ids \subseteq Ids'
  BY <1>1, ReplacedRows DEF Ids
<1> QED
  BY <1>2, SamePage, SameLoading

-----------------------------------------------------------------------------
LEMMA QueryIs ==
    ASSUME NEW q \in Queries, NEW offset \in Nat, NEW status \in Filters, NEW archived \in BOOLEAN
    PROVE  /\ [q EXCEPT !.offset = offset] \in Queries
           /\ [q EXCEPT !.status = status, !.offset = 0] \in Queries
           /\ [q EXCEPT !.archived = archived, !.offset = 0] \in Queries
           /\ [q EXCEPT !.offset = offset].offset = offset
           /\ [q EXCEPT !.offset = offset].status = q.status
           /\ [q EXCEPT !.offset = offset].archived = q.archived
           /\ [q EXCEPT !.status = status, !.offset = 0].offset = 0
           /\ [q EXCEPT !.status = status, !.offset = 0].archived = q.archived
           /\ [q EXCEPT !.archived = archived, !.offset = 0].offset = 0
  BY DEF Queries

\* The next list with another query.
LEMMA NextQuery ==
    ASSUME ListInv, NEW query
    PROVE  LET next == [list EXCEPT !.query = query]
           IN  /\ next.query = query /\ next.total = list.total /\ next.rows = list.rows
               /\ ListShape(next)
<1>1. [list EXCEPT !.query = query] = [query |-> query, rows |-> list.rows, total |-> list.total,
                                       shown |-> list.shown, failed |-> list.failed]
  BY DEF ListInv, ListShape
<1> QED
  BY <1>1, QueryShape

LEMMA PageSetStatusFilter ==
    ASSUME PageInv, ListInv, SetStatusFilter PROVE PageInv'
<1>1. PICK status \in Filters : Ask(FilterBy(status))
  BY DEF SetStatusFilter
<1>2. PICK query : query = [list.query EXCEPT !.status = status, !.offset = 0]
  OBVIOUS
<1>3. list.query \in Queries /\ list.total \in Nat /\ IsFiniteSet(list.rows)
  BY DEF PageInv, PageShape
<1>4. query \in Queries /\ query.offset = 0 /\ query.archived = list.query.archived
  BY <1>2, <1>3, QueryIs
<1>5. PICK next : next = [list EXCEPT !.query = query]
  OBVIOUS
<1>6. FilterBy(status) = next
  BY <1>2, <1>5 DEF FilterBy, ListInv, ListShape
<1>7. next.query = query /\ next.total = list.total /\ next.rows = list.rows /\ ListShape(next)
  BY <1>5, NextQuery
<1>8. UNCHANGED <<server, task, dialog, unseen>> /\ dialog = NULL
  BY DEF SetStatusFilter, AtPage
<1> QED
  BY <1>1, <1>3, <1>4, <1>6, <1>7, <1>8, AskedPage, SameServer DEF Within

LEMMA PageSetShowArchived ==
    ASSUME PageInv, ListInv, SetShowArchived PROVE PageInv'
<1>1. list.query \in Queries /\ list.total \in Nat /\ IsFiniteSet(list.rows)
  BY DEF PageInv, PageShape
<1>2. PICK archived \in BOOLEAN : archived = ~list.query.archived
  BY <1>1 DEF Queries
<1>3. PICK query : query = [list.query EXCEPT !.archived = archived, !.offset = 0]
  OBVIOUS
<1>4. query \in Queries /\ query.offset = 0
  BY <1>1, <1>3 DEF Queries
<1>5. PICK next : next = [list EXCEPT !.query = query]
  OBVIOUS
<1>6. [list EXCEPT !.query.archived = ~@, !.query.offset = 0] = next
  BY <1>1, <1>2, <1>3, <1>5 DEF ListInv, ListShape, Queries
<1>7. next.query = query /\ next.total = list.total /\ next.rows = list.rows /\ ListShape(next)
  BY <1>5, NextQuery
<1>8. UNCHANGED <<server, task, dialog, unseen>> /\ dialog = NULL /\ task = NULL
  BY DEF SetShowArchived, AtPage, InteractionLocked
<1>9. Ask(next)
  BY <1>6 DEF SetShowArchived
<1> QED
  BY <1>1, <1>4, <1>7, <1>8, <1>9, AskedPage DEF Within, Removing

LEMMA PageSetOffset ==
    ASSUME PageInv, ListInv, SetOffset PROVE PageInv'
<1>1. list.query \in Queries /\ list.query.offset \in Nat /\ list.total \in Nat /\ IsFiniteSet(list.rows)
  BY DEF PageInv, PageShape, Queries
<1>2. PageSize \in Nat \ {0}
  BY DeskAssumption
<1>3. UNCHANGED <<server, task, dialog, unseen>> /\ dialog = NULL /\ ~ListLoading
  BY DEF SetOffset, AtPage
<1>4. PICK offset \in Nat :
         /\ Ask([list EXCEPT !.query.offset = offset])
         /\ \/ offset <= list.query.offset
            \/ /\ offset = list.query.offset + PageSize
               /\ list.query.offset + Cardinality(list.rows) < list.total
  <2>1. CASE /\ list.query.offset > 0
             /\ Ask([list EXCEPT !.query.offset = IF @ > PageSize THEN @ - PageSize ELSE 0])
    <3>1. PICK offset \in Nat : /\ offset <= list.query.offset
                                /\ offset = IF list.query.offset > PageSize
                                            THEN list.query.offset - PageSize ELSE 0
      BY <1>1, <1>2
    <3>2. [list EXCEPT !.query.offset = IF @ > PageSize THEN @ - PageSize ELSE 0]
            = [list EXCEPT !.query.offset = offset]
      BY <1>1, <3>1 DEF ListInv, ListShape, Queries
    <3> QED
      BY <2>1, <3>1, <3>2
  <2>2. CASE /\ list.query.offset + Cardinality(list.rows) < list.total
             /\ Ask([list EXCEPT !.query.offset = @ + PageSize])
    <3>1. PICK offset \in Nat : offset = list.query.offset + PageSize
      BY <1>1, <1>2
    <3>2. [list EXCEPT !.query.offset = @ + PageSize] = [list EXCEPT !.query.offset = offset]
      BY <1>1, <3>1 DEF ListInv, ListShape, Queries
    <3> QED
      BY <2>2, <3>1, <3>2
  <2> QED
    BY <2>1, <2>2 DEF SetOffset
<1>5. PICK query : query = [list.query EXCEPT !.offset = offset]
  OBVIOUS
<1>6. /\ query \in Queries /\ query.offset = offset
      /\ query.archived = list.query.archived /\ query.status = list.query.status
  BY <1>1, <1>5, QueryIs DEF Queries
<1>7. PICK next : next = [list EXCEPT !.query = query]
  OBVIOUS
<1>8. [list EXCEPT !.query.offset = offset] = next
  BY <1>5, <1>7 DEF ListInv, ListShape
<1>9. next.query = query /\ next.total = list.total /\ next.rows = list.rows /\ ListShape(next)
  BY <1>7, NextQuery
<1>10. Count(query.archived) \in Nat /\ Count(query.archived)' = Count(query.archived)
  BY <1>3, LiveFinite DEF Count, Live
<1>11. ASSUME unseen = 0, query.status = "all" PROVE Within(offset, Count(query.archived)')
  <2>1. Bounds
    BY <1>11 DEF PageInv
  <2>2. /\ Within(list.query.offset, Count(query.archived)) /\ list.total <= Count(query.archived)
        /\ Cardinality(Ids) >= PageSize \/ list.total <= list.query.offset + Cardinality(Ids)
    BY <1>3, <1>6, <1>11, <2>1 DEF Bounds, OffsetWithin, TotalWithin, PageFull
  <2>3. /\ Cardinality(Ids) \in Nat /\ Cardinality(list.rows) \in Nat
        /\ Cardinality(Ids) <= Cardinality(list.rows)
    BY <1>1, IdsFinite
  <2> QED
    BY <1>1, <1>2, <1>4, <1>10, <2>2, <2>3 DEF Within
<1> QED
  BY <1>1, <1>3, <1>4, <1>6, <1>8, <1>9, <1>11, AskedPage, SameServer

LEMMA PageListAnswer ==
    ASSUME PageInv, ListInv, NEW f, ListAnswer(f) PROVE PageInv'
<1>1. fetches' = fetches \ {f} /\ UNCHANGED <<server, task, dialog>> /\ f \in fetches
  BY DEF ListAnswer
<1>2. ~ListLoading => ~ListLoading'
  BY <1>1 DEF ListLoading
<1>3. CASE ~f.live /\ UNCHANGED <<list, unseen>>
  <2>1. ListLoading' <=> ListLoading
    BY <1>1, <1>3 DEF ListLoading
  <2>2. Ids \subseteq Ids' /\ IsFiniteSet(list'.rows)
    BY <1>3 DEF Ids, PageInv, PageShape
  <2> QED
    BY <1>1, <1>3, <2>1, <2>2, SamePage, SameServer
<1>4. CASE unseen' = unseen + 1 /\ list' = [list EXCEPT !.failed = TRUE]
  <2>1. list'.query = list.query /\ list'.rows = list.rows /\ list'.total = list.total
    BY <1>4 DEF ListInv, ListShape
  <2>2. PageShape' /\ unseen' # 0
    BY <1>1, <1>2, <1>4, <2>1 DEF PageInv, PageShape, Removing
  <2> QED
    BY <2>2 DEF PageInv
<1>5. CASE /\ f.live /\ unseen' = unseen
           /\ list' = [list EXCEPT !.rows = PageOf(f.query), !.total = Cardinality(Matching(f.query)),
                                   !.shown = f.query, !.failed = FALSE]
  <2>1. PICK query : query = f.query
    OBVIOUS
  <2>2. query = list.query /\ query \in Queries /\ ListLoading
    BY <1>1, <1>5, <2>1 DEF ListInv, PageInv, PageShape, ListLoading
  <2>3. /\ list'.query = query /\ list'.rows = PageOf(query)
        /\ list'.total = Cardinality(Matching(query))
    BY <1>5, <2>1, <2>2 DEF ListInv, ListShape
  <2>4. /\ IsFiniteSet(PageOf(query)) /\ Cardinality(Matching(query)) \in Nat
        /\ Cardinality(Matching(query)) <= Count(query.archived)
        /\ query.status = "all" => Cardinality(Matching(query)) = Count(query.archived)
    BY <2>2, PageAnswered
  <2>5. PageShape'
    BY <1>1, <1>2, <1>5, <2>2, <2>3, <2>4 DEF PageInv, PageShape, Removing
  <2>6. Count(list.query.archived)' = Count(query.archived)
    BY <1>1, <2>3 DEF Count, Live
  <2>7. ASSUME unseen' = 0 PROVE Bounds'
    <3>1. Bounds
      BY <1>5, <2>7 DEF PageInv
    <3>2. OffsetWithin' /\ TotalWithin' /\ RemovalWithin'
      BY <1>1, <2>2, <2>3, <2>4, <2>6, <3>1
         DEF Bounds, OffsetWithin, TotalWithin, RemovalWithin, Removing
    <3>3. \/ Cardinality(Ids') >= PageSize
          \/ Cardinality(Matching(query)) <= query.offset + Cardinality(Ids')
      <4>1. Ids' = {row.id : row \in PageOf(query)}
        BY <2>3 DEF Ids
      <4> QED
        BY <2>2, <4>1, PageAnswered
    <3>4. PageFull'
      BY <2>2, <2>3, <2>4, <3>1, <3>3 DEF Bounds, OffsetWithin, PageFull
    <3> QED
      BY <3>2, <3>4 DEF Bounds
  <2> QED
    BY <2>5, <2>7 DEF PageInv
<1> QED
  BY <1>3, <1>4, <1>5 DEF ListAnswer, Current, Told

LEMMA PageDialogs == ASSUME PageInv, OpenDialog \/ CloseDialog PROVE PageInv'
<1>1. UNCHANGED <<server, list, fetches, task, unseen>>
  BY DEF OpenDialog, CloseDialog
<1>2. CASE CloseDialog
  BY <1>1, <1>2, NothingListed DEF CloseDialog
<1>3. CASE OpenDialog
  <2>1. ~ListLoading /\ task = NULL
    BY <1>3 DEF OpenDialog, AtRow, InteractionLocked
  <2> QED
    BY <1>1, <2>1, NothingListed
<1> QED
  BY <1>2, <1>3

LEMMA PageBeginnings ==
    ASSUME PageInv,
           \/ HandleDelete
           \/ \E v \in Surveys : HandleRestore(v) \/ HandleEraseAll(v) \/ HandleOpenEdit(v)
           \/ \E purpose \in {"edit", "preview", "generate"} : OpenTemplate(purpose)
    PROVE  PageInv'
<1>1. UNCHANGED <<server, list, fetches, dialog, unseen>> /\ task = NULL
  BY DEF HandleDelete, HandleRestore, HandleEraseAll, HandleOpenEdit, OpenTemplate, Begin
<1>2. CASE HandleDelete
  <2>1. task' = [kind |-> "delete", survey |-> dialog.survey, total |-> LessOne]
    BY <1>2 DEF HandleDelete, Begin
  <2>2. task'.kind = "delete" /\ task'.total = LessOne
    BY <2>1
  <2>3. ~ListLoading
    BY <1>2 DEF HandleDelete, PageInv, PageShape
  <2> QED
    BY <1>1, <2>2, <2>3, NothingListed
<1>3. ASSUME NEW v \in Surveys, HandleRestore(v) PROVE PageInv'
  <2>1. task' = [kind |-> "restore", survey |-> v, total |-> LessOne]
    BY <1>3 DEF HandleRestore, Begin
  <2>2. task'.total = LessOne
    BY <2>1
  <2>3. ~ListLoading /\ dialog = NULL
    BY <1>3 DEF HandleRestore, AtRow, AtPage
  <2> QED
    BY <1>1, <2>2, <2>3, NothingListed
<1>4. ASSUME NEW v \in Surveys, HandleEraseAll(v) PROVE PageInv'
  <2>1. task' = [kind |-> "erase", survey |-> v, expected |-> Row(v).responses]
    BY <1>4 DEF HandleEraseAll, Begin
  <2>2. ~Removing'
    BY <2>1 DEF Removing
  <2>3. dialog = NULL
    BY <1>4 DEF HandleEraseAll, AtRow, AtPage
  <2> QED
    BY <1>1, <2>2, <2>3, NothingListed
<1>5. ASSUME NEW v \in Surveys, HandleOpenEdit(v) PROVE PageInv'
  <2>1. task' = [kind |-> "edit", survey |-> v]
    BY <1>5 DEF HandleOpenEdit, Begin
  <2>2. ~Removing'
    BY <2>1 DEF Removing
  <2>3. dialog = NULL
    BY <1>5 DEF HandleOpenEdit, AtRow, AtPage
  <2> QED
    BY <1>1, <2>2, <2>3, NothingListed
<1>6. ASSUME NEW purpose \in {"edit", "preview", "generate"}, OpenTemplate(purpose) PROVE PageInv'
  <2>1. task' = [kind |-> "template", step |-> "find", survey |-> Template, purpose |-> purpose]
    BY <1>6 DEF OpenTemplate, Begin
  <2>2. ~Removing'
    BY <2>1 DEF Removing
  <2>3. dialog = NULL \/ dialog.kind # "delete"
    BY <1>6 DEF OpenTemplate, AtPage
  <2> QED
    BY <1>1, <2>2, <2>3, NothingListed
<1> QED
  BY <1>2, <1>3, <1>4, <1>5, <1>6

-----------------------------------------------------------------------------
(* Archiving and restoring.                                                *)

\* The list after a survey is gone from it: its offset is as before, or a
\* page less.
LEMMA CountChangePage ==
    ASSUME ListInv, PageInv, NEW rows, NEW total \in Nat
    PROVE  LET next == AfterCountChange([list EXCEPT !.rows = rows], total)
           IN  /\ ListShape(next) /\ next.query \in Queries /\ next.total = total /\ next.rows = rows
               /\ next.query.archived = list.query.archived /\ next.query.status = list.query.status
               /\ \A was, count \in Nat :
                     /\ Within(list.query.offset, was) /\ was - 1 <= count /\ total <= count
                     => Within(next.query.offset, count)
<1>1. list.query \in Queries /\ list.query.offset \in Nat
  BY DEF PageInv, PageShape, Queries
<1>2. PageSize \in Nat \ {0}
  BY DeskAssumption
<1>3. PICK offset \in Nat : offset = IF list.query.offset > 0 /\ list.query.offset >= total
                                     THEN (IF list.query.offset > PageSize THEN list.query.offset - PageSize ELSE 0)
                                     ELSE list.query.offset
  BY <1>1, <1>2
<1>4. PICK query : query = [list.query EXCEPT !.offset = offset]
  OBVIOUS
<1>5. /\ query \in Queries /\ query.offset = offset
      /\ query.archived = list.query.archived /\ query.status = list.query.status
  BY <1>1, <1>4 DEF Queries
<1>6. PICK shorter : shorter = [list EXCEPT !.rows = rows]
  OBVIOUS
<1>7. shorter = [query |-> list.query, rows |-> rows, total |-> list.total,
                 shown |-> list.shown, failed |-> list.failed]
  BY <1>6 DEF ListInv, ListShape
<1>8. PICK next : next = [query |-> query, rows |-> rows, total |-> total,
                          shown |-> list.shown, failed |-> list.failed]
  OBVIOUS
<1>9. shorter.query.offset = list.query.offset
  BY <1>7
<1>10. AfterCountChange(shorter, total) = [shorter EXCEPT !.total = total, !.query.offset = offset]
  BY <1>3, <1>7, <1>9 DEF AfterCountChange
<1>11. AfterCountChange(shorter, total) = next
  BY <1>4, <1>7, <1>8, <1>10
<1>12. ListShape(next) /\ next.query = query /\ next.total = total /\ next.rows = rows
  BY <1>8 DEF ListShape
<1>13. ASSUME NEW was \in Nat, NEW count \in Nat,
              Within(list.query.offset, was), was - 1 <= count, total <= count
       PROVE  Within(offset, count)
  BY <1>1, <1>2, <1>3, <1>13 DEF Within
<1> QED
  BY <1>5, <1>6, <1>11, <1>12, <1>13

LEMMA WithoutFinite ==
    ASSUME PageInv, NEW S, NEW v
    PROVE  IsFiniteSet(Without(v)) /\ IsFiniteSet(Replaced(S, v))
<1>1. IsFiniteSet(list.rows)
  BY DEF PageInv, PageShape
<1>2. Without(v) \in SUBSET list.rows
  BY DEF Without
<1>3. IsFiniteSet(Without(v))
  BY <1>1, <1>2, FS_Subset
<1> QED
  BY <1>1, <1>3, FS_AddElement DEF Replaced

\* An answer that settled nothing.
LEMMA UnsettledPage ==
    ASSUME PageInv, UNCHANGED <<list, fetches>>, task' = NULL,
           (server' = server /\ unseen' = unseen) \/ unseen' = unseen + 1,
           dialog' \in {dialog, NULL}
    PROVE  PageInv'
<1>1. Ids \subseteq Ids' /\ IsFiniteSet(list'.rows)
  BY DEF Ids, PageInv, PageShape
<1>2. unseen' # unseen + 1 => Appearing
  BY SameServer
<1>3. unseen + 1 # unseen
  BY DEF PageInv, PageShape
<1> QED
  BY <1>1, <1>2, <1>3, SamePage, SameLoading DEF Removing

LEMMA PageDeleteAnswer ==
    ASSUME DeskInv, PageInv, NEW outcome \in Outcomes, DeleteAnswer(outcome) PROVE PageInv'
<1>1. PICK v : v = task.survey
  OBVIOUS
<1>2. PICK done : done = Renewed([server EXCEPT ![v].is_deleted = TRUE], v)
  OBVIOUS
<1>3. PICK next : next = AfterCountChange([list EXCEPT !.rows = Without(v)], task.total)
  OBVIOUS
<1>4. Settle(~server[v].is_deleted, done, next, outcome) /\ task # NULL /\ task.kind = "delete" /\ dialog' = NULL
  BY <1>1, <1>2, <1>3 DEF DeleteAnswer
<1>5. v \in Surveys /\ ListInv /\ server \in [AllSurveys -> Records]
  BY <1>1, <1>4 DEF DeskInv, DeskRest, TaskInv, TaskOK, ServerInv
<1>6. CASE outcome # "ok"
  <2>1. /\ UNCHANGED <<list, fetches>> /\ task' = NULL
        /\ (server' = server /\ unseen' = unseen) \/ unseen' = unseen + 1
    BY <1>4, <1>6 DEF Settle, Told, Outcomes
  <2> QED
    BY <1>4, <2>1, UnsettledPage
<1>7. CASE outcome = "ok"
  <2>1. Ask(next) /\ task' = NULL /\ unseen' = unseen /\ server' = done
    BY <1>4, <1>7 DEF Settle, Told
  <2>2. task.total \in Nat
    BY <1>4 DEF PageInv, PageShape, Removing
  <2>3. \A w \in Surveys \ {v} : server'[w] = server[w]
    BY <1>2, <1>5, <2>1 DEF Renewed, AllSurveys
  <2>4. PICK archived : archived = list.query.archived
    OBVIOUS
  <2>5. /\ Count(archived) \in Nat /\ Count(archived)' \in Nat
        /\ Count(archived) - 1 <= Count(archived)'
    BY <1>5, <2>3, CountShrinks, LiveFinite, LiveFinitePrime
  <2>6. IsFiniteSet(Without(v))
    BY WithoutFinite
  <2>7. /\ ListShape(next) /\ next.query \in Queries /\ next.total = task.total
        /\ next.rows = Without(v)
        /\ next.query.archived = archived /\ next.query.status = list.query.status
        /\ \A was, count \in Nat :
              /\ Within(list.query.offset, was) /\ was - 1 <= count /\ task.total <= count
              => Within(next.query.offset, count)
    BY <1>3, <1>5, <2>2, <2>4, CountChangePage
  <2>8. ASSUME unseen = 0, next.query.status = "all"
        PROVE  Within(next.query.offset, Count(next.query.archived)')
    <3>1. Bounds
      BY <2>8 DEF PageInv
    <3>2. Within(task.total, Count(archived)) /\ Within(list.query.offset, Count(archived))
      BY <1>4, <2>4, <2>7, <2>8, <3>1 DEF Bounds, OffsetWithin, RemovalWithin, Removing
    <3>3. task.total <= Count(archived)'
      BY <2>2, <2>5, <3>2 DEF Within
    <3> QED
      BY <2>5, <2>7, <3>2, <3>3
  <2> QED
    BY <1>4, <2>1, <2>2, <2>6, <2>7, <2>8, AskedPage DEF Removing
<1> QED
  BY <1>6, <1>7

LEMMA PageRestoreAnswer ==
    ASSUME DeskInv, PageInv, NEW outcome \in Outcomes, RestoreAnswer(outcome) PROVE PageInv'
<1>1. PICK v : v = task.survey
  OBVIOUS
<1>2. PICK done : done = Renewed([server EXCEPT ![v].is_deleted = FALSE, ![v].status = "Inactive"], v)
  OBVIOUS
<1>3. PICK next :
         /\ next = IF list.query.archived
                   THEN AfterCountChange([list EXCEPT !.rows = Without(v)], task.total)
                   ELSE [list EXCEPT !.rows = Replaced(done, v)]
         /\ Settle(server[v].is_deleted, done, next, outcome)
  <2>1. PICK n : n = IF list.query.archived
                     THEN AfterCountChange([list EXCEPT !.rows = Without(v)], task.total)
                     ELSE [list EXCEPT !.rows = Replaced(done, v)]
    OBVIOUS
  <2>2. Settle(server[v].is_deleted, done, n, outcome)
    BY <1>1, <1>2, <2>1 DEF RestoreAnswer
  <2> QED
    BY <2>1, <2>2
<1>4. task # NULL /\ task.kind = "restore" /\ dialog' = dialog
  BY DEF RestoreAnswer
<1>5. v \in Surveys /\ ListInv /\ server \in [AllSurveys -> Records]
  BY <1>1, <1>4 DEF DeskInv, DeskRest, TaskInv, TaskOK, ServerInv
<1>6. CASE outcome # "ok"
  <2>1. /\ UNCHANGED <<list, fetches>> /\ task' = NULL
        /\ (server' = server /\ unseen' = unseen) \/ unseen' = unseen + 1
    BY <1>3, <1>6 DEF Settle, Told, Outcomes
  <2> QED
    BY <1>4, <2>1, UnsettledPage
<1>7. CASE outcome = "ok"
  <2>1. Ask(next) /\ task' = NULL /\ unseen' = unseen /\ server' = done
    BY <1>3, <1>7 DEF Settle, Told
  <2>2. task.total \in Nat /\ list.total \in Nat /\ list.query \in Queries
    BY <1>4 DEF PageInv, PageShape, Removing
  <2>3. dialog = NULL \/ dialog.kind # "delete"
    BY <1>4 DEF PageInv, PageShape
  <2>4. \A w \in Surveys : server'[w].exists = server[w].exists
                           /\ (server'[w].is_deleted = server[w].is_deleted \/ ~server'[w].is_deleted)
    <3>1. server[v] \in Records /\ v \in AllSurveys
      BY <1>5 DEF AllSurveys
    <3>2. server'[v] = [server[v] EXCEPT !.is_deleted = FALSE, !.status = "Inactive",
                                           !.version = @ + 1]
      BY <1>2, <1>5, <2>1, <3>1 DEF Renewed
    <3>3. server'[v].exists = server[v].exists /\ ~server'[v].is_deleted
      BY <3>1, <3>2 DEF Records
    <3>4. \A w \in Surveys \ {v} : server'[w] = server[w]
      BY <1>2, <1>5, <2>1 DEF Renewed, AllSurveys
    <3> QED
      BY <3>3, <3>4
  <2>5. Appearing
    BY <2>4 DEF Appearing
  <2>6. PICK archived : archived = list.query.archived
    OBVIOUS
  <2>7. /\ Count(archived) \in Nat /\ Count(archived)' \in Nat
        /\ Count(archived) <= Count(archived)'
    BY <2>5, CountGrows, LiveFinite, LiveFinitePrime
  <2>8. IsFiniteSet(Without(v)) /\ IsFiniteSet(Replaced(done, v))
    BY WithoutFinite
  <2>9. /\ ListShape(next) /\ next.query \in Queries /\ next.total \in Nat /\ IsFiniteSet(next.rows)
        /\ next.query.archived = archived /\ next.query.status = list.query.status
        /\ \/ next.query = list.query
           \/ \A was, count \in Nat :
              /\ Within(list.query.offset, was) /\ was - 1 <= count /\ task.total <= count
              => Within(next.query.offset, count)
    <3>1. CASE list.query.archived
      <4>1. next = AfterCountChange([list EXCEPT !.rows = Without(v)], task.total)
        BY <1>3, <3>1
      <4>2. /\ ListShape(next) /\ next.query \in Queries /\ next.total = task.total
            /\ next.rows = Without(v)
            /\ next.query.archived = archived /\ next.query.status = list.query.status
            /\ \A was, count \in Nat :
                  /\ Within(list.query.offset, was) /\ was - 1 <= count /\ task.total <= count
                  => Within(next.query.offset, count)
        BY <1>5, <2>2, <2>6, <4>1, CountChangePage
      <4> QED
        BY <2>2, <2>8, <4>2
    <3>2. CASE ~list.query.archived
      <4>1. next = [query |-> list.query, rows |-> Replaced(done, v), total |-> list.total,
                    shown |-> list.shown, failed |-> list.failed]
        BY <1>3, <1>5, <3>2 DEF ListInv, ListShape
      <4> QED
        BY <2>2, <2>6, <2>8, <4>1 DEF ListShape
    <3> QED
      BY <3>1, <3>2
  <2>10. ASSUME unseen = 0, next.query.status = "all"
         PROVE  Within(next.query.offset, Count(next.query.archived)')
    <3>1. Bounds /\ list.query.offset \in Nat
      BY <2>2, <2>10 DEF PageInv, Queries
    <3>2. Within(task.total, Count(archived)) /\ Within(list.query.offset, Count(archived))
      BY <1>4, <2>6, <2>9, <2>10, <3>1 DEF Bounds, OffsetWithin, RemovalWithin, Removing
    <3>3. task.total <= Count(archived)' /\ Within(list.query.offset, Count(archived)')
      BY <2>2, <2>7, <3>1, <3>2 DEF Within
    <3>4. Count(archived) - 1 <= Count(archived)'
      BY <2>7
    <3> QED
      BY <2>7, <2>9, <3>2, <3>3, <3>4
  <2> QED
    BY <1>4, <2>1, <2>2, <2>3, <2>9, <2>10, AskedPage DEF Removing
<1> QED
  BY <1>6, <1>7

LEMMA PageEraseAnswer ==
    ASSUME DeskInv, PageInv, NEW outcome \in Outcomes, EraseAnswer(outcome) PROVE PageInv'
<1>1. PICK v : v = task.survey
  OBVIOUS
<1>2. PICK done : done = [server EXCEPT ![v].responses = 0]
  OBVIOUS
<1>3. PICK next, possible : /\ next = [list EXCEPT !.rows = Replaced(done, v)]
                            /\ Settle(possible, done, next, outcome)
  BY <1>1, <1>2 DEF EraseAnswer
<1>4. task # NULL /\ task.kind = "erase" /\ dialog' = dialog
  BY DEF EraseAnswer
<1>5. v \in Surveys /\ ListInv /\ server \in [AllSurveys -> Records]
  BY <1>1, <1>4 DEF DeskInv, DeskRest, TaskInv, TaskOK, ServerInv
<1>6. CASE outcome # "ok"
  <2>1. /\ UNCHANGED <<list, fetches>> /\ task' = NULL
        /\ (server' = server /\ unseen' = unseen) \/ unseen' = unseen + 1
    BY <1>3, <1>6 DEF Settle, Told, Outcomes
  <2> QED
    BY <1>4, <2>1, UnsettledPage
<1>7. CASE outcome = "ok"
  <2>1. Ask(next) /\ task' = NULL /\ unseen' = unseen /\ server' = done
    BY <1>3, <1>7 DEF Settle, Told
  <2>2. dialog = NULL \/ dialog.kind # "delete"
    BY <1>4 DEF PageInv, PageShape
  <2>3. \A w \in Surveys : server'[w].exists = server[w].exists
                           /\ server'[w].is_deleted = server[w].is_deleted
    <3>1. server[v] \in Records /\ v \in AllSurveys
      BY <1>5 DEF AllSurveys
    <3>2. server'[v] = [server[v] EXCEPT !.responses = 0]
      BY <1>2, <1>5, <2>1, <3>1
    <3>3. server'[v].exists = server[v].exists /\ server'[v].is_deleted = server[v].is_deleted
      BY <3>1, <3>2 DEF Records
    <3>4. \A w \in Surveys \ {v} : server'[w] = server[w]
      BY <1>2, <1>5, <2>1 DEF AllSurveys
    <3> QED
      BY <3>3, <3>4
  <2>4. PICK archived : archived = list.query.archived
    OBVIOUS
  <2>5. Count(archived)' = Count(archived)
    BY <2>3, OrderIs DEF Count, Live
  <2>6. next = [query |-> list.query, rows |-> Replaced(done, v), total |-> list.total,
                shown |-> list.shown, failed |-> list.failed]
    BY <1>3, <1>5 DEF ListInv, ListShape
  <2>7. /\ ListShape(next) /\ next.query = list.query /\ next.total = list.total
        /\ IsFiniteSet(next.rows) /\ next.query \in Queries /\ next.total \in Nat
    BY <2>6, WithoutFinite DEF ListShape, PageInv, PageShape
  <2>8. ASSUME unseen = 0, next.query.status = "all"
        PROVE  Within(next.query.offset, Count(next.query.archived)')
    BY <2>4, <2>5, <2>7, <2>8 DEF PageInv, Bounds, OffsetWithin
  <2> QED
    BY <1>4, <2>1, <2>2, <2>7, <2>8, AskedPage DEF Removing
<1> QED
  BY <1>6, <1>7

\* The template is in no list.
LEMMA PageTemplate ==
    ASSUME DeskInv, PageInv,
           TemplateFound \/ TemplateReady \/ \E outcome \in Outcomes : TemplateStored(outcome)
    PROVE  PageInv'
<1>1. PICK step : AtTemplate(step)
  BY DEF TemplateFound, TemplateReady, TemplateStored
<1>2. task # NULL /\ task.kind = "template" /\ (dialog = NULL \/ dialog.kind # "delete")
  BY <1>1 DEF AtTemplate, PageInv, PageShape
<1>3. PICK next : task' = NULL \/ Step(next)
  <2>1. CASE TemplateFound
    BY <2>1 DEF TemplateFound
  <2>2. CASE TemplateReady
    BY <2>2 DEF TemplateReady
  <2>3. CASE \E outcome \in Outcomes : TemplateStored(outcome)
    BY <2>3 DEF TemplateStored
  <2> QED
    BY <2>1, <2>2, <2>3
<1>4. ~Saving' /\ TaskOK(task', dialog) /\ \A any : AtTemplate(any)' => any = next
  BY <1>1, <1>3, StepTaken
<1>5. ~Removing'
  <2>1. CASE task' = NULL
    BY <2>1 DEF Removing
  <2>2. CASE Step(next)
    <3>1. task' = [kind |-> "template", step |-> next, survey |-> Template, purpose |-> task.purpose]
      BY <1>1, <2>2, TemplateTask DEF Step
    <3> QED
      BY <3>1 DEF Removing
  <2> QED
    BY <1>3, <2>1, <2>2
<1>6. UNCHANGED <<list, fetches>> /\ (dialog' = NULL \/ dialog'.kind # "delete")
  <2>1. CASE TemplateFound
    BY <1>2, <2>1 DEF TemplateFound
  <2>2. CASE TemplateReady
    <3>1. dialog' = dialog \/ dialog' = [kind |-> "preview", survey |-> Template]
      BY <2>2 DEF TemplateReady
    <3> QED
      BY <1>2, <2>2, <3>1 DEF TemplateReady
  <2>3. CASE \E outcome \in Outcomes : TemplateStored(outcome)
    BY <1>2, <2>3 DEF TemplateStored
  <2> QED
    BY <2>1, <2>2, <2>3
<1>7. unseen' \in {unseen, unseen + 1} /\ \A w \in Surveys : server'[w] = server[w]
  <2>1. CASE TemplateFound \/ TemplateReady
    BY <2>1 DEF TemplateFound, TemplateReady
  <2>2. CASE \E outcome \in Outcomes : TemplateStored(outcome)
    <3>1. PICK outcome \in Outcomes : TemplateStored(outcome)
      BY <2>2
    <3>2. PICK done : \/ server' = server
                      \/ server' = Renewed([server EXCEPT ![Template] = done], Template)
      BY <3>1 DEF TemplateStored
    <3>3. server \in [AllSurveys -> Records]
      BY DEF DeskInv, DeskRest, ServerInv
    <3>4. \A w \in Surveys : server'[w] = server[w]
      BY <3>2, <3>3, TemplateApart DEF Renewed, AllSurveys
    <3>5. unseen' \in {unseen, unseen + 1}
      BY <3>1 DEF TemplateStored, Told
    <3> QED
      BY <3>4, <3>5
  <2> QED
    BY <2>1, <2>2
<1>8. Appearing
  BY <1>7 DEF Appearing
<1>9. Ids \subseteq Ids' /\ IsFiniteSet(list'.rows)
  BY <1>6 DEF Ids, PageInv, PageShape
<1> QED
  BY <1>5, <1>6, <1>7, <1>8, <1>9, SamePage, SameLoading

LEMMA PageGenerateAnswer ==
    ASSUME DeskInv, PageInv, NEW outcome \in Outcomes, GenerateAnswer(outcome) PROVE PageInv'
<1>1. task # NULL /\ task.kind = "template" /\ (dialog = NULL \/ dialog.kind # "delete")
  BY DEF GenerateAnswer, AtTemplate, PageInv, PageShape
<1>2. /\ fetches' = fetches /\ task' = NULL /\ unseen' \in {unseen, unseen + 1}
      /\ dialog' = NULL \/ dialog'.kind # "delete"
  BY <1>1 DEF GenerateAnswer, Told
<1>3. PICK v, r, row :
         /\ v \in Surveys /\ ~server[v].exists
         /\ server' = server \/ server' = [server EXCEPT ![v] = r]
         /\ list' = list \/ list' = [list EXCEPT !.rows = @ \cup {row}]
  BY DEF GenerateAnswer
<1>4. server \in [AllSurveys -> Records]
  BY DEF DeskInv, DeskRest, ServerInv
<1>5. Appearing
  BY <1>3, <1>4 DEF Appearing, AllSurveys
<1>6. ListShape(list) /\ IsFiniteSet(list.rows)
  BY DEF DeskInv, ListInv, PageInv, PageShape
<1>7. /\ list'.query = list.query /\ list'.total = list.total
      /\ list'.rows = list.rows \/ list'.rows = list.rows \cup {row}
  BY <1>3, <1>6 DEF ListShape
<1>8. IsFiniteSet(list'.rows) /\ Ids \subseteq Ids'
  BY <1>6, <1>7, FS_AddElement DEF Ids
<1> QED
  BY <1>2, <1>5, <1>7, <1>8, SamePage, SameLoading DEF Removing

-----------------------------------------------------------------------------
(* A session of the editor.                                                *)

LEMMA PageRowAnswers ==
    ASSUME DeskInv, PageInv, NEW outcome,
           EditAnswer(outcome) \/ ReloadAnswer(outcome) \/ ConflictAnswer(outcome)
    PROVE  PageInv'
<1>1. UNCHANGED <<server, fetches, dialog, unseen>> /\ task' = NULL
  BY DEF EditAnswer, ReloadAnswer, ConflictAnswer
<1>2. list' = list \/ \E S, v : list' = [list EXCEPT !.rows = Replaced(S, v)]
  BY DEF EditAnswer, ReloadAnswer, ConflictAnswer
<1> QED
  BY <1>1, <1>2, RowReplaced, SameServer DEF DeskInv, Removing

LEMMA PagePutAnswer ==
    ASSUME DeskInv, PageInv, NEW outcome \in Outcomes, PutAnswer(outcome) PROVE PageInv'
<1>1. PICK v : v = editor.survey
  OBVIOUS
<1>2. PICK done : done = Renewed([server EXCEPT ![v].structure = editor.form.structure], v)
  OBVIOUS
<1>3. AtSave("put") /\ UNCHANGED <<fetches, dialog>> /\ unseen' \in {unseen, unseen + 1}
  BY DEF PutAnswer, Told
<1>4. /\ dialog = NULL /\ v \in AllSurveys /\ server \in [AllSurveys -> Records]
      /\ task = [kind |-> "save", survey |-> task.survey, step |-> "put"]
  BY <1>1, <1>3, SaveTask DEF DeskInv, DeskRest, ServerInv
<1>5. PICK step : task' = NULL \/ Step(step)
  BY DEF PutAnswer, SaveFailed
<1>6. ~Removing'
  <2>1. task' = NULL \/ task' = [kind |-> "save", survey |-> task.survey, step |-> step]
    BY <1>4, <1>5 DEF Step
  <2> QED
    BY <2>1 DEF Removing
<1>7. Appearing
  <2>1. server' = server \/ server' = done
    BY <1>1, <1>2 DEF PutAnswer
  <2>2. server[v] \in Records
    BY <1>4
  <2>3. CASE server' = done
    <3>1. server'[v] = [server[v] EXCEPT !.structure = editor.form.structure, !.version = @ + 1]
      BY <1>2, <1>4, <2>2, <2>3 DEF Renewed
    <3>2. server'[v].exists = server[v].exists /\ server'[v].is_deleted = server[v].is_deleted
      BY <2>2, <3>1 DEF Records
    <3>3. \A w \in Surveys \ {v} : server'[w] = server[w]
      BY <1>2, <1>4, <2>3 DEF Renewed, AllSurveys
    <3> QED
      BY <3>2, <3>3 DEF Appearing
  <2> QED
    BY <2>1, <2>3, SameServer
<1>8. list' = list \/ \E S, w : list' = [list EXCEPT !.rows = Replaced(S, w)]
  BY DEF PutAnswer, SaveFailed
<1> QED
  BY <1>3, <1>4, <1>6, <1>7, <1>8, RowReplaced DEF DeskInv

LEMMA PagePatchAnswer ==
    ASSUME DeskInv, PageInv, NEW outcome \in Outcomes, PatchAnswer(outcome) PROVE PageInv'
<1>1. PICK v : v = editor.survey
  OBVIOUS
<1>2. AtSave("patch") /\ UNCHANGED <<list, fetches, dialog>> /\ unseen' \in {unseen, unseen + 1}
  BY DEF PatchAnswer, Told, SaveFailed
<1>3. /\ dialog = NULL /\ v \in AllSurveys /\ server \in [AllSurveys -> Records]
      /\ task = [kind |-> "save", survey |-> task.survey, step |-> "patch"]
  BY <1>1, <1>2, SaveTask DEF DeskInv, DeskRest, ServerInv
<1>4. PICK step : task' = NULL \/ Step(step)
  BY DEF PatchAnswer, SaveFailed
<1>5. ~Removing'
  <2>1. task' = NULL \/ task' = [kind |-> "save", survey |-> task.survey, step |-> step]
    BY <1>3, <1>4 DEF Step
  <2> QED
    BY <2>1 DEF Removing
<1>6. Appearing
  <2>1. server' = server \/ server' = Patched(v)
    BY <1>1 DEF PatchAnswer
  <2>2. CASE server' = Patched(v)
    <3>1. \A w \in AllSurveys : server'[w].exists = server[w].exists
                              /\ server'[w].is_deleted = server[w].is_deleted
      BY <1>1, <1>2, <2>2, PatchStores
    <3> QED
      BY <3>1 DEF Appearing, AllSurveys
  <2> QED
    BY <2>1, <2>2, SameServer
<1> QED
  BY <1>2, <1>3, <1>5, <1>6, RowReplaced DEF DeskInv

LEMMA PageEditing ==
    ASSUME DeskInv, PageInv, EditField \/ HandleCloseModal \/ HandleSaveSurvey PROVE PageInv'
<1>1. UNCHANGED <<server, list, fetches, dialog, unseen>> /\ editor # NULL
  BY DEF EditField, HandleCloseModal, HandleSaveSurvey
<1>2. dialog = NULL
  BY <1>1 DEF DeskInv, DeskRest, SessionInv, Holding
<1>3. \/ task' = task
      \/ \E survey, step : task' = [kind |-> "save", survey |-> survey, step |-> step]
  BY DEF EditField, HandleCloseModal, HandleSaveSurvey, Begin
<1>4. task' = task \/ ~Removing'
  BY <1>3 DEF Removing
<1> QED
  BY <1>1, <1>2, <1>4, NothingListed

LEMMA PageElsewhere == ASSUME PageInv, Elsewhere PROVE PageInv'
<1>1. UNCHANGED <<list, fetches, task, dialog>> /\ unseen' = unseen + 1
  BY DEF Elsewhere
<1>2. Ids \subseteq Ids' /\ IsFiniteSet(list'.rows) /\ unseen + 1 # unseen
  BY <1>1 DEF Ids, PageInv, PageShape
<1> QED
  BY <1>1, <1>2, SamePage, SameLoading

-----------------------------------------------------------------------------
LEMMA InitPageInv == ASSUME DeskInit PROVE PageInv
<1>1. list = [query |-> FirstQuery, rows |-> {}, total |-> 0, shown |-> NULL, failed |-> FALSE]
  BY DEF DeskInit
<1>2. ListLoading /\ task = NULL /\ dialog = NULL /\ unseen = 0
  <2>1. PICK first : first = [query |-> FirstQuery, live |-> TRUE]
    OBVIOUS
  <2>2. fetches = {first} /\ first.live
    BY <2>1 DEF DeskInit
  <2> QED
    BY <2>2 DEF DeskInit, ListLoading
<1>3. PageShape
  BY <1>1, <1>2, DeskAssumption, FS_EmptySet DEF PageShape, Queries, FirstQuery, Removing
<1>4. list.query.offset = 0
  BY <1>1 DEF FirstQuery
<1>5. Bounds
  BY <1>2, <1>4 DEF Bounds, OffsetWithin, TotalWithin, RemovalWithin, Removing, PageFull, Within
<1> QED
  BY <1>3, <1>5 DEF PageInv

LEMMA StepPageInv == ASSUME DeskInv, PageInv, [DeskNext]_deskVars PROVE PageInv'
<1>1. CASE UNCHANGED deskVars
  BY <1>1, NothingListed DEF deskVars
<1>2. CASE SetStatusFilter \/ SetShowArchived \/ SetOffset \/ (\E f \in fetches : ListAnswer(f))
  BY <1>2, PageSetStatusFilter, PageSetShowArchived, PageSetOffset, PageListAnswer DEF DeskInv
<1>3. CASE OpenDialog \/ CloseDialog
  BY <1>3, PageDialogs
<1>4. CASE \/ HandleDelete
           \/ \E v \in Surveys : HandleRestore(v) \/ HandleEraseAll(v) \/ HandleOpenEdit(v)
           \/ \E purpose \in {"edit", "preview", "generate"} : OpenTemplate(purpose)
  BY <1>4, PageBeginnings
<1>5. CASE TemplateFound \/ TemplateReady
  BY <1>5, PageTemplate
<1>6. ASSUME NEW outcome \in Outcomes,
             \/ DeleteAnswer(outcome) \/ RestoreAnswer(outcome) \/ EraseAnswer(outcome)
             \/ TemplateStored(outcome) \/ GenerateAnswer(outcome)
             \/ EditAnswer(outcome) \/ PutAnswer(outcome) \/ PatchAnswer(outcome)
             \/ ReloadAnswer(outcome) \/ ConflictAnswer(outcome)
      PROVE  PageInv'
  BY <1>6, PageDeleteAnswer, PageRestoreAnswer, PageEraseAnswer, PageTemplate, PageGenerateAnswer,
     PageRowAnswers, PagePutAnswer, PagePatchAnswer
<1>7. CASE EditField \/ HandleCloseModal \/ HandleSaveSurvey
  BY <1>7, PageEditing
<1>8. CASE Elsewhere
  BY <1>8, PageElsewhere
<1> QED
  BY <1>1, <1>2, <1>3, <1>4, <1>5, <1>6, <1>7, <1>8 DEF DeskNext

\* As long as this page missed no change, a page of the unfiltered list is
\* empty only if the list is: archiving and restoring go back a page when they
\* empty the last one (refreshListAfterCountChange).
THEOREM PagesAreNotEmpty == DeskSpec => []PageNotEmpty
<1>1. PageInv => PageNotEmpty
  <2> SUFFICES ASSUME PageInv, unseen = 0, list.query.status = "all", ~ListLoading, list.total > 0,
                      list.rows = {}
               PROVE  FALSE
    BY DEF PageNotEmpty
  <2>1. /\ Within(list.query.offset, list.total)
        /\ Cardinality(Ids) >= PageSize \/ list.total <= list.query.offset + Cardinality(Ids)
    BY DEF PageInv, Bounds, PageFull
  <2>2. Cardinality(Ids) = 0
    BY FS_EmptySet DEF Ids
  <2>3. list.total \in Nat /\ list.query.offset \in Nat /\ PageSize \in Nat \ {0}
    BY DeskAssumption DEF PageInv, PageShape, Queries
  <2> QED
    BY <2>1, <2>2, <2>3 DEF Within
<1>2. DeskInit => PageInv
  BY InitPageInv
<1>3. DeskInv /\ PageInv /\ [DeskNext]_deskVars => PageInv'
  BY StepPageInv
<1> QED
  BY <1>1, <1>2, <1>3, DeskInvariant, PTL DEF DeskSpec

=============================================================================
