------------------------------ MODULE AdminPages ------------------------------
(***************************************************************************)
(* The administration pages: users (AdminUserManagement), roles            *)
(* (AdminRoleManagement) and audit logs (AdminAuditLogs).  Each shows one  *)
(* page of a list that the server answers for the filters and the offset   *)
(* of a request; answers come in any order.  The users and audit pages     *)
(* number their requests and drop all but the newest; the roles page does  *)
(* not.  A change is sent from a dialog and, once accepted, lists again.   *)
(***************************************************************************)
EXTENDS Naturals, FiniteSets

CONSTANTS
    Searches,    \* the filters a list may be narrowed with
    LastOffset,  \* bound: pages a list has
    Rows,        \* audit entries whose details can be opened
    MaxRequests, \* bound: list and detail requests
    MaxChanges   \* bound: changes sent from the page

Nothing == "nothing"
NoSearch == ""

ASSUME PagesAssumption ==
    /\ LastOffset \in Nat /\ MaxRequests \in Nat /\ MaxChanges \in Nat
    /\ NoSearch \in Searches

VARIABLES
    page,      \* "users", "roles" or "audit"
    view,      \* the filters and the offset in the controls
    timer,     \* a list request is due (250 ms after the last keystroke)
    newest,    \* number of the newest list request, and what it asked for
    asked,     \* list requests not answered yet
    shown,     \* the answer on the screen: its request, and the data's age
    listFailed,\* the newest request failed
    data,      \* version of the server's data; others' changes are left out
    own,       \* the newest version a change accepted from the page produced
    dialog,    \* what is open: nothing, a form for a row, or a confirmation
    sending,   \* changes sent, each with the view the page had at the click
    detail,    \* audit page: numbered requests, the row shown
    pagesBudget

pagesVars == <<page, view, timer, newest, asked, shown, listFailed, data, own,
               dialog, sending, detail, pagesBudget>>
listVars == <<newest, asked, shown, listFailed>>
changeVars == <<data, own, dialog, sending>>

Start(s) == [search |-> s, offset |-> 0]
Numbered == page \in {"users", "audit"}

PagesInit ==
    /\ page \in {"users", "roles", "audit"}
    /\ view = Start(NoSearch)
    /\ timer = TRUE
    /\ newest = [number |-> 0, view |-> view]
    /\ asked = {} /\ shown = [number |-> 0, view |-> view, data |-> 0, full |-> FALSE]
    /\ listFailed = FALSE
    /\ data = 0 /\ own = 0 /\ dialog = Nothing /\ sending = {}
    /\ detail = [number |-> 0, waiting |-> {}, row |-> Nothing]
    /\ pagesBudget = [requests |-> MaxRequests, changes |-> MaxChanges]

(***************************************************************************)
(* Listing                                                                 *)
(***************************************************************************)
\* refresh(): the request carries the filters of the closure it is called from.
Refresh(of) ==
    /\ pagesBudget.requests > 0
    /\ newest' = [number |-> newest.number + 1, view |-> of]
    /\ asked' = asked \cup {[number |-> newest.number + 1, view |-> of, read |-> FALSE, data |-> 0]}
    /\ listFailed' = FALSE
    /\ UNCHANGED shown

TimerFires ==
    /\ timer /\ Refresh(view)
    /\ timer' = FALSE
    /\ pagesBudget' = [pagesBudget EXCEPT !.requests = @ - 1]
    /\ UNCHANGED <<page, view, detail, changeVars>>

\* A keystroke or a filter goes back to the first page and restarts the timer.
ChangeFilters(s) ==
    /\ page \in {"users", "audit"} /\ dialog = Nothing /\ s # view.search
    /\ view' = Start(s) /\ timer' = TRUE
    /\ UNCHANGED <<page, listVars, changeVars, detail, pagesBudget>>

\* The users page moves the offset, which lists by the effect.
TurnPage(offset) ==
    /\ page = "users" /\ dialog = Nothing /\ offset # view.offset
    /\ offset < view.offset \/ shown.full
    /\ view' = [view EXCEPT !.offset = offset] /\ timer' = TRUE
    /\ UNCHANGED <<page, listVars, changeVars, detail, pagesBudget>>

AuditRequest(offset) == [view EXCEPT !.offset = offset]
\* The audit page asks for the page at once; its offset follows the answer.
AskForPage(offset) ==
    /\ page = "audit" /\ dialog = Nothing
    /\ offset > shown.view.offset => shown.full
    /\ Refresh(AuditRequest(offset))
    /\ pagesBudget' = [pagesBudget EXCEPT !.requests = @ - 1]
    /\ UNCHANGED <<page, view, timer, detail, changeVars>>

\* The server reads the list when it gets to the request.
ServerLists ==
    /\ \E request \in asked :
        /\ ~request.read
        /\ asked' = (asked \ {request}) \cup {[request EXCEPT !.read = TRUE, !.data = data]}
    /\ UNCHANGED <<page, view, timer, newest, shown, listFailed, changeVars, detail, pagesBudget>>

\* Faulty variant: any answer is taken.
AcceptedAny(request) == TRUE
Accepted(request) == Numbered => request.number = newest.number

ListArrives ==
    /\ \E request \in {r \in asked : r.read} :
        /\ asked' = asked \ {request}
        /\ \/ /\ Accepted(request)
              /\ \E full \in {f \in BOOLEAN : f => request.view.offset < LastOffset} :
                    shown' = [number |-> request.number, view |-> request.view,
                              data |-> request.data, full |-> full]
              /\ UNCHANGED listFailed
           \/ /\ listFailed' = (listFailed \/ Accepted(request))
              /\ UNCHANGED shown
           \/ ~Accepted(request) /\ UNCHANGED <<shown, listFailed>>
    /\ UNCHANGED <<page, view, timer, newest, changeVars, detail, pagesBudget>>

(***************************************************************************)
(* Changes                                                                 *)
(***************************************************************************)
\* Users: the invite, edit, assign-roles and bulk forms close as they are sent;
\* deleting, restoring, resending and revoking are confirmed.  Roles: the form
\* stays until the change is accepted, and confirms what takes access away.
UserForm == "user form"
UserConfirmation == "user confirmation"
RoleForm == "role form"
RoleConfirmation == "role confirmation"

OpenDialog(kind) ==
    /\ dialog = Nothing
    /\ kind \in (CASE page = "users" -> {UserForm, UserConfirmation}
                   [] page = "roles" -> {RoleForm}
                   [] page = "audit" -> {})
    /\ dialog' = kind
    /\ UNCHANGED <<page, view, timer, listVars, data, own, sending, detail, pagesBudget>>

RequestUpdate ==
    /\ dialog = RoleForm /\ dialog' = RoleConfirmation
    /\ UNCHANGED <<page, view, timer, listVars, data, own, sending, detail, pagesBudget>>

CloseDialog ==
    /\ dialog # Nothing
    /\ dialog' = IF dialog = RoleConfirmation THEN RoleForm ELSE Nothing
    /\ UNCHANGED <<page, view, timer, listVars, data, own, sending, detail, pagesBudget>>

Submit ==
    /\ dialog # Nothing /\ pagesBudget.changes > 0
    /\ sending' = sending \cup
         {[id |-> pagesBudget.changes, view |-> view, at |-> "sent", data |-> 0]}
    /\ dialog' = IF dialog = UserForm THEN Nothing ELSE dialog
    /\ pagesBudget' = [pagesBudget EXCEPT !.changes = @ - 1]
    /\ UNCHANGED <<page, view, timer, listVars, data, own, detail>>

ServerChanges ==
    /\ \E change \in {c \in sending : c.at = "sent"} :
        \/ /\ data' = data + 1
           /\ sending' = (sending \ {change}) \cup {[change EXCEPT !.at = "done", !.data = data + 1]}
        \/ /\ sending' = (sending \ {change}) \cup {[change EXCEPT !.at = "refused"]}
           /\ UNCHANGED data
    /\ UNCHANGED <<page, view, timer, listVars, own, dialog, detail, pagesBudget>>

\* Faulty variant: the list is not asked for again after a change.
ListAgainNot(of) == UNCHANGED listVars /\ pagesBudget.requests > 0
ListAgain(of) == Refresh(of)

\* Accepted: the confirmation closes and the list is asked for, with the filters
\* the page had when the change was sent (mutate's closure).
ChangeAccepted ==
    /\ \E change \in {c \in sending : c.at = "done"} :
        /\ sending' = sending \ {change}
        /\ own' = IF change.data > own THEN change.data ELSE own
        /\ ListAgain(change.view)
    /\ dialog' = IF dialog = UserForm THEN dialog ELSE Nothing
    /\ pagesBudget' = [pagesBudget EXCEPT !.requests = @ - 1]
    /\ UNCHANGED <<page, view, timer, data, detail>>

ChangeRefused ==
    /\ \E change \in {c \in sending : c.at = "refused"} : sending' = sending \ {change}
    /\ UNCHANGED <<page, view, timer, listVars, data, own, dialog, detail, pagesBudget>>

(***************************************************************************)
(* Details of an audit entry                                               *)
(***************************************************************************)
OpenDetail(row) ==
    /\ page = "audit" /\ detail.row = Nothing /\ pagesBudget.requests > 0
    /\ detail' = [number |-> detail.number + 1, row |-> Nothing,
                   waiting |-> detail.waiting \cup {[number |-> detail.number + 1, row |-> row]}]
    /\ pagesBudget' = [pagesBudget EXCEPT !.requests = @ - 1]
    /\ UNCHANGED <<page, view, timer, listVars, changeVars>>

DetailAccepted(request) == request.number = detail.number

DetailArrives ==
    /\ \E request \in detail.waiting, ok \in BOOLEAN :
        detail' = [detail EXCEPT !.waiting = @ \ {request},
            !.row = IF ok /\ DetailAccepted(request) THEN request.row ELSE @]
    /\ UNCHANGED <<page, view, timer, listVars, changeVars, pagesBudget>>

\* Closing also outdates a request still on its way.
CloseDetail ==
    /\ detail.row # Nothing
    /\ detail' = [detail EXCEPT !.number = @ + 1, !.row = Nothing]
    /\ UNCHANGED <<page, view, timer, listVars, changeVars, pagesBudget>>

PagesNext ==
    \/ TimerFires \/ ServerLists \/ ListArrives
    \/ \E s \in Searches : ChangeFilters(s)
    \/ \E offset \in 0..LastOffset : TurnPage(offset) \/ AskForPage(offset)
    \/ \E kind \in {UserForm, UserConfirmation, RoleForm} : OpenDialog(kind)
    \/ RequestUpdate \/ CloseDialog \/ Submit \/ ServerChanges \/ ChangeAccepted \/ ChangeRefused
    \/ \E row \in Rows : OpenDetail(row)
    \/ DetailArrives \/ CloseDetail

PagesSpec == PagesInit /\ [][PagesNext]_pagesVars

(***************************************************************************)
(* Properties                                                              *)
(***************************************************************************)
Settled == ~listFailed /\ ~\E request \in asked : request.number = newest.number

\* Once the newest list request has been answered, the list on the users and
\* audit pages is that answer, however older answers were delayed.
ListIsNewest == Numbered /\ Settled => shown.view = newest.view

\* A list that has settled is no older than the changes the page made itself.
OwnChangesShown == Numbered /\ Settled => shown.data >= own

\* (Not kept.)  The list belongs to the filters in the controls: a change that
\* ends after the filters were changed lists with the filters it was sent with.
ListFollowsControls ==
    page = "users" /\ Settled /\ ~timer /\ newest.number > 0 => shown.view = view

\* (Not kept.)  The roles page shows its newest list: its requests are unnumbered.
RolesListIsNewest == page = "roles" /\ asked = {} /\ Settled => shown.data >= own
===============================================================================
