---------------------------- MODULE AccessControl ----------------------------
(***************************************************************************)
(* Staff accounts and their roles on the server (rbac_service.py and       *)
(* user_service.py): requests that replace a user's roles, deactivate or   *)
(* delete a user run as transactions of several statements, read committed *)
(* and interleaved.  The row of the system Admin role is the lock that is  *)
(* to keep one administrator; it is taken only by requests that have found *)
(* their user to be one.  A staff role grants the right to administer      *)
(* users while it is active.                                               *)
(***************************************************************************)
EXTENDS Nullable, Naturals, FiniteSets

CONSTANTS
    Users,       \* the staff accounts
    StaffRoles,  \* roles other than Admin
    Admin,       \* the system role
    Slots        \* bound: requests in progress at a time

AllRoles == StaffRoles \cup {Admin}
Operations == [kind : {"roles", "deactivate", "delete"}, actor : Users, target : Users,
               roles : SUBSET AllRoles, at : {"found", "wait", "commit"}]

ASSUME AccessAssumption ==
    /\ Admin \notin StaffRoles
    /\ NULL \notin Slots \cup Operations

VARIABLES
    status,    \* per user: "active", "inactive" or "deleted"
    assigned,  \* per user: the roles held
    enabled,   \* the staff roles that are active
    ops,       \* per slot: a request in progress, or NULL
    adminLock, \* the slot that holds the Admin role's row, or NULL
    slipped    \* users taken out of service as an ordinary user while an Admin

accessVars == <<status, assigned, enabled, ops, adminLock, slipped>>

MayAdminister(u) == assigned[u] \cap (enabled \cup {Admin}) # {}
ActiveAdmin(u) == status[u] = "active" /\ Admin \in assigned[u]
AdminRemainsWithout(u) == \E v \in Users \ {u} : ActiveAdmin(v)

AccessInit ==
    /\ \E first \in Users :
        /\ status \in {a \in [Users -> {"active", "inactive"}] : a[first] = "active"}
        /\ assigned \in {s \in [Users -> {{}} \cup {{r} : r \in AllRoles}] : s[first] = {Admin}}
    /\ enabled \in SUBSET StaffRoles
    /\ ops = [i \in Slots |-> NULL]
    /\ adminLock = NULL
    /\ slipped = {}

(***************************************************************************)
(* Requests of several statements                                          *)
(***************************************************************************)
StaffRequests ==
    [kind : {"roles"}, actor : Users, target : Users, roles : (SUBSET AllRoles) \ {{}}, at : {"found"}]
    \cup [kind : {"deactivate", "delete"}, actor : Users, target : Users, roles : {{}}, at : {"found"}]

(* The caller is authorised, the target is read and is not deleted.         *)
Begin(i) ==
    /\ ops[i] = NULL
    /\ \E request \in StaffRequests :
        /\ status[request.actor] = "active" /\ MayAdminister(request.actor)
        /\ status[request.target] # "deleted"
        /\ ops' = [ops EXCEPT ![i] = request]
    /\ UNCHANGED <<status, assigned, enabled, adminLock, slipped>>

(* Removing a user first reads, without the lock, whether it is an Admin;   *)
(* replacing roles always goes for the lock.                                *)
NeedsLock(request) == request.kind = "roles" \/ Admin \in assigned[request.target]
Look(i) ==
    /\ ops[i] # NULL /\ ops[i].at = "found"
    /\ ops' = [ops EXCEPT ![i].at = IF NeedsLock(ops[i]) THEN "wait" ELSE "commit"]
    /\ UNCHANGED <<status, assigned, enabled, adminLock, slipped>>

\* Faulty variant: replacing roles forgets that an administrator must remain.
RefusedRolesUnchecked(request) ==
    \/ ~(request.roles \ {Admin} \subseteq enabled)
    \/ Admin \in request.roles /\ ~ActiveAdmin(request.actor)
    \/ ~MayAdminister(request.actor)
    \/ Admin \in assigned[request.target] \ request.roles /\ request.target = request.actor
\* Roles must be active, Admin is assigned by an active administrator only,
\* no role exceeds the caller's rights, and an administrator remains.
RefusedRoles(request) ==
    \/ ~(request.roles \ {Admin} \subseteq enabled)
    \/ Admin \in request.roles /\ ~ActiveAdmin(request.actor)
    \/ ~MayAdminister(request.actor)
    \/ /\ Admin \in assigned[request.target] \ request.roles
       /\ request.target = request.actor \/ ~AdminRemainsWithout(request.target)
RefusedRemoval(request) ==
    /\ Admin \in assigned[request.target]
    /\ request.target = request.actor \/ ~AdminRemainsWithout(request.target)
Refused(request) ==
    IF request.kind = "roles" THEN RefusedRoles(request) ELSE RefusedRemoval(request)

(* The lock is granted and everything is checked again under it; an error   *)
(* response ends the transaction and releases the lock at once.             *)
LockAndCheck(i) ==
    /\ ops[i] # NULL /\ ops[i].at = "wait" /\ adminLock = NULL
    /\ IF Refused(ops[i])
       THEN ops' = [ops EXCEPT ![i] = NULL] /\ UNCHANGED adminLock
       ELSE ops' = [ops EXCEPT ![i].at = "commit"] /\ adminLock' = i
    /\ UNCHANGED <<status, assigned, enabled, slipped>>

Released(i) == IF adminLock = i THEN NULL ELSE adminLock

CommitRoles(i) ==
    /\ ops[i] # NULL /\ ops[i].at = "commit" /\ ops[i].kind = "roles"
    /\ assigned' = [assigned EXCEPT ![ops[i].target] = ops[i].roles]
    /\ adminLock' = Released(i)
    /\ ops' = [ops EXCEPT ![i] = NULL]
    /\ UNCHANGED <<status, enabled, slipped>>

CommitRemoval(i) ==
    /\ ops[i] # NULL /\ ops[i].at = "commit" /\ ops[i].kind # "roles"
    /\ LET u == ops[i].target IN
       /\ status' = [status EXCEPT ![u] =
            IF ops[i].kind = "delete" \/ @ = "deleted" THEN "deleted" ELSE "inactive"]
       /\ slipped' = IF ActiveAdmin(u) /\ adminLock # i THEN slipped \cup {u} ELSE slipped
    /\ adminLock' = Released(i)
    /\ ops' = [ops EXCEPT ![i] = NULL]
    /\ UNCHANGED <<assigned, enabled>>

(* A lost connection, a statement timeout or a deadlock the database breaks *)
(* ends the transaction with nothing changed.                               *)
Abort(i) ==
    /\ ops[i] # NULL
    /\ ops' = [ops EXCEPT ![i] = NULL]
    /\ adminLock' = Released(i)
    /\ UNCHANGED <<status, assigned, enabled, slipped>>

(***************************************************************************)
(* Requests of one statement, and roles                                    *)
(***************************************************************************)
Administering == \E u \in Users : status[u] = "active" /\ MayAdminister(u)

\* A restored account keeps the status and the roles it had; restoring and
\* activating are one step here, as the status of a deleted account is unread.
Reinstate(u) ==
    /\ Administering /\ status[u] # "active"
    /\ status' = [status EXCEPT ![u] = "active"]
    /\ UNCHANGED <<assigned, enabled, ops, adminLock, slipped>>

\* Permissions and status of a staff role; Admin's are fixed.  The caller's
\* assignments and the roles are locked from the first read to the commit.
UpdateRole(r) ==
    /\ Administering
    /\ enabled' = IF r \in enabled THEN enabled \ {r} ELSE enabled \cup {r}
    /\ UNCHANGED <<status, assigned, ops, adminLock, slipped>>

AccessNext ==
    \/ \E i \in Slots : Begin(i) \/ Look(i) \/ LockAndCheck(i)
                        \/ CommitRoles(i) \/ CommitRemoval(i) \/ Abort(i)
    \/ \E u \in Users : Reinstate(u)
    \/ \E r \in StaffRoles : UpdateRole(r)

AccessSpec == AccessInit /\ [][AccessNext]_accessVars

(***************************************************************************)
(* Properties                                                              *)
(***************************************************************************)
\* At least one active account holds the Admin role ("changes that would
\* remove the last active administrator" are refused).
AdminRemains == \E u \in Users : ActiveAdmin(u)

\* The last administrator is lost in no other way than by the removal of a user
\* that was read as an ordinary user and became an Admin before it committed:
\* everything that goes through the Admin role's lock keeps one.
OnlyUnlockedRemovalsLoseAdmins == AdminRemains \/ slipped # {}
===============================================================================
