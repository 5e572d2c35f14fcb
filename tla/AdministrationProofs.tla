------------------------- MODULE AdministrationProofs -------------------------
(***************************************************************************)
(* What holds of concurrent administrators, for any number of them.        *)
(*                                                                         *)
(* The Admin role's lock does its part: the last administrator is only     *)
(* lost by a removal that did not take the lock because it had read its    *)
(* user as an ordinary one.  Who holds the role changes only under the     *)
(* lock (HolderInv), so what a request has checked under it stays true     *)
(* until it commits, except for accounts that unlocked removals take out   *)
(* of service.                                                             *)
(*                                                                         *)
(* Saves of the alumni table replace one another as wholes; and a save     *)
(* that follows the table it was made from deletes only what was asked     *)
(* about.                                                                  *)
(*                                                                         *)
(* The users and audit pages settle on the newest list they asked for, and *)
(* it shows the changes made from the page.                                *)
(*                                                                         *)
(* A reset link changes a password once, and a confirmed change left no    *)
(* older session of its user (PortalAccess).                               *)
(***************************************************************************)
EXTENDS AccessControl, AlumniCounts, AdminPages, PortalAccess, FiniteSetTheorems, TLAPS

-----------------------------------------------------------------------------
(* AccessControl                                                           *)

AccessTypeOK ==
    /\ status \in [Users -> {"active", "inactive", "deleted"}]
    /\ assigned \in [Users -> SUBSET AllRoles]
    /\ ops \in [Slots -> Operations \cup {NULL}]
    /\ adminLock \in Slots \cup {NULL}
    /\ slipped \subseteq Users

\* Changes of roles commit under the lock only, and who has the lock commits next.
HolderInv ==
    /\ \A i \in Slots : ops[i] # NULL /\ ops[i].kind = "roles" /\ ops[i].at = "commit"
                            => adminLock = i
    /\ \A i \in Slots : adminLock = i => ops[i] # NULL /\ ops[i].at = "commit"

Removes(request) == request.kind # "roles" \/ Admin \notin request.roles

\* What the holder of the lock has checked still holds.
CheckedInv ==
    \A i \in Slots : adminLock = i /\ Removes(ops[i]) =>
        \/ slipped # {}
        \/ Admin \notin assigned[ops[i].target]
        \/ AdminRemainsWithout(ops[i].target)

AccessInv ==
    AccessTypeOK /\ HolderInv /\ CheckedInv /\ OnlyUnlockedRemovalsLoseAdmins

-------------------------------------------------------------------------------
\* The initial states satisfy the invariant: the first account is an active Admin.
THEOREM InitAccessInv == AccessInit => AccessInv
<1> SUFFICES ASSUME AccessInit PROVE AccessInv
  OBVIOUS
<1>1. PICK first \in Users :
        /\ status \in {a \in [Users -> {"active", "inactive"}] : a[first] = "active"}
        /\ assigned \in {s \in [Users -> {{}} \cup {{r} : r \in AllRoles}] : s[first] = {Admin}}
  BY DEF AccessInit
<1>2. ops = [i \in Slots |-> NULL] /\ adminLock = NULL /\ slipped = {}
  BY DEF AccessInit
<1>3. AccessTypeOK
  <2>1. \A u \in Users : assigned[u] \in SUBSET AllRoles
    BY <1>1
  <2>2. status \in [Users -> {"active", "inactive", "deleted"}]
    BY <1>1
  <2> QED
    BY <1>1, <1>2, <2>1, <2>2 DEF AccessTypeOK
<1>4. HolderInv /\ CheckedInv
  BY <1>2, AccessAssumption DEF HolderInv, CheckedInv
<1>5. ActiveAdmin(first)
  BY <1>1 DEF ActiveAdmin
<1> QED
  BY <1>3, <1>4, <1>5 DEF AccessInv, OnlyUnlockedRemovalsLoseAdmins, AdminRemains

\* A request that only moves on in its slot, without the lock, disturbs nothing.
LEMMA MovesOn ==
    ASSUME AccessInv, NEW i \in Slots, NEW request \in Operations \cup {NULL},
           ops' = [ops EXCEPT ![i] = request], adminLock # i, UNCHANGED adminLock,
           UNCHANGED <<status, assigned, slipped>>,
           request # NULL => request.kind # "roles" \/ request.at # "commit"
    PROVE  AccessInv'
<1>1. AccessTypeOK'
  BY DEF AccessInv, AccessTypeOK
<1>2. HolderInv'
  BY DEF AccessInv, AccessTypeOK, HolderInv
<1>3. CheckedInv'
  BY DEF AccessInv, AccessTypeOK, CheckedInv, Removes, AdminRemainsWithout, ActiveAdmin
<1>4. OnlyUnlockedRemovalsLoseAdmins'
  BY DEF AccessInv, OnlyUnlockedRemovalsLoseAdmins, AdminRemains, ActiveAdmin
<1> QED
  BY <1>1, <1>2, <1>3, <1>4 DEF AccessInv

LEMMA BeginKeeps == ASSUME AccessInv, NEW i \in Slots, Begin(i) PROVE AccessInv'
<1>1. PICK request \in StaffRequests : ops' = [ops EXCEPT ![i] = request]
  BY DEF Begin
<1>2. request \in Operations /\ request.at = "found"
  BY <1>1 DEF StaffRequests, Operations
<1>3. adminLock # i
  BY DEF Begin, AccessInv, HolderInv
<1> QED
  BY <1>1, <1>2, <1>3, MovesOn DEF Begin

LEMMA LookKeeps == ASSUME AccessInv, NEW i \in Slots, Look(i) PROVE AccessInv'
<1> DEFINE moved == [ops[i] EXCEPT !.at = IF NeedsLock(ops[i]) THEN "wait" ELSE "commit"]
<1>1. ops[i] \in Operations /\ ops[i].at = "found"
  BY DEF Look, AccessInv, AccessTypeOK
<1>2. moved \in Operations /\ ops' = [ops EXCEPT ![i] = moved]
  BY <1>1 DEF Look, Operations
<1>3. moved.kind # "roles" \/ moved.at # "commit"
  BY <1>1 DEF NeedsLock, Operations
<1>4. adminLock # i
  BY <1>1 DEF AccessInv, HolderInv
<1> QED
  BY <1>2, <1>3, <1>4, MovesOn DEF Look

\* The lock is granted: the checks make CheckedInv true of its new holder.
LEMMA LockAndCheckKeeps == ASSUME AccessInv, NEW i \in Slots, LockAndCheck(i) PROVE AccessInv'
<1>1. ops[i] \in Operations /\ ops[i] # NULL /\ adminLock = NULL
  BY DEF LockAndCheck, AccessInv, AccessTypeOK
<1>2. adminLock # i
  BY <1>1, AccessAssumption
<1>3. CASE Refused(ops[i])
  BY <1>2, <1>3, MovesOn DEF LockAndCheck
<1>4. CASE ~Refused(ops[i])
  <2> DEFINE granted == [ops[i] EXCEPT !.at = "commit"]
  <2>1. granted \in Operations /\ granted.at = "commit" /\ granted.target = ops[i].target
            /\ granted.kind = ops[i].kind /\ granted.roles = ops[i].roles
    BY <1>1 DEF Operations
  <2>2. ops' = [ops EXCEPT ![i] = granted] /\ adminLock' = i
            /\ UNCHANGED <<status, assigned, slipped>>
    BY <1>4 DEF LockAndCheck
  <2>3. granted # NULL
    BY <2>1, AccessAssumption
  <2>4. AccessTypeOK'
    BY <2>1, <2>2 DEF AccessInv, AccessTypeOK
  <2>5. \A j \in Slots : j # i => ops'[j] = ops[j]
    BY <2>2 DEF AccessInv, AccessTypeOK
  <2>6. ops'[i] = granted
    BY <2>2 DEF AccessInv, AccessTypeOK
  <2>7. HolderInv'
    <3>1. \A j \in Slots : ops'[j] # NULL /\ ops'[j].kind = "roles" /\ ops'[j].at = "commit"
                              => adminLock' = j
      BY <1>1, <2>2, <2>5, AccessAssumption DEF AccessInv, HolderInv
    <3> QED
      BY <3>1, <2>1, <2>2, <2>3, <2>6 DEF HolderInv
  <2>8. CheckedInv'
    <3>1. Removes(granted) => \/ Admin \notin assigned[granted.target]
                              \/ AdminRemainsWithout(granted.target)
      BY <1>1, <1>4, <2>1 DEF Removes, Refused, RefusedRoles, RefusedRemoval, Operations
    <3>2. AdminRemainsWithout(granted.target)' = AdminRemainsWithout(granted.target)
      BY <2>2 DEF AdminRemainsWithout, ActiveAdmin
    <3> QED
      BY <3>1, <2>2, <2>6 DEF CheckedInv, Removes, AdminRemainsWithout, ActiveAdmin
  <2>9. OnlyUnlockedRemovalsLoseAdmins'
    BY <2>2 DEF AccessInv, OnlyUnlockedRemovalsLoseAdmins, AdminRemains, ActiveAdmin
  <2> QED
    BY <2>4, <2>7, <2>8, <2>9 DEF AccessInv
<1> QED
  BY <1>3, <1>4

\* An operation that ends leaves its slot, and the lock if it has it.
LEMMA EndsSlot ==
    ASSUME AccessInv, NEW i \in Slots,
           ops' = [ops EXCEPT ![i] = NULL], adminLock' = Released(i)
    PROVE  /\ HolderInv'
           /\ ops' \in [Slots -> Operations \cup {NULL}]
           /\ adminLock' \in Slots \cup {NULL}
           /\ \A j \in Slots : adminLock' = j => j # i /\ adminLock = j /\ ops'[j] = ops[j]
<1>1. ops' \in [Slots -> Operations \cup {NULL}] /\ adminLock' \in Slots \cup {NULL}
  BY DEF AccessInv, AccessTypeOK, Released
<1>2. \A j \in Slots : adminLock' = j => j # i /\ adminLock = j
  BY AccessAssumption DEF Released
<1>3. \A j \in Slots : ops'[j] = IF j = i THEN NULL ELSE ops[j]
  BY DEF AccessInv, AccessTypeOK
<1>4. \A j \in Slots : ops'[j] # NULL /\ ops'[j].kind = "roles" /\ ops'[j].at = "commit"
                          => adminLock' = j
  BY <1>3 DEF AccessInv, HolderInv, Released
<1>5. \A j \in Slots : adminLock' = j => ops'[j] # NULL /\ ops'[j].at = "commit"
  BY <1>2, <1>3 DEF AccessInv, HolderInv
<1> QED
  BY <1>1, <1>2, <1>3, <1>4, <1>5 DEF HolderInv

LEMMA AbortKeeps == ASSUME AccessInv, NEW i \in Slots, Abort(i) PROVE AccessInv'
<1>1. ops' = [ops EXCEPT ![i] = NULL] /\ adminLock' = Released(i)
        /\ UNCHANGED <<status, assigned, slipped>>
  BY DEF Abort
<1>2. /\ HolderInv'
      /\ ops' \in [Slots -> Operations \cup {NULL}]
      /\ adminLock' \in Slots \cup {NULL}
      /\ \A j \in Slots : adminLock' = j => j # i /\ adminLock = j /\ ops'[j] = ops[j]
  BY <1>1, EndsSlot
<1>3. AccessTypeOK'
  BY <1>1, <1>2 DEF AccessInv, AccessTypeOK
<1>4. CheckedInv'
  BY <1>1, <1>2 DEF AccessInv, CheckedInv, Removes, AdminRemainsWithout, ActiveAdmin
<1>5. OnlyUnlockedRemovalsLoseAdmins'
  BY <1>1 DEF AccessInv, OnlyUnlockedRemovalsLoseAdmins, AdminRemains, ActiveAdmin
<1> QED
  BY <1>2, <1>3, <1>4, <1>5 DEF AccessInv

\* New roles: nobody else has the lock, so CheckedInv is about nobody afterwards.
LEMMA CommitRolesKeeps == ASSUME AccessInv, NEW i \in Slots, CommitRoles(i) PROVE AccessInv'
<1> DEFINE u == ops[i].target
           roles == ops[i].roles
<1>1. /\ ops[i] \in Operations /\ ops[i] # NULL
      /\ ops[i].kind = "roles" /\ ops[i].at = "commit"
      /\ ops' = [ops EXCEPT ![i] = NULL] /\ adminLock' = Released(i)
      /\ assigned' = [assigned EXCEPT ![u] = roles]
      /\ UNCHANGED <<status, slipped>>
  BY DEF CommitRoles, AccessInv, AccessTypeOK
<1>2. adminLock = i
  BY <1>1 DEF AccessInv, HolderInv
<1>3. /\ HolderInv'
      /\ ops' \in [Slots -> Operations \cup {NULL}]
      /\ adminLock' \in Slots \cup {NULL}
      /\ \A j \in Slots : adminLock' = j => j # i /\ adminLock = j /\ ops'[j] = ops[j]
  BY <1>1, EndsSlot
<1>4. u \in Users /\ roles \in SUBSET AllRoles
  BY <1>1 DEF Operations
<1>5. AccessTypeOK'
  BY <1>1, <1>3, <1>4 DEF AccessInv, AccessTypeOK
<1>6. CheckedInv'
  BY <1>2, <1>3 DEF CheckedInv
<1>7. ASSUME slipped = {} PROVE AdminRemains'
  <2>1. \A v \in Users : v # u => (ActiveAdmin(v)' <=> ActiveAdmin(v))
    BY <1>1 DEF ActiveAdmin, AccessInv, AccessTypeOK
  <2>2. PICK v \in Users : ActiveAdmin(v)
    BY <1>7 DEF AccessInv, OnlyUnlockedRemovalsLoseAdmins, AdminRemains
  <2>3. CASE Admin \in roles
    <3>1. assigned'[u] = roles
      BY <1>1, <1>4 DEF AccessInv, AccessTypeOK
    <3>2. ActiveAdmin(v)'
      BY <1>1, <2>1, <2>2, <2>3, <3>1 DEF ActiveAdmin
    <3> QED
      BY <3>2 DEF AdminRemains
  <2>4. CASE Admin \notin roles
    <3>1. Admin \notin assigned[u] \/ AdminRemainsWithout(u)
      BY <1>1, <1>2, <1>7, <2>4 DEF AccessInv, CheckedInv, Removes
    <3>2. PICK w \in Users : w # u /\ ActiveAdmin(w)
      BY <2>2, <3>1 DEF AdminRemainsWithout, ActiveAdmin
    <3> QED
      BY <2>1, <3>2 DEF AdminRemains
  <2> QED
    BY <2>3, <2>4
<1> QED
  BY <1>1, <1>3, <1>5, <1>6, <1>7 DEF AccessInv, OnlyUnlockedRemovalsLoseAdmins

\* A removal: under the lock another administrator remains; without it, the
\* removal of an administrator is remembered in slipped.
LEMMA CommitRemovalKeeps == ASSUME AccessInv, NEW i \in Slots, CommitRemoval(i) PROVE AccessInv'
<1> DEFINE u == ops[i].target
<1>1. /\ ops[i] \in Operations /\ ops[i] # NULL /\ ops[i].kind # "roles"
      /\ ops' = [ops EXCEPT ![i] = NULL] /\ adminLock' = Released(i)
      /\ UNCHANGED assigned
  BY DEF CommitRemoval, AccessInv, AccessTypeOK
<1>2. u \in Users
  BY <1>1 DEF Operations
<1>3. /\ status' \in [Users -> {"active", "inactive", "deleted"}]
      /\ \A v \in Users : v # u => status'[v] = status[v]
  BY <1>2 DEF CommitRemoval, AccessInv, AccessTypeOK
<1>4. slipped' = IF ActiveAdmin(u) /\ adminLock # i THEN slipped \cup {u} ELSE slipped
  BY DEF CommitRemoval
<1>5. /\ HolderInv'
      /\ ops' \in [Slots -> Operations \cup {NULL}]
      /\ adminLock' \in Slots \cup {NULL}
      /\ \A j \in Slots : adminLock' = j => j # i /\ adminLock = j /\ ops'[j] = ops[j]
  BY <1>1, EndsSlot
<1>6. AccessTypeOK'
  BY <1>1, <1>2, <1>3, <1>4, <1>5 DEF AccessInv, AccessTypeOK
<1>7. \A v \in Users : v # u /\ ActiveAdmin(v) => ActiveAdmin(v)'
  BY <1>1, <1>3 DEF ActiveAdmin
<1>8. ASSUME slipped' = {} PROVE AdminRemains'
  <2>1. slipped = {} /\ (~ActiveAdmin(u) \/ adminLock = i)
    BY <1>4, <1>8
  <2>2. PICK v \in Users : ActiveAdmin(v)
    BY <2>1 DEF AccessInv, OnlyUnlockedRemovalsLoseAdmins, AdminRemains
  <2>3. CASE ~ActiveAdmin(u)
    BY <1>7, <2>2, <2>3 DEF AdminRemains
  <2>4. CASE adminLock = i
    <3>1. Admin \notin assigned[u] \/ AdminRemainsWithout(u)
      BY <1>1, <2>1, <2>4 DEF AccessInv, CheckedInv, Removes
    <3>2. PICK w \in Users : w # u /\ ActiveAdmin(w)
      BY <2>2, <3>1 DEF AdminRemainsWithout, ActiveAdmin
    <3> QED
      BY <1>7, <3>2 DEF AdminRemains
  <2> QED
    BY <2>1, <2>3, <2>4
<1>9. ASSUME NEW j \in Slots, adminLock' = j, Removes(ops[j]), slipped' = {},
             Admin \in assigned[ops[j].target]
      PROVE  \E v \in Users \ {ops[j].target} : ActiveAdmin(v)'
  <2>1. adminLock = j /\ slipped = {} /\ ~ActiveAdmin(u)
    BY <1>4, <1>5, <1>9
  <2>2. AdminRemainsWithout(ops[j].target)
    BY <1>9, <2>1 DEF AccessInv, CheckedInv
  <2>3. PICK w \in Users \ {ops[j].target} : ActiveAdmin(w)
    BY <2>2 DEF AdminRemainsWithout
  <2>4. ActiveAdmin(w)'
    BY <1>7, <2>1, <2>3
  <2> QED
    BY <2>3, <2>4
<1>10. CheckedInv'
  BY <1>1, <1>5, <1>9 DEF CheckedInv, Removes, AdminRemainsWithout
<1> QED
  BY <1>5, <1>6, <1>8, <1>10 DEF AccessInv, OnlyUnlockedRemovalsLoseAdmins

\* An account put back in service can only add an administrator.
LEMMA ReinstateKeeps == ASSUME AccessInv, NEW u \in Users, Reinstate(u) PROVE AccessInv'
<1>1. /\ status' = [status EXCEPT ![u] = "active"]
      /\ UNCHANGED <<assigned, ops, adminLock, slipped>>
  BY DEF Reinstate
<1>2. AccessTypeOK' /\ HolderInv'
  BY <1>1 DEF AccessInv, AccessTypeOK, HolderInv
<1>3. \A v \in Users : ActiveAdmin(v) => ActiveAdmin(v)'
  BY <1>1 DEF ActiveAdmin, AccessInv, AccessTypeOK
<1>4. CheckedInv'
  <2>1. \A v \in Users : AdminRemainsWithout(v) => AdminRemainsWithout(v)'
    BY <1>3 DEF AdminRemainsWithout
  <2>2. \A i \in Slots : adminLock = i => ops[i].target \in Users
    BY DEF AccessInv, AccessTypeOK, HolderInv, Operations
  <2> QED
    BY <1>1, <2>1, <2>2 DEF AccessInv, CheckedInv, Removes
<1>5. OnlyUnlockedRemovalsLoseAdmins'
  BY <1>1, <1>3 DEF AccessInv, OnlyUnlockedRemovalsLoseAdmins, AdminRemains
<1> QED
  BY <1>2, <1>4, <1>5 DEF AccessInv

LEMMA UnchangedKeeps ==
    ASSUME AccessInv, UNCHANGED <<status, assigned, ops, adminLock, slipped>>
    PROVE  AccessInv'
  BY DEF AccessInv, AccessTypeOK, HolderInv, CheckedInv, Removes, AdminRemainsWithout,
         ActiveAdmin, OnlyUnlockedRemovalsLoseAdmins, AdminRemains

\* Every step of every request keeps the invariant.
THEOREM StepAccessInv == AccessInv /\ [AccessNext]_accessVars => AccessInv'
<1> SUFFICES ASSUME AccessInv, [AccessNext]_accessVars PROVE AccessInv'
  OBVIOUS
<1>1. ASSUME NEW i \in Slots,
             Begin(i) \/ Look(i) \/ LockAndCheck(i) \/ CommitRoles(i) \/ CommitRemoval(i) \/ Abort(i)
      PROVE  AccessInv'
  BY <1>1, BeginKeeps, LookKeeps, LockAndCheckKeeps, CommitRolesKeeps, CommitRemovalKeeps, AbortKeeps
<1>2. ASSUME NEW u \in Users, Reinstate(u) PROVE AccessInv'
  BY <1>2, ReinstateKeeps
<1>3. ASSUME NEW r \in StaffRoles, UpdateRole(r) PROVE AccessInv'
  BY <1>3, UnchangedKeeps DEF UpdateRole
<1>4. CASE UNCHANGED accessVars
  BY <1>4, UnchangedKeeps DEF accessVars
<1> QED
  BY <1>1, <1>2, <1>3, <1>4 DEF AccessNext

\* Whatever requests interleave, the last active administrator is lost in no
\* other way than by a removal that did not take the Admin role's lock.
THEOREM LockedChangesKeepAnAdmin == AccessSpec => []OnlyUnlockedRemovalsLoseAdmins
<1>1. AccessInv => OnlyUnlockedRemovalsLoseAdmins
  BY DEF AccessInv
<1> QED
  BY <1>1, InitAccessInv, StepAccessInv, PTL DEF AccessSpec

-----------------------------------------------------------------------------
(* AlumniCounts                                                            *)

Table == [Cells -> Int]
Pages == [saved : Table, grid : Table, loaded : BOOLEAN, confirming : BOOLEAN, seen : Nat]
Puts ==
    {NoPut, [at |-> "done"]}
    \cup [at : {"sent"}, counts : Table, asked : SUBSET Cells, seen : Nat]
    \cup [at : {"locked"}, counts : Table, asked : SUBSET Cells, seen : Nat, existing : Table]
    \cup [at : {"answered"}, rows : Table, seen : Nat]

AlumniTypeOK ==
    /\ stored \in Table /\ lastSaved \in Table
    /\ version \in Nat
    /\ tableLock \in Administrators \cup {Nobody}
    /\ copy \in [Administrators -> Pages]
    /\ put \in [Administrators -> Puts]

\* A page as last loaded is the stored table until the next replacement.
PageOK(mine) ==
    /\ mine.seen <= version
    /\ mine.loaded /\ mine.seen = version => mine.saved = stored
    /\ mine.confirming => mine.loaded

AsksFor(p) == \A c \in Cells : stored[c] # Blank /\ p.counts[c] = Blank => c \in p.asked
PutOK(p) ==
    /\ p.at \in {"sent", "locked", "answered"} => p.seen <= version
    /\ p.at \in {"sent", "locked"} /\ p.seen = version => AsksFor(p)
    /\ p.at = "answered" /\ p.seen = version => p.rows = stored
    /\ p.at = "locked" => p.existing = stored

AlumniInv ==
    /\ AlumniTypeOK
    /\ \A a \in Administrators : PageOK(copy[a])
    /\ \A a \in Administrators : PutOK(put[a])
    /\ \A a \in Administrators : put[a].at = "locked" => tableLock = a
    /\ StoredIsLastSave

-------------------------------------------------------------------------------
\* The initial states satisfy the invariant.
THEOREM InitAlumniInv == AlumniInit => AlumniInv
<1> SUFFICES ASSUME AlumniInit PROVE AlumniInv
  OBVIOUS
<1>1. AlumniTypeOK
  <2>1. stored \in Table /\ lastSaved \in Table
    <3>1. Totals \cup {Blank} \subseteq Int
      BY AlumniAssumption DEF Blank
    <3>2. stored \in [Cells -> Totals \cup {Blank}] /\ lastSaved = stored
      BY DEF AlumniInit
    <3> QED
      BY <3>1, <3>2 DEF Table
  <2>2. version \in Nat /\ tableLock \in Administrators \cup {Nobody}
    BY DEF AlumniInit
  <2>3. None \in Table
    BY DEF None, Table, Blank
  <2>4. copy \in [Administrators -> Pages]
    BY <2>3 DEF AlumniInit, Pages
  <2>5. put \in [Administrators -> Puts]
    BY DEF AlumniInit, Puts
  <2> QED
    BY <2>1, <2>2, <2>4, <2>5 DEF AlumniTypeOK
<1>2. ASSUME NEW a \in Administrators
      PROVE  PageOK(copy[a]) /\ PutOK(put[a]) /\ put[a].at # "locked"
  BY DEF AlumniInit, PageOK, PutOK, NoPut
<1> QED
  BY <1>1, <1>2 DEF AlumniInv, StoredIsLastSave, AlumniInit

\* A step that changes one page, and nothing else.
LEMMA PageKeeps ==
    ASSUME AlumniInv, NEW a \in Administrators, NEW mine \in Pages, PageOK(mine),
           copy' = [copy EXCEPT ![a] = mine], UNCHANGED <<put, server>>
    PROVE  AlumniInv'
<1>1. AlumniTypeOK'
  BY DEF AlumniInv, AlumniTypeOK, server
<1>2. \A b \in Administrators : copy'[b] = IF b = a THEN mine ELSE copy[b]
  BY DEF AlumniInv, AlumniTypeOK
<1>3. \A b \in Administrators : PageOK(copy[b])'
  BY <1>2 DEF AlumniInv, PageOK, server
<1>4. \A b \in Administrators : PutOK(put[b])'
  BY DEF AlumniInv, PutOK, AsksFor, server
<1> QED
  BY <1>1, <1>3, <1>4 DEF AlumniInv, StoredIsLastSave, server

\* A step that changes one request, and the lock at most, while the table stays.
LEMMA PutKeeps ==
    ASSUME AlumniInv, NEW a \in Administrators, NEW p \in Puts, PutOK(p),
           put' = [put EXCEPT ![a] = p],
           tableLock' \in Administrators \cup {Nobody},
           \A b \in Administrators \ {a} : tableLock = b => tableLock' = b,
           p.at = "locked" => tableLock' = a,
           UNCHANGED <<stored, version, lastSaved, copy>>
    PROVE  AlumniInv'
<1>1. AlumniTypeOK'
  BY DEF AlumniInv, AlumniTypeOK
<1>2. \A b \in Administrators : put'[b] = IF b = a THEN p ELSE put[b]
  BY DEF AlumniInv, AlumniTypeOK
<1>3. \A b \in Administrators : PutOK(put[b])'
  BY <1>2 DEF AlumniInv, PutOK, AsksFor
<1>4. \A b \in Administrators : PageOK(copy[b])'
  BY DEF AlumniInv, PageOK
<1>5. \A b \in Administrators : put'[b].at = "locked" => tableLock' = b
  BY <1>2 DEF AlumniInv
<1> QED
  BY <1>1, <1>3, <1>4, <1>5 DEF AlumniInv, StoredIsLastSave

LEMMA LoadKeeps == ASSUME AlumniInv, NEW a \in Administrators, Load(a) PROVE AlumniInv'
<1> DEFINE mine == [copy[a] EXCEPT !.saved = stored, !.grid = stored, !.loaded = TRUE, !.seen = version]
<1>1. copy[a] \in Pages /\ stored \in Table /\ version \in Nat
  BY DEF AlumniInv, AlumniTypeOK
<1>2. mine \in Pages /\ PageOK(mine)
  <2>1. mine \in Pages
    BY <1>1 DEF Pages
  <2>2. mine.loaded /\ mine.seen = version /\ mine.saved = stored
    BY <1>1 DEF Pages
  <2>3. version <= version
    BY <1>1
  <2> QED
    BY <2>1, <2>2, <2>3, Zenon DEF PageOK
<1>3. copy' = [copy EXCEPT ![a] = mine]
  BY <1>1 DEF Load, ApplyRows, AlumniInv, AlumniTypeOK, Pages
<1> QED
  BY <1>2, <1>3, PageKeeps DEF Load

\* Whatever happens to the grid leaves what was loaded.
LEMMA GridKeeps ==
    ASSUME AlumniInv, NEW a \in Administrators, NEW grid \in Table,
           copy' = [copy EXCEPT ![a].grid = grid], UNCHANGED <<put, server>>
    PROVE  AlumniInv'
<1> DEFINE mine == [copy[a] EXCEPT !.grid = grid]
<1>1. copy[a] \in Pages /\ PageOK(copy[a])
  BY DEF AlumniInv, AlumniTypeOK
<1>2. mine \in Pages /\ PageOK(mine)
  BY <1>1 DEF Pages, PageOK
<1>3. copy' = [copy EXCEPT ![a] = mine]
  BY <1>1 DEF AlumniInv, AlumniTypeOK, Pages
<1> QED
  BY <1>2, <1>3, PageKeeps

LEMMA SetCellKeeps ==
    ASSUME AlumniInv, NEW a \in Administrators, NEW c \in Cells,
           NEW value \in Totals \cup {Blank, Malformed}, SetCell(a, c, value)
    PROVE  AlumniInv'
<1> DEFINE grid == [copy[a].grid EXCEPT ![c] = value]
<1>1. copy[a].grid \in Table /\ value \in Int
  BY AlumniAssumption DEF AlumniInv, AlumniTypeOK, Pages, Blank, Malformed
<1>2. grid \in Table
  BY <1>1 DEF Table
<1>3. copy' = [copy EXCEPT ![a].grid = grid] /\ UNCHANGED <<put, server>>
  BY DEF SetCell
<1> QED
  BY <1>2, <1>3, GridKeeps

LEMMA ImportFileKeeps ==
    ASSUME AlumniInv, NEW a \in Administrators, NEW batch \in Batches,
           NEW column \in [Colleges -> Int], ImportFile(a, batch, column)
    PROVE  AlumniInv'
<1> DEFINE old == copy[a].grid
           grid == [c \in Cells |-> IF c[1] = batch THEN column[c[2]] ELSE old[c]]
<1>1. old \in Table
  BY DEF AlumniInv, AlumniTypeOK, Pages
<1>2. grid \in Table
  BY <1>1 DEF Table, Cells
<1>3. copy' = [copy EXCEPT ![a].grid = grid] /\ UNCHANGED <<put, server>>
  BY DEF ImportFile
<1> QED
  BY <1>2, <1>3, GridKeeps

\* Asking for a confirmation, and leaving it.
LEMMA ConfirmingKeeps ==
    ASSUME AlumniInv, NEW a \in Administrators, NEW asks \in BOOLEAN, copy[a].loaded,
           copy' = [copy EXCEPT ![a].confirming = asks], UNCHANGED <<put, server>>
    PROVE  AlumniInv'
<1> DEFINE mine == [copy[a] EXCEPT !.confirming = asks]
<1>1. copy[a] \in Pages /\ PageOK(copy[a])
  BY DEF AlumniInv, AlumniTypeOK
<1>2. mine \in Pages /\ PageOK(mine)
  BY <1>1 DEF Pages, PageOK
<1>3. copy' = [copy EXCEPT ![a] = mine]
  BY <1>1 DEF AlumniInv, AlumniTypeOK, Pages
<1> QED
  BY <1>2, <1>3, PageKeeps

\* A request that asked about everything the page lets it remove.
LEMMA SentPut ==
    ASSUME AlumniInv, NEW a \in Administrators, copy[a].loaded
    PROVE  LET p == [at |-> "sent", counts |-> copy[a].grid, asked |-> Removed(a), seen |-> copy[a].seen]
           IN  p \in Puts /\ PutOK(p)
<1>1. copy[a] \in Pages /\ PageOK(copy[a])
  BY DEF AlumniInv, AlumniTypeOK
<1>2. Removed(a) \in SUBSET Cells
  BY DEF Removed
<1> QED
  BY <1>1, <1>2 DEF Pages, PageOK, PutOK, Puts, AsksFor, Removed

LEMMA SaveKeeps == ASSUME AlumniInv, NEW a \in Administrators, Save(a) PROVE AlumniInv'
<1>1. copy[a].loaded
  BY DEF Save, Editable
<1>2. CASE Removed(a) # {}
  BY <1>1, <1>2, ConfirmingKeeps DEF Save
<1>3. CASE Removed(a) = {}
  <2> DEFINE p == [at |-> "sent", counts |-> copy[a].grid, asked |-> Removed(a), seen |-> copy[a].seen]
  <2>1. p \in Puts /\ PutOK(p) /\ p.at # "locked"
    BY <1>1, SentPut
  <2>2. put' = [put EXCEPT ![a] = p] /\ UNCHANGED <<stored, version, tableLock, lastSaved, copy>>
    BY <1>3 DEF Save, SendPut, server
  <2>3. tableLock \in Administrators \cup {Nobody}
    BY DEF AlumniInv, AlumniTypeOK
  <2> QED
    BY <2>1, <2>2, <2>3, PutKeeps
<1> QED
  BY <1>2, <1>3

\* The confirmation sends the request and closes: two changes, one after the other.
LEMMA ConfirmKeeps == ASSUME AlumniInv, NEW a \in Administrators, Confirm(a) PROVE AlumniInv'
<1> DEFINE p == [at |-> "sent", counts |-> copy[a].grid, asked |-> Removed(a), seen |-> copy[a].seen]
           mine == [copy[a] EXCEPT !.confirming = FALSE]
<1>1. copy[a] \in Pages /\ PageOK(copy[a]) /\ copy[a].loaded
  BY DEF Confirm, AlumniInv, AlumniTypeOK, PageOK
<1>2. p \in Puts /\ PutOK(p) /\ p.at # "locked"
  BY <1>1, SentPut
<1>3. mine \in Pages /\ PageOK(mine)
  BY <1>1 DEF Pages, PageOK
<1>4. /\ put' = [put EXCEPT ![a] = p] /\ copy' = [copy EXCEPT ![a] = mine]
      /\ UNCHANGED <<stored, version, tableLock, lastSaved>>
  BY <1>1 DEF Confirm, SendPut, server, AlumniInv, AlumniTypeOK, Pages
<1>5. AlumniTypeOK'
  BY <1>2, <1>3, <1>4 DEF AlumniInv, AlumniTypeOK
<1>6. ASSUME NEW b \in Administrators
      PROVE  PageOK(copy[b])' /\ PutOK(put[b])' /\ (put'[b].at = "locked" => tableLock' = b)
  <2>1. put'[b] = (IF b = a THEN p ELSE put[b]) /\ copy'[b] = (IF b = a THEN mine ELSE copy[b])
    BY <1>4 DEF AlumniInv, AlumniTypeOK
  <2>2. PageOK(copy'[b]) /\ PutOK(put'[b]) /\ (put'[b].at = "locked" => tableLock' = b)
    BY <1>2, <1>3, <1>4, <2>1 DEF AlumniInv
  <2> QED
    BY <1>4, <2>2 DEF PageOK, PutOK, AsksFor
<1> QED
  BY <1>4, <1>5, <1>6 DEF AlumniInv, StoredIsLastSave

LEMMA PutAnsweredKeeps == ASSUME AlumniInv, NEW a \in Administrators, PutAnswered(a) PROVE AlumniInv'
<1> DEFINE mine == [copy[a] EXCEPT !.saved = put[a].rows, !.grid = put[a].rows,
                                   !.loaded = TRUE, !.seen = put[a].seen]
<1>1. copy[a] \in Pages /\ put[a] \in Puts /\ PutOK(put[a]) /\ put[a].at = "answered"
  BY DEF PutAnswered, AlumniInv, AlumniTypeOK
<1>2. put[a].rows \in Table /\ put[a].seen \in Nat
  BY <1>1 DEF Puts, NoPut
<1>3. mine \in Pages /\ PageOK(mine)
  BY <1>1, <1>2 DEF Pages, PageOK, PutOK
<1>4. NoPut \in Puts /\ PutOK(NoPut) /\ NoPut.at # "locked"
  BY DEF Puts, PutOK, NoPut
<1>5. /\ put' = [put EXCEPT ![a] = NoPut] /\ copy' = [copy EXCEPT ![a] = mine]
      /\ UNCHANGED <<stored, version, tableLock, lastSaved>>
  BY <1>1 DEF PutAnswered, ApplyRows, server, AlumniInv, AlumniTypeOK, Pages
<1>6. AlumniTypeOK'
  BY <1>3, <1>4, <1>5 DEF AlumniInv, AlumniTypeOK
<1>7. ASSUME NEW b \in Administrators
      PROVE  PageOK(copy[b])' /\ PutOK(put[b])' /\ (put'[b].at = "locked" => tableLock' = b)
  <2>1. put'[b] = (IF b = a THEN NoPut ELSE put[b]) /\ copy'[b] = (IF b = a THEN mine ELSE copy[b])
    BY <1>5 DEF AlumniInv, AlumniTypeOK
  <2>2. PageOK(copy'[b]) /\ PutOK(put'[b]) /\ (put'[b].at = "locked" => tableLock' = b)
    BY <1>3, <1>4, <1>5, <2>1 DEF AlumniInv
  <2> QED
    BY <1>5, <2>2 DEF PageOK, PutOK, AsksFor
<1> QED
  BY <1>5, <1>6, <1>7 DEF AlumniInv, StoredIsLastSave

LEMMA LockTableKeeps == ASSUME AlumniInv, NEW a \in Administrators, LockTable(a) PROVE AlumniInv'
<1> DEFINE p == [at |-> "locked", counts |-> put[a].counts, asked |-> put[a].asked,
                 seen |-> put[a].seen, existing |-> stored]
<1>1. put[a] \in Puts /\ PutOK(put[a]) /\ put[a].at = "sent" /\ stored \in Table
  BY DEF LockTable, AlumniInv, AlumniTypeOK
<1>2. p \in Puts /\ PutOK(p)
  BY <1>1 DEF Puts, NoPut, PutOK, AsksFor
<1>3. /\ put' = [put EXCEPT ![a] = p] /\ tableLock = Nobody /\ tableLock' = a
      /\ UNCHANGED <<stored, version, lastSaved, copy>>
  BY DEF LockTable, LockFree, AlumniInv, AlumniTypeOK
<1> QED
  BY <1>2, <1>3, AlumniAssumption, PutKeeps

\* With the rows read under the lock, the replacement is the saved table.
LEMMA ReplacedWhole ==
    ASSUME AlumniInv, NEW a \in Administrators, put[a].at = "locked"
    PROVE  Replaced(put[a].existing, put[a].counts) = put[a].counts /\ put[a].counts \in Table
<1>1. put[a] \in Puts /\ put[a].existing = stored
  BY DEF AlumniInv, AlumniTypeOK, PutOK
<1>2. put[a].counts \in Table
  BY <1>1 DEF Puts, NoPut
<1> QED
  BY <1>1, <1>2 DEF Replaced, Table

LEMMA CommitTableKeeps == ASSUME AlumniInv, NEW a \in Administrators, CommitTable(a) PROVE AlumniInv'
<1> DEFINE p == [at |-> "done"]
<1>1. put[a].at = "locked" /\ tableLock = a
  BY DEF CommitTable, AlumniInv
<1>2. /\ stored' = put[a].counts /\ lastSaved' = put[a].counts /\ version' = version + 1
      /\ tableLock' = Nobody /\ put' = [put EXCEPT ![a] = p] /\ UNCHANGED copy
  BY <1>1, ReplacedWhole DEF CommitTable
<1>3. AlumniTypeOK'
  BY <1>1, <1>2, ReplacedWhole DEF AlumniInv, AlumniTypeOK, Puts
<1>4. ASSUME NEW b \in Administrators PROVE PageOK(copy[b])'
  <2>1. copy[b] \in Pages /\ copy[b].seen <= version /\ (copy[b].confirming => copy[b].loaded)
    BY DEF AlumniInv, AlumniTypeOK, PageOK
  <2>2. version \in Nat /\ copy[b].seen \in Nat
    BY <2>1 DEF AlumniInv, AlumniTypeOK, Pages
  <2> QED
    BY <1>2, <2>1, <2>2 DEF PageOK
<1>5. ASSUME NEW b \in Administrators PROVE PutOK(put[b])' /\ put'[b].at # "locked"
  <2>1. put'[b] = IF b = a THEN p ELSE put[b]
    BY <1>2 DEF AlumniInv, AlumniTypeOK
  <2>2. b # a => put[b].at # "locked"
    BY <1>1 DEF AlumniInv
  <2>3. put[b].at \in {"sent", "answered"} => put[b].seen \in Nat /\ put[b].seen <= version
    <3>1. put[b] \in Puts /\ PutOK(put[b])
      BY DEF AlumniInv, AlumniTypeOK
    <3> QED
      BY <3>1 DEF Puts, NoPut, PutOK
  <2>4. version \in Nat
    BY DEF AlumniInv, AlumniTypeOK
  <2> QED
    BY <1>2, <2>1, <2>2, <2>3, <2>4 DEF PutOK
<1> QED
  BY <1>2, <1>3, <1>4, <1>5 DEF AlumniInv, StoredIsLastSave

LEMMA ListForAnswerKeeps ==
    ASSUME AlumniInv, NEW a \in Administrators, ListForAnswer(a) PROVE AlumniInv'
<1>1. stored \in Table /\ version \in Nat /\ tableLock \in Administrators \cup {Nobody}
  BY DEF AlumniInv, AlumniTypeOK
<1>2. PICK p \in {[at |-> "answered", rows |-> stored, seen |-> version], NoPut} :
        put' = [put EXCEPT ![a] = p]
  BY DEF ListForAnswer
<1>3. p \in Puts /\ PutOK(p) /\ p.at # "locked"
  BY <1>1 DEF Puts, PutOK, NoPut
<1> QED
  BY <1>1, <1>2, <1>3, PutKeeps DEF ListForAnswer, server

LEMMA SaveFailsKeeps == ASSUME AlumniInv, NEW a \in Administrators, SaveFails(a) PROVE AlumniInv'
<1>1. NoPut \in Puts /\ PutOK(NoPut) /\ NoPut.at # "locked"
  BY DEF Puts, PutOK, NoPut
<1>2. tableLock' \in Administrators \cup {Nobody}
        /\ \A b \in Administrators \ {a} : tableLock = b => tableLock' = b
  BY DEF SaveFails, AlumniInv, AlumniTypeOK
<1> QED
  BY <1>1, <1>2, PutKeeps DEF SaveFails

\* Every step of every page and request keeps the invariant.
THEOREM StepAlumniInv == AlumniInv /\ [AlumniNext]_alumniVars => AlumniInv'
<1> SUFFICES ASSUME AlumniInv, [AlumniNext]_alumniVars PROVE AlumniInv'
  OBVIOUS
<1>1. ASSUME NEW a \in Administrators, NEW b \in Batches, NEW column \in ImportedColumns,
             ImportFile(a, b, column)
      PROVE  AlumniInv'
  <2>1. Totals \cup {Blank} \subseteq Int
    BY AlumniAssumption DEF Blank
  <2>2. column \in [Colleges -> Int]
    BY <2>1 DEF ImportedColumns
  <2> QED
    BY <1>1, <2>2, ImportFileKeeps
<1>2. ASSUME NEW a \in Administrators, NEW b \in Batches, RemoveBatch(a, b) PROVE AlumniInv'
  <2>1. [c \in Colleges |-> Blank] \in [Colleges -> Int]
    BY DEF Blank
  <2> QED
    BY <1>2, <2>1, ImportFileKeeps DEF RemoveBatch
<1>3. ASSUME NEW a \in Administrators, DiscardEdits(a) PROVE AlumniInv'
  <2>1. copy[a].saved \in Table
    BY DEF AlumniInv, AlumniTypeOK, Pages
  <2> QED
    BY <1>3, <2>1, GridKeeps DEF DiscardEdits
<1>4. ASSUME NEW a \in Administrators, CancelConfirm(a) PROVE AlumniInv'
  <2>1. copy[a].loaded
    BY <1>4 DEF CancelConfirm, AlumniInv, PageOK
  <2> QED
    BY <1>4, <2>1, ConfirmingKeeps DEF CancelConfirm
<1>5. ASSUME NEW a \in Administrators,
             Load(a) \/ Save(a) \/ Confirm(a) \/ PutAnswered(a) \/ LockTable(a)
             \/ CommitTable(a) \/ ListForAnswer(a) \/ SaveFails(a)
      PROVE  AlumniInv'
  BY <1>5, LoadKeeps, SaveKeeps, ConfirmKeeps, PutAnsweredKeeps, LockTableKeeps,
     CommitTableKeeps, ListForAnswerKeeps, SaveFailsKeeps
<1>6. CASE UNCHANGED alumniVars
  BY <1>6 DEF alumniVars, AlumniInv, AlumniTypeOK, PageOK, PutOK, AsksFor, StoredIsLastSave
<1> QED
  BY <1>1, <1>2, <1>3, <1>4, <1>5, <1>6, SetCellKeeps DEF AlumniNext

\* However saves interleave, the stored table is one of those saved, whole.
THEOREM SavesAreWhole == AlumniSpec => []StoredIsLastSave
<1>1. AlumniInv => StoredIsLastSave
  BY DEF AlumniInv
<1> QED
  BY <1>1, InitAlumniInv, StepAlumniInv, PTL DEF AlumniSpec

\* Only the commit of its own save takes a request from "locked" to "done".
LEMMA OnlyCommitEndsLocked ==
    ASSUME AlumniInv, AlumniNext, NEW a \in Administrators,
           put[a].at = "locked", put'[a].at = "done"
    PROVE  CommitTable(a)
<1>1. PICK b \in Administrators :
        \/ Load(b)
        \/ \E c \in Cells, value \in Totals \cup {Blank, Malformed} : SetCell(b, c, value)
        \/ \E y \in Batches, column \in ImportedColumns : ImportFile(b, y, column)
        \/ \E y \in Batches : RemoveBatch(b, y)
        \/ DiscardEdits(b) \/ Save(b) \/ Confirm(b) \/ CancelConfirm(b) \/ PutAnswered(b)
        \/ LockTable(b) \/ CommitTable(b) \/ ListForAnswer(b) \/ SaveFails(b)
  BY DEF AlumniNext
<1>2. \A p : put' = [put EXCEPT ![b] = p] => put'[b] = p /\ (b # a => put'[a] = put[a])
  BY DEF AlumniInv, AlumniTypeOK
<1>3. put' # put
  OBVIOUS
<1>4. Save(b) \/ Confirm(b) => put'[b].at = "sent" /\ (b # a => put'[a] = put[a])
  BY <1>2, <1>3 DEF Save, Confirm, SendPut
<1>5. PutAnswered(b) \/ SaveFails(b) => put'[b].at = "none" /\ (b # a => put'[a] = put[a])
  BY <1>2 DEF PutAnswered, SaveFails, NoPut
<1>6. ListForAnswer(b) => put'[b].at \in {"answered", "none"} /\ (b # a => put'[a] = put[a])
  BY <1>2 DEF ListForAnswer, NoPut
<1>7. LockTable(b) => put'[b].at = "locked" /\ (b # a => put'[a] = put[a])
  BY DEF LockTable, AlumniInv, AlumniTypeOK
<1>8. CommitTable(b) => (b # a => put'[a] = put[a])
  BY <1>2 DEF CommitTable
<1> QED
  BY <1>1, <1>3, <1>4, <1>5, <1>6, <1>7, <1>8
     DEF Load, SetCell, ImportFile, RemoveBatch, DiscardEdits, CancelConfirm

\* A save made from the table it replaces deletes only what its page asked about.
THEOREM RemovalsAreAsked == AlumniSpec => RemovalsWereAsked
<1> DEFINE Asked == \A a \in Administrators, c \in Cells :
              put[a].at = "locked" /\ put'[a].at = "done" /\ stored[c] # Blank /\ stored'[c] = Blank
              => c \in put[a].asked \/ put[a].seen < version
<1>1. ASSUME AlumniInv, AlumniNext, NEW a \in Administrators, NEW c \in Cells,
             put[a].at = "locked", put'[a].at = "done", stored[c] # Blank, stored'[c] = Blank
      PROVE  c \in put[a].asked \/ put[a].seen < version
  <2>1. CommitTable(a)
    BY <1>1, OnlyCommitEndsLocked
  <2>2. stored' = put[a].counts
    BY <1>1, <2>1, ReplacedWhole DEF CommitTable
  <2>3. PutOK(put[a]) /\ put[a] \in Puts /\ version \in Nat
    BY <1>1 DEF AlumniInv, AlumniTypeOK
  <2>4. put[a].seen \in Nat
    BY <1>1, <2>3 DEF Puts, NoPut
  <2> QED
    BY <1>1, <2>2, <2>3, <2>4 DEF PutOK, AsksFor
<1>2. AlumniInv /\ [AlumniNext]_alumniVars => [Asked]_alumniVars
  BY <1>1
<1> QED
  BY <1>2, InitAlumniInv, StepAlumniInv, PTL DEF AlumniSpec, RemovalsWereAsked

-----------------------------------------------------------------------------
(* AdminPages                                                              *)

Views == [search : Searches, offset : 0 .. LastOffset]
ListRequests == [number : Nat, view : Views, read : BOOLEAN, data : Nat]
Changes == [id : Nat, view : Views, at : {"sent", "done", "refused"}, data : Nat]

PagesTypeOK ==
    /\ page \in {"users", "roles", "audit"}
    /\ view \in Views
    /\ newest \in [number : Nat, view : Views]
    /\ asked \subseteq ListRequests
    /\ shown \in [number : Nat, view : Views, data : Nat, full : BOOLEAN]
    /\ listFailed \in BOOLEAN
    /\ data \in Nat /\ own \in Nat
    /\ sending \subseteq Changes
    /\ pagesBudget \in [requests : Nat, changes : Nat]

\* The newest request asks for what newest says; once read, it has seen every
\* change of the page's own.  No request and no change is ahead of the server.
AskedInv ==
    /\ own <= data
    /\ \A c \in sending : c.data <= data
    /\ \A request \in asked :
        /\ request.number <= newest.number
        /\ request.number = newest.number =>
              request.view = newest.view /\ (request.read => request.data >= own)

ShownInv == Numbered /\ Settled => shown.view = newest.view /\ shown.data >= own

PagesInv == PagesTypeOK /\ AskedInv /\ ShownInv

LEMMA StartIsView == ASSUME NEW s \in Searches PROVE Start(s) \in Views
  BY PagesAssumption DEF Start, Views

\* Before the first request, nothing is shown and nothing asked.
THEOREM InitPagesInv == PagesInit => PagesInv
<1> SUFFICES ASSUME PagesInit PROVE PagesInv
  OBVIOUS
<1>1. view \in Views
  BY StartIsView, PagesAssumption DEF PagesInit
<1>2. PagesTypeOK
  BY <1>1, PagesAssumption DEF PagesInit, PagesTypeOK
<1> QED
  BY <1>2 DEF PagesInv, PagesInit, AskedInv, ShownInv

\* A new request for the list leaves nothing settled.
LEMMA RefreshKeeps ==
    ASSUME PagesTypeOK, AskedInv, NEW of \in Views, Refresh(of), page' = page, data' = data,
           own' \in Nat, own' <= data, sending' \subseteq sending, view' \in Views,
           pagesBudget' = [pagesBudget EXCEPT !.requests = @ - 1]
    PROVE  PagesInv'
<1> DEFINE n == newest.number + 1
           new == [number |-> n, view |-> of, read |-> FALSE, data |-> 0]
<1>1. /\ n \in Nat /\ new \in ListRequests
      /\ newest' = [number |-> n, view |-> of] /\ asked' = asked \cup {new}
      /\ listFailed' = FALSE /\ shown' = shown
  BY DEF PagesTypeOK, Refresh, ListRequests
<1>2. pagesBudget' \in [requests : Nat, changes : Nat]
  BY DEF PagesTypeOK, Refresh
<1>3. PagesTypeOK'
  BY <1>1, <1>2 DEF PagesTypeOK
<1>4. ASSUME NEW request \in asked'
      PROVE  /\ request.number <= newest'.number
             /\ request.number = newest'.number => request = new
  <2>1. CASE request \in asked
    <3>1. request.number \in Nat /\ newest.number \in Nat /\ request.number <= newest.number
      BY <2>1 DEF PagesTypeOK, AskedInv, ListRequests
    <3> QED
      BY <1>1, <3>1
  <2>2. CASE request = new
    BY <1>1, <2>2
  <2> QED
    BY <1>1, <2>1, <2>2
<1>5. AskedInv'
  BY <1>1, <1>4 DEF AskedInv
<1>6. ~Settled'
  BY <1>1 DEF Settled
<1> QED
  BY <1>3, <1>5, <1>6 DEF PagesInv, ShownInv

\* Steps that leave the list and the changes alone.
LEMMA ListUntouched ==
    ASSUME PagesInv, UNCHANGED <<page, listVars, data, own, sending>>, view' \in Views,
           pagesBudget' \in [requests : Nat, changes : Nat]
    PROVE  PagesInv'
<1>1. PagesTypeOK'
  BY DEF PagesInv, PagesTypeOK, listVars
<1>2. AskedInv' /\ ShownInv'
  BY DEF PagesInv, AskedInv, ShownInv, Settled, Numbered, listVars
<1> QED
  BY <1>1, <1>2 DEF PagesInv

LEMMA ServerListsKeeps == ASSUME PagesInv, ServerLists PROVE PagesInv'
<1>1. PICK request \in asked :
          ~request.read /\ asked' = (asked \ {request}) \cup {[request EXCEPT !.read = TRUE, !.data = data]}
  BY DEF ServerLists
<1> DEFINE answer == [request EXCEPT !.read = TRUE, !.data = data]
<1>2. request \in ListRequests /\ data \in Nat
  BY DEF PagesInv, PagesTypeOK
<1>3. /\ answer \in ListRequests /\ answer.number = request.number /\ answer.view = request.view
      /\ answer.read = TRUE /\ answer.data = data
  BY <1>2 DEF ListRequests
<1> HIDE DEF answer
<1>4. UNCHANGED <<page, view, newest, shown, listFailed, data, own, sending, pagesBudget>>
  BY DEF ServerLists, changeVars
<1>5. PagesTypeOK'
  BY <1>1, <1>3, <1>4 DEF PagesInv, PagesTypeOK, answer
<1>6. AskedInv'
  <2>1. ASSUME NEW q \in asked'
        PROVE  /\ q.number <= newest.number
               /\ q.number = newest.number => q.view = newest.view /\ (q.read => q.data >= own)
    <3>1. CASE q = answer
      BY <1>3, <3>1 DEF PagesInv, PagesTypeOK, AskedInv
    <3>2. CASE q \in asked
      BY <3>2 DEF PagesInv, AskedInv
    <3> QED
      BY <1>1, <3>1, <3>2 DEF answer
  <2> QED
    BY <1>4, <2>1 DEF PagesInv, AskedInv
<1>7. Settled' => Settled
  BY <1>1, <1>3, <1>4 DEF Settled, answer
<1>8. ShownInv'
  BY <1>4, <1>7 DEF PagesInv, ShownInv, Numbered
<1> QED
  BY <1>5, <1>6, <1>8 DEF PagesInv

\* The newest answer is shown, or its failure is; others are dropped.
LEMMA ListArrivesKeeps == ASSUME PagesInv, ListArrives PROVE PagesInv'
<1>1. PICK request \in asked :
          /\ request.read /\ asked' = asked \ {request}
          /\ \/ /\ Accepted(request)
                /\ \E full \in BOOLEAN :
                      shown' = [number |-> request.number, view |-> request.view,
                                data |-> request.data, full |-> full]
                /\ UNCHANGED listFailed
             \/ listFailed' = (listFailed \/ Accepted(request)) /\ UNCHANGED shown
             \/ ~Accepted(request) /\ UNCHANGED <<shown, listFailed>>
  BY DEF ListArrives
<1>2. UNCHANGED <<page, view, newest, data, own, sending, pagesBudget>>
  BY DEF ListArrives, changeVars
<1>3. request \in ListRequests
  BY DEF PagesInv, PagesTypeOK
<1>4. PagesTypeOK'
  <2>1. shown' \in [number : Nat, view : Views, data : Nat, full : BOOLEAN]
    BY <1>1, <1>3 DEF PagesInv, PagesTypeOK, ListRequests
  <2>2. listFailed' \in BOOLEAN
    BY <1>1 DEF PagesInv, PagesTypeOK
  <2> QED
    BY <1>1, <1>2, <2>1, <2>2 DEF PagesInv, PagesTypeOK
<1>5. AskedInv'
  BY <1>1, <1>2 DEF PagesInv, AskedInv
<1>6. ASSUME Numbered', Settled' PROVE shown'.view = newest'.view /\ shown'.data >= own'
  <2>1. Accepted(request) <=> request.number = newest.number
    BY <1>2, <1>6 DEF Accepted, Numbered
  <2>2. CASE Accepted(request)
    <3>1. PICK full \in BOOLEAN : shown' = [number |-> request.number, view |-> request.view,
                                            data |-> request.data, full |-> full]
      BY <1>1, <1>6, <2>2 DEF Settled
    <3> QED
      BY <1>1, <1>2, <2>1, <2>2, <3>1 DEF PagesInv, AskedInv
  <2>3. CASE ~Accepted(request)
    <3>1. Settled /\ shown' = shown
      BY <1>1, <1>2, <1>6, <2>1, <2>3 DEF Settled, PagesInv, PagesTypeOK
    <3> QED
      BY <1>2, <1>6, <3>1 DEF PagesInv, ShownInv, Numbered
  <2> QED
    BY <2>2, <2>3
<1> QED
  BY <1>4, <1>5, <1>6 DEF PagesInv, ShownInv

\* The changes on their way.
LEMMA SendingKeeps ==
    ASSUME PagesInv, UNCHANGED <<page, view, listVars, own>>, data' \in Nat, data' >= data,
           sending' \subseteq Changes, \A c \in sending' : c.data <= data',
           pagesBudget' \in [requests : Nat, changes : Nat]
    PROVE  PagesInv'
<1>1. PagesTypeOK'
  BY DEF PagesInv, PagesTypeOK, listVars
<1>2. own <= data'
  BY DEF PagesInv, PagesTypeOK, AskedInv
<1>3. AskedInv' /\ ShownInv'
  BY <1>2 DEF PagesInv, AskedInv, ShownInv, Settled, Numbered, listVars
<1> QED
  BY <1>1, <1>3 DEF PagesInv

LEMMA SubmitKeeps == ASSUME PagesInv, Submit PROVE PagesInv'
<1> DEFINE new == [id |-> pagesBudget.changes, view |-> view, at |-> "sent", data |-> 0]
<1>1. new \in Changes /\ new.data <= data
  BY DEF PagesInv, PagesTypeOK, Changes
<1>2. sending' = sending \cup {new} /\ data' = data /\ UNCHANGED <<page, view, listVars, own>>
  BY DEF Submit
<1>3. sending' \subseteq Changes /\ \A c \in sending' : c.data <= data'
  BY <1>1, <1>2 DEF PagesInv, PagesTypeOK, AskedInv
<1>4. pagesBudget' \in [requests : Nat, changes : Nat]
  BY DEF Submit, PagesInv, PagesTypeOK
<1>5. data' \in Nat /\ data' >= data
  BY <1>2 DEF PagesInv, PagesTypeOK
<1> QED
  BY <1>2, <1>3, <1>4, <1>5, SendingKeeps

LEMMA ServerChangesKeeps == ASSUME PagesInv, ServerChanges PROVE PagesInv'
<1>1. PICK change, new :
          /\ change \in sending
          /\ sending' = (sending \ {change}) \cup {new}
          /\ \/ new = [change EXCEPT !.at = "done", !.data = data + 1] /\ data' = data + 1
             \/ new = [change EXCEPT !.at = "refused"] /\ data' = data
  BY DEF ServerChanges
<1>2. change \in Changes /\ change.data <= data /\ data \in Nat
  BY <1>1 DEF PagesInv, PagesTypeOK, AskedInv
<1>3. new \in Changes /\ new.data <= data' /\ data' \in Nat /\ data' >= data
  <2>1. CASE new = [change EXCEPT !.at = "done", !.data = data + 1] /\ data' = data + 1
    <3>1. data + 1 \in Nat
      BY <1>2
    <3>2. new.data = data + 1 /\ new \in Changes
      BY <1>2, <2>1, <3>1 DEF Changes
    <3> QED
      BY <1>2, <2>1, <3>2
  <2>2. CASE new = [change EXCEPT !.at = "refused"] /\ data' = data
    <3>1. new.data = change.data /\ new \in Changes
      BY <1>2, <2>2 DEF Changes
    <3> QED
      BY <1>2, <2>2, <3>1
  <2> QED
    BY <1>1, <2>1, <2>2
<1>4. ASSUME NEW c \in sending PROVE c \in Changes /\ c.data <= data'
  BY <1>2, <1>3 DEF PagesInv, PagesTypeOK, AskedInv, Changes
<1>5. sending' \subseteq Changes /\ \A c \in sending' : c.data <= data'
  BY <1>1, <1>3, <1>4
<1>6. UNCHANGED <<page, view, listVars, own, pagesBudget>>
  BY DEF ServerChanges
<1> QED
  BY <1>3, <1>5, <1>6, SendingKeeps DEF PagesInv, PagesTypeOK

LEMMA ChangeAcceptedKeeps == ASSUME PagesInv, ChangeAccepted PROVE PagesInv'
<1>1. PICK change \in sending :
          /\ sending' = sending \ {change}
          /\ own' = IF change.data > own THEN change.data ELSE own
          /\ Refresh(change.view)
  BY DEF ChangeAccepted, ListAgain
<1>2. change \in Changes /\ change.data <= data
  BY DEF PagesInv, PagesTypeOK, AskedInv
<1>3. change.view \in Views /\ own' \in Nat /\ own' <= data
  BY <1>1, <1>2 DEF PagesInv, PagesTypeOK, AskedInv, Changes
<1>4. /\ page' = page /\ data' = data /\ view' = view
      /\ pagesBudget' = [pagesBudget EXCEPT !.requests = @ - 1]
  BY DEF ChangeAccepted
<1> QED
  BY <1>1, <1>3, <1>4, RefreshKeeps DEF PagesInv, PagesTypeOK

\* Every request, answer and change of an administration page keeps PagesInv.
THEOREM StepPagesInv == PagesInv /\ [PagesNext]_pagesVars => PagesInv'
<1> SUFFICES ASSUME PagesInv, [PagesNext]_pagesVars PROVE PagesInv'
  OBVIOUS
<1>0. view \in Views /\ pagesBudget \in [requests : Nat, changes : Nat]
  BY DEF PagesInv, PagesTypeOK
<1>1. CASE TimerFires
  BY <1>0, <1>1, RefreshKeeps DEF TimerFires, changeVars, PagesInv, PagesTypeOK, AskedInv
<1>2. ASSUME NEW s \in Searches, ChangeFilters(s) PROVE PagesInv'
  BY <1>0, <1>2, ListUntouched, StartIsView DEF ChangeFilters, changeVars
<1>3. ASSUME NEW offset \in 0 .. LastOffset, TurnPage(offset) PROVE PagesInv'
  <2>1. view' \in Views
    BY <1>0, <1>3 DEF TurnPage, Views
  <2> QED
    BY <1>0, <1>3, <2>1, ListUntouched DEF TurnPage, changeVars
<1>4. ASSUME NEW offset \in 0 .. LastOffset, AskForPage(offset) PROVE PagesInv'
  <2>1. AuditRequest(offset) \in Views
    BY <1>0 DEF AuditRequest, Views
  <2> QED
    BY <1>0, <1>4, <2>1, RefreshKeeps DEF AskForPage, changeVars, PagesInv, PagesTypeOK, AskedInv
<1>5. CASE RequestUpdate \/ CloseDialog \/ DetailArrives \/ CloseDetail \/ UNCHANGED pagesVars
           \/ \E kind \in {UserForm, UserConfirmation, RoleForm} : OpenDialog(kind)
  <2>1. UNCHANGED <<page, view, listVars, data, own, sending, pagesBudget>>
    BY <1>5 DEF RequestUpdate, CloseDialog, DetailArrives, CloseDetail, pagesVars, OpenDialog,
                changeVars, listVars
  <2> QED
    BY <1>0, <2>1, ListUntouched
<1>6. ASSUME NEW row \in Rows, OpenDetail(row) PROVE PagesInv'
  <2>1. pagesBudget' \in [requests : Nat, changes : Nat]
    BY <1>0, <1>6 DEF OpenDetail
  <2> QED
    BY <1>0, <1>6, <2>1, ListUntouched DEF OpenDetail, changeVars
<1>7. CASE ChangeRefused
  <2>1. sending' \subseteq sending /\ UNCHANGED <<page, view, listVars, data, own, pagesBudget>>
    BY <1>7 DEF ChangeRefused
  <2> QED
    BY <1>0, <2>1, SendingKeeps DEF PagesInv, PagesTypeOK, AskedInv
<1> QED
  BY <1>1, <1>2, <1>3, <1>4, <1>5, <1>6, <1>7, ServerListsKeeps, ListArrivesKeeps, SubmitKeeps,
     ServerChangesKeeps, ChangeAcceptedKeeps DEF PagesNext

\* However late older answers come, the users and audit pages settle on what
\* they asked for last.
THEOREM NewestListWins == PagesSpec => []ListIsNewest
<1>1. PagesInv => ListIsNewest
  BY DEF PagesInv, ShownInv, ListIsNewest
<1> QED
  BY <1>1, InitPagesInv, StepPagesInv, PTL DEF PagesSpec

\* A settled list shows every change the page has made.
THEOREM OwnChangesAreListed == PagesSpec => []OwnChangesShown
<1>1. PagesInv => OwnChangesShown
  BY DEF PagesInv, ShownInv, OwnChangesShown
<1> QED
  BY <1>1, InitPagesInv, StepPagesInv, PTL DEF PagesSpec

-----------------------------------------------------------------------------
(* PortalAccess.  One password change for each reset link, for any number  *)
(* of browsers, requests in flight, sessions and factors: a request only   *)
(* reaches the change by marking its grant used, so no two are there with  *)
(* one grant, and none with a grant that changed the password before.      *)
(* From that: a reset that is confirmed changed the password and left no   *)
(* older session.                                                          *)

\* A request has its fields, whatever is in them.
RequestsOf(A) == [kind : A, browser : A, session : A, level : A, grant : A, factor : A,
                  at : A, todo : A, confirmed : A]
IsRequest(x) == \E A : x \in RequestsOf(A)

OpInv == op = [r \in Requests |-> op[r]] /\ \A r \in Requests : IsRequest(op[r])
ChangedInv ==
    /\ changed = [g \in Sessions |-> changed[g]]
    /\ \A g \in Sessions : changed[g] = {} \/ \E p : changed[g] = {p}
    /\ \A g \in Sessions \ used : changed[g] = {}
\* Who may change the password has used up a grant nobody else did.
ChangingInv ==
    \A r \in Requests : op[r].at = "change" =>
        /\ op[r].grant \in used
        /\ op[r].grant \in Sessions => changed[op[r].grant] = {}
        /\ \A q \in Requests \ {r} : op[q].at = "change" => op[q].grant # op[r].grant

GrantInv == OpInv /\ ChangedInv /\ ChangingInv

-------------------------------------------------------------------------------
\* An idle place has the fields of a request.
LEMMA IdleIsRequest == IsRequest(Idle) /\ Idle.at = "idle"
<1> DEFINE A == {"idle", "none", NoSession, "aal1", NoFactor, {}, FALSE}
<1>1. Idle \in RequestsOf(A) /\ Idle.at = "idle"
  BY DEF Idle, RequestsOf
<1> QED
  BY <1>1 DEF IsRequest

\* The initial states satisfy the invariant.
THEOREM InitGrantInv == PortalInit => GrantInv
<1> SUFFICES ASSUME PortalInit PROVE GrantInv
  OBVIOUS
<1>1. op = [r \in Requests |-> Idle] /\ changed = [g \in Sessions |-> {}]
  BY DEF PortalInit
<1>2. OpInv /\ \A r \in Requests : op[r].at # "change"
  BY <1>1, IdleIsRequest DEF OpInv
<1>3. ChangedInv
  BY <1>1 DEF ChangedInv
<1> QED
  BY <1>2, <1>3 DEF GrantInv, ChangingInv

\* At most one change is what the invariant says of a grant.
LEMMA AtMostOne == ChangedInv => OneChangePerGrant
<1> SUFFICES ASSUME ChangedInv, NEW g \in Sessions PROVE Cardinality(changed[g]) <= 1
  BY DEF OneChangePerGrant
<1>1. CASE changed[g] = {}
  BY <1>1, FS_EmptySet
<1>2. CASE \E p : changed[g] = {p}
  <2>1. PICK p : changed[g] = {p}
    BY <1>2
  <2>2. Cardinality({p}) = 1
    BY FS_Singleton
  <2> QED
    BY <2>1, <2>2
<1> QED
  BY <1>1, <1>2 DEF ChangedInv

\* A step that leaves the grants, and takes no request to the change.
LEMMA Elsewhere ==
    ASSUME GrantInv, UNCHANGED <<used, changed>>, NEW r \in Requests, NEW x, IsRequest(x),
           x.at # "change", op' = [op EXCEPT ![r] = x]
    PROVE  GrantInv'
<1>1. \A q \in Requests : op'[q] = IF q = r THEN x ELSE op[q]
  BY DEF GrantInv, OpInv
<1>2. OpInv'
  BY <1>1 DEF GrantInv, OpInv
<1>3. ChangedInv'
  BY DEF GrantInv, ChangedInv
<1>4. ChangingInv'
  BY <1>1 DEF GrantInv, ChangingInv
<1> QED
  BY <1>2, <1>3, <1>4 DEF GrantInv

LEMMA SameRequests == ASSUME GrantInv, UNCHANGED <<used, changed, op>> PROVE GrantInv'
  BY DEF GrantInv, OpInv, ChangedInv, ChangingInv

LEMMA FromIsRequest ==
    ASSUME NEW kind, NEW b, NEW f, NEW at
    PROVE  IsRequest(From(kind, b, f, at)) /\ From(kind, b, f, at).at = at
<1>1. PICK A : Idle \in RequestsOf(A)
  BY IdleIsRequest DEF IsRequest
<1> DEFINE B == A \cup {kind, b, jar[b].session, jar[b].level, jar[b].grant, f, at}
<1>2. From(kind, b, f, at) \in RequestsOf(B) /\ From(kind, b, f, at).at = at
  BY <1>1 DEF From, RequestsOf
<1> QED
  BY <1>2 DEF IsRequest

\* Sending a request, and moving one on, are steps elsewhere.
LEMMA SendKeeps ==
    ASSUME GrantInv, NEW r \in Requests, NEW x, Send(r, x), IsRequest(x), x.at # "change",
           UNCHANGED <<used, changed>>
    PROVE  GrantInv'
  BY Elsewhere DEF Send

LEMMA ReturnKeeps ==
    ASSUME GrantInv, NEW r \in Requests, Return(r), UNCHANGED <<used, changed>> PROVE GrantInv'
  BY Elsewhere, IdleIsRequest DEF Return

LEMMA GoKeeps ==
    ASSUME GrantInv, NEW r \in Requests, NEW at, at # "change", Go(r, at), UNCHANGED <<used, changed>>
    PROVE  GrantInv'
<1> DEFINE x == [op[r] EXCEPT !.at = at]
<1>1. PICK A : op[r] \in RequestsOf(A)
  BY DEF GrantInv, OpInv, IsRequest
<1>2. x \in RequestsOf(A \cup {at}) /\ x.at = at
  BY <1>1 DEF RequestsOf
<1>3. op' = [op EXCEPT ![r] = x]
  BY DEF Go
<1> HIDE DEF x
<1> QED
  BY <1>2, <1>3, Elsewhere DEF IsRequest

LEMMA AskKeeps ==
    ASSUME GrantInv, NEW r \in Requests, NEW b \in Browsers,
           SignIn(r, b) \/ AskSignOut(r, b) \/ OpenLink(r, b) \/ AskReset(r, b)
           \/ AskEnroll(r, b) \/ AskCancel(r, b) \/ AskVerify(r, b) \/ AskRemove(r, b)
           \/ AskEverywhere(r, b) \/ AskChallenge(r, b)
    PROVE  GrantInv'
<1>1. CASE SignIn(r, b)
  <2>1. PICK s \in NewSession : Send(r, [From("signin", b, NoFactor, "assure") EXCEPT !.session = s, !.level = "aal1"])
    BY <1>1 DEF SignIn
  <2> DEFINE from == From("signin", b, NoFactor, "assure")
             x == [from EXCEPT !.session = s, !.level = "aal1"]
  <2>2. PICK A : from \in RequestsOf(A) /\ from.at = "assure"
    BY FromIsRequest DEF IsRequest
  <2>3. x \in RequestsOf(A \cup {s, "aal1"}) /\ x.at = "assure"
    BY <2>2 DEF RequestsOf
  <2>4. UNCHANGED <<used, changed>>
    BY <1>1 DEF SignIn, grants
  <2>5. Send(r, x)
    BY <2>1
  <2> HIDE DEF x
  <2> QED
    BY <2>3, <2>4, <2>5, SendKeeps DEF IsRequest
<1>2. CASE OpenLink(r, b)
  <2>1. PICK s \in NewSession : Send(r, [From("confirm", b, NoFactor, "claims") EXCEPT !.session = s])
    BY <1>2 DEF OpenLink
  <2> DEFINE from == From("confirm", b, NoFactor, "claims")
             x == [from EXCEPT !.session = s]
  <2>2. PICK A : from \in RequestsOf(A) /\ from.at = "claims"
    BY FromIsRequest DEF IsRequest
  <2>3. x \in RequestsOf(A \cup {s}) /\ x.at = "claims"
    BY <2>2 DEF RequestsOf
  <2>4. UNCHANGED <<used, changed>>
    BY <1>2 DEF OpenLink, grants
  <2>5. Send(r, x)
    BY <2>1
  <2> HIDE DEF x
  <2> QED
    BY <2>3, <2>4, <2>5, SendKeeps DEF IsRequest
<1>3. CASE AskSignOut(r, b) \/ AskReset(r, b) \/ AskChallenge(r, b)
  BY <1>3, FromIsRequest, SendKeeps DEF AskSignOut, AskReset, AskChallenge, grants
<1>4. ASSUME NEW kind, NEW f, AskPortal(r, b, kind, f) PROVE GrantInv'
  BY <1>4, FromIsRequest, SendKeeps DEF AskPortal, grants
<1> QED
  BY <1>1, <1>2, <1>3, <1>4 DEF AskEnroll, AskCancel, AskVerify, AskRemove, AskEverywhere

\* Steps that end a request, or take it to another place than the change.
LEMMA EndKeeps ==
    ASSUME GrantInv, NEW r \in Requests,
           SignedIn(r) \/ SignInUndone(r) \/ GrantIssued(r) \/ ConfirmationFails(r) \/ Read(r)
           \/ Answered(r) \/ Fails(r) \/ \E ok \in BOOLEAN : SignOutHere(r, ok)
    PROVE  GrantInv'
<1>1. Return(r) /\ UNCHANGED <<used, changed>>
  BY DEF SignedIn, SignInUndone, GrantIssued, ConfirmationFails, Read, Answered, Fails,
         SignOutHere, grants
<1> QED
  BY <1>1, ReturnKeeps

LEMMA MoveKeeps ==
    ASSUME GrantInv, NEW r \in Requests,
           EndEverywhere(r) \/ LogoutLost(r) \/ ResetFails(r) \/ AdmitRequest(r) \/ FindSetup(r)
           \/ Remove(r)
    PROVE  GrantInv'
<1>1. UNCHANGED <<used, changed>>
  BY DEF EndEverywhere, LogoutLost, ResetFails, AdmitRequest, FindSetup, Remove, grants
<1>2. \E at \in {"local", "cleanup", "list", "logout", "call", "refresh"} : Go(r, at)
  BY DEF EndEverywhere, LogoutLost, ResetFails, AdmitRequest, FindSetup, Remove, FirstCall
<1> QED
  BY <1>1, <1>2, GoKeeps

\* Steps that set other fields on the way.
LEMMA FieldsKeep ==
    ASSUME GrantInv, NEW r \in Requests,
           RecordChange(r) \/ ListUnfinished(r) \/ Discard(r) \/ Enroll(r) \/ CancelSetup(r)
           \/ VerifyCode(r) \/ RefreshAfterRemoval(r)
           \/ (\E ok \in BOOLEAN : CleanUp(r, ok))
           \/ \E done, heard \in BOOLEAN : EndAfterReset(r, done, heard)
    PROVE  GrantInv'
<1>1. UNCHANGED <<used, changed>>
  BY DEF RecordChange, ListUnfinished, Discard, Enroll, CancelSetup, VerifyCode,
         RefreshAfterRemoval, CleanUp, EndAfterReset, grants
<1>2. PICK A : op[r] \in RequestsOf(A)
  BY DEF GrantInv, OpInv, IsRequest
<1>3. CASE RecordChange(r)
  <2> DEFINE x == [op[r] EXCEPT !.at = "cleanup", !.confirmed = TRUE]
  <2>1. x \in RequestsOf(A \cup {"cleanup", TRUE}) /\ x.at = "cleanup"
    BY <1>2 DEF RequestsOf
  <2>2. op' = [op EXCEPT ![r] = x]
    BY <1>3 DEF RecordChange
  <2> HIDE DEF x
  <2> QED
    BY <1>1, <2>1, <2>2, Elsewhere DEF IsRequest
<1>4. CASE ListUnfinished(r)
  <2> DEFINE x == [op[r] EXCEPT !.at = "discard", !.todo = Unverified]
  <2>1. x \in RequestsOf(A \cup {"discard", Unverified}) /\ x.at = "discard"
    BY <1>2 DEF RequestsOf
  <2>2. op' = [op EXCEPT ![r] = x]
    BY <1>4 DEF ListUnfinished
  <2> HIDE DEF x
  <2> QED
    BY <1>1, <2>1, <2>2, Elsewhere DEF IsRequest
<1>5. CASE Discard(r)
  <2>0. PICK f \in op[r].todo : op' = [op EXCEPT ![r] = [op[r] EXCEPT !.todo = op[r].todo \ {f}]] /\ op[r].at = "discard"
    BY <1>5 DEF Discard, At
  <2> DEFINE x == [op[r] EXCEPT !.todo = op[r].todo \ {f}]
  <2>1. x \in RequestsOf(A \cup {op[r].todo \ {f}}) /\ x.at = "discard"
    BY <1>2, <2>0 DEF RequestsOf
  <2>2. op' = [op EXCEPT ![r] = x]
    BY <2>0
  <2> HIDE DEF x
  <2> QED
    BY <1>1, <2>1, <2>2, Elsewhere DEF IsRequest
<1>6. CASE Enroll(r)
  <2>0. PICK f \in NewFactor : op' = [op EXCEPT ![r] = [op[r] EXCEPT !.at = "done", !.factor = f]]
    BY <1>6 DEF Enroll
  <2> DEFINE x == [op[r] EXCEPT !.at = "done", !.factor = f]
  <2>1. x \in RequestsOf(A \cup {"done", f}) /\ x.at = "done"
    BY <1>2 DEF RequestsOf
  <2>2. op' = [op EXCEPT ![r] = x]
    BY <2>0
  <2> HIDE DEF x
  <2> QED
    BY <1>1, <2>1, <2>2, Elsewhere DEF IsRequest
<1>7. CASE CancelSetup(r)
  <2> DEFINE x == [op[r] EXCEPT !.at = "done", !.factor = NoFactor]
  <2>1. x \in RequestsOf(A \cup {"done", NoFactor}) /\ x.at = "done"
    BY <1>2 DEF RequestsOf
  <2>2. op' = [op EXCEPT ![r] = x]
    BY <1>7 DEF CancelSetup
  <2> HIDE DEF x
  <2> QED
    BY <1>1, <2>1, <2>2, Elsewhere DEF IsRequest
<1>8. CASE VerifyCode(r)
  <2> DEFINE x == [op[r] EXCEPT !.at = "done", !.level = "aal2", !.factor = NoFactor]
  <2>1. x \in RequestsOf(A \cup {"done", "aal2", NoFactor}) /\ x.at = "done"
    BY <1>2 DEF RequestsOf
  <2>2. op' = [op EXCEPT ![r] = x]
    BY <1>8 DEF VerifyCode
  <2> HIDE DEF x
  <2> QED
    BY <1>1, <2>1, <2>2, Elsewhere DEF IsRequest
<1>9. CASE RefreshAfterRemoval(r)
  <2> DEFINE x == [op[r] EXCEPT !.at = "done", !.level = sessions[op[r].session], !.factor = setup[op[r].browser]]
  <2>1. x \in RequestsOf(A \cup {"done", sessions[op[r].session], setup[op[r].browser]}) /\ x.at = "done"
    BY <1>2 DEF RequestsOf
  <2>2. op' = [op EXCEPT ![r] = x]
    BY <1>9 DEF RefreshAfterRemoval
  <2> HIDE DEF x
  <2> QED
    BY <1>1, <2>1, <2>2, Elsewhere DEF IsRequest
<1>10. CASE \E ok \in BOOLEAN : CleanUp(r, ok)
  <2>0. PICK ok \in BOOLEAN : op' = [op EXCEPT ![r] = [op[r] EXCEPT !.at = "told", !.confirmed = (op[r].confirmed /\ ok)]]
    BY <1>10 DEF CleanUp
  <2> DEFINE x == [op[r] EXCEPT !.at = "told", !.confirmed = (op[r].confirmed /\ ok)]
  <2>1. x \in RequestsOf(A \cup {"told", (op[r].confirmed /\ ok)}) /\ x.at = "told"
    BY <1>2 DEF RequestsOf
  <2>2. op' = [op EXCEPT ![r] = x]
    BY <2>0
  <2> HIDE DEF x
  <2> QED
    BY <1>1, <2>1, <2>2, Elsewhere DEF IsRequest
<1>11. CASE \E done, heard \in BOOLEAN : EndAfterReset(r, done, heard)
  <2>0. PICK heard \in BOOLEAN : op' = [op EXCEPT ![r] = [op[r] EXCEPT !.at = AfterLogout(heard)]]
    BY <1>11 DEF EndAfterReset
  <2> DEFINE x == [op[r] EXCEPT !.at = AfterLogout(heard)]
  <2>1. x \in RequestsOf(A \cup {AfterLogout(heard)}) /\ x.at = AfterLogout(heard)
    BY <1>2 DEF RequestsOf
  <2>2. op' = [op EXCEPT ![r] = x]
    BY <2>0
  <2> HIDE DEF x
  <2> QED
    BY <1>1, <2>1, <2>2, Elsewhere DEF IsRequest, AfterLogout
<1> QED
  BY <1>3, <1>4, <1>5, <1>6, <1>7, <1>8, <1>9, <1>10, <1>11

\* A grant that was not used has changed nothing, and nobody is there with it.
LEMMA ConsumeGrantKeeps == ASSUME GrantInv, NEW r \in Requests, ConsumeGrant(r) PROVE GrantInv'
<1> DEFINE g == op[r].grant
           x == [op[r] EXCEPT !.at = "change"]
<1>1. g \notin used /\ used' = used \cup {g} /\ UNCHANGED changed /\ op' = [op EXCEPT ![r] = x]
  BY DEF ConsumeGrant, Fresh, Go
<1>2. PICK A : op[r] \in RequestsOf(A)
  BY DEF GrantInv, OpInv, IsRequest
<1>3. IsRequest(x) /\ x.grant = g
  <2>1. x \in RequestsOf(A \cup {"change"}) /\ x.grant = g
    BY <1>2 DEF RequestsOf
  <2> HIDE DEF x
  <2> QED
    BY <2>1 DEF IsRequest
<1> HIDE DEF x
<1>4. \A q \in Requests : op'[q] = IF q = r THEN x ELSE op[q]
  BY <1>1 DEF GrantInv, OpInv
<1>5. OpInv'
  BY <1>1, <1>3, <1>4 DEF GrantInv, OpInv
<1>6. ChangedInv'
  BY <1>1 DEF GrantInv, ChangedInv
<1>7. ChangingInv'
  BY <1>1, <1>3, <1>4 DEF GrantInv, ChangedInv, ChangingInv
<1> QED
  BY <1>5, <1>6, <1>7 DEF GrantInv

LEMMA ChangePasswordKeeps ==
    ASSUME GrantInv, NEW r \in Requests, NEW heard \in BOOLEAN, ChangePassword(r, heard)
    PROVE  GrantInv'
<1> DEFINE g == op[r].grant
           at == IF heard THEN "logout" ELSE "cleanup"
           x == [op[r] EXCEPT !.at = at]
<1>1. /\ op[r].at = "change" /\ changed' = [changed EXCEPT ![g] = @ \cup {password + 1}]
      /\ op' = [op EXCEPT ![r] = x] /\ UNCHANGED used
  BY DEF ChangePassword, At, Go
<1>2. g \in used
  BY <1>1 DEF GrantInv, ChangingInv
<1>3. IsRequest(x) /\ x.at # "change"
  <2>1. PICK A : op[r] \in RequestsOf(A)
    BY DEF GrantInv, OpInv, IsRequest
  <2>2. x \in RequestsOf(A \cup {at}) /\ x.at # "change"
    BY <2>1 DEF RequestsOf
  <2> HIDE DEF x
  <2> QED
    BY <2>2 DEF IsRequest
<1> HIDE DEF x
<1>4. \A q \in Requests : op'[q] = IF q = r THEN x ELSE op[q]
  BY <1>1 DEF GrantInv, OpInv
<1>5. \A h \in Sessions : changed'[h] = IF h = g THEN {password + 1} ELSE changed[h]
  BY <1>1 DEF GrantInv, ChangedInv, ChangingInv
<1>6. OpInv'
  BY <1>1, <1>3, <1>4 DEF GrantInv, OpInv
<1>7. ChangedInv'
  <2>1. changed' = [h \in Sessions |-> changed'[h]]
    BY <1>1 DEF GrantInv, ChangedInv
  <2>2. \A h \in Sessions \ used' : changed'[h] = {}
    BY <1>1, <1>2, <1>5 DEF GrantInv, ChangedInv
  <2>3. ASSUME NEW h \in Sessions PROVE changed'[h] = {} \/ \E p : changed'[h] = {p}
    BY <1>5 DEF GrantInv, ChangedInv
  <2> QED
    BY <2>1, <2>2, <2>3 DEF ChangedInv
<1>8. ChangingInv'
  BY <1>1, <1>3, <1>4, <1>5 DEF GrantInv, ChangingInv
<1> QED
  BY <1>6, <1>7, <1>8 DEF GrantInv

\* Every step of every request keeps the invariant.
THEOREM StepGrantInv == GrantInv /\ [PortalNext]_portalVars => GrantInv'
<1> SUFFICES ASSUME GrantInv, [PortalNext]_portalVars PROVE GrantInv'
  OBVIOUS
<1>1. CASE RequestLink \/ (\E s \in Sessions : GrantExpires(s))
           \/ (\E b \in Browsers : RefreshTokens(b) \/ LeaveSettings(b))
           \/ UNCHANGED portalVars
  <2>1. UNCHANGED <<used, changed, op>>
    BY <1>1 DEF RequestLink, GrantExpires, RefreshTokens, LeaveSettings, grants, portalVars
  <2> QED
    BY <2>1, SameRequests
<1> QED
  BY <1>1, AskKeeps, EndKeeps, MoveKeeps, FieldsKeep, ConsumeGrantKeeps, ChangePasswordKeeps
     DEF PortalNext

\* A reset link changes the password at most once.
THEOREM ResetLinksAreSingleUse == PortalSpec => []OneChangePerGrant
<1>1. GrantInv => OneChangePerGrant
  BY AtMostOne DEF GrantInv
<1> QED
  BY <1>1, InitGrantInv, StepGrantInv, PTL DEF PortalSpec

-----------------------------------------------------------------------------
(* Whoever reads that the password was reset is rid of the old sessions.   *)

\* The sessions from before the password changed with grant g have ended.
OldEnded(g) == \A s \in Sessions, p \in changed[g] : born[s] < p => ~Live(s)

SessionsInv ==
    /\ sessions = [s \in Sessions |-> sessions[s]]
    /\ born = [s \in Sessions |-> born[s]]
    /\ password \in Nat
    /\ \A g \in Sessions : \A p \in changed[g] : p \in Nat /\ p <= password

\* A reset past the change has changed the password; past the sign-out of
\* the other sessions, and when it is confirmed, these have ended.
ResetProgress(x) ==
    /\ x.confirmed \in BOOLEAN
    /\ x.at = "change" => x.grant = x.session
    /\ (x.kind = "reset" /\ x.at \in {"logout", "audit"}) \/ x.confirmed =>
          x.grant \in Sessions /\ changed[x.grant] # {}
    /\ (x.kind = "reset" /\ x.at = "audit") \/ x.confirmed => OldEnded(x.grant)

ProgressInv == \A r \in Requests : ResetProgress(op[r])
ResetInv == GrantInv /\ SessionsInv /\ ProgressInv

LEMMA InitResetInv == PortalInit => ResetInv
<1> SUFFICES ASSUME PortalInit PROVE ResetInv
  OBVIOUS
<1>1. GrantInv
  BY InitGrantInv
<1>2. SessionsInv
  BY DEF PortalInit, SessionsInv
<1>3. ProgressInv
  BY DEF PortalInit, ProgressInv, ResetProgress, Idle
<1> QED
  BY <1>1, <1>2, <1>3 DEF ResetInv

\* A session that lives after a step lived before it, or was just issued.
NoRevival ==
    \A s \in Sessions : Live(s)' => (Live(s) /\ born'[s] = born[s]) \/ born'[s] = password

LEMMA SameSessions ==
    ASSUME SessionsInv, UNCHANGED <<sessions, born>> PROVE NoRevival
  BY DEF SessionsInv, NoRevival, Live

LEMMA EndingRevivesNone ==
    ASSUME SessionsInv, NEW S, sessions' = Ended(S), born' = born PROVE NoRevival
  BY DEF SessionsInv, NoRevival, Live, Ended

LEMMA ElevatingRevivesNone ==
    ASSUME SessionsInv, NEW s, NEW f, Live(s), sessions' = ElevatedBy(s, f), born' = born
    PROVE  NoRevival
<1> SUFFICES ASSUME NEW x \in Sessions, Live(x)' PROVE Live(x)
  BY DEF SessionsInv, NoRevival
<1>1. CASE x = s
  BY <1>1
<1>2. CASE x # s
  <2>1. sessions'[x] = "ended" \/ sessions'[x] = sessions[x]
    BY <1>2 DEF ElevatedBy
  <2> QED
    BY <2>1 DEF Live
<1> QED
  BY <1>1, <1>2

LEMMA RemovalRevivesNone ==
    ASSUME SessionsInv, NEW f, sessions' = AfterRemoval(f), born' = born PROVE NoRevival
  BY DEF SessionsInv, NoRevival, Live, AfterRemoval

LEMMA IssuingRevivesNone ==
    ASSUME SessionsInv, NEW s \in Sessions, Issue(s) PROVE NoRevival
  BY DEF SessionsInv, NoRevival, Live, Issue

\* No step revives a session.
LEMMA StepRevivesNone ==
    ASSUME SessionsInv, [PortalNext]_portalVars PROVE NoRevival
<1>1. CASE RequestLink \/ (\E s \in Sessions : GrantExpires(s))
           \/ (\E b \in Browsers : RefreshTokens(b) \/ LeaveSettings(b))
           \/ UNCHANGED portalVars
  BY <1>1, SameSessions
     DEF RequestLink, GrantExpires, RefreshTokens, LeaveSettings, account, portalVars
<1>2. ASSUME NEW r \in Requests, NEW b \in Browsers, SignIn(r, b) \/ OpenLink(r, b)
      PROVE  NoRevival
  <2>1. PICK s \in Sessions : Issue(s)
    BY <1>2 DEF SignIn, OpenLink, NewSession
  <2> QED
    BY <2>1, IssuingRevivesNone
<1>3. ASSUME NEW r \in Requests, NEW b \in Browsers,
             AskSignOut(r, b) \/ AskReset(r, b) \/ AskEnroll(r, b) \/ AskCancel(r, b)
             \/ AskVerify(r, b) \/ AskRemove(r, b) \/ AskEverywhere(r, b) \/ AskChallenge(r, b)
      PROVE  NoRevival
  <2>1. UNCHANGED account
    BY <1>3 DEF AskSignOut, AskReset, AskEnroll, AskCancel, AskVerify, AskRemove,
                AskEverywhere, AskChallenge, AskPortal
  <2> QED
    BY <2>1, SameSessions DEF account
<1>4. ASSUME NEW r \in Requests,
             SignedIn(r) \/ LogoutLost(r) \/ GrantIssued(r) \/ ConsumeGrant(r) \/ RecordChange(r)
             \/ ResetFails(r) \/ Read(r) \/ AdmitRequest(r) \/ ListUnfinished(r) \/ Enroll(r)
             \/ FindSetup(r) \/ RefreshAfterRemoval(r) \/ Answered(r) \/ Fails(r)
             \/ \E heard \in BOOLEAN : ChangePassword(r, heard)
      PROVE  NoRevival
  <2>1. UNCHANGED <<sessions, born>>
    BY <1>4 DEF SignedIn, LogoutLost, GrantIssued, ConsumeGrant, RecordChange, ResetFails, Read,
                AdmitRequest, ListUnfinished, Enroll, FindSetup, RefreshAfterRemoval, Answered,
                Fails, ChangePassword, account
  <2> QED
    BY <2>1, SameSessions
<1>5. ASSUME NEW r \in Requests,
             SignInUndone(r) \/ EndEverywhere(r) \/ ConfirmationFails(r)
             \/ (\E ok \in BOOLEAN : SignOutHere(r, ok) \/ CleanUp(r, ok))
             \/ \E done, heard \in BOOLEAN : EndAfterReset(r, done, heard)
      PROVE  NoRevival
  <2>1. born' = born /\ (sessions' = sessions \/ \E S : sessions' = Ended(S))
    BY <1>5 DEF SignInUndone, EndEverywhere, ConfirmationFails, SignOutHere, CleanUp, EndAfterReset
  <2> QED
    BY <2>1, SameSessions, EndingRevivesNone
<1>6. ASSUME NEW r \in Requests, Discard(r) \/ CancelSetup(r) \/ VerifyCode(r) \/ Remove(r)
      PROVE  NoRevival
  <2>1. CASE Discard(r) \/ CancelSetup(r)
    <3>1. born' = born /\ (sessions' = sessions \/ \E f : sessions' = AfterRemoval(f))
      BY <2>1 DEF Discard, CancelSetup, Unenroll
    <3> QED
      BY <3>1, SameSessions, RemovalRevivesNone
  <2>2. CASE VerifyCode(r)
    BY <2>2, ElevatingRevivesNone DEF VerifyCode
  <2>3. CASE Remove(r)
    BY <2>3, RemovalRevivesNone DEF Remove
  <2> QED
    BY <1>6, <2>1, <2>2, <2>3
<1> QED
  BY <1>1, <1>2, <1>3, <1>4, <1>5, <1>6 DEF PortalNext

\* What has ended stays so, as long as no other change uses the grant.
LEMMA OldStayEnded ==
    ASSUME SessionsInv, NoRevival, NEW g \in Sessions, changed'[g] = changed[g], OldEnded(g)
    PROVE  OldEnded(g)'
<1> SUFFICES ASSUME NEW s \in Sessions, NEW p \in changed[g], born'[s] < p, Live(s)'
             PROVE  FALSE
  BY DEF OldEnded
<1>1. p \in Nat /\ p <= password /\ password \in Nat
  BY DEF SessionsInv
<1>2. born'[s] # password
  BY <1>1
<1> QED
  BY <1>2 DEF NoRevival, OldEnded

\* Only a password change touches the password or the changes.
LEMMA StepChanges ==
    ASSUME [PortalNext]_portalVars,
           ~ \E r \in Requests, heard \in BOOLEAN : ChangePassword(r, heard)
    PROVE  UNCHANGED <<password, changed>>
<1>1. CASE RequestLink \/ (\E s \in Sessions : GrantExpires(s))
           \/ (\E b \in Browsers : RefreshTokens(b) \/ LeaveSettings(b))
           \/ UNCHANGED portalVars
  BY <1>1 DEF RequestLink, GrantExpires, RefreshTokens, LeaveSettings, account, grants, portalVars
<1>2. ASSUME NEW r \in Requests, NEW b \in Browsers,
             SignIn(r, b) \/ OpenLink(r, b)
             \/ AskSignOut(r, b) \/ AskReset(r, b) \/ AskEnroll(r, b) \/ AskCancel(r, b)
             \/ AskVerify(r, b) \/ AskRemove(r, b) \/ AskEverywhere(r, b) \/ AskChallenge(r, b)
      PROVE  UNCHANGED <<password, changed>>
  BY <1>2 DEF SignIn, OpenLink, AskSignOut, AskReset, AskEnroll, AskCancel, AskVerify, AskRemove,
              AskEverywhere, AskChallenge, AskPortal, account, grants
<1>3. ASSUME NEW r \in Requests,
             SignedIn(r) \/ LogoutLost(r) \/ GrantIssued(r) \/ ConsumeGrant(r) \/ RecordChange(r)
             \/ ResetFails(r) \/ Read(r) \/ AdmitRequest(r) \/ ListUnfinished(r) \/ Enroll(r)
             \/ FindSetup(r) \/ RefreshAfterRemoval(r) \/ Answered(r) \/ Fails(r)
      PROVE  UNCHANGED <<password, changed>>
  BY <1>3 DEF SignedIn, LogoutLost, GrantIssued, ConsumeGrant, RecordChange, ResetFails, Read,
              AdmitRequest, ListUnfinished, Enroll, FindSetup, RefreshAfterRemoval, Answered,
              Fails, account, grants
<1>4. ASSUME NEW r \in Requests,
             SignInUndone(r) \/ EndEverywhere(r) \/ ConfirmationFails(r)
             \/ Discard(r) \/ CancelSetup(r) \/ VerifyCode(r) \/ Remove(r)
             \/ (\E ok \in BOOLEAN : SignOutHere(r, ok) \/ CleanUp(r, ok))
             \/ \E done, heard \in BOOLEAN : EndAfterReset(r, done, heard)
      PROVE  UNCHANGED <<password, changed>>
  BY <1>4 DEF SignInUndone, EndEverywhere, ConfirmationFails, SignOutHere, CleanUp, EndAfterReset,
              Discard, CancelSetup, VerifyCode, Remove, grants
<1> QED
  BY <1>1, <1>2, <1>3, <1>4 DEF PortalNext

\* Requests a step leaves alone make the progress they had made.
LEMMA ProgressKept ==
    ASSUME SessionsInv, NoRevival, NEW x, ResetProgress(x), changed'[x.grant] = changed[x.grant]
    PROVE  ResetProgress(x)'
  BY OldStayEnded DEF ResetProgress

LEMMA RequestMoves ==
    ASSUME ResetInv, NoRevival, UNCHANGED changed, NEW r \in Requests, NEW x,
           op' = [op EXCEPT ![r] = x], ResetProgress(x)'
    PROVE  ProgressInv'
<1> SUFFICES ASSUME NEW q \in Requests PROVE ResetProgress(op[q])'
  BY DEF ProgressInv
<1>1. CASE q = r
  <2>1. op'[q] = x
    BY <1>1 DEF ResetInv, GrantInv, OpInv
  <2> QED
    BY <2>1 DEF ResetProgress, OldEnded, Live
<1>2. CASE q # r
  <2> DEFINE y == op[q]
  <2>1. op'[q] = y
    BY <1>2 DEF ResetInv, GrantInv, OpInv
  <2>2. ResetProgress(y)'
    BY <2>1, ProgressKept DEF ResetInv, ProgressInv
  <2> QED
    BY <2>1, <2>2
<1> QED
  BY <1>1, <1>2

\* A request that is not a reset past its change has promised nothing.
LEMMA NothingPromised ==
    ASSUME NEW x, x.confirmed = FALSE, x.at # "change",
           x.kind # "reset" \/ x.at \notin {"logout", "audit"}
    PROVE  ResetProgress(x)'
  BY DEF ResetProgress

\* Sending a request, and ending one.
LEMMA SendProgress ==
    ASSUME ResetInv, NoRevival, UNCHANGED changed, NEW r \in Requests, NEW b \in Browsers,
           SignIn(r, b) \/ OpenLink(r, b) \/ AskSignOut(r, b) \/ AskReset(r, b)
           \/ AskEnroll(r, b) \/ AskCancel(r, b) \/ AskVerify(r, b) \/ AskRemove(r, b)
           \/ AskEverywhere(r, b) \/ AskChallenge(r, b)
    PROVE  ProgressInv'
<1>1. CASE SignIn(r, b)
  <2>1. PICK s : Send(r, [From("signin", b, NoFactor, "assure") EXCEPT !.session = s, !.level = "aal1"])
    BY <1>1 DEF SignIn
  <2> DEFINE x == [From("signin", b, NoFactor, "assure") EXCEPT !.session = s, !.level = "aal1"]
  <2>2. x.at = "assure" /\ x.confirmed = FALSE
    BY DEF From, Idle
  <2>3. op' = [op EXCEPT ![r] = x]
    BY <2>1 DEF Send
  <2> HIDE DEF x
  <2> QED
    BY <2>2, <2>3, NothingPromised, RequestMoves
<1>2. CASE OpenLink(r, b)
  <2>1. PICK s : Send(r, [From("confirm", b, NoFactor, "claims") EXCEPT !.session = s])
    BY <1>2 DEF OpenLink
  <2> DEFINE x == [From("confirm", b, NoFactor, "claims") EXCEPT !.session = s]
  <2>2. x.at = "claims" /\ x.confirmed = FALSE
    BY DEF From, Idle
  <2>3. op' = [op EXCEPT ![r] = x]
    BY <2>1 DEF Send
  <2> HIDE DEF x
  <2> QED
    BY <2>2, <2>3, NothingPromised, RequestMoves
<1>3. ASSUME NEW kind, NEW f, NEW at \in {"logout", "consume", "me", "call"},
             kind # "reset" \/ at # "logout", Send(r, From(kind, b, f, at))
      PROVE  ProgressInv'
  <2> DEFINE x == From(kind, b, f, at)
  <2>1. x.at = at /\ x.kind = kind /\ x.confirmed = FALSE
    BY DEF From, Idle
  <2>2. op' = [op EXCEPT ![r] = x]
    BY <1>3 DEF Send
  <2> HIDE DEF x
  <2> QED
    BY <1>3, <2>1, <2>2, NothingPromised, RequestMoves
<1>4. CASE AskSignOut(r, b) \/ AskReset(r, b)
  BY <1>3, <1>4 DEF AskSignOut, AskReset
<1>5. CASE AskChallenge(r, b)
  BY <1>3, <1>5 DEF AskChallenge
<1>6. ASSUME NEW kind, NEW f, AskPortal(r, b, kind, f) PROVE ProgressInv'
  BY <1>3, <1>6 DEF AskPortal
<1> QED
  BY <1>1, <1>2, <1>4, <1>5, <1>6 DEF AskEnroll, AskCancel, AskVerify, AskRemove, AskEverywhere

LEMMA ReturnProgress ==
    ASSUME ResetInv, NoRevival, UNCHANGED changed, NEW r \in Requests, Return(r)
    PROVE  ProgressInv'
<1>1. Idle.confirmed = FALSE /\ Idle.at = "idle"
  BY DEF Idle
<1> QED
  BY <1>1, NothingPromised, RequestMoves DEF Return

\* Moving a request on.
LEMMA GoFields ==
    ASSUME NEW y, IsRequest(y), NEW at
    PROVE  LET x == [y EXCEPT !.at = at] IN
           /\ x.at = at /\ x.kind = y.kind /\ x.grant = y.grant /\ x.session = y.session
           /\ x.confirmed = y.confirmed
<1>1. PICK A : y \in RequestsOf(A)
  BY DEF IsRequest
<1> QED
  BY <1>1 DEF RequestsOf

LEMMA GoProgress ==
    ASSUME ResetInv, NoRevival, UNCHANGED changed, NEW r \in Requests, NEW at, Go(r, at),
           at = "change" => op[r].grant = op[r].session,
           op[r].kind # "reset" \/ at \notin {"logout", "audit"}
    PROVE  ProgressInv'
<1> DEFINE y == op[r]
           x == [y EXCEPT !.at = at]
<1>1. op' = [op EXCEPT ![r] = x]
  BY DEF Go
<1>2. IsRequest(y) /\ ResetProgress(y)
  BY DEF ResetInv, GrantInv, OpInv, ProgressInv
<1>3. x.at = at /\ x.kind = y.kind /\ x.grant = y.grant /\ x.session = y.session
      /\ x.confirmed = y.confirmed
  BY <1>2, GoFields
<1> HIDE DEF x
<1>4. ResetProgress(x)
  BY <1>2, <1>3 DEF ResetProgress
<1> QED
  BY <1>1, <1>4, ProgressKept, RequestMoves DEF ResetInv

\* The steps of the authenticator settings leave the resets alone.
LEMMA SettingsProgress ==
    ASSUME ResetInv, NoRevival, UNCHANGED changed, NEW r \in Requests,
           ListUnfinished(r) \/ Discard(r) \/ Enroll(r) \/ CancelSetup(r) \/ VerifyCode(r)
           \/ RefreshAfterRemoval(r)
    PROVE  ProgressInv'
<1>1. PICK A : op[r] \in RequestsOf(A)
  BY DEF ResetInv, GrantInv, OpInv, IsRequest
<1>2. op[r].kind # "reset"
  BY DEF ListUnfinished, Discard, Enroll, CancelSetup, VerifyCode, RefreshAfterRemoval, At
<1>3. PICK x : /\ op' = [op EXCEPT ![r] = x]
               /\ x.kind = op[r].kind /\ x.grant = op[r].grant /\ x.confirmed = op[r].confirmed
               /\ x.at \in {"discard", "done"}
  <2>1. CASE ListUnfinished(r)
    <3> DEFINE x == [op[r] EXCEPT !.at = "discard", !.todo = Unverified]
    <3>1. op' = [op EXCEPT ![r] = x]
      BY <2>1 DEF ListUnfinished
    <3>2. x.kind = op[r].kind /\ x.grant = op[r].grant /\ x.confirmed = op[r].confirmed /\ x.at = "discard"
      BY <1>1 DEF RequestsOf
    <3> HIDE DEF x
    <3> QED
      BY <3>1, <3>2
  <2>2. CASE Discard(r)
    <3>1. PICK f \in op[r].todo : op' = [op EXCEPT ![r].todo = @ \ {f}] /\ op[r].at = "discard"
      BY <2>2 DEF Discard, At
    <3> DEFINE x == [op[r] EXCEPT !.todo = op[r].todo \ {f}]
    <3>2. op' = [op EXCEPT ![r] = x]
      BY <3>1
    <3>3. x.kind = op[r].kind /\ x.grant = op[r].grant /\ x.confirmed = op[r].confirmed /\ x.at = op[r].at
      BY <1>1 DEF RequestsOf
    <3> HIDE DEF x
    <3> QED
      BY <3>1, <3>2, <3>3
  <2>3. CASE Enroll(r) \/ CancelSetup(r)
    <3>1. PICK f : op' = [op EXCEPT ![r].at = "done", ![r].factor = f]
      BY <2>3 DEF Enroll, CancelSetup
    <3> DEFINE x == [op[r] EXCEPT !.at = "done", !.factor = f]
    <3>2. op' = [op EXCEPT ![r] = x]
      BY <3>1
    <3>3. x.kind = op[r].kind /\ x.grant = op[r].grant /\ x.confirmed = op[r].confirmed /\ x.at = "done"
      BY <1>1 DEF RequestsOf
    <3> HIDE DEF x
    <3> QED
      BY <3>2, <3>3
  <2>4. CASE VerifyCode(r) \/ RefreshAfterRemoval(r)
    <3>1. PICK l, f : op' = [op EXCEPT ![r].at = "done", ![r].level = l, ![r].factor = f]
      BY <2>4 DEF VerifyCode, RefreshAfterRemoval
    <3> DEFINE x == [op[r] EXCEPT !.at = "done", !.level = l, !.factor = f]
    <3>2. op' = [op EXCEPT ![r] = x]
      BY <3>1
    <3>3. x.kind = op[r].kind /\ x.grant = op[r].grant /\ x.confirmed = op[r].confirmed /\ x.at = "done"
      BY <1>1 DEF RequestsOf
    <3> HIDE DEF x
    <3> QED
      BY <3>2, <3>3
  <2> QED
    BY <2>1, <2>2, <2>3, <2>4
<1>4. ResetProgress(op[r])
  BY DEF ResetInv, ProgressInv
<1>5. ResetProgress(x)
  BY <1>2, <1>3, <1>4 DEF ResetProgress
<1> QED
  BY <1>3, <1>5, ProgressKept, RequestMoves DEF ResetInv

\* The sign-out after the change: what the backend heard has happened.
LEMMA EndProgress ==
    ASSUME ResetInv, NoRevival, UNCHANGED changed, NEW r \in Requests,
           NEW done \in BOOLEAN, NEW heard \in BOOLEAN, EndAfterReset(r, done, heard)
    PROVE  ProgressInv'
<1>1. PICK y : y = op[r] /\ IsRequest(y) /\ ResetProgress(y)
  BY DEF ResetInv, GrantInv, OpInv, ProgressInv
<1>2. PICK at \in {"audit", "cleanup"} :
          op' = [op EXCEPT ![r].at = at] /\ (at = "audit" => heard)
  BY DEF EndAfterReset, AfterLogout
<1>3. PICK x : x = [y EXCEPT !.at = at]
  OBVIOUS
<1>4. x.at = at /\ x.kind = y.kind /\ x.grant = y.grant /\ x.confirmed = y.confirmed
  BY <1>1, <1>3, GoFields
<1>5. op' = [op EXCEPT ![r] = x] /\ y.kind = "reset" /\ y.at = "logout"
  BY <1>1, <1>2, <1>3 DEF EndAfterReset, At
<1>6. ResetProgress(y)'
  BY <1>1, ProgressKept DEF ResetInv
<1>7. ASSUME at = "audit", NEW g PROVE OldEnded(g)'
  <2>1. sessions' = Ended(Sessions)
    BY <1>2, <1>7 DEF EndAfterReset
  <2>2. \A s \in Sessions : ~Live(s)'
    BY <2>1 DEF Ended, Live
  <2> QED
    BY <2>2 DEF OldEnded
<1>8. ResetProgress(x)'
  BY <1>4, <1>5, <1>6, <1>7 DEF ResetProgress
<1> QED
  BY <1>5, <1>8, RequestMoves

\* The confirmation: of a reset that got past the sign-out.
LEMMA ConfirmProgress ==
    ASSUME ResetInv, NoRevival, UNCHANGED changed, NEW r \in Requests,
           RecordChange(r) \/ \E ok \in BOOLEAN : CleanUp(r, ok)
    PROVE  ProgressInv'
<1>1. PICK A : op[r] \in RequestsOf(A)
  BY DEF ResetInv, GrantInv, OpInv, IsRequest
<1>2. PICK at \in {"cleanup", "told"}, c \in BOOLEAN :
          /\ op' = [op EXCEPT ![r].at = at, ![r].confirmed = c]
          /\ c => op[r].confirmed \/ (op[r].kind = "reset" /\ op[r].at = "audit")
  <2>1. CASE RecordChange(r)
    BY <2>1 DEF RecordChange, At
  <2>2. ASSUME NEW ok \in BOOLEAN, CleanUp(r, ok)
        PROVE  \E c \in BOOLEAN : /\ op' = [op EXCEPT ![r].at = "told", ![r].confirmed = c]
                                  /\ c => op[r].confirmed
    <3>1. op' = [op EXCEPT ![r].at = "told", ![r].confirmed = (op[r].confirmed /\ ok)]
      BY <2>2 DEF CleanUp
    <3>2. (op[r].confirmed /\ ok) \in BOOLEAN
      OBVIOUS
    <3> QED
      BY <3>1, <3>2
  <2>3. "cleanup" \in {"cleanup", "told"} /\ "told" \in {"cleanup", "told"}
    OBVIOUS
  <2> QED
    BY <2>1, <2>2, <2>3
<1> DEFINE x == [op[r] EXCEPT !.at = at, !.confirmed = c]
<1>3. op' = [op EXCEPT ![r] = x]
  BY <1>2
<1>4. x.kind = op[r].kind /\ x.grant = op[r].grant /\ x.confirmed = c /\ x.at = at
  BY <1>1 DEF RequestsOf
<1> HIDE DEF x
<1>5. ResetProgress(op[r])
  BY DEF ResetInv, ProgressInv
<1>6. ResetProgress(x)
  BY <1>2, <1>4, <1>5 DEF ResetProgress
<1> QED
  BY <1>3, <1>6, ProgressKept, RequestMoves DEF ResetInv

\* A password change: the first with its grant, by a live session's holder.
LEMMA ChangeProgress ==
    ASSUME ResetInv, NoRevival, NEW r \in Requests, NEW heard \in BOOLEAN, ChangePassword(r, heard)
    PROVE  SessionsInv' /\ ProgressInv'
<1>1. PICK y : y = op[r] /\ IsRequest(y) /\ ResetProgress(y)
  BY DEF ResetInv, GrantInv, OpInv, ProgressInv
<1>2. PICK x : x = [y EXCEPT !.at = IF heard THEN "logout" ELSE "cleanup"]
  OBVIOUS
<1>3. /\ x.at \in {"logout", "cleanup"} /\ x.kind = y.kind /\ x.grant = y.grant
      /\ x.confirmed = y.confirmed
  BY <1>1, <1>2, GoFields
<1>4. /\ op' = [op EXCEPT ![r] = x] /\ y.at = "change" /\ y.grant \in Sessions
      /\ changed' = [changed EXCEPT ![y.grant] = @ \cup {password + 1}] /\ password' = password + 1
      /\ UNCHANGED <<sessions, born>>
  BY <1>1, <1>2 DEF ChangePassword, Go, At, Live, ResetProgress
<1>5. changed[y.grant] = {}
  BY <1>1, <1>4 DEF ResetInv, GrantInv, ChangingInv
<1>6. \A g \in Sessions : changed'[g] = IF g = y.grant THEN {password + 1} ELSE changed[g]
  BY <1>4, <1>5 DEF ResetInv, GrantInv, ChangedInv
<1>7. SessionsInv'
  BY <1>4, <1>6 DEF ResetInv, SessionsInv
<1>8. ~y.confirmed
  BY <1>1, <1>5 DEF ResetProgress
<1>9. ASSUME NEW q \in Requests PROVE ResetProgress(op[q])'
  <2>1. CASE q = r
    <3>1. op'[q] = x
      BY <1>4, <2>1 DEF ResetInv, GrantInv, OpInv
    <3>2. x.confirmed = FALSE /\ x.at # "change" /\ x.at # "audit"
      BY <1>1, <1>3, <1>8 DEF ResetProgress
    <3>3. x.grant \in Sessions /\ changed'[x.grant] # {}
      BY <1>3, <1>4, <1>6
    <3> QED
      BY <3>1, <3>2, <3>3 DEF ResetProgress
  <2>2. CASE q # r
    <3>1. PICK z : z = op[q] /\ op'[q] = z /\ ResetProgress(z)
      BY <1>4, <2>2 DEF ResetInv, GrantInv, OpInv, ProgressInv
    <3>2. CASE z.grant = y.grant
      <4>1. z.confirmed = FALSE /\ (z.kind = "reset" => z.at \notin {"logout", "audit"})
        BY <1>5, <3>1, <3>2 DEF ResetProgress
      <4> QED
        BY <3>1, <4>1 DEF ResetProgress
    <3>3. CASE z.grant # y.grant
      <4>1. z.grant \in Sessions => changed'[z.grant] = changed[z.grant]
        BY <1>6, <3>3
      <4>2. z.grant \in Sessions /\ OldEnded(z.grant) => OldEnded(z.grant)'
        BY <4>1, OldStayEnded DEF ResetInv
      <4> QED
        BY <3>1, <4>1, <4>2 DEF ResetProgress
    <3> QED
      BY <3>2, <3>3
  <2> QED
    BY <2>1, <2>2
<1> QED
  BY <1>7, <1>9 DEF ProgressInv

\* A session keeps its record, whatever the step.
LEMMA StepSessions ==
    ASSUME SessionsInv, [PortalNext]_portalVars,
           ~ \E r \in Requests, heard \in BOOLEAN : ChangePassword(r, heard)
    PROVE  SessionsInv'
<1>1. UNCHANGED <<password, changed>>
  BY StepChanges
<1>2. (born' = born \/ \E s : Issue(s))
      /\ (sessions' = sessions \/ (\E S : sessions' = Ended(S)) \/ (\E s : Issue(s))
          \/ (\E f : sessions' = AfterRemoval(f)) \/ \E s, f : sessions' = ElevatedBy(s, f))
  <2>1. CASE RequestLink \/ (\E s \in Sessions : GrantExpires(s))
             \/ (\E b \in Browsers : RefreshTokens(b) \/ LeaveSettings(b))
             \/ UNCHANGED portalVars
    BY <2>1 DEF RequestLink, GrantExpires, RefreshTokens, LeaveSettings, account, portalVars
  <2>2. ASSUME NEW r \in Requests, NEW b \in Browsers,
               SignIn(r, b) \/ OpenLink(r, b)
               \/ AskSignOut(r, b) \/ AskReset(r, b) \/ AskEnroll(r, b) \/ AskCancel(r, b)
               \/ AskVerify(r, b) \/ AskRemove(r, b) \/ AskEverywhere(r, b) \/ AskChallenge(r, b)
        PROVE  (\E s : Issue(s)) \/ UNCHANGED <<sessions, born>>
    BY <2>2 DEF SignIn, OpenLink, AskSignOut, AskReset, AskEnroll, AskCancel, AskVerify,
                AskRemove, AskEverywhere, AskChallenge, AskPortal, account
  <2>3. ASSUME NEW r \in Requests,
               SignedIn(r) \/ LogoutLost(r) \/ GrantIssued(r) \/ ConsumeGrant(r) \/ RecordChange(r)
               \/ ResetFails(r) \/ Read(r) \/ AdmitRequest(r) \/ ListUnfinished(r) \/ Enroll(r)
               \/ FindSetup(r) \/ RefreshAfterRemoval(r) \/ Answered(r) \/ Fails(r)
        PROVE  UNCHANGED <<sessions, born>>
    BY <2>3 DEF SignedIn, LogoutLost, GrantIssued, ConsumeGrant, RecordChange, ResetFails, Read,
                AdmitRequest, ListUnfinished, Enroll, FindSetup, RefreshAfterRemoval, Answered,
                Fails, account
  <2>4. ASSUME NEW r \in Requests,
               SignInUndone(r) \/ EndEverywhere(r) \/ ConfirmationFails(r)
               \/ (\E ok \in BOOLEAN : SignOutHere(r, ok) \/ CleanUp(r, ok))
               \/ \E done, heard \in BOOLEAN : EndAfterReset(r, done, heard)
        PROVE  born' = born /\ (sessions' = sessions \/ \E S : sessions' = Ended(S))
    BY <2>4 DEF SignInUndone, EndEverywhere, ConfirmationFails, SignOutHere, CleanUp, EndAfterReset
  <2>5. ASSUME NEW r \in Requests, Discard(r) \/ CancelSetup(r) \/ VerifyCode(r) \/ Remove(r)
        PROVE  born' = born /\ (sessions' = sessions \/ (\E f : sessions' = AfterRemoval(f))
                                \/ \E s, f : sessions' = ElevatedBy(s, f))
    BY <2>5 DEF Discard, CancelSetup, Unenroll, VerifyCode, Remove
  <2> QED
    BY <2>1, <2>2, <2>3, <2>4, <2>5 DEF PortalNext
<1>3. born' = [s \in Sessions |-> born'[s]]
  BY <1>2 DEF SessionsInv, Issue
<1>4. sessions' = [s \in Sessions |-> sessions'[s]]
  BY <1>2 DEF SessionsInv, Issue, Ended, AfterRemoval, ElevatedBy
<1> QED
  BY <1>1, <1>3, <1>4 DEF SessionsInv

\* Every step of a reset, and of whatever runs beside it, keeps ResetInv.
THEOREM StepResetInv == ResetInv /\ [PortalNext]_portalVars => ResetInv'
<1> SUFFICES ASSUME ResetInv, [PortalNext]_portalVars PROVE ResetInv'
  OBVIOUS
<1>1. GrantInv' /\ NoRevival
  BY StepGrantInv, StepRevivesNone DEF ResetInv
<1>2. ASSUME NEW r \in Requests, NEW heard \in BOOLEAN, ChangePassword(r, heard) PROVE ResetInv'
  BY <1>1, <1>2, ChangeProgress DEF ResetInv
<1>3. SUFFICES ASSUME ~ \E r \in Requests, heard \in BOOLEAN : ChangePassword(r, heard)
               PROVE  ResetInv'
  BY <1>2
<1>4. SessionsInv' /\ UNCHANGED changed
  BY <1>3, StepSessions, StepChanges DEF ResetInv
<1>5. CASE RequestLink \/ (\E s \in Sessions : GrantExpires(s))
           \/ (\E b \in Browsers : RefreshTokens(b) \/ LeaveSettings(b))
           \/ UNCHANGED portalVars
  <2>1. op' = op
    BY <1>5 DEF RequestLink, GrantExpires, RefreshTokens, LeaveSettings, portalVars
  <2>2. ASSUME NEW r \in Requests PROVE ResetProgress(op[r])'
    <3>1. PICK x : x = op[r] /\ op'[r] = x /\ ResetProgress(x)
      BY <2>1 DEF ResetInv, ProgressInv
    <3>2. ResetProgress(x)'
      BY <1>1, <1>4, <3>1, ProgressKept DEF ResetInv
    <3> QED
      BY <3>1, <3>2 DEF ResetProgress, OldEnded, Live
  <2> QED
    BY <1>1, <1>4, <2>2 DEF ResetInv, ProgressInv
<1>6. ASSUME NEW r \in Requests, NEW b \in Browsers,
             SignIn(r, b) \/ OpenLink(r, b) \/ AskSignOut(r, b) \/ AskReset(r, b)
             \/ AskEnroll(r, b) \/ AskCancel(r, b) \/ AskVerify(r, b) \/ AskRemove(r, b)
             \/ AskEverywhere(r, b) \/ AskChallenge(r, b)
      PROVE  ProgressInv'
  BY <1>1, <1>4, <1>6, SendProgress
<1>7. ASSUME NEW r \in Requests,
             SignedIn(r) \/ SignInUndone(r) \/ GrantIssued(r) \/ ConfirmationFails(r) \/ Read(r)
             \/ Answered(r) \/ Fails(r) \/ \E ok \in BOOLEAN : SignOutHere(r, ok)
      PROVE  ProgressInv'
  <2>1. Return(r)
    BY <1>7 DEF SignedIn, SignInUndone, GrantIssued, ConfirmationFails, Read, Answered, Fails,
                SignOutHere
  <2> QED
    BY <1>1, <1>4, <2>1, ReturnProgress
<1>8. ASSUME NEW r \in Requests,
             EndEverywhere(r) \/ LogoutLost(r) \/ ResetFails(r) \/ AdmitRequest(r) \/ FindSetup(r)
             \/ Remove(r) \/ ConsumeGrant(r)
      PROVE  ProgressInv'
  <2>1. PICK at : /\ Go(r, at)
                  /\ at = "change" => op[r].grant = op[r].session
                  /\ op[r].kind # "reset" \/ at \notin {"logout", "audit"}
    <3>1. CASE EndEverywhere(r) \/ LogoutLost(r)
      BY <3>1 DEF EndEverywhere, LogoutLost
    <3>2. CASE ResetFails(r) \/ FindSetup(r) \/ Remove(r)
      BY <3>2 DEF ResetFails, FindSetup, Remove
    <3>3. CASE AdmitRequest(r)
      BY <3>3 DEF AdmitRequest, FirstCall, At, SettingsKinds
    <3>4. CASE ConsumeGrant(r)
      BY <3>4 DEF ConsumeGrant
    <3> QED
      BY <1>8, <3>1, <3>2, <3>3, <3>4
  <2> QED
    BY <1>1, <1>4, <2>1, GoProgress
<1>9. ASSUME NEW r \in Requests,
             ListUnfinished(r) \/ Discard(r) \/ Enroll(r) \/ CancelSetup(r) \/ VerifyCode(r)
             \/ RefreshAfterRemoval(r) \/ RecordChange(r)
             \/ (\E ok \in BOOLEAN : CleanUp(r, ok))
             \/ \E done, heard \in BOOLEAN : EndAfterReset(r, done, heard)
      PROVE  ProgressInv'
  BY <1>1, <1>4, <1>9, SettingsProgress, ConfirmProgress, EndProgress
<1> QED
  BY <1>1, <1>3, <1>4, <1>5, <1>6, <1>7, <1>8, <1>9 DEF PortalNext, ResetInv

\* When the page says "Password reset", the reset did change the password and
\* no session from before it is left, whatever ran beside it.
THEOREM ConfirmedResetsEndSessions == PortalSpec => []ResetEndsOldSessions
<1>1. ResetInv => ResetEndsOldSessions
  BY DEF ResetInv, ProgressInv, ResetProgress, OldEnded, ResetEndsOldSessions
<1> QED
  BY <1>1, InitResetInv, StepResetInv, PTL DEF PortalSpec
===============================================================================
