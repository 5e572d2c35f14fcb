----------------------------- MODULE AlumniCounts -----------------------------
(***************************************************************************)
(* Graduate totals per batch and college (AdminAlumniCounts): every        *)
(* administrator edits a copy of the table in the page and saves the whole *)
(* of it, replacing what is stored (alumni_count_service.py).              *)
(* A degree program stands for its college.                                *)
(***************************************************************************)
EXTENDS Integers, FiniteSets

CONSTANTS
    Administrators,  \* who has the page open
    Batches,         \* batch years
    Colleges,        \* colleges
    Totals,          \* totals the registrar may give
    MaxSaves         \* bound: saves sent

Blank == -1      \* an empty cell: no registrar total, which differs from 0
Malformed == -2
Nobody == "nobody"

ASSUME AlumniAssumption ==
    Totals \subseteq Nat /\ MaxSaves \in Nat /\ Nobody \notin Administrators

Cells == Batches \X Colleges

VARIABLES
    stored,    \* the totals stored, Blank where there is none
    version,   \* number of replacements committed
    tableLock, \* who holds the lock on the table
    lastSaved, \* the table of the last replacement
    copy,      \* per page: saved, grid, loaded, confirming, and the version seen
    put        \* per page: the request in flight
alumniVars == <<stored, version, tableLock, lastSaved, copy, put>>

None == [c \in Cells |-> Blank]
NoPut == [at |-> "none"]

AlumniInit ==
    /\ stored \in [Cells -> Totals \cup {Blank}]
    /\ version = 0 /\ tableLock = Nobody /\ lastSaved = stored
    /\ copy = [a \in Administrators |->
         [saved |-> None, grid |-> None, loaded |-> FALSE, confirming |-> FALSE, seen |-> 0]]
    /\ put = [a \in Administrators |-> NoPut]

server == <<stored, version, tableLock, lastSaved>>

(***************************************************************************)
(* The page                                                                *)
(***************************************************************************)
ApplyRows(a, rows, seen) ==
    copy' = [copy EXCEPT ![a].saved = rows, ![a].grid = rows, ![a].loaded = TRUE, ![a].seen = seen]

\* Loading, again after an error.
Load(a) ==
    /\ ~copy[a].loaded
    /\ ApplyRows(a, stored, version)
    /\ UNCHANGED <<put, server>>

\* The table can be edited while it is being saved, not behind the confirmation.
Editable(a) == copy[a].loaded /\ ~copy[a].confirming
SetCell(a, cell, value) ==
    /\ Editable(a) /\ value # copy[a].grid[cell]
    /\ copy' = [copy EXCEPT ![a].grid[cell] = value]
    /\ UNCHANGED <<put, server>>

\* The columns of an imported file replace those of its batches; a file with a
\* cell that is neither blank nor a whole number is refused as a whole.
ImportedColumns == [Colleges -> Totals \cup {Blank}]
ImportFile(a, batch, column) ==
    /\ Editable(a)
    /\ copy' = [copy EXCEPT ![a].grid =
         [c \in Cells |-> IF c[1] = batch THEN column[c[2]] ELSE @[c]]]
    /\ UNCHANGED <<put, server>>
RemoveBatch(a, batch) == ImportFile(a, batch, [c \in Colleges |-> Blank])

Invalid(a) == \E c \in Cells : copy[a].grid[c] = Malformed
Dirty(a) == copy[a].grid # copy[a].saved
DiscardEdits(a) ==
    /\ Editable(a) /\ Dirty(a) /\ put[a].at = "none"
    /\ copy' = [copy EXCEPT ![a].grid = copy[a].saved]
    /\ UNCHANGED <<put, server>>

\* Faulty variant: the removal of a single total is not asked about.
RemovedSeveral(a) ==
    LET gone == {c \in Cells : copy[a].saved[c] # Blank /\ copy[a].grid[c] = Blank} IN
    IF Cardinality(gone) > 1 THEN gone ELSE {}
Removed(a) == {c \in Cells : copy[a].saved[c] # Blank /\ copy[a].grid[c] = Blank}

SendPut(a, asked) ==
    /\ version + Cardinality({b \in Administrators : put[b].at \in {"sent", "locked"}}) < MaxSaves
    /\ put' = [put EXCEPT ![a] =
         [at |-> "sent", counts |-> copy[a].grid, asked |-> asked, seen |-> copy[a].seen]]

Save(a) ==
    /\ Editable(a) /\ Dirty(a) /\ ~Invalid(a) /\ put[a].at = "none"
    /\ IF Removed(a) # {}
       THEN copy' = [copy EXCEPT ![a].confirming = TRUE] /\ UNCHANGED put
       ELSE SendPut(a, {}) /\ UNCHANGED copy
    /\ UNCHANGED server

Confirm(a) ==
    /\ copy[a].confirming
    /\ copy' = [copy EXCEPT ![a].confirming = FALSE]
    /\ SendPut(a, Removed(a))
    /\ UNCHANGED server

CancelConfirm(a) ==
    /\ copy[a].confirming
    /\ copy' = [copy EXCEPT ![a].confirming = FALSE]
    /\ UNCHANGED <<put, server>>

\* What the page shows is replaced by the answer, what was typed meanwhile with it.
PutAnswered(a) ==
    /\ put[a].at = "answered"
    /\ ApplyRows(a, put[a].rows, put[a].seen)
    /\ put' = [put EXCEPT ![a] = NoPut]
    /\ UNCHANGED server

(***************************************************************************)
(* The server                                                              *)
(***************************************************************************)
\* Faulty variant: the rows are read without the lock on the table.
LockFreeAlways == TRUE
LockFree == tableLock = Nobody

\* The lock is taken before the rows are read.
LockTable(a) ==
    /\ put[a].at = "sent" /\ LockFree
    /\ tableLock' = a
    /\ put' = [put EXCEPT ![a] = [at |-> "locked", counts |-> @.counts, asked |-> @.asked,
                                  seen |-> @.seen, existing |-> stored]]
    /\ UNCHANGED <<stored, version, lastSaved, copy>>

\* Only rows that differ from those read are written.
Replaced(existing, counts) ==
    [c \in Cells |-> IF existing[c] # counts[c] THEN counts[c] ELSE stored[c]]
CommitTable(a) ==
    /\ put[a].at = "locked"
    /\ stored' = Replaced(put[a].existing, put[a].counts)
    /\ version' = version + 1 /\ lastSaved' = put[a].counts
    /\ tableLock' = Nobody
    /\ put' = [put EXCEPT ![a] = [at |-> "done"]]
    /\ UNCHANGED copy

\* The rows are listed for the answer after the commit; the answer may be lost.
ListForAnswer(a) ==
    /\ put[a].at = "done"
    /\ \/ put' = [put EXCEPT ![a] = [at |-> "answered", rows |-> stored, seen |-> version]]
       \/ put' = [put EXCEPT ![a] = NoPut]
    /\ UNCHANGED <<server, copy>>

SaveFails(a) ==
    /\ put[a].at \in {"sent", "locked"}
    /\ put' = [put EXCEPT ![a] = NoPut]
    /\ tableLock' = IF tableLock = a THEN Nobody ELSE tableLock
    /\ UNCHANGED <<stored, version, lastSaved, copy>>

AlumniNext == \E a \in Administrators :
    \/ Load(a)
    \/ \E c \in Cells, value \in Totals \cup {Blank, Malformed} : SetCell(a, c, value)
    \/ \E b \in Batches, column \in ImportedColumns : ImportFile(a, b, column)
    \/ \E b \in Batches : RemoveBatch(a, b)
    \/ DiscardEdits(a) \/ Save(a) \/ Confirm(a) \/ CancelConfirm(a) \/ PutAnswered(a)
    \/ LockTable(a) \/ CommitTable(a) \/ ListForAnswer(a) \/ SaveFails(a)

AlumniSpec == AlumniInit /\ [][AlumniNext]_alumniVars

(***************************************************************************)
(* Properties                                                              *)
(***************************************************************************)
\* What is stored is exactly the table of the last save that committed, never
\* a mixture of two saved at the same time.
StoredIsLastSave == stored = lastSaved

\* A save deletes a total that nobody was asked about only when the table was
\* replaced after the page had read it.
RemovalsWereAsked ==
    [][\A a \in Administrators, c \in Cells :
         put[a].at = "locked" /\ put'[a].at = "done" /\ stored[c] # Blank /\ stored'[c] = Blank
         => c \in put[a].asked \/ put[a].seen < version]_alumniVars
===============================================================================
