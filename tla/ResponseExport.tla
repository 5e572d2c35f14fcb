---------------------------- MODULE ResponseExport ----------------------------
(***************************************************************************)
(* The CSV export of a survey's responses                                  *)
(* (backend/services/response_export_service.py,                           *)
(* export_storage_service.py): count, audit the start, stream the rows,    *)
(* upload the file, sign a link, audit the end, answer.  Respondents       *)
(* answer and withdraw between any two of these steps.  The storage        *)
(* service may lose its answer, the audit may fail, the process may die.   *)
(***************************************************************************)
EXTENDS Naturals, FiniteSets, Nullable

CONSTANTS
    Exports,       \* export ids
    ExportRows,    \* ids of responses
    EXPORT_LIMIT   \* most responses in an export

ASSUME ExportAssumption ==
    /\ EXPORT_LIMIT \in Nat
    /\ IsFiniteSet(ExportRows)
    /\ \A S \in SUBSET ExportRows : S # NULL

VARIABLES
    exportable,   \* responses that are live and not expired
    removed,      \* responses that were removed; ids are not used again
    exporting,    \* per export: its step, the count it read and the file built
    audit,        \* committed audit entries; equal ones are one
    artifacts,    \* per export: the file in storage
    links         \* exports whose signed link was answered

exportVars == <<exportable, removed, exporting, audit, artifacts, links>>

Steps == {"new", "counted", "started", "built", "uploaded", "signed",
          "aborting", "ended"}
AuditEntry == [action : {"export_started", "export", "export_aborted"},
               export : Exports, response_count : Nat]

ExportInit ==
    /\ exportable \in SUBSET ExportRows
    /\ removed = {}
    /\ exporting = [e \in Exports |-> [step |-> "new", count |-> NULL, file |-> NULL]]
    /\ audit = {}
    /\ artifacts = [e \in Exports |-> NULL]
    /\ links = {}

Reached(e, step) == exporting[e].step = step
Move(e, step) == exporting' = [exporting EXCEPT ![e].step = step]
Record(action, e, n) ==
    audit' = audit \cup {[action |-> action, export |-> e, response_count |-> n]}

-----------------------------------------------------------------------------
(* prepare_response_export                                                 *)

\* _count_exportable_responses; with more than the limit the answer is 413.
Count(e) ==
    /\ Reached(e, "new")
    /\ exporting' = [exporting EXCEPT
           ![e].step = IF Cardinality(exportable) > EXPORT_LIMIT THEN "ended" ELSE "counted",
           ![e].count = Cardinality(exportable)]
    /\ UNCHANGED <<exportable, removed, audit, artifacts, links>>

AuditStart(e) ==
    /\ Reached(e, "counted")
    /\ \/ Record("export_started", e, exporting[e].count) /\ Move(e, "started")
       \/ Move(e, "ended") /\ UNCHANGED audit
    /\ UNCHANGED <<exportable, removed, artifacts, links>>

\* Faulty variant: the query has no limit.
StreamedAll(n) == {exportable}

\* The rows of one query, ordered by random ids and limited to the count.
Streamed(n) ==
    IF Cardinality(exportable) <= n THEN {exportable}
    ELSE {S \in SUBSET exportable : Cardinality(S) = n}

\* _build_export_csv.  When it fails after some rows, it audits the abort with
\* the number of rows passed, if it can, and prepare_response_export audits it
\* again.
Build(e) ==
    /\ Reached(e, "started")
    /\ \E rows \in Streamed(exporting[e].count) :
          \/ /\ exporting' = [exporting EXCEPT ![e].step = "built", ![e].file = rows]
             /\ UNCHANGED audit
          \/ /\ Move(e, "aborting")
             /\ \/ \E n \in 0 .. Cardinality(rows) : Record("export_aborted", e, n)
                \/ UNCHANGED audit
    /\ UNCHANGED <<exportable, removed, artifacts, links>>

\* The storage service stores the file and answers, stores it and fails to
\* answer, or refuses it.
Upload(e) ==
    /\ Reached(e, "built")
    /\ \E stored, answered \in BOOLEAN :
          /\ answered => stored
          /\ artifacts' = IF stored THEN [artifacts EXCEPT ![e] = exporting[e].file] ELSE artifacts
          /\ Move(e, IF answered THEN "uploaded" ELSE "aborting")
    /\ UNCHANGED <<exportable, removed, audit, links>>

Sign(e) ==
    /\ Reached(e, "uploaded")
    /\ Move(e, "signed") \/ Move(e, "aborting")
    /\ UNCHANGED <<exportable, removed, audit, artifacts, links>>

\* The entry carries the count that was read first, not the rows in the file.
AuditEnd(e) ==
    /\ Reached(e, "signed")
    /\ \/ /\ Record("export", e, exporting[e].count)
          /\ Move(e, "ended") /\ links' = links \cup {e}
       \/ Move(e, "aborting") /\ UNCHANGED <<audit, links>>
    /\ UNCHANGED <<exportable, removed, artifacts>>

\* _best_effort_aborted_audit; the caller gets the first failure.
AuditAbort(e) ==
    /\ Reached(e, "aborting")
    /\ Record("export_aborted", e, exporting[e].count) \/ UNCHANGED audit
    /\ Move(e, "ended")
    /\ UNCHANGED <<exportable, removed, artifacts, links>>

ExportDies(e) ==
    /\ ~Reached(e, "new") /\ ~Reached(e, "ended")
    /\ Move(e, "ended")
    /\ UNCHANGED <<exportable, removed, audit, artifacts, links>>

-----------------------------------------------------------------------------
(* The respondents and the other administrators.                           *)

Submitted(r) ==
    /\ r \notin exportable \cup removed
    /\ exportable' = exportable \cup {r}
    /\ UNCHANGED <<removed, exporting, audit, artifacts, links>>

Removed(r) ==   \* withdrawn, erased or purged
    /\ r \in exportable
    /\ exportable' = exportable \ {r} /\ removed' = removed \cup {r}
    /\ UNCHANGED <<exporting, audit, artifacts, links>>

ExportNext ==
    \/ \E e \in Exports :
          \/ Count(e) \/ AuditStart(e) \/ Build(e) \/ Upload(e) \/ Sign(e)
          \/ AuditEnd(e) \/ AuditAbort(e) \/ ExportDies(e)
    \/ \E r \in ExportRows : Submitted(r) \/ Removed(r)

ExportSpec == ExportInit /\ [][ExportNext]_exportVars

-----------------------------------------------------------------------------
Entries(e, action) == {a \in audit : a.export = e /\ a.action = action}

\* Every file that left the database is accounted for, whatever failed on the
\* way: its start was audited before with at least as many responses as it
\* holds and no more than the limit, though responses arrived between the count
\* and the query; and a link is answered only for a file that is in storage and
\* after the end was audited too.
ExportsAreAudited ==
    \A e \in Exports :
        /\ artifacts[e] # NULL =>
              \E a \in Entries(e, "export_started") :
                  /\ a.response_count <= EXPORT_LIMIT
                  /\ Cardinality(artifacts[e]) <= a.response_count
        /\ e \in links => artifacts[e] # NULL /\ Entries(e, "export") # {}

(* Claims of docs/privacy-and-retention.md that the code does not keep.    *)

\* "successful and aborted audit events use that actual count": the entry of a
\* finished export says how many responses are in its file.
EndsReportTheFile ==
    \A e \in Exports : \A a \in Entries(e, "export") :
        a.response_count = Cardinality(artifacts[e])
=============================================================================
