------------------------ MODULE StoredResponsesProofs ------------------------
(***************************************************************************)
(* What becomes of stored responses, for any number of processes,          *)
(* requests, responses and questions: cached aggregates are no older than  *)
(* the version they are asked for with, exports are audited, and what an   *)
(* administrator decided about a score is what is shown.                   *)
(***************************************************************************)
EXTENDS AnalyticsCache, ResponseExport, FeedbackScores,
        SequenceTheorems, FiniteSetTheorems, TLAPS

-----------------------------------------------------------------------------
(* AnalyticsCache: whatever is stored for a version was read after the      *)
(* request had read that version.                                           *)

Changes == [by : Processes \cup {NULL}, toclean : {"local", "shared", "none"}]
\* What may be cached: for each version nothing, or data that includes it.
Includes(data, v) == data = NULL \/ (data \in Nat /\ data >= v)
Caches == {cache \in [Versions -> Nat \cup {NULL}] : \A v \in Versions : Includes(cache[v], v)}
Asked ==
    {Waiting}
    \cup {r \in [step : {"shared"}, process : Processes, version : Versions] :
              r.version <= version}
    \cup {r \in [step : {"local"}, process : Processes, version : Versions, data : Nat] :
              r.data >= r.version}
    \cup {r \in [step : {"store"}, version : Versions, data : Nat] : r.data >= r.version}

CacheInv ==
    /\ changes \in Seq(Changes) /\ version \in Nat
    /\ version <= Latest /\ Latest <= MaxChanges
    /\ local \in [Processes -> Caches]
    /\ shared \in Caches
    /\ query \in [Queries -> Asked]

\* The initial states satisfy the invariant.
THEOREM InitCacheInv == CacheInit => CacheInv
<1> SUFFICES ASSUME CacheInit PROVE CacheInv
  OBVIOUS
<1>1. changes \in Seq(Changes) /\ Latest = 0
  BY DEF CacheInit, Latest
<1>2. NoEntries \in Caches
  BY DEF NoEntries, Caches, Includes
<1>3. query \in [Queries -> Asked]
  BY DEF CacheInit, Asked
<1> QED
  BY <1>1, <1>2, <1>3, CacheAssumption DEF CacheInit, CacheInv

\* A cache with one entry more that includes its version, or one less.
LEMMA StoredFits ==
    ASSUME NEW cache \in Caches, NEW v \in Versions, NEW data, Includes(data, v)
    PROVE  [cache EXCEPT ![v] = data] \in Caches
BY DEF Caches, Includes

\* A request goes on, and no change is committed.
LEMMA QueryKeeps ==
    ASSUME CacheInv, UNCHANGED <<changes, version>>, local' \in [Processes -> Caches],
           shared' \in Caches, NEW q \in Queries, NEW r \in Asked,
           query' = [query EXCEPT ![q] = r]
    PROVE  CacheInv'
BY DEF CacheInv, Latest, Asked

\* A step that changes neither requests nor the version.
LEMMA CachesKeep ==
    ASSUME CacheInv, UNCHANGED <<version, query>>, changes' \in Seq(Changes),
           Len(changes') = Latest, local' \in [Processes -> Caches], shared' \in Caches
    PROVE  CacheInv'
BY DEF CacheInv, Latest, Asked

LEMMA AskKeeps ==
    ASSUME CacheInv, NEW q \in Queries, NEW p \in Processes, Ask(q, p) PROVE CacheInv'
<1>1. version \in Versions
  BY CacheAssumption DEF CacheInv, Versions, Latest
<1>2. [step |-> "shared", process |-> p, version |-> version] \in Asked
  BY <1>1 DEF CacheInv, Asked
<1> QED
  BY <1>2, QueryKeeps DEF Ask, CacheInv

LEMMA AskSharedKeeps == ASSUME CacheInv, NEW q \in Queries, AskShared(q) PROVE CacheInv'
<1> DEFINE r == query[q]
<1>1. r.process \in Processes /\ r.version \in Versions
  BY DEF CacheInv, Asked, AskShared, Waiting
<1>2. Includes(shared[r.version], r.version)
  BY <1>1 DEF CacheInv, Caches
<1>3. [local[r.process] EXCEPT ![r.version] = shared[r.version]] \in Caches
  BY <1>1, <1>2, StoredFits DEF CacheInv
<1>4. local' \in [Processes -> Caches]
  BY <1>1, <1>3 DEF AskShared, CacheInv
<1>5. Waiting \in Asked
  BY DEF Asked
<1> QED
  BY <1>4, <1>5, QueryKeeps DEF AskShared, CacheInv

LEMMA ReadKeeps == ASSUME CacheInv, NEW q \in Queries, Read(q) PROVE CacheInv'
<1> DEFINE r == query[q]
           next == [step |-> "local", process |-> r.process, version |-> r.version,
                    data |-> Latest]
<1>1. r.process \in Processes /\ r.version \in Versions /\ r.version <= version
  BY DEF CacheInv, Asked, Read, Waiting
<1>2. next \in Asked
  BY <1>1 DEF CacheInv, Asked, Latest, Versions
<1>3. query' = [query EXCEPT ![q] = next]
  BY DEF Read, Readable
<1> QED
  BY <1>2, <1>3, QueryKeeps DEF Read, CacheInv

LEMMA StoreLocalKeeps == ASSUME CacheInv, NEW q \in Queries, StoreLocal(q) PROVE CacheInv'
<1> DEFINE r == query[q]
           next == [step |-> "store", version |-> r.version, data |-> r.data]
<1>1. /\ r.process \in Processes /\ r.version \in Versions
      /\ r.data \in Nat /\ r.data >= r.version
  BY DEF CacheInv, Asked, StoreLocal, Waiting
<1>2. next \in Asked
  BY <1>1 DEF Asked
<1>3. [local[r.process] EXCEPT ![r.version] = r.data] \in Caches
  BY <1>1, StoredFits DEF CacheInv, Includes
<1>4. local' \in [Processes -> Caches]
  BY <1>1, <1>3 DEF StoreLocal, CacheInv
<1> QED
  BY <1>2, <1>4, QueryKeeps DEF StoreLocal, CacheInv

LEMMA StoreSharedKeeps == ASSUME CacheInv, NEW q \in Queries, StoreShared(q) PROVE CacheInv'
<1> DEFINE r == query[q]
<1>1. r.version \in Versions /\ r.data \in Nat /\ r.data >= r.version
  BY DEF CacheInv, Asked, StoreShared, Waiting
<1>2. [shared EXCEPT ![r.version] = r.data] \in Caches
  BY <1>1, StoredFits DEF CacheInv, Includes
<1>3. Waiting \in Asked
  BY DEF Asked
<1> QED
  BY <1>2, <1>3, QueryKeeps DEF StoreShared, CacheInv

LEMMA CommitKeeps ==
    ASSUME CacheInv, NEW change \in Changes, NEW renews \in BOOLEAN, Commit(change, renews)
    PROVE  CacheInv'
<1>1. changes' \in Seq(Changes) /\ Len(changes') = Latest + 1
  BY AppendProperties DEF CacheInv, Commit, Latest
<1>2. Latest \in Nat /\ version' \in Nat /\ version <= version' /\ version' <= Latest + 1
  BY DEF CacheInv, Commit, Latest
<1>3. query' \in [Queries -> Asked']
  <2>1. Asked \subseteq Asked'
    BY <1>2 DEF Asked, CacheInv, Versions
  <2> QED
    BY <2>1 DEF CacheInv, Commit
<1> QED
  BY <1>1, <1>2, <1>3, CacheAssumption DEF CacheInv, Commit, Latest

\* What is left of an invalidation is recorded.
LEMMA RestKeeps ==
    ASSUME CacheInv, NEW c \in DOMAIN changes, NEW step \in {"local", "shared", "none"},
           changes' = [changes EXCEPT ![c].toclean = step]
    PROVE  changes' \in Seq(Changes) /\ Len(changes') = Latest
<1>1. changes[c] \in Changes
  BY ElementOfSeq DEF CacheInv
<1>2. [changes[c] EXCEPT !.toclean = step] \in Changes
  BY <1>1 DEF Changes
<1> QED
  BY <1>2, ExceptSeq DEF CacheInv, Latest

LEMMA CleanKeeps ==
    ASSUME CacheInv, NEW c \in DOMAIN changes,
           CleanLocal(c) \/ CleanShared(c) \/ DieBeforeCleaning(c)
    PROVE  CacheInv'
<1>1. NoEntries \in Caches
  BY DEF NoEntries, Caches, Includes
<1>2. local' \in [Processes -> Caches] /\ shared' \in Caches
  BY <1>1 DEF CacheInv, CleanLocal, CleanShared, DieBeforeCleaning
<1>3. changes' \in Seq(Changes) /\ Len(changes') = Latest
  BY RestKeeps DEF CleanLocal, CleanShared, DieBeforeCleaning
<1> QED
  BY <1>2, <1>3, CachesKeep DEF CleanLocal, CleanShared, DieBeforeCleaning

LEMMA ExpireKeeps ==
    ASSUME CacheInv, NEW v \in Versions,
           ExpireShared(v) \/ \E p \in Processes : ExpireLocal(p, v)
    PROVE  CacheInv'
<1>1. \A cache \in Caches : [cache EXCEPT ![v] = NULL] \in Caches
  BY StoredFits DEF Includes
<1>2. local' \in [Processes -> Caches] /\ shared' \in Caches
  BY <1>1 DEF CacheInv, ExpireLocal, ExpireShared
<1> QED
  BY <1>2, CachesKeep DEF ExpireLocal, ExpireShared, CacheInv, Latest

\* Every step keeps the invariant.
THEOREM StepCacheInv == CacheInv /\ [CacheNext]_cacheVars => CacheInv'
<1> SUFFICES ASSUME CacheInv, [CacheNext]_cacheVars PROVE CacheInv'
  OBVIOUS
<1>1. ASSUME NEW q \in Queries,
             (\E p \in Processes : Ask(q, p)) \/ AskShared(q) \/ Read(q)
             \/ StoreLocal(q) \/ StoreShared(q)
      PROVE  CacheInv'
  BY <1>1, AskKeeps, AskSharedKeeps, ReadKeeps, StoreLocalKeeps, StoreSharedKeeps
<1>2. ASSUME NEW p \in Processes, NEW renews \in BOOLEAN, Mutate(p, renews) PROVE CacheInv'
  BY <1>2, CommitKeeps DEF Mutate, Changes
<1>3. ASSUME Lapse PROVE CacheInv'
  BY <1>3, CommitKeeps DEF Lapse, Changes
<1>4. CASE UNCHANGED cacheVars
  BY <1>4, CachesKeep DEF cacheVars, CacheInv, Latest
<1> QED
  BY <1>1, <1>2, <1>3, <1>4, CleanKeeps, ExpireKeeps DEF CacheNext

\* Cached aggregates include every change that renewed the version they are
\* asked for with, though invalidations fail and results are stored late.
THEOREM AggregatesAreOfTheirVersion == CacheSpec => []AggregatesIncludeImports
<1>1. CacheInv => AggregatesIncludeImports
  BY DEF CacheInv, AggregatesIncludeImports, Cached, Caches, Includes
<1> QED
  BY <1>1, InitCacheInv, StepCacheInv, PTL DEF CacheSpec

-----------------------------------------------------------------------------
(* ResponseExport: from its audited start on, an export carries the count   *)
(* in that entry, and its file has no more rows.                            *)

ExportStates == [step : Steps, count : Nat \cup {NULL}, file : {NULL} \cup SUBSET ExportRows]
StartEntry(e, n) == [action |-> "export_started", export |-> e, response_count |-> n]

\* A file with these rows is accounted for in the audit log.
Accounted(e, rows, log) ==
    \E n \in Nat : /\ StartEntry(e, n) \in log
                   /\ n <= EXPORT_LIMIT /\ Cardinality(rows) <= n

\* What is known of an export in state x, with this audit log and this file in
\* storage.
ProgressOK(e, x, log, stored) ==
    /\ x.step # "new" => x.count \in Nat
    /\ x.step = "counted" => x.count <= EXPORT_LIMIT
    /\ x.step \in {"started", "built", "uploaded", "signed"} =>
          x.count <= EXPORT_LIMIT /\ StartEntry(e, x.count) \in log
    /\ x.step \in {"built", "uploaded", "signed"} =>
          x.file \in SUBSET ExportRows /\ Cardinality(x.file) <= x.count
    /\ x.step \in {"uploaded", "signed"} => stored # NULL

ExportInv ==
    /\ exportable \subseteq ExportRows
    /\ exporting \in [Exports -> ExportStates]
    /\ artifacts \in [Exports -> {NULL} \cup SUBSET ExportRows]
    /\ \A e \in Exports : /\ ProgressOK(e, exporting[e], audit, artifacts[e])
                          /\ artifacts[e] # NULL => Accounted(e, artifacts[e], audit)
                          /\ e \in links => artifacts[e] # NULL /\ Entries(e, "export") # {}

\* The initial states satisfy the invariant.
THEOREM InitExportInv == ExportInit => ExportInv
BY DEF ExportInit, ExportInv, ExportStates, Steps, ProgressOK

\* What was recorded stays, and so does what follows from it.
LEMMA RecordsStay ==
    ASSUME NEW e \in Exports, audit \subseteq audit'
    PROVE  /\ \A rows : Accounted(e, rows, audit) => Accounted(e, rows, audit')
           /\ Entries(e, "export") # {} => Entries(e, "export")' # {}
BY DEF Accounted, Entries

\* One export goes on; files stay and nothing is answered.
LEMMA ProgressKeeps ==
    ASSUME ExportInv, NEW e \in Exports, NEW x \in ExportStates,
           exporting' = [exporting EXCEPT ![e] = x], audit \subseteq audit',
           UNCHANGED <<exportable, artifacts, links>>, ProgressOK(e, x, audit', artifacts[e])
    PROVE  ExportInv'
<1>1. \A d \in Exports : ProgressOK(d, exporting'[d], audit', artifacts'[d])
  <2> SUFFICES ASSUME NEW d \in Exports, d # e
               PROVE  ProgressOK(d, exporting'[d], audit', artifacts'[d])
    BY DEF ExportInv
  <2>1. exporting'[d] = exporting[d] /\ ProgressOK(d, exporting[d], audit, artifacts[d])
    BY DEF ExportInv
  <2> QED
    BY <2>1 DEF ProgressOK
<1>2. \A d \in Exports : /\ artifacts'[d] # NULL => Accounted(d, artifacts'[d], audit')
                         /\ d \in links' => artifacts'[d] # NULL /\ Entries(d, "export")' # {}
  BY RecordsStay DEF ExportInv
<1> QED
  BY <1>1, <1>2 DEF ExportInv

\* An export that ends or fails needs nothing more.
LEMMA GivesUp ==
    ASSUME ExportInv, NEW e \in Exports, ~Reached(e, "new"), NEW to \in {"ended", "aborting"},
           Move(e, to), audit \subseteq audit', UNCHANGED <<exportable, artifacts, links>>
    PROVE  ExportInv'
<1> DEFINE x == [exporting[e] EXCEPT !.step = to]
<1>1. x \in ExportStates /\ exporting' = [exporting EXCEPT ![e] = x]
  BY DEF ExportInv, ExportStates, Steps, Move
<1>2. ProgressOK(e, x, audit', artifacts[e])
  BY DEF ExportInv, ExportStates, ProgressOK, Reached
<1> QED
  BY <1>1, <1>2, ProgressKeeps

LEMMA CountKeeps == ASSUME ExportInv, NEW e \in Exports, Count(e) PROVE ExportInv'
<1> DEFINE x == [exporting[e] EXCEPT
                    !.step = IF Cardinality(exportable) > EXPORT_LIMIT THEN "ended" ELSE "counted",
                    !.count = Cardinality(exportable)]
<1>1. Cardinality(exportable) \in Nat
  BY ExportAssumption, FS_Subset, FS_CardinalityType DEF ExportInv
<1>2. x \in ExportStates
  BY <1>1 DEF ExportInv, ExportStates, Steps
<1>3. exporting' = [exporting EXCEPT ![e] = x]
  BY DEF Count, ExportInv, ExportStates
<1>4. ProgressOK(e, x, audit', artifacts[e])
  BY <1>1, ExportAssumption DEF ExportInv, ExportStates, ProgressOK
<1> QED
  BY <1>2, <1>3, <1>4, ProgressKeeps DEF Count

LEMMA AuditStartKeeps == ASSUME ExportInv, NEW e \in Exports, AuditStart(e) PROVE ExportInv'
<1>1. CASE Record("export_started", e, exporting[e].count) /\ Move(e, "started")
  <2> DEFINE x == [exporting[e] EXCEPT !.step = "started"]
  <2>1. x \in ExportStates /\ exporting' = [exporting EXCEPT ![e] = x]
    BY <1>1 DEF ExportInv, ExportStates, Steps, Move
  <2>2. exporting[e].count \in Nat /\ exporting[e].count <= EXPORT_LIMIT
    BY DEF AuditStart, ExportInv, ProgressOK, Reached
  <2>3. StartEntry(e, exporting[e].count) \in audit' /\ audit \subseteq audit'
    BY <1>1 DEF Record, StartEntry
  <2>4. ProgressOK(e, x, audit', artifacts[e])
    BY <2>2, <2>3 DEF ExportInv, ExportStates, ProgressOK
  <2> QED
    BY <2>1, <2>3, <2>4, ProgressKeeps DEF AuditStart
<1>2. CASE Move(e, "ended") /\ UNCHANGED audit
  BY <1>2, GivesUp DEF AuditStart, Reached
<1> QED
  BY <1>1, <1>2 DEF AuditStart

\* A query returns no more rows than its limit.
LEMMA StreamedFits ==
    ASSUME exportable \subseteq ExportRows, NEW n \in Nat, NEW rows \in Streamed(n)
    PROVE  rows \subseteq ExportRows /\ Cardinality(rows) <= n
<1>1. Cardinality(exportable) \in Nat
  BY ExportAssumption, FS_Subset, FS_CardinalityType
<1> QED
  BY <1>1 DEF Streamed

LEMMA BuildKeeps == ASSUME ExportInv, NEW e \in Exports, Build(e) PROVE ExportInv'
<1>1. PICK rows \in Streamed(exporting[e].count) :
          \/ /\ exporting' = [exporting EXCEPT ![e].step = "built", ![e].file = rows]
             /\ UNCHANGED audit
          \/ /\ Move(e, "aborting")
             /\ \/ \E n \in 0 .. Cardinality(rows) : Record("export_aborted", e, n)
                \/ UNCHANGED audit
  BY DEF Build
<1>2. CASE /\ exporting' = [exporting EXCEPT ![e].step = "built", ![e].file = rows]
           /\ UNCHANGED audit
  <2> DEFINE x == [exporting[e] EXCEPT !.step = "built", !.file = rows]
  <2>1. /\ exporting[e].count \in Nat /\ exporting[e].count <= EXPORT_LIMIT
        /\ StartEntry(e, exporting[e].count) \in audit
    BY DEF Build, ExportInv, ProgressOK, Reached
  <2>2. rows \subseteq ExportRows /\ Cardinality(rows) <= exporting[e].count
    BY <1>1, <2>1, StreamedFits DEF ExportInv
  <2>3. x \in ExportStates
    BY <2>2 DEF ExportInv, ExportStates, Steps
  <2>4. exporting' = [exporting EXCEPT ![e] = x]
    BY <1>2 DEF ExportInv, ExportStates
  <2>5. ProgressOK(e, x, audit', artifacts[e])
    BY <1>2, <2>1, <2>2 DEF ExportInv, ExportStates, ProgressOK
  <2> QED
    BY <1>2, <2>3, <2>4, <2>5, ProgressKeeps DEF Build
<1>3. CASE /\ Move(e, "aborting")
           /\ \/ \E n \in 0 .. Cardinality(rows) : Record("export_aborted", e, n)
              \/ UNCHANGED audit
  <2>1. audit \subseteq audit'
    BY <1>3 DEF Record
  <2> QED
    BY <1>3, <2>1, GivesUp DEF Build, Reached
<1> QED
  BY <1>1, <1>2, <1>3

LEMMA UploadKeeps == ASSUME ExportInv, NEW e \in Exports, Upload(e) PROVE ExportInv'
<1> DEFINE file == exporting[e].file
<1>1. PICK stored, answered_ \in BOOLEAN :
          /\ answered_ => stored
          /\ artifacts' = IF stored THEN [artifacts EXCEPT ![e] = file] ELSE artifacts
          /\ Move(e, IF answered_ THEN "uploaded" ELSE "aborting")
  BY DEF Upload
<1>2. /\ exporting[e].count \in Nat /\ exporting[e].count <= EXPORT_LIMIT
      /\ StartEntry(e, exporting[e].count) \in audit
      /\ file \in SUBSET ExportRows /\ Cardinality(file) <= exporting[e].count
  BY DEF Upload, ExportInv, ProgressOK, Reached
<1>3. file # NULL /\ Accounted(e, file, audit)
  BY <1>2, ExportAssumption DEF Accounted
<1>4. exporting' \in [Exports -> ExportStates]
  BY <1>1 DEF Move, ExportInv, ExportStates, Steps
<1>5. artifacts' \in [Exports -> {NULL} \cup SUBSET ExportRows]
  BY <1>1, <1>2 DEF ExportInv
<1>6. ASSUME NEW d \in Exports
      PROVE  /\ ProgressOK(d, exporting'[d], audit', artifacts'[d])
             /\ artifacts'[d] # NULL => Accounted(d, artifacts'[d], audit')
             /\ d \in links' => artifacts'[d] # NULL /\ Entries(d, "export")' # {}
  <2>1. /\ ProgressOK(d, exporting[d], audit, artifacts[d])
        /\ artifacts[d] # NULL => Accounted(d, artifacts[d], audit)
        /\ d \in links => artifacts[d] # NULL /\ Entries(d, "export") # {}
    BY DEF ExportInv
  <2>2. audit' = audit
    BY DEF Upload
  <2>3. Entries(d, "export")' = Entries(d, "export") /\ links' = links
    BY DEF Upload, Entries
  <2>4. CASE d = e
    <3>1. artifacts'[e] = file \/ (artifacts'[e] = artifacts[e] /\ ~answered_)
      BY <1>1 DEF ExportInv
    <3>2. exporting'[e] = [exporting[e] EXCEPT
                             !.step = IF answered_ THEN "uploaded" ELSE "aborting"]
      BY <1>1 DEF Move, ExportInv
    <3>3. answered_ => artifacts'[e] # NULL
      BY <1>1, <1>3, <3>1 DEF ExportInv
    <3>4. ProgressOK(e, exporting'[e], audit', artifacts'[e])
      BY <1>2, <3>2, <3>3 DEF Upload, ProgressOK, ExportInv, ExportStates
    <3> QED
      BY <1>3, <2>1, <2>2, <2>3, <2>4, <3>1, <3>4
  <2>5. CASE d # e
    <3>1. exporting'[d] = exporting[d] /\ artifacts'[d] = artifacts[d]
      BY <1>1, <2>5 DEF Move, ExportInv
    <3>2. ProgressOK(d, exporting'[d], audit', artifacts'[d])
      BY <2>1, <3>1 DEF Upload, ProgressOK
    <3> QED
      BY <2>1, <2>2, <2>3, <3>1, <3>2
  <2> QED
    BY <2>4, <2>5
<1> QED
  BY <1>4, <1>5, <1>6 DEF Upload, ExportInv

LEMMA SignKeeps == ASSUME ExportInv, NEW e \in Exports, Sign(e) PROVE ExportInv'
<1>1. CASE Move(e, "signed")
  <2> DEFINE x == [exporting[e] EXCEPT !.step = "signed"]
  <2>1. x \in ExportStates /\ exporting' = [exporting EXCEPT ![e] = x]
    BY <1>1 DEF ExportInv, ExportStates, Steps, Move
  <2>2. ProgressOK(e, x, audit', artifacts[e])
    BY DEF Sign, ExportInv, ExportStates, ProgressOK, Reached
  <2> QED
    BY <2>1, <2>2, ProgressKeeps DEF Sign
<1>2. CASE Move(e, "aborting")
  BY <1>2, GivesUp DEF Sign, Reached
<1> QED
  BY <1>1, <1>2 DEF Sign

LEMMA AuditEndKeeps == ASSUME ExportInv, NEW e \in Exports, AuditEnd(e) PROVE ExportInv'
<1>1. CASE /\ Record("export", e, exporting[e].count)
           /\ Move(e, "ended") /\ links' = links \cup {e}
  <2>1. audit \subseteq audit'
    BY <1>1 DEF Record
  <2>2. artifacts[e] # NULL /\ Entries(e, "export")' # {}
    <3> DEFINE entry == [action |-> "export", export |-> e,
                         response_count |-> exporting[e].count]
    <3>1. entry \in audit'
      BY <1>1 DEF Record
    <3>2. entry \in Entries(e, "export")'
      BY <3>1 DEF Entries
    <3>3. artifacts[e] # NULL
      BY DEF AuditEnd, ExportInv, ProgressOK, Reached
    <3> QED
      BY <3>2, <3>3
  <2>3. exporting' \in [Exports -> ExportStates]
    BY <1>1 DEF Move, ExportInv, ExportStates, Steps
  <2>4. ASSUME NEW d \in Exports PROVE ProgressOK(d, exporting'[d], audit', artifacts'[d])
    <3>1. ProgressOK(d, exporting[d], audit, artifacts[d])
      BY DEF ExportInv
    <3>2. CASE d = e
      <4>1. exporting'[e] = [exporting[e] EXCEPT !.step = "ended"]
        BY <1>1 DEF Move, ExportInv
      <4> QED
        BY <3>1, <3>2, <4>1 DEF AuditEnd, Reached, ProgressOK, ExportInv, ExportStates
    <3>3. CASE d # e
      BY <1>1, <2>1, <3>1, <3>3 DEF AuditEnd, Move, ProgressOK, ExportInv
    <3> QED
      BY <3>2, <3>3
  <2>5. ASSUME NEW d \in Exports
        PROVE  /\ artifacts'[d] # NULL => Accounted(d, artifacts'[d], audit')
               /\ d \in links' => artifacts'[d] # NULL /\ Entries(d, "export")' # {}
    BY <1>1, <2>1, <2>2, RecordsStay DEF AuditEnd, ExportInv
  <2> QED
    BY <2>3, <2>4, <2>5 DEF AuditEnd, ExportInv
<1>2. CASE Move(e, "aborting") /\ UNCHANGED <<audit, links>>
  BY <1>2, GivesUp DEF AuditEnd, Reached
<1> QED
  BY <1>1, <1>2 DEF AuditEnd

LEMMA AuditAbortKeeps == ASSUME ExportInv, NEW e \in Exports, AuditAbort(e) PROVE ExportInv'
<1>1. audit \subseteq audit'
  BY DEF AuditAbort, Record
<1> QED
  BY <1>1, GivesUp DEF AuditAbort, Reached

\* Respondents answer and withdraw.
LEMMA RowsKeep ==
    ASSUME ExportInv, exportable' \subseteq ExportRows,
           UNCHANGED <<exporting, audit, artifacts, links>>
    PROVE  ExportInv'
BY DEF ExportInv, ProgressOK, Accounted, Entries

\* Every step keeps the invariant.
THEOREM StepExportInv == ExportInv /\ [ExportNext]_exportVars => ExportInv'
<1> SUFFICES ASSUME ExportInv, [ExportNext]_exportVars PROVE ExportInv'
  OBVIOUS
<1>1. ASSUME NEW e \in Exports, ExportDies(e) PROVE ExportInv'
  BY <1>1, GivesUp DEF ExportDies
<1>2. ASSUME NEW r \in ExportRows, Submitted(r) \/ Removed(r) PROVE ExportInv'
  BY <1>2, RowsKeep DEF Submitted, Removed, ExportInv
<1>3. CASE UNCHANGED exportVars
  BY <1>3, RowsKeep DEF exportVars, ExportInv
<1> QED
  BY <1>1, <1>2, <1>3, CountKeeps, AuditStartKeeps, BuildKeeps, UploadKeeps, SignKeeps,
     AuditEndKeeps, AuditAbortKeeps DEF ExportNext

\* Every file in storage has an audited start that covers its rows, and every
\* link an audited end and a file, whatever failed and whoever answered meanwhile.
THEOREM FilesAreAudited == ExportSpec => []ExportsAreAudited
<1>1. ExportInv => ExportsAreAudited
  <2> SUFFICES ASSUME ExportInv, NEW e \in Exports
               PROVE  /\ artifacts[e] # NULL =>
                            \E a \in Entries(e, "export_started") :
                                /\ a.response_count <= EXPORT_LIMIT
                                /\ Cardinality(artifacts[e]) <= a.response_count
                      /\ e \in links => artifacts[e] # NULL /\ Entries(e, "export") # {}
    BY DEF ExportsAreAudited
  <2>1. ASSUME artifacts[e] # NULL
        PROVE  \E a \in Entries(e, "export_started") :
                   /\ a.response_count <= EXPORT_LIMIT
                   /\ Cardinality(artifacts[e]) <= a.response_count
    <3>1. PICK n \in Nat : /\ StartEntry(e, n) \in audit
                           /\ n <= EXPORT_LIMIT /\ Cardinality(artifacts[e]) <= n
      BY <2>1 DEF ExportInv, Accounted
    <3>2. StartEntry(e, n) \in Entries(e, "export_started")
      BY <3>1 DEF StartEntry, Entries
    <3> QED
      BY <3>1, <3>2 DEF StartEntry
  <2> QED
    BY <2>1 DEF ExportInv
<1> QED
  BY <1>1, InitExportInv, StepExportInv, PTL DEF ExportSpec

-----------------------------------------------------------------------------
(* FeedbackScores: unless corrections of a question ran together, it has at *)
(* most one row, with the verdict committed last, and a correction that     *)
(* nobody overtook knows that row.                                          *)

FeedbackRows == [by : Corrections, value : Verdicts]
\* A correction that has read the response; its scores may be anything.
ReadStates(S) == [step : {"feedback", "write"}, of : Texts, verdict : Verdicts, scores : S,
                  late : BOOLEAN, row : {NULL} \cup FeedbackRows]
HasRead(x) == \E S : x \in ReadStates(S)
RegisterStates == [step : {"register"}, of : Texts]

FeedbackTypeOK ==
    /\ answered \subseteq Texts
    /\ feedback \in [Texts -> SUBSET FeedbackRows]
    /\ verdict \in [Texts -> Verdicts \cup {NULL}]
    /\ correction = [c \in Corrections |-> correction[c]]
    /\ \A c \in Corrections : \/ correction[c] = AtRest \/ correction[c] \in RegisterStates
                              \/ HasRead(correction[c])

\* The rows of a question whose corrections did not overlap.
RowsOK(stored, last) ==
    \/ stored = {} /\ last = NULL
    \/ \E row \in FeedbackRows : stored = {row} /\ row.value = last

\* What a correction knows of the rows, unless it was overtaken.
Knows(x, stored) ==
    HasRead(x) /\ x.step = "write" /\ ~x.late => stored = IF x.row = NULL THEN {} ELSE {x.row}

FeedbackInv ==
    /\ FeedbackTypeOK
    /\ \A q \in Texts \ overlapped : RowsOK(feedback[q], verdict[q])
    /\ \A c \in Corrections : HasRead(correction[c]) /\ correction[c].of \notin overlapped
                                  => Knows(correction[c], feedback[correction[c].of])

\* The initial states satisfy the invariant.
THEOREM InitFeedbackInv == FeedbackInit => FeedbackInv
<1> SUFFICES ASSUME FeedbackInit PROVE FeedbackInv
  OBVIOUS
<1>1. FeedbackTypeOK
  BY DEF FeedbackInit, FeedbackTypeOK, Unscored
<1>2. \A q \in Texts : RowsOK(feedback[q], verdict[q])
  BY DEF FeedbackInit, RowsOK, Unscored
<1>3. \A c \in Corrections : ~HasRead(correction[c])
  BY DEF FeedbackInit, HasRead, ReadStates, AtRest
<1> QED
  BY <1>1, <1>2, <1>3 DEF FeedbackInv

\* A correction goes on without a commit.
LEMMA CorrectionKeeps ==
    ASSUME FeedbackInv, UNCHANGED <<answered, feedback, verdict, overlapped>>,
           NEW c \in Corrections, NEW x, correction' = [correction EXCEPT ![c] = x],
           x = AtRest \/ x \in RegisterStates \/ HasRead(x),
           HasRead(x) /\ x.of \notin overlapped => Knows(x, feedback[x.of])
    PROVE  FeedbackInv'
<1>1. \A d \in Corrections : correction'[d] = IF d = c THEN x ELSE correction[d]
  BY DEF FeedbackInv, FeedbackTypeOK
<1>2. FeedbackTypeOK'
  BY <1>1 DEF FeedbackInv, FeedbackTypeOK
<1> QED
  BY <1>1, <1>2 DEF FeedbackInv

\* A step that leaves rows and corrections alone.
LEMMA OthersKeep ==
    ASSUME FeedbackInv, answered' \subseteq Texts,
           UNCHANGED <<feedback, verdict, overlapped, correction>>
    PROVE  FeedbackInv'
BY DEF FeedbackInv, FeedbackTypeOK

LEMMA ReadResponseKeeps ==
    ASSUME FeedbackInv, NEW c \in Corrections, ReadResponse(c) PROVE FeedbackInv'
<1>1. PICK q \in answered, v \in Verdicts :
          correction' = [correction EXCEPT ![c] =
              [step |-> "feedback", of |-> q, verdict |-> v, scores |-> sentiments,
               late |-> FALSE, row |-> NULL]]
  BY DEF ReadResponse
<1> DEFINE x == [step |-> "feedback", of |-> q, verdict |-> v, scores |-> sentiments,
                 late |-> FALSE, row |-> NULL]
<1>2. x \in ReadStates({sentiments})
  BY DEF FeedbackInv, FeedbackTypeOK, ReadStates
<1>3. HasRead(x) /\ Knows(x, feedback[x.of])
  BY <1>2 DEF HasRead, Knows
<1> QED
  BY <1>1, <1>3, CorrectionKeeps DEF ReadResponse

LEMMA ReadFeedbackKeeps ==
    ASSUME FeedbackInv, NEW c \in Corrections, ReadFeedback(c) PROVE FeedbackInv'
<1> DEFINE r == correction[c]
           q == r.of
<1>1. PICK S : r \in ReadStates(S)
  BY DEF ReadFeedback, FeedbackInv, FeedbackTypeOK, HasRead, AtRest, RegisterStates
<1>2. q \in Texts /\ feedback[q] \subseteq FeedbackRows
  BY <1>1 DEF ReadStates, FeedbackInv, FeedbackTypeOK
<1>3. PICK row \in IF feedback[q] = {} THEN {NULL} ELSE feedback[q] :
          correction' = [correction EXCEPT ![c].step = "write", ![c].row = row]
  BY DEF ReadFeedback
<1> DEFINE x == [r EXCEPT !.step = "write", !.row = row]
<1>4. correction' = [correction EXCEPT ![c] = x]
  BY <1>3 DEF FeedbackInv, FeedbackTypeOK
<1>5. x \in ReadStates(S) /\ x.of = q /\ x.row = row
  BY <1>1, <1>2, <1>3 DEF ReadStates
<1>6. ASSUME q \notin overlapped PROVE feedback[q] = IF row = NULL THEN {} ELSE {row}
  <2>1. RowsOK(feedback[q], verdict[q])
    BY <1>2, <1>6 DEF FeedbackInv
  <2>2. NULL \notin FeedbackRows
    BY FeedbackAssumption DEF FeedbackRows
  <2> QED
    BY <1>2, <1>3, <2>1, <2>2 DEF RowsOK
<1>7. HasRead(x) /\ (q \notin overlapped => Knows(x, feedback[q]))
  BY <1>5, <1>6 DEF HasRead, Knows
<1> QED
  BY <1>4, <1>5, <1>7, CorrectionKeeps DEF ReadFeedback

\* A correction that nobody overtook leaves one row, with its verdict.
LEMMA UpsertedRow ==
    ASSUME FeedbackInv, NEW c \in Corrections, HasRead(correction[c]),
           correction[c].step = "write", ~correction[c].late,
           correction[c].of \notin overlapped
    PROVE  RowsOK(Upserted(c), correction[c].verdict)
<1> DEFINE r == correction[c]
<1>1. PICK S : r \in ReadStates(S)
  BY DEF HasRead
<1>2. feedback[r.of] = IF r.row = NULL THEN {} ELSE {r.row}
  BY DEF FeedbackInv, Knows
<1>3. CASE r.row = NULL
  <2>1. [by |-> c, value |-> r.verdict] \in FeedbackRows
    BY <1>1 DEF ReadStates, FeedbackRows
  <2>2. Upserted(c) = {[by |-> c, value |-> r.verdict]}
    BY <1>2, <1>3 DEF Upserted
  <2> QED
    BY <2>1, <2>2 DEF RowsOK
<1>4. CASE r.row # NULL
  <2>1. r.row \in FeedbackRows /\ [r.row EXCEPT !.value = r.verdict] \in FeedbackRows
    BY <1>1, <1>4 DEF ReadStates, FeedbackRows
  <2>2. Upserted(c) = IF r.row.value = r.verdict THEN {r.row}
                      ELSE {[r.row EXCEPT !.value = r.verdict]}
    BY <1>2, <1>4 DEF Upserted
  <2>3. [r.row EXCEPT !.value = r.verdict].value = r.verdict
    BY <2>1 DEF FeedbackRows
  <2> QED
    BY <2>1, <2>2, <2>3 DEF RowsOK
<1> QED
  BY <1>3, <1>4

LEMMA UpsertedType ==
    ASSUME FeedbackInv, NEW c \in Corrections, HasRead(correction[c])
    PROVE  Upserted(c) \subseteq FeedbackRows
<1> DEFINE r == correction[c]
<1>1. PICK S : r \in ReadStates(S)
  BY DEF HasRead
<1>2. r.verdict \in Verdicts /\ feedback[r.of] \subseteq FeedbackRows
  BY <1>1 DEF ReadStates, FeedbackInv, FeedbackTypeOK
<1> QED
  BY <1>2 DEF Upserted, FeedbackRows

LEMMA SaveKeeps == ASSUME FeedbackInv, NEW c \in Corrections, Save(c) PROVE FeedbackInv'
<1> DEFINE r == correction[c]
           q == r.of
<1>1. HasRead(r)
  BY DEF Save, FeedbackInv, FeedbackTypeOK, AtRest, RegisterStates
<1>2. q \in Texts /\ r.verdict \in Verdicts
  BY <1>1 DEF HasRead, ReadStates
<1>3. feedback' \in [Texts -> SUBSET FeedbackRows]
  BY <1>1, <1>2, UpsertedType DEF Save, FeedbackInv, FeedbackTypeOK
<1>4. verdict' \in [Texts -> Verdicts \cup {NULL}]
  BY <1>2 DEF Save, FeedbackInv, FeedbackTypeOK
<1>5. correction'[c] = [step |-> "register", of |-> q] /\ correction'[c] \in RegisterStates
  BY <1>2 DEF Save, RegisterStates
<1>6. ~HasRead(correction'[c])
  BY <1>5 DEF HasRead, ReadStates
<1>7. ASSUME NEW d \in Corrections, d # c, HasRead(correction[d]), correction[d].of = q
      PROVE  HasRead(correction'[d]) /\ correction'[d].late
  <2>1. PICK S : correction[d] \in ReadStates(S)
    BY <1>7 DEF HasRead
  <2>2. correction'[d] = [correction[d] EXCEPT !.late = TRUE]
    BY <1>7, <2>1 DEF Save, ReadStates
  <2>3. correction'[d] \in ReadStates(S) /\ correction'[d].late
    BY <2>1, <2>2 DEF ReadStates
  <2> QED
    BY <2>3 DEF HasRead
<1>8. ASSUME NEW d \in Corrections, d # c, ~(HasRead(correction[d]) /\ correction[d].of = q)
      PROVE  correction'[d] = correction[d]
  <2>1. \/ correction[d] = AtRest \/ correction[d] \in RegisterStates
        \/ HasRead(correction[d]) /\ correction[d].of # q
    BY <1>8 DEF FeedbackInv, FeedbackTypeOK
  <2> QED
    BY <1>8, <2>1 DEF Save, AtRest, RegisterStates
<1>9. FeedbackTypeOK'
  <2>1. correction' = [d \in Corrections |-> correction'[d]]
    BY DEF Save
  <2>2. \A d \in Corrections : \/ correction'[d] = AtRest \/ correction'[d] \in RegisterStates
                               \/ HasRead(correction'[d])
    BY <1>5, <1>7, <1>8 DEF FeedbackInv, FeedbackTypeOK
  <2> QED
    BY <1>3, <1>4, <2>1, <2>2 DEF Save, FeedbackInv, FeedbackTypeOK
<1>10. overlapped \subseteq overlapped' /\ (r.late => q \in overlapped')
  BY DEF Save
<1>11. ASSUME NEW p \in Texts \ overlapped' PROVE RowsOK(feedback'[p], verdict'[p])
  <2>1. CASE p = q
    <3>1. feedback'[q] = Upserted(c) /\ verdict'[q] = r.verdict
      BY <1>2 DEF Save, FeedbackInv, FeedbackTypeOK
    <3>2. ~r.late /\ q \notin overlapped
      <4>1. r.late \in BOOLEAN
        BY <1>1 DEF HasRead, ReadStates
      <4> QED
        BY <1>10, <1>11, <2>1, <4>1
    <3> QED
      BY <1>1, <2>1, <3>1, <3>2, UpsertedRow DEF Save
  <2>2. CASE p # q
    BY <1>10, <1>11, <2>2 DEF Save, FeedbackInv, FeedbackTypeOK
  <2> QED
    BY <2>1, <2>2
<1>12. ASSUME NEW d \in Corrections, HasRead(correction'[d]), correction'[d].of \notin overlapped'
       PROVE  Knows(correction'[d], feedback'[correction'[d].of])
  <2>1. d # c
    BY <1>6, <1>12
  <2>2. CASE HasRead(correction[d]) /\ correction[d].of = q
    BY <1>7, <2>1, <2>2 DEF Knows
  <2>3. CASE ~(HasRead(correction[d]) /\ correction[d].of = q)
    <3>1. correction'[d] = correction[d] /\ correction[d].of # q
      BY <1>8, <1>12, <2>1, <2>3
    <3>2. correction[d].of \in Texts
      BY <1>12, <3>1 DEF HasRead, ReadStates
    <3>3. feedback'[correction[d].of] = feedback[correction[d].of]
      BY <3>1, <3>2 DEF Save, FeedbackInv, FeedbackTypeOK
    <3> QED
      BY <1>10, <1>12, <3>1, <3>3 DEF FeedbackInv
  <2> QED
    BY <2>2, <2>3
<1> QED
  BY <1>9, <1>11, <1>12 DEF FeedbackInv

LEMMA EndsKeep ==
    ASSUME FeedbackInv, NEW c \in Corrections, NotSaved(c) \/ Register(c) PROVE FeedbackInv'
<1>1. ~HasRead(AtRest)
  BY DEF HasRead, ReadStates, AtRest
<1> QED
  BY <1>1, CorrectionKeeps DEF NotSaved, Register

\* Every step keeps the invariant.
THEOREM StepFeedbackInv == FeedbackInv /\ [FeedbackNext]_feedbackVars => FeedbackInv'
<1> SUFFICES ASSUME FeedbackInv, [FeedbackNext]_feedbackVars PROVE FeedbackInv'
  OBVIOUS
<1>1. answered \subseteq Texts
  BY DEF FeedbackInv, FeedbackTypeOK
<1>2. CASE AnswerPhase \/ Remove
  BY <1>1, <1>2, OthersKeep DEF AnswerPhase, Remove, Texts
<1>3. ASSUME NEW a \in Analyses, ReadAnswers(a) \/ Compute(a) \/ WriteScores(a)
      PROVE  FeedbackInv'
  BY <1>1, <1>3, OthersKeep DEF ReadAnswers, Compute, WriteScores
<1>4. CASE UNCHANGED feedbackVars
  BY <1>1, <1>4, OthersKeep DEF feedbackVars
<1> QED
  BY <1>2, <1>3, <1>4, ReadResponseKeeps, ReadFeedbackKeeps, SaveKeeps, EndsKeep DEF FeedbackNext

\* What an administrator decided about an answer is what analytics shows, unless
\* corrections of this very answer ran together or it is a placeholder: later
\* analyses change nothing.
THEOREM DecisionsShow == FeedbackSpec => []ForcedShows
<1>1. FeedbackInv => ForcedShows
  <2> SUFFICES ASSUME FeedbackInv, NEW q \in Texts \ Placeholders, Settled(q),
                      verdict[q] \in Polarities
               PROVE  Shown(q) = {verdict[q]}
    BY DEF ForcedShows
  <2>1. RowsOK(feedback[q], verdict[q])
    BY DEF FeedbackInv, Settled
  <2>2. NULL \notin Polarities /\ Flip \notin Polarities
    BY FeedbackAssumption
  <2>3. PICK row \in FeedbackRows : feedback[q] = {row} /\ row.value = verdict[q]
    BY <2>1, <2>2 DEF RowsOK
  <2> QED
    BY <2>2, <2>3 DEF Shown, Corrected
<1> QED
  BY <1>1, InitFeedbackInv, StepFeedbackInv, PTL DEF FeedbackSpec
=============================================================================
