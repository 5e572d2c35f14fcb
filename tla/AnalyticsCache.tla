---------------------------- MODULE AnalyticsCache ----------------------------
(***************************************************************************)
(* The cached aggregates of one survey (backend/core/analytics_cache.py,   *)
(* core/cache.py, routers/survey_analytics.py): a cache in each process    *)
(* and one in Redis, filled by requests that read the database and         *)
(* invalidated by every mutation after its commit.                         *)
(*                                                                         *)
(* Data is the number of the last change it includes.  The entries' key    *)
(* carries a version, the survey's updated_at and responses_count, which   *)
(* some changes renew and others leave alone.  An entry may expire at any  *)
(* time, and Redis may fail.                                               *)
(***************************************************************************)
EXTENDS Naturals, Sequences, Nullable

CONSTANTS
    Processes,   \* backend processes
    Queries,     \* requests for the aggregates that run at the same time
    MaxChanges   \* bound: changes of the responses

ASSUME CacheAssumption == MaxChanges \in Nat

VARIABLES
    changes,  \* what was committed: by whom (NULL: by nobody) and what of its
              \* invalidation is to come
    version,  \* the survey's: the last change that renewed it
    local,    \* local[p][v]: the data process p has for version v, or NULL
    shared,   \* shared[v]: the data in Redis, or NULL
    query     \* what each request is doing

cacheVars == <<changes, version, local, shared, query>>

Latest == Len(changes)
Versions == 0 .. MaxChanges
NoEntries == [v \in Versions |-> NULL]
Waiting == [step |-> "none"]

CacheInit ==
    /\ changes = <<>> /\ version = 0
    /\ local = [p \in Processes |-> NoEntries]
    /\ shared = NoEntries
    /\ query = [q \in Queries |-> Waiting]

-----------------------------------------------------------------------------
(* aggregate_survey_responses                                              *)

\* The survey's version is read, and the process's own cache is asked in the
\* same step; what it has is the answer.
Ask(q, p) ==
    /\ query[q] = Waiting
    /\ local[p][version] = NULL
    /\ query' = [query EXCEPT ![q] = [step |-> "shared", process |-> p, version |-> version]]
    /\ UNCHANGED <<changes, version, local, shared>>

\* What Redis has is the answer, and goes into the process's cache.
AskShared(q) ==
    LET r == query[q]
    IN  /\ r.step = "shared"
        /\ shared[r.version] # NULL
        /\ local' = [local EXCEPT ![r.process][r.version] = shared[r.version]]
        /\ query' = [query EXCEPT ![q] = Waiting]
        /\ UNCHANGED <<changes, version, shared>>

\* Faulty variant: a read replica answers, which may lag behind.
ReadableOnReplica == 0 .. Latest

\* The primary answers.
Readable == {Latest}

\* Redis has nothing, or fails.
Read(q) ==
    LET r == query[q]
    IN  /\ r.step = "shared"
        /\ \E data \in Readable :
              query' = [query EXCEPT ![q] = [step |-> "local", process |-> r.process,
                                             version |-> r.version, data |-> data]]
        /\ UNCHANGED <<changes, version, local, shared>>

StoreLocal(q) ==
    LET r == query[q]
    IN  /\ r.step = "local"
        /\ local' = [local EXCEPT ![r.process][r.version] = r.data]
        /\ query' = [query EXCEPT ![q] = [step |-> "store", version |-> r.version,
                                          data |-> r.data]]
        /\ UNCHANGED <<changes, version, shared>>

StoreShared(q) ==
    LET r == query[q]
    IN  /\ r.step = "store"
        /\ \/ shared' = [shared EXCEPT ![r.version] = r.data]
           \/ UNCHANGED shared   \* Redis fails
        /\ query' = [query EXCEPT ![q] = Waiting]
        /\ UNCHANGED <<changes, version, local>>

-----------------------------------------------------------------------------
(* Mutations, and the time.                                                *)

Commit(change, renews) ==
    /\ Latest < MaxChanges
    /\ changes' = Append(changes, change)
    /\ version' = IF renews THEN Latest + 1 ELSE version
    /\ UNCHANGED <<local, shared, query>>

\* A submission, withdrawal, erasure, import or purge renews the version; a
\* follow-up, an analysis and a correction of a score do not.
Mutate(p, renews) == Commit([by |-> p, toclean |-> "local"], renews)

\* A response's deadline passes: the queries leave it out from now on.
Lapse == Commit([by |-> NULL, toclean |-> "none"], FALSE)

\* ainvalidate_survey_analytics: the process's own entries of the survey, then
\* those in Redis, unless it fails.
CleanLocal(c) ==
    /\ changes[c].toclean = "local"
    /\ local' = [local EXCEPT ![changes[c].by] = NoEntries]
    /\ changes' = [changes EXCEPT ![c].toclean = "shared"]
    /\ UNCHANGED <<version, shared, query>>

CleanShared(c) ==
    /\ changes[c].toclean = "shared"
    /\ shared' = NoEntries \/ UNCHANGED shared
    /\ changes' = [changes EXCEPT ![c].toclean = "none"]
    /\ UNCHANGED <<version, local, query>>

DieBeforeCleaning(c) ==   \* the process ends after the commit
    /\ changes[c].toclean # "none"
    /\ changes' = [changes EXCEPT ![c].toclean = "none"]
    /\ UNCHANGED <<version, local, shared, query>>

ExpireLocal(p, v) ==
    /\ local[p][v] # NULL
    /\ local' = [local EXCEPT ![p][v] = NULL]
    /\ UNCHANGED <<changes, version, shared, query>>

ExpireShared(v) ==
    /\ shared[v] # NULL
    /\ shared' = [shared EXCEPT ![v] = NULL]
    /\ UNCHANGED <<changes, version, local, query>>

CacheNext ==
    \/ \E q \in Queries :
          \/ \E p \in Processes : Ask(q, p)
          \/ AskShared(q) \/ Read(q) \/ StoreLocal(q) \/ StoreShared(q)
    \/ \E p \in Processes, renews \in BOOLEAN : Mutate(p, renews)
    \/ \E c \in DOMAIN changes : CleanLocal(c) \/ CleanShared(c) \/ DieBeforeCleaning(c)
    \/ \E v \in Versions : ExpireShared(v) \/ \E p \in Processes : ExpireLocal(p, v)
    \/ Lapse

CacheSpec == CacheInit /\ [][CacheNext]_cacheVars

-----------------------------------------------------------------------------
Cached(v) ==   \* the data a request for this version may be answered from a cache
    {data \in {local[p][v] : p \in Processes} \cup {shared[v]} : data # NULL}

\* Cached aggregates include every change that renewed the version they are
\* asked for with, and so all those committed before they are asked for:
\* whatever is stored late, by any process, and though invalidations fail.
AggregatesIncludeImports ==
    \A v \in Versions : \A data \in Cached(v) : data >= v

(* A claim of docs/privacy-and-retention.md that the code does not keep.   *)

\* "Expired rows therefore disappear from those operations immediately": no
\* aggregates that would be answered now show a response whose deadline passed.
LapsedNotShown ==
    \A data \in Cached(version) : \A c \in (data + 1) .. Latest : changes[c].by # NULL
=============================================================================
