-------------------------- MODULE MCStoredResponses --------------------------
(* What becomes of stored responses, one small instance of each part: they   *)
(* are replayed, withdrawn and erased; their texts are scored and corrected;  *)
(* their aggregates are cached; they are exported.  A behaviour is one of the *)
(* part chosen first; they share no state.                                   *)
EXTENDS MCResponseLifecycle, MCFeedbackScores, AnalyticsCache, ResponseExport

VARIABLE part

InResponses == part = "responses" /\ UNCHANGED <<feedbackVars, cacheVars, exportVars, part>>
InFeedback == part = "feedback" /\ UNCHANGED <<vars, cacheVars, exportVars, part>>
InCache == part = "cache" /\ UNCHANGED <<vars, feedbackVars, exportVars, part>>
InExport == part = "export" /\ UNCHANGED <<vars, feedbackVars, cacheVars, part>>

StoredInit ==
    /\ part \in {"responses", "feedback", "cache", "export"}
    /\ Init /\ FeedbackInit /\ CacheInit /\ ExportInit
    /\ part # "export" => exportable = {}
    /\ part # "responses" => survey.status = "Active"

StoredNext ==
    \/ InResponses /\ Next
    \/ InFeedback /\ SmallFeedbackNext
    \/ InCache /\ CacheNext
    \/ InExport /\ ExportNext

StoredSpec == StoredInit /\ [][StoredNext]_<<vars, feedbackVars, cacheVars, exportVars, part>>
==============================================================================
