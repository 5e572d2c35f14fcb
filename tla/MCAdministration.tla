--------------------------- MODULE MCAdministration ---------------------------
(* What administrators work with, one small instance of each part: their own *)
(* sign-in, the roles on the server, the pages that list users, roles and    *)
(* the audit trail, and the alumni counts.  A behaviour is one of the part   *)
(* chosen first; they share no state.                                               *)
EXTENDS MCPortalAccess, AccessControl, AdminPages, AlumniCounts

VARIABLE part

InPortal == part = "portal" /\ UNCHANGED <<accessVars, pagesVars, alumniVars, part>>
InAccess == part = "access" /\ UNCHANGED <<portalVars, pagesVars, alumniVars, part>>
InPages == part = "pages" /\ UNCHANGED <<portalVars, accessVars, alumniVars, part>>
InAlumni == part = "alumni" /\ UNCHANGED <<portalVars, accessVars, pagesVars, part>>

AdministrationInit ==
    /\ part \in {"portal", "access", "pages", "alumni"}
    /\ PortalInit /\ AccessInit /\ PagesInit /\ AlumniInit
    /\ part # "portal" => mix = ResetMix /\ \A f \in Factors : factors[f] = "unused"
    /\ part # "access" => enabled = {} /\ \A u \in Users : status[u] = "active" /\ assigned[u] = {Admin}
    /\ part # "pages" => page = "users"
    /\ part # "alumni" => \A c \in Cells : stored[c] = Blank

AdministrationNext ==
    \/ InPortal /\ PortalNext
    \/ InAccess /\ AccessNext
    \/ InPages /\ PagesNext
    \/ InAlumni /\ AlumniNext

AdministrationSpec ==
    AdministrationInit /\ [][AdministrationNext]_<<portalVars, accessVars, pagesVars, alumniVars, part>>
===============================================================================
