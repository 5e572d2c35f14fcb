---------------------------- MODULE MCPortalAccess ----------------------------
(* The kinds of requests that meet in one behaviour of PortalAccess.  Alike  *)
(* holds for every part of MCAdministration when the browsers, the users and *)
(* the administrators are the same values, and requests and slots are.       *)
EXTENDS PortalAccess, TLC

ResetMix == {"signin", "confirm", "reset", "challenge"}
SessionMix == {"signin", "signout", "everywhere", "challenge"}
SettingsMix == {"signin", "enroll", "cancel", "verify", "remove"}
ThreeMixes == {ResetMix, SessionMix, SettingsMix}
Alike == Permutations(Browsers) \cup Permutations(Requests)
===============================================================================
