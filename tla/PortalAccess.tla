---------------------------- MODULE PortalAccess ----------------------------
(***************************************************************************)
(* One staff account, the identity provider's view of it (password,        *)
(* sessions, authenticator factors), the browsers it is used from and the  *)
(* server requests in flight: sign-in and sign-out (app/login), recovery   *)
(* link, reset grant and password reset (app/auth/confirm,                 *)
(* app/reset-password, routers/auth.py), and the authenticator settings    *)
(* (app/mfa).  A request carries the cookies its browser had when it was   *)
(* sent and writes them when it is answered; several run at once.          *)
(***************************************************************************)
EXTENDS Naturals, FiniteSets

CONSTANTS
    Browsers,       \* each with one cookie jar
    Requests,       \* places for requests in flight, so at most that many at once
    MaxSessions,    \* bound: sessions ever issued to the account
    MaxFactors,     \* bound: factors ever enrolled
    Mixes,          \* bound: the sets of request kinds mixed in one behaviour
    Enrolled        \* the sets of factors the account may start with

ASSUME PortalAssumption ==
    /\ MaxSessions \in Nat /\ MaxFactors \in Nat /\ IsFiniteSet(Requests)
    /\ Enrolled \subseteq SUBSET (1 .. MaxFactors)

Sessions == 1 .. MaxSessions
Factors == 1 .. MaxFactors
NoSession == 0
NoFactor == 0

VARIABLES
    password,   \* number of the password in force
    sessions,   \* provider: what each session is: "unissued", "aal1", "aal2" or "ended"
    born,       \* provider: the password in force when the session was issued
    factors,    \* provider: "unused", "unverified", "verified" or "removed"
    link,       \* whether an unused recovery or invitation link is in the mailbox
    jar,        \* per browser: session and level of its access token, reset grant
    setup,      \* per browser: the factor whose setup the Settings page shows
    used,       \* Redis: the grants marked used (a grant is named after its session)
    expired,    \* the grants past their ten minutes
    changed,    \* the passwords set with each grant
    op,         \* per place: the request in flight
    mix         \* the kinds of requests of this behaviour

account == <<password, sessions, born, factors, link>>
grants == <<used, expired, changed>>
portalVars == <<account, jar, setup, grants, op, mix>>

EmptyJar == [session |-> NoSession, level |-> "aal1", grant |-> NoSession]
Idle == [kind |-> "idle", browser |-> "none", session |-> NoSession,
         level |-> "aal1", grant |-> NoSession, factor |-> NoFactor, at |-> "idle",
         todo |-> {}, confirmed |-> FALSE]

PortalInit ==
    /\ password = 1
    /\ sessions = [s \in Sessions |-> "unissued"]
    /\ born = [s \in Sessions |-> 1]
    /\ \E E \in Enrolled : factors = [f \in Factors |-> IF f \in E THEN "verified" ELSE "unused"]
    /\ link = FALSE
    /\ jar = [b \in Browsers |-> EmptyJar]
    /\ setup = [b \in Browsers |-> NoFactor]
    /\ used = {} /\ expired = {}
    /\ changed = [s \in Sessions |-> {}]
    /\ op = [r \in Requests |-> Idle]
    /\ mix \in Mixes

(***************************************************************************)
(* The identity provider, as the code uses it                              *)
(***************************************************************************)
Live(s) == s \in Sessions /\ sessions[s] \in {"aal1", "aal2"}
Verified == {f \in Factors : factors[f] = "verified"}
Unverified == {f \in Factors : factors[f] = "unverified"}

NewSession == {s \in Sessions : sessions[s] = "unissued" /\ \A x \in 1 .. (s - 1) : sessions[x] # "unissued"}
NewFactor == {f \in Factors : factors[f] = "unused" /\ \A x \in 1 .. (f - 1) : factors[x] # "unused"}

Issue(s) ==
    /\ sessions' = [sessions EXCEPT ![s] = "aal1"]
    /\ born' = [born EXCEPT ![s] = password]

Ended(S) == [s \in Sessions |-> IF s \in S /\ Live(s) THEN "ended" ELSE sessions[s]]

(* Verifying a new factor elevates this session and signs the others out.   *)
ElevatedBy(s, f) ==
    [x \in Sessions |->
        CASE x = s -> "aal2"
          [] x # s /\ factors[f] = "unverified" /\ Live(x) -> "ended"
          [] OTHER -> sessions[x]]

(* Without a verified factor no session stays at the second level.          *)
AfterRemoval(f) ==
    [x \in Sessions |->
        IF Verified \subseteq {f} /\ sessions[x] = "aal2" THEN "aal1" ELSE sessions[x]]

(***************************************************************************)
(* Requests                                                                *)
(***************************************************************************)
From(kind, b, f, at) ==
    [Idle EXCEPT !.kind = kind, !.browser = b, !.session = jar[b].session,
                 !.level = jar[b].level, !.grant = jar[b].grant, !.factor = f, !.at = at]
Send(r, request) == op[r] = Idle /\ request.kind \in mix /\ op' = [op EXCEPT ![r] = request]
At(r, kinds, at) == op[r].kind \in kinds /\ op[r].at = at
Go(r, at) == op' = [op EXCEPT ![r].at = at]
Return(r) == op' = [op EXCEPT ![r] = Idle]
SetTokens(r, s, level) ==
    jar' = [jar EXCEPT ![op[r].browser].session = s, ![op[r].browser].level = level]

(* The provider or the backend answers an error: the action reports it.     *)
SettingsKinds == {"enroll", "cancel", "verify", "remove", "challenge", "everywhere"}
Fails(r) ==
    /\ op[r].kind \in SettingsKinds /\ op[r].at # "done"
    /\ Return(r)
    /\ UNCHANGED <<account, jar, setup, grants>>

(***************************************************************************)
(* Signing in and out                                                      *)
(***************************************************************************)
SignIn(r, b) ==
    \E s \in NewSession :
        /\ Send(r, [From("signin", b, NoFactor, "assure") EXCEPT !.session = s, !.level = "aal1"])
        /\ Issue(s)
        /\ UNCHANGED <<password, factors, link, jar, setup, grants>>

SignedIn(r) ==
    /\ At(r, {"signin"}, "assure")
    /\ SetTokens(r, op[r].session, "aal1") /\ Return(r)
    /\ UNCHANGED <<account, setup, grants>>

(* The assurance level could not be read: the new session is dropped.       *)
SignInUndone(r) ==
    /\ At(r, {"signin"}, "assure")
    /\ sessions' = Ended({op[r].session})
    /\ SetTokens(r, NoSession, "aal1") /\ Return(r)
    /\ UNCHANGED <<password, born, factors, link, setup, grants>>

AskSignOut(r, b) ==
    /\ jar[b].session # NoSession
    /\ Send(r, From("signout", b, NoFactor, "logout"))
    /\ UNCHANGED <<account, jar, setup, grants>>

(* What the backend requires of a caller: the second level, or no factor.   *)
Admitted(s, level) == level = "aal2" \/ (Live(s) /\ Verified = {})

(* POST /auth/logout ends every session; signing out goes on if it fails.   *)
EndEverywhere(r) ==
    /\ At(r, {"signout", "everywhere"}, "logout")
    /\ Admitted(op[r].session, op[r].level) /\ Live(op[r].session)
    /\ sessions' = Ended(Sessions)
    /\ Go(r, "local")
    /\ UNCHANGED <<password, born, factors, link, jar, setup, grants>>

LogoutLost(r) ==
    /\ At(r, {"signout"}, "logout")
    /\ Go(r, "local")
    /\ UNCHANGED <<account, jar, setup, grants>>

(* The local sign-out may fail too; the browser then keeps its cookies.     *)
SignOutHere(r, ok) ==
    /\ At(r, {"signout", "everywhere"}, "local")
    /\ IF ok
       THEN sessions' = Ended({op[r].session}) /\ SetTokens(r, NoSession, "aal1")
       ELSE UNCHANGED <<sessions, jar>>
    /\ setup' = [setup EXCEPT ![op[r].browser] = NoFactor]
    /\ Return(r)
    /\ UNCHANGED <<password, born, factors, link, grants>>

(* The middleware refreshes an expired access token, if its session lives.  *)
RefreshTokens(b) ==
    LET s == jar[b].session IN
    /\ s # NoSession
    /\ jar' = [jar EXCEPT ![b].session = IF Live(s) THEN s ELSE NoSession,
                          ![b].level = IF Live(s) THEN sessions[s] ELSE "aal1"]
    /\ UNCHANGED <<account, setup, grants, op>>

(***************************************************************************)
(* Recovery link, grant and password reset                                 *)
(***************************************************************************)
RequestLink ==
    /\ ~link /\ NewSession # {} /\ "confirm" \in mix
    /\ link' = TRUE
    /\ UNCHANGED <<password, sessions, born, factors, jar, setup, grants, op>>

OpenLink(r, b) ==
    \E s \in NewSession :
        /\ link /\ link' = FALSE
        /\ Send(r, [From("confirm", b, NoFactor, "claims") EXCEPT !.session = s])
        /\ Issue(s)
        /\ UNCHANGED <<password, factors, jar, setup, grants>>

GrantIssued(r) ==
    /\ At(r, {"confirm"}, "claims")
    /\ jar' = [jar EXCEPT ![op[r].browser] =
                  [session |-> op[r].session, level |-> "aal1", grant |-> op[r].session]]
    /\ Return(r)
    /\ UNCHANGED <<account, setup, grants>>

ConfirmationFails(r) ==
    /\ At(r, {"confirm"}, "claims")
    /\ sessions' = Ended({op[r].session})
    /\ SetTokens(r, NoSession, "aal1") /\ Return(r)
    /\ UNCHANGED <<password, born, factors, link, setup, grants>>

(* Ten minutes pass: the signature check refuses the grant, the cookie goes.*)
GrantExpires(s) ==
    /\ s \notin expired /\ expired' = expired \cup {s}
    /\ \E b \in Browsers : jar[b].grant = s
    /\ jar' = [b \in Browsers |-> IF jar[b].grant = s THEN [jar[b] EXCEPT !.grant = NoSession] ELSE jar[b]]
    /\ UNCHANGED <<account, setup, used, changed, op>>

AskReset(r, b) ==
    /\ jar[b].grant # NoSession /\ jar[b].session # NoSession
    /\ Send(r, From("reset", b, NoFactor, "consume"))
    /\ UNCHANGED <<account, jar, setup, grants>>

(* SET NX on the grant's replay key.                                        *)
\* Faulty variant: the replay key is overwritten instead of set only once.
FreshWithoutReplayKey(g) == g \notin expired
Fresh(g) == g \notin expired /\ g \notin used

ConsumeGrant(r) ==
    LET g == op[r].grant IN
    /\ At(r, {"reset"}, "consume")
    /\ g = op[r].session /\ Fresh(g)
    /\ used' = used \cup {g}
    /\ Go(r, "change")
    /\ UNCHANGED <<account, jar, setup, expired, changed>>

(* The provider sets the password for a live session; with a verified       *)
(* factor it asks for the second level.                                     *)
ChangePassword(r, heard) ==
    LET g == op[r].grant IN
    /\ At(r, {"reset"}, "change")
    /\ Live(op[r].session) /\ (Verified = {} \/ sessions[op[r].session] = "aal2")
    /\ password' = password + 1
    /\ changed' = [changed EXCEPT ![g] = @ \cup {password + 1}]
    /\ Go(r, IF heard THEN "logout" ELSE "cleanup")
    /\ UNCHANGED <<sessions, born, factors, link, jar, setup, used, expired>>

(* Two attempts to end every session; done says whether one took effect,    *)
(* heard whether the backend learnt it.                                     *)
\* Faulty variant: a failed sign-out of the other sessions is not reported.
AfterLogoutAnyway(heard) == "audit"
AfterLogout(heard) == IF heard THEN "audit" ELSE "cleanup"
EndAfterReset(r, done, heard) ==
    /\ At(r, {"reset"}, "logout") /\ (heard => done)
    /\ sessions' = IF done THEN Ended(Sessions) ELSE sessions
    /\ op' = [op EXCEPT ![r].at = AfterLogout(heard)]
    /\ UNCHANGED <<password, born, factors, link, jar, setup, grants>>

RecordChange(r) ==
    /\ At(r, {"reset"}, "audit")
    /\ op' = [op EXCEPT ![r].at = "cleanup", ![r].confirmed = TRUE]
    /\ UNCHANGED <<account, jar, setup, grants>>

(* An error answer or a lost one at any point before the cleanup.           *)
ResetFails(r) ==
    /\ op[r].kind = "reset" /\ op[r].at \in {"consume", "change", "audit"}
    /\ Go(r, "cleanup")
    /\ UNCHANGED <<account, jar, setup, grants>>

(* finally: sign out locally and clear the grant, whatever happened.        *)
CleanUp(r, ok) ==
    /\ At(r, {"reset"}, "cleanup")
    /\ sessions' = IF ok THEN Ended({op[r].session}) ELSE sessions
    /\ op' = [op EXCEPT ![r].at = "told", ![r].confirmed = @ /\ ok]
    /\ jar' = [jar EXCEPT ![op[r].browser] =
                  IF ok THEN EmptyJar ELSE [@ EXCEPT !.grant = NoSession]]
    /\ UNCHANGED <<password, born, factors, link, setup, grants>>

(* "Password reset", or "try again": the person reads it and moves on.      *)
Read(r) ==
    /\ At(r, {"reset"}, "told")
    /\ Return(r)
    /\ UNCHANGED <<account, jar, setup, grants>>

(***************************************************************************)
(* The authenticator settings                                              *)
(***************************************************************************)
FirstCall(kind) ==
    CASE kind \in {"enroll", "cancel"} -> "list"
      [] kind = "everywhere" -> "logout"
      [] OTHER -> "call"

(* requirePortalUser: the assurance level read from the provider, then      *)
(* GET /auth/me, which asks the provider again.                             *)
AskPortal(r, b, kind, f) ==
    /\ jar[b].session # NoSession
    /\ jar[b].level = "aal2" \/ Verified = {}
    /\ Send(r, From(kind, b, f, "me"))
    /\ UNCHANGED <<account, jar, setup, grants>>

AskEnroll(r, b) == setup[b] = NoFactor /\ AskPortal(r, b, "enroll", NoFactor)
AskCancel(r, b) == setup[b] # NoFactor /\ AskPortal(r, b, "cancel", setup[b])
AskVerify(r, b) == setup[b] # NoFactor /\ AskPortal(r, b, "verify", setup[b])
AskRemove(r, b) == \E f \in Verified : AskPortal(r, b, "remove", f)
AskEverywhere(r, b) == AskPortal(r, b, "everywhere", NoFactor)

AdmitRequest(r) ==
    /\ At(r, SettingsKinds, "me")
    /\ Admitted(op[r].session, op[r].level)
    /\ Go(r, FirstCall(op[r].kind))
    /\ UNCHANGED <<account, jar, setup, grants>>

(* Setup begins by discarding the unfinished ones, as listed.               *)
ListUnfinished(r) ==
    /\ At(r, {"enroll"}, "list") /\ Live(op[r].session)
    /\ op' = [op EXCEPT ![r].at = "discard", ![r].todo = Unverified]
    /\ UNCHANGED <<account, jar, setup, grants>>

(* Unenrolling goes by the factor's id: one verified since it was listed    *)
(* goes too, from a session at the second level.                            *)
Unenroll(r, f) ==
    /\ Live(op[r].session)
    /\ \/ factors[f] = "unverified"
       \/ factors[f] = "verified" /\ sessions[op[r].session] = "aal2"
    /\ factors' = [factors EXCEPT ![f] = "removed"]
    /\ sessions' = IF factors[f] = "verified" THEN AfterRemoval(f) ELSE sessions

Discard(r) ==
    \E f \in op[r].todo :
        /\ At(r, {"enroll"}, "discard") /\ Unenroll(r, f)
        /\ op' = [op EXCEPT ![r].todo = @ \ {f}]
        /\ UNCHANGED <<password, born, link, jar, setup, grants>>

Enroll(r) ==
    \E f \in NewFactor :
        /\ At(r, {"enroll"}, "discard") /\ op[r].todo = {} /\ Live(op[r].session)
        /\ Verified = {} \/ sessions[op[r].session] = "aal2"
        /\ factors' = [factors EXCEPT ![f] = "unverified"]
        /\ op' = [op EXCEPT ![r].at = "done", ![r].factor = f]
        /\ UNCHANGED <<password, sessions, born, link, jar, setup, grants>>

(* Cancelling goes on only when the setup is listed as unfinished.          *)
FindSetup(r) ==
    /\ At(r, {"cancel"}, "list") /\ Live(op[r].session)
    /\ factors[op[r].factor] = "unverified"
    /\ Go(r, "call")
    /\ UNCHANGED <<account, jar, setup, grants>>

CancelSetup(r) ==
    /\ At(r, {"cancel"}, "call") /\ Unenroll(r, op[r].factor)
    /\ op' = [op EXCEPT ![r].at = "done", ![r].factor = NoFactor]
    /\ UNCHANGED <<password, born, link, jar, setup, grants>>

(* A right code: for a new factor, or in the challenge after signing in.    *)
VerifyCode(r) ==
    LET f == op[r].factor IN
    /\ At(r, {"verify", "challenge"}, "call") /\ Live(op[r].session)
    /\ factors[f] = "verified" \/ (factors[f] = "unverified" /\ op[r].kind = "verify")
    /\ factors' = [factors EXCEPT ![f] = "verified"]
    /\ sessions' = ElevatedBy(op[r].session, f)
    /\ op' = [op EXCEPT ![r].at = "done", ![r].level = "aal2", ![r].factor = NoFactor]
    /\ UNCHANGED <<password, born, link, jar, setup, grants>>

AskChallenge(r, b) ==
    \E f \in Verified :
        /\ jar[b].session # NoSession /\ jar[b].level = "aal1"
        /\ Send(r, From("challenge", b, f, "call"))
        /\ UNCHANGED <<account, jar, setup, grants>>

Remove(r) ==
    LET f == op[r].factor IN
    /\ At(r, {"remove"}, "call") /\ Live(op[r].session) /\ op[r].level = "aal2"
    /\ factors[f] = "verified" /\ sessions[op[r].session] = "aal2"
    /\ factors' = [factors EXCEPT ![f] = "removed"]
    /\ sessions' = AfterRemoval(f)
    /\ Go(r, "refresh")
    /\ UNCHANGED <<password, born, link, jar, setup, grants>>

RefreshAfterRemoval(r) ==
    /\ At(r, {"remove"}, "refresh") /\ Live(op[r].session)
    /\ op' = [op EXCEPT ![r].at = "done", ![r].level = sessions[op[r].session], ![r].factor = setup[op[r].browser]]
    /\ UNCHANGED <<account, jar, setup, grants>>

(* The answer reaches the page: the setup it shows, the tokens it carries.  *)
Answered(r) ==
    /\ At(r, SettingsKinds, "done")
    /\ setup' = [setup EXCEPT ![op[r].browser] = op[r].factor]
    /\ IF op[r].kind \in {"verify", "challenge", "remove"}
       THEN SetTokens(r, op[r].session, op[r].level) ELSE UNCHANGED jar
    /\ Return(r)
    /\ UNCHANGED <<account, grants>>

(* Leaving or reloading the page abandons a setup it showed.                *)
LeaveSettings(b) ==
    /\ setup[b] # NoFactor
    /\ setup' = [setup EXCEPT ![b] = NoFactor]
    /\ UNCHANGED <<account, jar, grants, op>>

PortalNext ==
    /\ UNCHANGED mix
    /\ \/ RequestLink
       \/ \E s \in Sessions : GrantExpires(s)
       \/ \E b \in Browsers : RefreshTokens(b) \/ LeaveSettings(b)
       \/ \E r \in Requests, b \in Browsers :
            \/ SignIn(r, b) \/ AskSignOut(r, b) \/ OpenLink(r, b) \/ AskReset(r, b)
            \/ AskEnroll(r, b) \/ AskCancel(r, b) \/ AskVerify(r, b) \/ AskRemove(r, b)
            \/ AskEverywhere(r, b) \/ AskChallenge(r, b)
       \/ \E r \in Requests :
            \/ SignedIn(r) \/ SignInUndone(r) \/ EndEverywhere(r) \/ LogoutLost(r)
            \/ GrantIssued(r) \/ ConfirmationFails(r)
            \/ ConsumeGrant(r) \/ RecordChange(r) \/ ResetFails(r) \/ Read(r)
            \/ AdmitRequest(r) \/ ListUnfinished(r) \/ Discard(r) \/ Enroll(r)
            \/ FindSetup(r) \/ CancelSetup(r) \/ VerifyCode(r) \/ Remove(r) \/ RefreshAfterRemoval(r)
            \/ Answered(r) \/ Fails(r)
            \/ \E ok \in BOOLEAN : SignOutHere(r, ok) \/ CleanUp(r, ok)
            \/ \E heard \in BOOLEAN : ChangePassword(r, heard)
            \/ \E done, heard \in BOOLEAN : EndAfterReset(r, done, heard)

PortalSpec == PortalInit /\ [][PortalNext]_portalVars

(***************************************************************************)
(* Properties                                                              *)
(***************************************************************************)
(* A reset link changes the password at most once, however often its form   *)
(* is submitted, from how many tabs, and whatever is lost on the way.       *)
OneChangePerGrant == \A g \in Sessions : Cardinality(changed[g]) <= 1

(* Who reads that the password was reset has it reset, by that grant, and   *)
(* no session from before the change is left anywhere.                      *)
ResetEndsOldSessions ==
    \A r \in Requests :
        At(r, {"reset"}, "told") /\ op[r].confirmed =>
            /\ changed[op[r].grant] # {}
            /\ \A s \in Sessions, p \in changed[op[r].grant] : born[s] < p => ~Live(s)

(* Only the Remove button removes a verified authenticator.                 *)
VerifiedKeptUntilRemoved ==
    [][\A f \in Factors :
          factors[f] = "verified" /\ factors'[f] = "removed" =>
              \E r \in Requests : op[r].kind = "remove" /\ op[r].factor = f /\ op[r].at = "call"]_portalVars
=============================================================================
