---------------------------- MODULE SurveySignIn ----------------------------
(* Signing in with Google before a public survey: the login button, the    *)
(* start route that issues the state cookie, the provider, and the         *)
(* callback route that exchanges the code, has the backend attest the      *)
(* Google account and only then sets the session cookie.                   *)
(*                                                                         *)
(* The cookies belong to the browser: every tab of it shares them.  A flow *)
(* is named by its number; the state cookie is a signed [to, flow].        *)
EXTENDS Nullable, Integers, FiniteSets

CONSTANTS
    Tabs,
    SurveyOf,      \* the survey each tab was opened for
    GoogleAccounts,
    MaxFlows       \* bound on the flows started

VARIABLES
    jar,       \* cookies: state, code verifiers, session
    tabs,      \* where each tab is
    attested,  \* flows whose account the backend attested
    flows      \* number of flows started

signInVars == <<jar, tabs, attested, flows>>

At(place) == [at |-> place, flow |-> NULL, account |-> NULL, seen |-> NULL]

\* A tab starts at the interstitial of the survey page, without a session.
SignInInit ==
    /\ jar = [state |-> NULL, verifiers |-> {}, session |-> NULL]
    /\ tabs = [t \in Tabs |-> At("interstitial")]
    /\ attested = {}
    /\ flows = 0

Goes(t, tab) == tabs' = [tabs EXCEPT ![t] = tab]

\* The page asks for the sign-in again when there is no session: a visit.
Revisit(t) ==
    /\ tabs[t].at \in {"auth_error", "survey"} /\ jar.session = NULL
    /\ flows < MaxFlows
    /\ Goes(t, At("interstitial"))
    /\ UNCHANGED <<jar, attested, flows>>

\* POST /auth/survey/google/start.  The state cookie replaces that of a flow
\* another tab may have started.
Start(t) ==
    /\ tabs[t].at = "interstitial"
    /\ flows < MaxFlows
    /\ flows' = flows + 1
    /\ jar' = [jar EXCEPT !.state = [to |-> SurveyOf[t], flow |-> flows + 1],
                          !.verifiers = @ \cup {flows + 1}]
    /\ Goes(t, [At("google") EXCEPT !.flow = flows + 1])
    /\ UNCHANGED attested

\* The button: an unusable answer of the start route leads to the error page.
StartFails(t) ==
    /\ tabs[t].at = "interstitial"
    /\ Goes(t, At("auth_error"))
    /\ UNCHANGED <<jar, attested, flows>>

\* Google sends the browser back, with a code for the flow or with an error.
GoogleReturns(t, account) ==
    /\ tabs[t].at = "google"
    /\ Goes(t, [tabs[t] EXCEPT !.at = "callback", !.account = account])
    /\ UNCHANGED <<jar, attested, flows>>

StateExpires ==
    /\ jar.state # NULL
    /\ jar' = [jar EXCEPT !.state = NULL]
    /\ UNCHANGED <<tabs, attested, flows>>

\* GET callback without a valid state or without a code.
CallbackRefused(t) ==
    /\ tabs[t].at = "callback"
    /\ jar.state = NULL \/ tabs[t].account = NULL
    /\ jar' = [jar EXCEPT !.state = NULL]
    /\ Goes(t, At("auth_error"))
    /\ UNCHANGED <<attested, flows>>

\* The request's cookies are read once, when the callback begins.
CallbackBegins(t) ==
    /\ tabs[t].at = "callback"
    /\ jar.state # NULL /\ tabs[t].account # NULL
    /\ Goes(t, [tabs[t] EXCEPT !.at = "exchange", !.seen = jar])
    /\ UNCHANGED <<jar, attested, flows>>

\* Faulty variant: the exchange is not told which flow the state belongs to.
CodeFitsAny(tab) == tab.flow \in tab.seen.verifiers

\* The provider takes a code only with the verifier of the flow it was issued for.
CodeFits(tab) == tab.flow = tab.seen.state.flow /\ tab.flow \in tab.seen.verifiers

Exchange(t) ==
    /\ tabs[t].at = "exchange"
    /\ CodeFits(tabs[t])
    /\ Goes(t, [tabs[t] EXCEPT !.at = "attest"])
    /\ UNCHANGED <<jar, attested, flows>>

\* The session the provider returned holds the provider token; its cookies
\* are held back.
Attest(t) ==
    /\ tabs[t].at = "attest"
    /\ attested' = attested \cup {tabs[t].flow}
    /\ Goes(t, [tabs[t] EXCEPT !.at = "store"])
    /\ UNCHANGED <<jar, flows>>

\* The attestation reached the backend, its answer did not reach the callback.
AttestUnheard(t) ==
    /\ tabs[t].at = "attest"
    /\ attested' = attested \cup {tabs[t].flow}
    /\ Goes(t, [tabs[t] EXCEPT !.at = "failed"])
    /\ UNCHANGED <<jar, flows>>

StepFails(t) ==
    /\ tabs[t].at \in {"exchange", "attest", "store"}
    /\ Goes(t, [tabs[t] EXCEPT !.at = "failed"])
    /\ UNCHANGED <<jar, attested, flows>>

Store(t) ==
    /\ tabs[t].at = "store"
    /\ jar' = [jar EXCEPT !.state = NULL,
                  !.session = [flow |-> tabs[t].flow, account |-> tabs[t].account]]
    /\ Goes(t, [tabs[t] EXCEPT !.at = "survey", !.seen = tabs[t].seen.state.to])
    /\ UNCHANGED <<attested, flows>>

\* Faulty variant: the cookies the exchange left are set although it failed later.
ClearedKeepingExchange(t) ==
    [jar EXCEPT !.state = NULL, !.verifiers = @ \ tabs[t].seen.verifiers,
                !.session = [flow |-> tabs[t].flow, account |-> tabs[t].account]]

\* The cookies whose names came with the request expire; a session another
\* tab stored meanwhile has such a name only if there was one before.
Cleared(t) ==
    [jar EXCEPT !.state = NULL, !.verifiers = @ \ tabs[t].seen.verifiers,
                !.session = IF tabs[t].seen.session # NULL THEN NULL ELSE @]

CleanUp(t) ==
    /\ tabs[t].at = "failed"
    /\ jar' = Cleared(t)
    /\ Goes(t, At("auth_error"))
    /\ UNCHANGED <<attested, flows>>

SignInNext ==
    \/ StateExpires
    \/ \E t \in Tabs :
          \/ Revisit(t) \/ Start(t) \/ StartFails(t)
          \/ \E account \in GoogleAccounts \cup {NULL} : GoogleReturns(t, account)
          \/ CallbackRefused(t) \/ CallbackBegins(t) \/ Exchange(t) \/ Attest(t)
          \/ AttestUnheard(t) \/ StepFails(t) \/ Store(t) \/ CleanUp(t)

SignInSpec == SignInInit /\ [][SignInNext]_signInVars

-----------------------------------------------------------------------------
(* Properties.                                                             *)

\* Whatever two tabs of the browser do at the same time, and whichever step of
\* a callback fails, the session cookie belongs to an account the backend has
\* attested in the flow that set the cookie.
SessionIsAttested == jar.session # NULL => jar.session.flow \in attested

\* A tab that signs in lands on the survey it was opened for, also when a
\* second tab started its own flow and replaced the state cookie.
LandsOnItsSurvey == \A t \in Tabs : tabs[t].at = "survey" => tabs[t].seen = SurveyOf[t]

=============================================================================
