---------------------------- MODULE AnswersProofs ----------------------------
(***************************************************************************)
(* The way of an answer, for any numbers of tabs, surveys, accounts, files *)
(* and requests: signing in before a survey (SurveySignIn), the form and   *)
(* its submissions (RespondentForm), the responses panel (ResponsePanel)   *)
(* and the import dialog (ImportDialog).  The four share no state; each    *)
(* part below has an inductive invariant of its own.                       *)
(***************************************************************************)
EXTENDS SurveySignIn, RespondentForm, ResponsePanel, ImportDialog, SequenceLemmas, TLAPS

-----------------------------------------------------------------------------
(* SurveySignIn.  The session cookie is of an attested account, and a tab  *)
(* that signs in lands on its own survey.  The state cookie may be another *)
(* tab's; what holds throughout is that a state and a tab with the same    *)
(* flow are for the same survey.                                           *)

UnderWay == {"google", "callback", "exchange", "attest", "store"}
Called == {"exchange", "attest", "store"}
Places == UnderWay \cup {"interstitial", "auth_error", "survey", "failed"}
Destinations == {SurveyOf[t] : t \in Tabs}
States == [to : Destinations, flow : Nat]
SurveySessions == [flow : Nat, account : GoogleAccounts \cup {NULL}]
Jars == [state : {NULL} \cup States, verifiers : SUBSET Nat, session : {NULL} \cup SurveySessions]
TabStates == [at : Places, flow : Nat \cup {NULL}, account : GoogleAccounts \cup {NULL},
              seen : {NULL} \cup Jars \cup Destinations]

SignInTypeOK ==
    /\ jar \in Jars
    /\ tabs \in [Tabs -> TabStates]
    /\ attested \subseteq Nat
    /\ flows \in Nat

\* A state is of a flow that was started, and for the survey of the tab in it.
Fits(state) ==
    /\ state.flow <= flows
    /\ \A u \in Tabs : tabs[u].at \in UnderWay /\ tabs[u].flow = state.flow
                           => state.to = SurveyOf[u]

TabOK(t, next) ==
    /\ next.at \in UnderWay => next.flow \in Nat /\ next.flow <= flows
    /\ next.at \in Called => next.seen \in Jars /\ next.seen.state \in States /\ Fits(next.seen.state)
    /\ next.at \in {"attest", "store"} => next.flow = next.seen.state.flow
    /\ next.at = "store" => next.flow \in attested
    /\ next.at = "survey" => next.seen = SurveyOf[t]

SignInInv ==
    /\ SignInTypeOK
    /\ jar.state # NULL => Fits(jar.state)
    /\ \A t \in Tabs : TabOK(t, tabs[t])
    /\ SessionIsAttested

-------------------------------------------------------------------------------
\* The initial states satisfy the invariant.
THEOREM InitSignInInv == SignInInit => SignInInv
<1> SUFFICES ASSUME SignInInit PROVE SignInInv
  OBVIOUS
<1>1. At("interstitial") \in TabStates
  BY DEF At, TabStates, Places
<1>2. SignInTypeOK
  BY <1>1 DEF SignInInit, SignInTypeOK, Jars
<1>3. \A t \in Tabs : TabOK(t, tabs[t])
  BY DEF SignInInit, At, TabOK, UnderWay, Called
<1> QED
  BY <1>2, <1>3 DEF SignInInit, SignInInv, SessionIsAttested

\* A step of a tab that starts no flow.
LEMMA TabMoves ==
    ASSUME SignInInv, NEW t \in Tabs, NEW next \in TabStates,
           Goes(t, next), UNCHANGED flows,
           attested \subseteq attested', attested' \subseteq Nat,
           next.at \in UnderWay => tabs[t].at \in UnderWay /\ next.flow = tabs[t].flow,
           next.at \in Called => next.seen \in Jars /\ next.seen.state \in States /\ Fits(next.seen.state),
           next.at \in {"attest", "store"} => next.flow = next.seen.state.flow,
           next.at = "store" => next.flow \in attested',
           next.at = "survey" => next.seen = SurveyOf[t],
           jar' \in Jars, jar'.state \in {NULL, jar.state},
           jar'.session # NULL => jar'.session.flow \in attested'
    PROVE  SignInInv'
<1>1. SignInTypeOK'
  BY DEF SignInInv, SignInTypeOK, Goes
<1>2. \A u \in Tabs : tabs'[u] = IF u = t THEN next ELSE tabs[u]
  BY DEF SignInInv, SignInTypeOK, Goes
<1>3. ASSUME NEW state, Fits(state) PROVE Fits(state)'
  BY <1>2, <1>3 DEF Fits
<1>4. jar'.state # NULL => Fits(jar.state) /\ jar'.state = jar.state
  BY DEF SignInInv
<1>5. jar'.state # NULL => Fits(jar.state)'
  <2>1. jar'.state # NULL => Fits(jar'.state)
    BY <1>4
  <2> QED
    BY <1>2, <2>1 DEF Fits
<1>6. ASSUME NEW u \in Tabs PROVE TabOK(u, tabs[u])'
  <2>1. TabOK(u, tabs[u])
    BY DEF SignInInv
  <2>2. CASE u = t
    <3>1. next.at \in UnderWay => next.flow \in Nat /\ next.flow <= flows'
      BY <2>1, <2>2 DEF TabOK
    <3>2. next.at \in Called => Fits(next.seen.state)'
      BY <1>2 DEF Fits
    <3> QED
      BY <1>2, <2>2, <3>1, <3>2 DEF TabOK, Fits
  <2>3. CASE u # t
    <3>1. tabs[u].at \in Called => Fits(tabs[u].seen.state)
      BY <2>1 DEF TabOK
    <3> QED
      BY <1>2, <2>1, <2>3, <3>1 DEF TabOK, Fits
  <2> QED
    BY <2>2, <2>3
<1> QED
  BY <1>1, <1>5, <1>6 DEF SignInInv, SessionIsAttested

\* A tab that is back outside any flow, while the state and the session are
\* kept or removed.
LEMMA TabRests ==
    ASSUME SignInInv, NEW t \in Tabs, NEW next \in TabStates,
           next.at \in {"interstitial", "auth_error", "failed"},
           Goes(t, next), UNCHANGED flows, attested \subseteq attested', attested' \subseteq Nat,
           jar' \in Jars, jar'.state \in {NULL, jar.state}, jar'.session \in {NULL, jar.session}
    PROVE  SignInInv'
  BY TabMoves DEF UnderWay, Called, SignInInv, SessionIsAttested

LEMMA AtIsTab == \A place \in Places : At(place) \in TabStates /\ At(place).at = place
  BY DEF At, TabStates

\* A new flow has a number no state and no tab has.
LEMMA StartKeeps == ASSUME SignInInv, NEW t \in Tabs, Start(t) PROVE SignInInv'
<1> DEFINE next == [At("google") EXCEPT !.flow = flows + 1]
           state == [to |-> SurveyOf[t], flow |-> flows + 1]
<1>1. flows \in Nat /\ flows' = flows + 1 /\ UNCHANGED attested
  BY DEF Start, SignInInv, SignInTypeOK
<1>2. next \in TabStates /\ next.at = "google" /\ next.flow = flows + 1 /\ state \in States
  BY <1>1, AtIsTab DEF TabStates, States, Destinations, Places, UnderWay
<1>3. /\ jar' \in Jars /\ jar'.state = state /\ jar'.session = jar.session
      /\ tabs' = [tabs EXCEPT ![t] = next]
  <2>1. jar \in Jars /\ jar.verifiers \cup {flows + 1} \in SUBSET Nat
    BY <1>1 DEF SignInInv, SignInTypeOK, Jars
  <2>2. jar' = [jar EXCEPT !.state = state, !.verifiers = jar.verifiers \cup {flows + 1}]
    BY DEF Start
  <2> HIDE DEF state
  <2>3. jar' \in Jars /\ jar'.state = state /\ jar'.session = jar.session
    BY <1>2, <2>1, <2>2 DEF Jars
  <2> QED
    BY <2>3 DEF Start, Goes
<1>4. state.to = SurveyOf[t] /\ state.flow = flows + 1
  OBVIOUS
<1> HIDE DEF next, state
<1>5. SignInTypeOK'
  BY <1>1, <1>2, <1>3 DEF SignInInv, SignInTypeOK
<1>6. \A u \in Tabs : tabs'[u] = IF u = t THEN next ELSE tabs[u]
  BY <1>3 DEF SignInInv, SignInTypeOK
<1>7. \A u \in Tabs : TabOK(u, tabs[u])
  BY DEF SignInInv
<1>8. Fits(jar.state)'
  <2>1. \A u \in Tabs : tabs[u].at \in UnderWay => tabs[u].flow \in Nat /\ tabs[u].flow <= flows
    BY <1>7 DEF TabOK
  <2>2. \A u \in Tabs : tabs'[u].at \in UnderWay /\ tabs'[u].flow = flows + 1 => u = t
    BY <1>1, <1>6, <2>1
  <2> QED
    BY <1>1, <1>3, <1>4, <2>2 DEF Fits
<1>9. ASSUME NEW s \in States, Fits(s) PROVE s.flow <= flows' /\
             \A u \in Tabs : tabs'[u].at \in UnderWay /\ tabs'[u].flow = s.flow => s.to = SurveyOf[u]
  <2>1. s.flow \in Nat /\ s.flow <= flows
    BY <1>9 DEF States, Fits
  <2> QED
    BY <1>1, <1>2, <1>6, <1>9, <2>1 DEF Fits
<1>10. ASSUME NEW u \in Tabs PROVE TabOK(u, tabs[u])'
  <2>1. CASE u = t
    BY <1>1, <1>2, <1>6, <2>1 DEF TabOK, Called, UnderWay
  <2>2. CASE u # t
    <3>1. tabs'[u] = tabs[u] /\ TabOK(u, tabs[u])
      BY <1>6, <1>7, <2>2
    <3>2. tabs[u].at \in UnderWay => tabs[u].flow \in Nat /\ tabs[u].flow <= flows'
      BY <1>1, <3>1 DEF TabOK
    <3>3. tabs[u].at \in Called => tabs[u].seen.state \in States /\ Fits(tabs[u].seen.state)
      BY <3>1 DEF TabOK
    <3> QED
      BY <1>1, <1>9, <3>1, <3>2, <3>3 DEF TabOK, Fits
  <2> QED
    BY <2>1, <2>2
<1>11. SessionIsAttested'
  BY <1>1, <1>3 DEF SignInInv, SessionIsAttested
<1> QED
  BY <1>5, <1>8, <1>10, <1>11 DEF SignInInv

\* Steps that only take a tab out of its flow, or leave it out of any.
LEMMA RestingKeeps ==
    ASSUME SignInInv, NEW t \in Tabs,
           Revisit(t) \/ StartFails(t) \/ CallbackRefused(t) \/ CleanUp(t)
    PROVE  SignInInv'
<1>1. At("interstitial") \in TabStates /\ At("auth_error") \in TabStates
        /\ At("interstitial").at = "interstitial" /\ At("auth_error").at = "auth_error"
  BY AtIsTab DEF Places
<1>2. jar \in Jars /\ attested \subseteq Nat
  BY DEF SignInInv, SignInTypeOK
<1>3. CASE Revisit(t) \/ StartFails(t)
  BY <1>1, <1>2, <1>3, TabRests DEF Revisit, StartFails
<1>4. CASE CallbackRefused(t)
  <2>1. jar' \in Jars /\ jar'.state = NULL /\ jar'.session = jar.session
    BY <1>2, <1>4 DEF CallbackRefused, Jars
  <2> QED
    BY <1>1, <1>2, <1>4, <2>1, TabRests DEF CallbackRefused
<1>5. CASE CleanUp(t)
  <2>1. jar' \in Jars /\ jar'.state = NULL /\ jar'.session \in {NULL, jar.session}
    BY <1>2, <1>5 DEF CleanUp, Cleared, Jars
  <2> QED
    BY <1>1, <1>2, <1>5, <2>1, TabRests DEF CleanUp
<1> QED
  BY <1>3, <1>4, <1>5

\* Steps of a callback that keep the cookies.
LEMMA CallbackKeeps ==
    ASSUME SignInInv, NEW t \in Tabs,
           (\E account \in GoogleAccounts \cup {NULL} : GoogleReturns(t, account))
           \/ CallbackBegins(t) \/ Exchange(t) \/ Attest(t) \/ AttestUnheard(t) \/ StepFails(t)
    PROVE  SignInInv'
<1>1. jar \in Jars /\ attested \subseteq Nat /\ tabs[t] \in TabStates /\ TabOK(t, tabs[t])
  BY DEF SignInInv, SignInTypeOK
<1>2. jar.session # NULL => jar.session.flow \in attested
  BY DEF SignInInv, SessionIsAttested
<1>3. CASE \E account \in GoogleAccounts \cup {NULL} : GoogleReturns(t, account)
  <2>1. PICK account \in GoogleAccounts \cup {NULL} : GoogleReturns(t, account)
    BY <1>3
  <2> DEFINE next == [tabs[t] EXCEPT !.at = "callback", !.account = account]
  <2>2. next \in TabStates /\ next.at = "callback" /\ next.flow = tabs[t].flow
    BY <1>1 DEF TabStates, Places, UnderWay
  <2>3. Goes(t, next) /\ UNCHANGED <<jar, attested, flows>> /\ tabs[t].at = "google"
    BY <2>1 DEF GoogleReturns
  <2> QED
    BY <1>1, <1>2, <2>2, <2>3, TabMoves DEF UnderWay, Called
<1>4. CASE CallbackBegins(t)
  <2> DEFINE next == [tabs[t] EXCEPT !.at = "exchange", !.seen = jar]
  <2>1. next \in TabStates /\ next.at = "exchange" /\ next.flow = tabs[t].flow /\ next.seen = jar
    BY <1>1 DEF TabStates, Places, UnderWay
  <2>2. Goes(t, next) /\ UNCHANGED <<jar, attested, flows>> /\ tabs[t].at = "callback"
    BY <1>4 DEF CallbackBegins
  <2>3. jar.state \in States /\ Fits(jar.state)
    BY <1>1, <1>4 DEF CallbackBegins, SignInInv, Jars
  <2> QED
    BY <1>1, <1>2, <2>1, <2>2, <2>3, TabMoves DEF UnderWay, Called
<1>5. CASE Exchange(t)
  <2> DEFINE next == [tabs[t] EXCEPT !.at = "attest"]
  <2>1. next \in TabStates /\ next.at = "attest" /\ next.flow = tabs[t].flow /\ next.seen = tabs[t].seen
    BY <1>1 DEF TabStates, Places, UnderWay
  <2>2. Goes(t, next) /\ UNCHANGED <<jar, attested, flows>> /\ tabs[t].at = "exchange"
          /\ next.flow = next.seen.state.flow
    BY <1>5, <2>1 DEF Exchange, CodeFits
  <2>3. next.seen \in Jars /\ next.seen.state \in States /\ Fits(next.seen.state)
    BY <1>1, <2>1, <2>2 DEF TabOK, Called
  <2> QED
    BY <1>1, <1>2, <2>1, <2>2, <2>3, TabMoves DEF UnderWay, Called
<1>6. CASE Attest(t)
  <2> DEFINE next == [tabs[t] EXCEPT !.at = "store"]
  <2>1. next \in TabStates /\ next.at = "store" /\ next.flow = tabs[t].flow /\ next.seen = tabs[t].seen
    BY <1>1 DEF TabStates, Places, UnderWay
  <2>2. /\ Goes(t, next) /\ UNCHANGED <<jar, flows>> /\ tabs[t].at = "attest"
        /\ attested' = attested \cup {next.flow}
    BY <1>6, <2>1 DEF Attest
  <2>3. /\ next.seen \in Jars /\ next.seen.state \in States /\ Fits(next.seen.state)
        /\ next.flow = next.seen.state.flow /\ next.flow \in Nat
    BY <1>1, <2>1, <2>2 DEF TabOK, Called, UnderWay
  <2>4. /\ attested \subseteq attested' /\ attested' \subseteq Nat /\ next.flow \in attested'
        /\ tabs[t].at \in UnderWay /\ jar'.state = jar.state
        /\ (jar'.session # NULL => jar'.session.flow \in attested')
    BY <1>1, <1>2, <2>2, <2>3 DEF UnderWay
  <2> HIDE DEF next
  <2> QED
    BY <1>1, <2>1, <2>2, <2>3, <2>4, TabMoves
<1>7. CASE AttestUnheard(t) \/ StepFails(t)
  <2> DEFINE next == [tabs[t] EXCEPT !.at = "failed"]
  <2>1. next \in TabStates /\ next.at = "failed"
    BY <1>1 DEF TabStates, Places
  <2>2. Goes(t, next) /\ UNCHANGED <<jar, flows>> /\ tabs[t].at \in UnderWay
          /\ attested' \in {attested, attested \cup {tabs[t].flow}}
    BY <1>7 DEF AttestUnheard, StepFails, UnderWay
  <2>3. attested \subseteq attested' /\ attested' \subseteq Nat
    BY <1>1, <2>2 DEF TabOK
  <2> QED
    BY <1>1, <2>1, <2>2, <2>3, TabRests
<1> QED
  BY <1>3, <1>4, <1>5, <1>6, <1>7

\* The cookies are set last: the flow is the attested one of the state.
LEMMA StoreKeeps == ASSUME SignInInv, NEW t \in Tabs, Store(t) PROVE SignInInv'
<1> DEFINE next == [tabs[t] EXCEPT !.at = "survey", !.seen = tabs[t].seen.state.to]
<1>1. jar \in Jars /\ attested \subseteq Nat /\ tabs[t] \in TabStates /\ TabOK(t, tabs[t])
  BY DEF SignInInv, SignInTypeOK
<1>2. tabs[t].at = "store" /\ tabs[t].at \in UnderWay /\ tabs[t].at \in Called
  BY DEF Store, UnderWay, Called
<1>3. /\ tabs[t].seen.state \in States /\ Fits(tabs[t].seen.state)
      /\ tabs[t].flow = tabs[t].seen.state.flow
      /\ tabs[t].flow \in attested /\ tabs[t].flow \in Nat
  BY <1>1, <1>2 DEF TabOK
<1>4. tabs[t].seen.state.to = SurveyOf[t]
  BY <1>2, <1>3 DEF Fits
<1>5. next \in TabStates /\ next.at = "survey" /\ next.seen = SurveyOf[t]
  BY <1>1, <1>3, <1>4 DEF TabStates, Places, States
<1>6. [flow |-> tabs[t].flow, account |-> tabs[t].account] \in SurveySessions
  BY <1>1, <1>3 DEF TabStates, SurveySessions
<1>7. /\ jar' \in Jars /\ jar'.state = NULL
      /\ jar'.session = [flow |-> tabs[t].flow, account |-> tabs[t].account]
  BY <1>1, <1>6 DEF Store, Jars
<1>8. Goes(t, next) /\ UNCHANGED <<attested, flows>>
  BY DEF Store
<1>9. jar'.session.flow \in attested' /\ attested \subseteq attested' /\ attested' \subseteq Nat
  BY <1>1, <1>3, <1>7, <1>8
<1> HIDE DEF next
<1> QED
  BY <1>5, <1>7, <1>8, <1>9, TabMoves DEF UnderWay, Called

LEMMA StateExpiresKeeps == ASSUME SignInInv, StateExpires PROVE SignInInv'
<1>1. jar' \in Jars /\ jar'.state = NULL /\ jar'.session = jar.session
  BY DEF StateExpires, SignInInv, SignInTypeOK, Jars
<1> QED
  BY <1>1 DEF StateExpires, SignInInv, SignInTypeOK, TabOK, Fits, SessionIsAttested

\* Every step keeps the invariant.
THEOREM StepSignInInv == SignInInv /\ [SignInNext]_signInVars => SignInInv'
<1> SUFFICES ASSUME SignInInv, [SignInNext]_signInVars PROVE SignInInv'
  OBVIOUS
<1>1. CASE UNCHANGED signInVars
  BY <1>1 DEF signInVars, SignInInv, SignInTypeOK, TabOK, Fits, SessionIsAttested
<1> QED
  BY <1>1, StateExpiresKeeps, StartKeeps, RestingKeeps, CallbackKeeps, StoreKeeps DEF SignInNext

\* Whatever the tabs do, the session cookie is of an account attested in its flow.
THEOREM SessionsAreAttested == SignInSpec => []SessionIsAttested
<1>1. SignInInv => SessionIsAttested
  BY DEF SignInInv
<1> QED
  BY <1>1, InitSignInInv, StepSignInInv, PTL DEF SignInSpec

\* Whatever the tabs do, one that signs in lands on the survey it was opened for.
THEOREM TabsLandOnTheirSurvey == SignInSpec => []LandsOnItsSurvey
<1>1. SignInInv => LandsOnItsSurvey
  BY DEF SignInInv, TabOK, LandsOnItsSurvey
<1> QED
  BY <1>1, InitSignInInv, StepSignInInv, PTL DEF SignInSpec

-----------------------------------------------------------------------------
(* RespondentForm.  The closing page is shown for stored answers only, and *)
(* an attempt repeats the key of every earlier one that was not refused.    *)

Fields(f) == [phase |-> f.phase, section |-> f.section, answers |-> f.answers,
              notice |-> f.notice, agreed |-> f.agreed, stale |-> f.stale,
              waiting |-> f.waiting, key |-> f.key]

\* A definite refusal of an attempt with the key, among attempts A.
Ended(A, key) == \E r \in A : r.key = key /\ r.outcome \in {"refused", "stale_consent"}

\* The key the form holds is the one of the submission it waits for, and of
\* every attempt whose key was not refused since.
KeyInv ==
    /\ form = Fields(form)
    /\ form.key \in Nat \cup {NULL}
    /\ attempts \in Nat
    /\ wire # NULL => wire.key \in Nat /\ wire.key = form.key
    /\ \A t \in tried : t.key \in Nat /\ (t.key = form.key \/ Ended(tried, t.key))

\* What is under way is what the form shows, which nobody can edit meanwhile.
DoneInv ==
    /\ wire # NULL => /\ page = "form" /\ wire.phase = form.phase
                      /\ wire.answers = SubmittedAnswers
    /\ page = "done" => <<form.phase, SubmittedAnswers>> \in stored

\* What the backend may report of a respondent's record; all calls under way
\* are on behalf of an account.
RecordStates == {"none", "phase1", "completed", "withdrawn"}
ServerInv ==
    /\ server = [open |-> server.open, notice |-> server.notice, records |-> server.records]
    /\ server.records = [w \in Accounts |-> server.records[w]]
    /\ \A w \in Accounts : server.records[w].at \in RecordStates
    /\ session \in Accounts \cup {NULL}
    /\ \A call \in late : call.who \in Accounts

FormInv == KeyInv /\ DoneInv /\ ServerInv

LEMMA MountedFields ==
    ASSUME NEW p, NEW n PROVE Mounted(p, n) = Fields(Mounted(p, n)) /\ Mounted(p, n).key = NULL
  BY DEF Mounted, Fields

\* A form that was not opened yet satisfies the invariant.
THEOREM InitFormInv == RespondentInit => FormInv
<1> SUFFICES ASSUME RespondentInit PROVE FormInv
  OBVIOUS
<1>1. KeyInv /\ DoneInv
  BY MountedFields DEF RespondentInit, KeyInv, DoneInv
<1>2. ServerInv
  BY DEF RespondentInit, ServerInv, RecordStates, NoRecord
<1> QED
  BY <1>1, <1>2 DEF FormInv

LEMMA SameServer ==
    ASSUME ServerInv, UNCHANGED <<server, session>>, late' \subseteq late PROVE ServerInv'
  BY DEF ServerInv

\* What a submission would carry depends on the form's phase and answers only.
LEMMA SameSubmission ==
    ASSUME UNCHANGED survey, form'.phase = form.phase, form'.answers = form.answers
    PROVE  SubmittedAnswers' = SubmittedAnswers
  BY DEF SubmittedAnswers, Questions

LEMMA LoadPageKeeps ==
    ASSUME FormInv, NEW shown, LoadPage(shown) PROVE FormInv'
<1>1. PICK p, n : form' = Mounted(p, n)
  BY DEF LoadPage
<1>2. wire = NULL /\ wire' = NULL /\ tried' = {} /\ attempts' = attempts
  BY DEF LoadPage, Submitting
<1>3. form' = Fields(form') /\ form'.key = NULL
  BY <1>1, MountedFields
<1>4. page' # "done"
  <2>1. session # NULL => server.records[session].at \in RecordStates
    BY DEF FormInv, ServerInv
  <2>2. session # NULL => CollectionState(server.records[session]) # "done"
    BY <2>1 DEF CollectionState, RecordStates
  <2>3. shown # "done"
    BY <2>2 DEF LoadPage, PageShown
  <2> QED
    BY <2>3 DEF LoadPage
<1>5. KeyInv'
  BY <1>2, <1>3 DEF FormInv, KeyInv, Fields
<1>6. ServerInv'
  BY SameServer DEF LoadPage, FormInv
<1> QED
  BY <1>2, <1>4, <1>5, <1>6 DEF FormInv, DoneInv

\* The reader edits the form, or the page of it, while nothing is under way.
LEMMA EditKeeps ==
    ASSUME FormInv, page = "form", Untouched, wire = NULL \/ SubmittedAnswers' = SubmittedAnswers,
           form'.phase = form.phase, form' = Fields(form'), form'.key = form.key
    PROVE  FormInv'
<1>1. KeyInv'
  BY DEF Untouched, FormInv, KeyInv, Ended
<1>2. DoneInv'
  BY DEF Untouched, FormInv, DoneInv
<1>3. ServerInv'
  BY SameServer DEF Untouched, FormInv
<1> QED
  BY <1>1, <1>2, <1>3 DEF FormInv

LEMMA AnswerKeeps == ASSUME FormInv, Answer PROVE FormInv'
<1>1. PICK q, value : SetAnswer(q, value)
  BY DEF Answer, Choose, ToggleMultiple, Type, Rate, MoveRank, TickCell, Decide
<1>2. PICK a : form' = [form EXCEPT !.answers = a]
  BY <1>1 DEF SetAnswer
<1>3. form'.phase = form.phase /\ form' = Fields(form') /\ form'.key = form.key
  BY <1>2 DEF FormInv, KeyInv, Fields
<1> QED
  BY <1>1, <1>3, EditKeeps DEF Answer, SetAnswer, Submitting

LEMMA MoveKeeps ==
    ASSUME FormInv, (\E yes \in BOOLEAN : AgreeNotice(yes)) \/ GoNext \/ GoPrev \/ RetryTimer
    PROVE  FormInv'
<1>1. /\ form'.phase = form.phase /\ form' = Fields(form') /\ form'.key = form.key
      /\ form'.answers = form.answers
  BY DEF AgreeNotice, GoNext, GoPrev, RetryTimer, FormInv, KeyInv, Fields
<1>2. page = "form" /\ Untouched
  BY DEF AgreeNotice, GoNext, GoPrev, RetryTimer
<1>3. SubmittedAnswers' = SubmittedAnswers
  BY <1>1, <1>2, SameSubmission DEF Untouched
<1> QED
  BY <1>1, <1>2, <1>3, EditKeeps

LEMMA SubmitKeeps == ASSUME FormInv, Submit PROVE FormInv'
<1>1. PICK key : /\ key = IF form.key = NULL THEN attempts + 1 ELSE form.key
                 /\ form' = [form EXCEPT !.key = key]
                 /\ wire' = [phase |-> form.phase, key |-> key, answers |-> SubmittedAnswers,
                             notice |-> IF NeedsConsent THEN form.notice ELSE NULL]
  BY DEF Submit
<1>2. key \in Nat /\ \A t \in tried : t.key \in Nat /\ (t.key = key \/ Ended(tried, t.key))
  BY <1>1, RespondentAssumption DEF FormInv, KeyInv
<1>3. /\ form'.phase = form.phase /\ form' = Fields(form') /\ form'.key = key
      /\ form'.answers = form.answers
  BY <1>1 DEF FormInv, KeyInv, Fields
<1>4. page = "form" /\ UNCHANGED <<survey, page, tried, stored>> /\ attempts' \in Nat
  BY DEF Submit, FormInv, KeyInv
<1>5. SubmittedAnswers' = SubmittedAnswers
  BY <1>3, <1>4, SameSubmission
<1>6. wire'.phase = form.phase /\ wire'.key = key /\ wire'.answers = SubmittedAnswers
  BY <1>1
<1>7. KeyInv'
  BY <1>2, <1>3, <1>4, <1>6 DEF FormInv, KeyInv, Ended
<1>8. DoneInv'
  BY <1>3, <1>4, <1>5, <1>6 DEF DoneInv
<1>9. ServerInv'
  BY SameServer DEF Submit, FormInv
<1> QED
  BY <1>7, <1>8, <1>9 DEF FormInv

LEMMA HearKeeps ==
    ASSUME FormInv, Submitting, NEW outcome, Hear(outcome), stored \subseteq stored',
           outcome = "accepted" => <<wire.phase, wire.answers>> \in stored', ServerInv'
    PROVE  FormInv'
<1>1. /\ form'.phase = form.phase /\ form' = Fields(form') /\ form'.answers = form.answers
      /\ form'.key = IF KeepsKey(outcome) THEN form.key ELSE NULL
  BY DEF Hear, FormInv, KeyInv, Fields
<1>2. wire' = NULL /\ tried' = tried \cup {[key |-> wire.key, outcome |-> outcome]}
  BY DEF Hear
<1>3. KeyInv'
  <2>1. wire.key \in Nat /\ wire.key = form.key /\ attempts' \in Nat
    BY DEF Hear, FormInv, KeyInv, Submitting
  <2>2. ~KeepsKey(outcome) => Ended(tried', wire.key)
    <3> DEFINE e == [key |-> wire.key, outcome |-> outcome]
    <3>1. e \in tried' /\ e.key = wire.key /\ e.outcome = outcome
      BY <1>2
    <3> HIDE DEF e
    <3> QED
      BY <3>1 DEF Ended, KeepsKey
  <2>3. ASSUME NEW key, Ended(tried, key) PROVE Ended(tried', key)
    BY <1>2, <2>3 DEF Ended
  <2>4. \A t \in tried' : t.key \in Nat /\ (t.key = form'.key \/ Ended(tried', t.key))
    <3> SUFFICES ASSUME NEW t \in tried'
                 PROVE  t.key \in Nat /\ (t.key = form'.key \/ Ended(tried', t.key))
      OBVIOUS
    <3>1. CASE t \in tried
      BY <1>1, <2>1, <2>2, <2>3, <3>1 DEF FormInv, KeyInv
    <3>2. CASE t = [key |-> wire.key, outcome |-> outcome]
      BY <1>1, <2>1, <2>2, <3>2
    <3> QED
      BY <1>2, <3>1, <3>2
  <2> QED
    BY <1>1, <1>2, <2>1, <2>4 DEF KeyInv, Ended
<1>4. SubmittedAnswers' = SubmittedAnswers
  BY <1>1, SameSubmission DEF Hear
<1>5. DoneInv'
  BY <1>1, <1>2, <1>4 DEF Hear, Recorded, FormInv, DoneInv, Submitting
<1> QED
  BY <1>3, <1>5 DEF FormInv

\* The backend's record is of what it took.
LEMMA TakenRecords ==
    ASSUME ServerInv, NEW req, NEW who \in Accounts, Take(req, who), session' = session,
           late' \subseteq late
    PROVE  ServerInv'
<1>1. CASE server' = server
  BY <1>1, SameServer
<1>2. ASSUME NEW at \in RecordStates, NEW key, NEW body,
             server' = [server EXCEPT !.records[who] = [at |-> at, key |-> key, body |-> body]]
      PROVE  ServerInv'
  <2>1. /\ server' = [open |-> server.open, notice |-> server.notice,
                      records |-> [server.records EXCEPT ![who] =
                                     [at |-> at, key |-> key, body |-> body]]]
    BY <1>2 DEF ServerInv
  <2>2. server'.records = [w \in Accounts |-> IF w = who THEN [at |-> at, key |-> key, body |-> body]
                                              ELSE server.records[w]]
    BY <2>1 DEF ServerInv
  <2> QED
    BY <2>1, <2>2 DEF ServerInv
<1>3. \/ server' = server
      \/ \E at \in RecordStates :
            server' = [server EXCEPT !.records[who] = [at |-> at, key |-> req.key, body |-> req]]
  BY DEF Take, RecordStates
<1> QED
  BY <1>1, <1>2, <1>3

\* What the backend accepts, it stores.
LEMMA TakenIsStored ==
    ASSUME NEW req, NEW who, Take(req, who)
    PROVE  /\ stored \subseteq stored'
           /\ ServerAnswer(req, who) = "accepted" => <<req.phase, req.answers>> \in stored'
  BY DEF Take

LEMMA AnswerHeardKeeps == ASSUME FormInv, AnsweredEarly \/ Answered \/ TimedOut PROVE FormInv'
<1>1. CASE AnsweredEarly \/ TimedOut
  <2>1. PICK outcome : Hear(outcome) /\ outcome # "accepted"
    BY <1>1 DEF AnsweredEarly, TimedOut
  <2>2. Submitting /\ stored' = stored
    BY <1>1 DEF AnsweredEarly, TimedOut
  <2>3. ServerInv'
    BY <1>1 DEF AnsweredEarly, TimedOut, Hear, FormInv, ServerInv
  <2> QED
    BY <2>1, <2>2, <2>3, HearKeeps
<1>2. CASE Answered
  <2>1. PICK outcome : Hear(outcome) /\ (outcome = "accepted" => ServerAnswer(wire, session) = "accepted")
    BY <1>2 DEF Answered
  <2>2. Submitting /\ Take(wire, session)
    BY <1>2 DEF Answered
  <2>3. session \in Accounts
    BY <1>2 DEF Answered, FormInv, ServerInv
  <2>4. ServerInv'
    BY <1>2, <2>2, <2>3, TakenRecords DEF Answered, Hear, FormInv
  <2> QED
    BY <2>1, <2>2, <2>4, TakenIsStored, HearKeeps
<1> QED
  BY <1>1, <1>2

\* What happens elsewhere: late submissions, other tabs, the backend.
LEMMA ElsewhereKeeps ==
    ASSUME FormInv, stored \subseteq stored', ServerInv',
           UNCHANGED <<survey, page, form, wire, tried, attempts>>
    PROVE  FormInv'
<1>1. SubmittedAnswers' = SubmittedAnswers
  BY SameSubmission
<1> QED
  BY <1>1 DEF FormInv, KeyInv, DoneInv, Ended

LEMMA ServerChangesRecords == ASSUME ServerInv, ServerChanges PROVE ServerInv'
<1>1. session' = session /\ late' = late
  BY DEF ServerChanges
<1>2. CASE server' = [server EXCEPT !.open = FALSE] \/ server' = [server EXCEPT !.notice = 2]
  BY <1>1, <1>2 DEF ServerInv
<1>3. ASSUME NEW who \in Accounts,
             server' = [server EXCEPT !.records[who] = [NoRecord EXCEPT !.at = "withdrawn"]]
      PROVE  ServerInv'
  <2>1. server' = [open |-> server.open, notice |-> server.notice,
                   records |-> [server.records EXCEPT ![who] = [NoRecord EXCEPT !.at = "withdrawn"]]]
    BY <1>3 DEF ServerInv
  <2>2. server'.records = [w \in Accounts |-> IF w = who THEN [NoRecord EXCEPT !.at = "withdrawn"]
                                              ELSE server.records[w]]
    BY <2>1 DEF ServerInv
  <2>3. [NoRecord EXCEPT !.at = "withdrawn"].at \in RecordStates
    BY DEF NoRecord, RecordStates
  <2> QED
    BY <1>1, <2>1, <2>2, <2>3 DEF ServerInv
<1> QED
  BY <1>2, <1>3 DEF ServerChanges

\* Whatever the respondent, the network and the server do, FormInv stays.
THEOREM StepFormInv == FormInv /\ [RespondentNext]_respondentVars => FormInv'
<1> SUFFICES ASSUME FormInv, [RespondentNext]_respondentVars PROVE FormInv'
  OBVIOUS
<1>1. CASE Visit \/ ContinueToPhase2 \/ Reload
  BY <1>1, LoadPageKeeps DEF Visit, ContinueToPhase2, Reload
<1>2. CASE Answer \/ (\E yes \in BOOLEAN : AgreeNotice(yes)) \/ GoNext \/ GoPrev \/ RetryTimer
  BY <1>2, AnswerKeeps, MoveKeeps
<1>3. CASE Submit
  BY <1>3, SubmitKeeps
<1>4. CASE AnsweredEarly \/ Answered \/ TimedOut
  BY <1>4, AnswerHeardKeeps
<1>5. ASSUME NEW call \in late, LateArrival(call) PROVE FormInv'
  <2>1. Take(call.req, call.who) /\ call.who \in Accounts
    BY <1>5 DEF LateArrival, FormInv, ServerInv
  <2>2. ServerInv'
    BY <1>5, <2>1, TakenRecords DEF LateArrival, FormInv
  <2> QED
    BY <1>5, <2>1, <2>2, TakenIsStored, ElsewhereKeeps DEF LateArrival
<1>6. CASE (\E who \in Accounts : SignIn(who)) \/ SessionEnds
  <2>1. ServerInv'
    BY <1>6 DEF SignIn, SessionEnds, FormInv, ServerInv
  <2> QED
    BY <1>6, <2>1, ElsewhereKeeps DEF SignIn, SessionEnds
<1>7. CASE ServerChanges
  BY <1>7, ServerChangesRecords, ElsewhereKeeps DEF ServerChanges, FormInv
<1>8. CASE UNCHANGED respondentVars
  BY <1>8, SameServer, ElsewhereKeeps DEF respondentVars, FormInv
<1> QED
  BY <1>1, <1>2, <1>3, <1>4, <1>5, <1>6, <1>7, <1>8 DEF RespondentNext

\* The closing page is shown only for answers the backend stored: the form
\* cannot be edited while its submission is under way, and only an accepted
\* one ends it (ClientSurveyForm, handleSubmit).
THEOREM DoneAnswersAreStored == RespondentSpec => []DoneMeansStored
<1>1. FormInv => DoneMeansStored
  BY DEF FormInv, DoneInv, DoneMeansStored
<1> QED
  BY <1>1, InitFormInv, StepFormInv, PTL DEF RespondentSpec

LEMMA NextKeepsKey ==
    ASSUME FormInv, [RespondentNext]_respondentVars, wire = NULL, wire' # NULL
    PROVE  \A t \in tried :
              \/ t.key = wire'.key
              \/ \E r \in tried : r.key = t.key /\ r.outcome \in {"refused", "stale_consent"}
<1>1. CASE Submit
  <2>1. wire'.key = IF form.key = NULL THEN attempts + 1 ELSE form.key
    BY <1>1 DEF Submit
  <2> QED
    BY <2>1, RespondentAssumption DEF FormInv, KeyInv, Ended
<1>2. CASE ~Submit
  BY <1>2 DEF RespondentNext, respondentVars, Visit, ContinueToPhase2, Reload, LoadPage,
     Answer, Choose, ToggleMultiple, Type, Rate, MoveRank, TickCell, Decide, SetAnswer, Untouched,
     AgreeNotice, GoNext, GoPrev, AnsweredEarly, Answered, TimedOut, Hear, LateArrival,
     RetryTimer, SignIn, SessionEnds, ServerChanges
<1> QED
  BY <1>1, <1>2

\* All attempts of a form carry one key (submissionKey in ClientSurveyForm),
\* whatever was edited, heard or shown in between, except those whose key was
\* definitely refused.
THEOREM UnsureAttemptsKeepTheirKey == RespondentSpec => KeyKeptWhileUnsure
<1>1. FormInv /\ [RespondentNext]_respondentVars
        => [wire = NULL /\ wire' # NULL =>
              \A t \in tried :
                 \/ t.key = wire'.key
                 \/ \E r \in tried : r.key = t.key /\ r.outcome \in {"refused", "stale_consent"}
           ]_respondentVars
  BY NextKeepsKey
<1> QED
  BY <1>1, InitFormInv, StepFormInv, PTL DEF RespondentSpec, KeyKeptWhileUnsure

-----------------------------------------------------------------------------
(* Pruning.  Answers out of place are deleted in passes over the questions  *)
(* until a pass deletes nothing; what stays is in place.                   *)

\* The answers that are left when some of `a` are deleted.
Remains(a) == {Restrict(a, D) : D \in SUBSET DOMAIN a}

LEMMA RemainsIs ==
    ASSUME NEW a, NEW b \in Remains(a)
    PROVE  /\ DOMAIN b \subseteq DOMAIN a /\ b = Restrict(a, DOMAIN b)
           /\ \A id \in DOMAIN b : b[id] = a[id]
  BY DEF Remains, Restrict

LEMMA RemainsOfRemains ==
    ASSUME NEW a, NEW b \in Remains(a)
    PROVE  Remains(b) \subseteq Remains(a)
<1> SUFFICES ASSUME NEW D \in SUBSET DOMAIN b PROVE Restrict(b, D) \in Remains(a)
  BY DEF Remains
<1>1. D \in SUBSET DOMAIN a /\ \A id \in D : b[id] = a[id]
  BY RemainsIs
<1>2. Restrict(b, D) = Restrict(a, D)
  BY <1>1 DEF Restrict
<1> QED
  BY <1>1, <1>2 DEF Remains

LEMMA ItselfRemains ==
    ASSUME NEW a, a = [id \in DOMAIN a |-> a[id]]
    PROVE  a \in Remains(a) /\ Restrict(a, DOMAIN a) = a
  BY DEF Remains, Restrict

LEMMA PruneAnswerRemains ==
    ASSUME NEW a, NEW b \in Remains(a), NEW q
    PROVE  PruneAnswer(q, b) \in Remains(a)
<1>1. CASE q.id \in DOMAIN b /\ OutOfPlace(q, b)
  <2>1. PruneAnswer(q, b) = Restrict(b, DOMAIN b \ {q.id})
    BY <1>1 DEF PruneAnswer
  <2>2. PruneAnswer(q, b) \in Remains(b)
    BY <2>1 DEF Remains
  <2> QED
    BY <2>2, RemainsOfRemains
<1>2. CASE ~(q.id \in DOMAIN b /\ OutOfPlace(q, b))
  BY <1>2 DEF PruneAnswer
<1> QED
  BY <1>1, <1>2

\* The answers after each question of a pass.
IsPass(f, Q, a) ==
    f = [n \in 0..Len(Q) |-> IF n = 0 THEN a ELSE PruneAnswer(Q[n], f[n - 1])]

LEMMA PrunePassIs ==
    ASSUME NEW T, NEW Q \in Seq(T), NEW a, a = [id \in DOMAIN a |-> a[id]]
    PROVE  \E f \in [0..Len(Q) -> Remains(a)] :
              IsPass(f, Q, a) /\ PrunePass(Q, a) = f[Len(Q)]
<1> DEFINE N == Len(Q)
           g == [n \in 1..N |-> [b \in Remains(a) |-> PruneAnswer(Q[n], b)]]
<1>1. N \in Nat /\ a \in Remains(a)
  BY ItselfRemains
<1>2. g \in [1..N -> [Remains(a) -> Remains(a)]]
  BY PruneAnswerRemains
<1>3. PICK h \in [0..N -> Remains(a)] : IsIteration(h, N, a, g)
  <2> HIDE DEF N, g
  <2> QED
    BY <1>1, <1>2, IterationExists
<1>4. ASSUME NEW n \in 0..N
      PROVE  h[n] = IF n = 0 THEN a ELSE PruneAnswer(Q[n], h[n - 1])
  <2>1. CASE n = 0
    BY <1>3, <2>1 DEF IsIteration
  <2>2. CASE n # 0
    <3>1. n \in 1..N /\ n - 1 \in 0..N /\ h[n - 1] \in Remains(a)
      BY <1>1, <1>3, <2>2
    <3>2. h[n] = g[n][h[n - 1]]
      <4> HIDE DEF N, g
      <4> QED
        BY <1>3, <2>2 DEF IsIteration
    <3>3. g[n][h[n - 1]] = PruneAnswer(Q[n], h[n - 1])
      BY <3>1
    <3> QED
      BY <2>2, <3>2, <3>3
  <2> QED
    BY <2>1, <2>2
<1>5. IsPass(h, Q, a)
  <2>1. h = [n \in 0..N |-> h[n]]
    BY <1>3
  <2> QED
    BY <1>4, <2>1, Zenon DEF IsPass
<1> DEFINE after == CHOOSE f : IsPass(f, Q, a)
<1>6. IsPass(after, Q, a)
  BY <1>5
<1>7. PrunePass(Q, a) = after[Len(Q)]
  BY DEF PrunePass, IsPass
<1>8. after \in [0..N -> Remains(a)]
  <2> DEFINE G == {n \in 0..N : after[n] \in Remains(a)}
  <2> HIDE DEF after
  <2>1. 0 \in G
    BY <1>1, <1>6 DEF IsPass
  <2>2. ASSUME NEW n \in 1..N, n - 1 \in G PROVE n \in G
    <3>1. after[n] = PruneAnswer(Q[n], after[n - 1])
      BY <1>6 DEF IsPass
    <3> QED
      BY <2>2, <3>1, PruneAnswerRemains
  <2>3. 0..N \subseteq G
    <3> HIDE DEF G, N
    <3> QED
      BY <1>1, <2>1, <2>2, Induction
  <2>4. after = [n \in 0..N |-> after[n]]
    BY <1>6 DEF IsPass
  <2> QED
    BY <2>3, <2>4
<1> QED
  BY <1>6, <1>7, <1>8

\* Nothing in E is deleted, if none of it can come to be out of place.
Safe(E, Q, a) ==
    \A b \in Remains(a), q \in ToSet(Q) :
        q.id \in E /\ E \subseteq DOMAIN b => ~OutOfPlace(q, b)

LEMMA PassKeepsSafe ==
    ASSUME NEW T, NEW Q \in Seq(T), NEW a, a = [id \in DOMAIN a |-> a[id]],
           NEW E \in SUBSET DOMAIN a, Safe(E, Q, a)
    PROVE  E \subseteq DOMAIN PrunePass(Q, a)
<1>1. PICK f \in [0..Len(Q) -> Remains(a)] : IsPass(f, Q, a) /\ PrunePass(Q, a) = f[Len(Q)]
  BY PrunePassIs
<1> DEFINE G == {n \in 0..Len(Q) : E \subseteq DOMAIN f[n]}
<1>2. Len(Q) \in Nat /\ 0 \in G
  BY <1>1 DEF IsPass
<1>3. ASSUME NEW n \in 1..Len(Q), n - 1 \in G PROVE n \in G
  <2> DEFINE q == Q[n]
             b == f[n - 1]
  <2>1. f[n] = PruneAnswer(q, b) /\ b \in Remains(a) /\ q \in ToSet(Q)
    BY <1>1 DEF IsPass, ToSet
  <2>2. E \subseteq DOMAIN b
    BY <1>3
  <2>3. q.id \in E => ~OutOfPlace(q, b)
    BY <2>1, <2>2 DEF Safe
  <2>4. E \subseteq DOMAIN PruneAnswer(q, b)
    BY <2>2, <2>3 DEF PruneAnswer, Restrict
  <2> QED
    BY <2>1, <2>4
<1>4. 0..Len(Q) \subseteq G
  <2> HIDE DEF G
  <2> QED
    BY <1>2, <1>3, Induction
<1> QED
  BY <1>1, <1>2, <1>4

AllInPlace(Q, a) == \A q \in ToSet(Q) : q.id \in DOMAIN a => ~OutOfPlace(q, a)

\* A pass that deletes nothing has found nothing.
LEMMA IdlePass ==
    ASSUME NEW T, NEW Q \in Seq(T), NEW a, a = [id \in DOMAIN a |-> a[id]],
           DOMAIN a \subseteq DOMAIN PrunePass(Q, a)
    PROVE  AllInPlace(Q, a)
<1>1. PICK f \in [0..Len(Q) -> Remains(a)] : IsPass(f, Q, a) /\ PrunePass(Q, a) = f[Len(Q)]
  BY PrunePassIs
<1>2. Len(Q) \in Nat
  OBVIOUS
<1>3. ASSUME NEW m \in 0..Len(Q) PROVE f[m] = a
  <2> SUFFICES ASSUME NEW id \in DOMAIN a, id \notin DOMAIN f[m] PROVE FALSE
    <3>1. f[m] \in Remains(a)
      BY <1>1
    <3> QED
      BY <3>1, RemainsIs, ItselfRemains
  <2> DEFINE G == {n \in 0..Len(Q) : n >= m => id \notin DOMAIN f[n]}
  <2>1. 0 \in G
    BY <1>1, <1>2
  <2>2. ASSUME NEW n \in 1..Len(Q), n - 1 \in G PROVE n \in G
    <3>1. f[n] = PruneAnswer(Q[n], f[n - 1])
      BY <1>1 DEF IsPass
    <3>2. DOMAIN f[n] \subseteq DOMAIN f[n - 1]
      BY <3>1 DEF PruneAnswer, Restrict
    <3>3. CASE n = m
      BY <3>3
    <3>4. CASE n # m
      BY <2>2, <3>2, <3>4
    <3> QED
      BY <3>3, <3>4
  <2>3. 0..Len(Q) \subseteq G
    <3> HIDE DEF G
    <3> QED
      BY <1>2, <2>1, <2>2, Induction
  <2>4. id \notin DOMAIN f[Len(Q)]
    BY <1>2, <2>3
  <2> QED
    BY <1>1, <2>4
<1>4. ASSUME NEW n \in DOMAIN Q, Q[n].id \in DOMAIN a, OutOfPlace(Q[n], a) PROVE FALSE
  <2>1. n \in 1..Len(Q) /\ n - 1 \in 0..Len(Q) /\ n \in 0..Len(Q)
    BY <1>2
  <2>2. f[n] = PruneAnswer(Q[n], f[n - 1])
    BY <1>1, <2>1 DEF IsPass
  <2>3. f[n] = a /\ f[n - 1] = a
    BY <1>3, <2>1
  <2>4. DOMAIN PruneAnswer(Q[n], a) = DOMAIN a \ {Q[n].id}
    BY <1>4 DEF PruneAnswer, Restrict
  <2> QED
    BY <1>4, <2>2, <2>3, <2>4
<1> QED
  BY <1>4 DEF AllInPlace, ToSet

LEMMA AllInPlaceSafe ==
    ASSUME NEW Q, NEW a, a = [id \in DOMAIN a |-> a[id]], AllInPlace(Q, a)
    PROVE  Safe(DOMAIN a, Q, a)
<1> SUFFICES ASSUME NEW b \in Remains(a), NEW q \in ToSet(Q), q.id \in DOMAIN a,
                    DOMAIN a \subseteq DOMAIN b
             PROVE  ~OutOfPlace(q, b)
  BY DEF Safe
<1>1. b = a
  BY RemainsIs, ItselfRemains
<1> QED
  BY <1>1 DEF AllInPlace

LEMMA PassRemains ==
    ASSUME NEW T, NEW Q \in Seq(T), NEW a, a = [id \in DOMAIN a |-> a[id]]
    PROVE  PrunePass(Q, a) \in Remains(a)
<1>1. PICK f \in [0..Len(Q) -> Remains(a)] : PrunePass(Q, a) = f[Len(Q)]
  BY PrunePassIs
<1> QED
  BY <1>1

LEMMA PassInPlace ==
    ASSUME NEW T, NEW Q \in Seq(T), NEW a, a = [id \in DOMAIN a |-> a[id]], AllInPlace(Q, a)
    PROVE  PrunePass(Q, a) = a
<1>1. DOMAIN a \subseteq DOMAIN PrunePass(Q, a)
  BY AllInPlaceSafe, PassKeepsSafe
<1> QED
  BY <1>1, PassRemains, RemainsIs, ItselfRemains

\* The answers after each pass.
ArePasses(f, Q, a) ==
    f = [n \in 0..Len(Q) |-> IF n = 0 THEN a ELSE PrunePass(Q, f[n - 1])]

LEMMA PassOfRemains ==
    ASSUME NEW T, NEW Q \in Seq(T), NEW a, NEW b \in Remains(a)
    PROVE  PrunePass(Q, b) \in Remains(a) /\ b = [id \in DOMAIN b |-> b[id]]
<1>1. b = [id \in DOMAIN b |-> b[id]]
  BY DEF Remains, Restrict
<1> QED
  BY <1>1, PassRemains, RemainsOfRemains

LEMMA PruneIs ==
    ASSUME NEW T, NEW Q \in Seq(T), NEW a, a = [id \in DOMAIN a |-> a[id]]
    PROVE  \E f \in [0..Len(Q) -> Remains(a)] :
              ArePasses(f, Q, a) /\ PruneConditionalAnswers(Q, a) = f[Len(Q)]
<1> DEFINE N == Len(Q)
           g == [n \in 1..N |-> [b \in Remains(a) |-> PrunePass(Q, b)]]
<1>1. N \in Nat /\ a \in Remains(a)
  BY ItselfRemains
<1>2. g \in [1..N -> [Remains(a) -> Remains(a)]]
  BY PassOfRemains
<1>3. PICK h \in [0..N -> Remains(a)] : IsIteration(h, N, a, g)
  <2> HIDE DEF N, g
  <2> QED
    BY <1>1, <1>2, IterationExists
<1>4. ASSUME NEW n \in 0..N
      PROVE  h[n] = IF n = 0 THEN a ELSE PrunePass(Q, h[n - 1])
  <2>1. CASE n = 0
    BY <1>3, <2>1 DEF IsIteration
  <2>2. CASE n # 0
    <3>1. n \in 1..N /\ n - 1 \in 0..N /\ h[n - 1] \in Remains(a)
      BY <1>1, <1>3, <2>2
    <3>2. h[n] = g[n][h[n - 1]]
      <4> HIDE DEF N, g
      <4> QED
        BY <1>3, <2>2 DEF IsIteration
    <3>3. g[n][h[n - 1]] = PrunePass(Q, h[n - 1])
      BY <3>1
    <3> QED
      BY <2>2, <3>2, <3>3
  <2> QED
    BY <2>1, <2>2
<1>5. ArePasses(h, Q, a)
  <2>1. h = [n \in 0..N |-> h[n]]
    BY <1>3
  <2> QED
    BY <1>4, <2>1, Zenon DEF ArePasses
<1> DEFINE after == CHOOSE f : ArePasses(f, Q, a)
<1>6. ArePasses(after, Q, a)
  BY <1>5
<1>7. PruneConditionalAnswers(Q, a) = after[Len(Q)]
  BY DEF PruneConditionalAnswers, ArePasses
<1>8. after \in [0..N -> Remains(a)]
  <2> DEFINE G == {n \in 0..N : after[n] \in Remains(a)}
  <2> HIDE DEF after
  <2>1. 0 \in G
    BY <1>1, <1>6 DEF ArePasses
  <2>2. ASSUME NEW n \in 1..N, n - 1 \in G PROVE n \in G
    <3>1. after[n] = PrunePass(Q, after[n - 1])
      BY <1>6 DEF ArePasses
    <3> QED
      BY <2>2, <3>1, PassOfRemains
  <2>3. 0..N \subseteq G
    <3> HIDE DEF G, N
    <3> QED
      BY <1>1, <2>1, <2>2, Induction
  <2>4. after = [n \in 0..N |-> after[n]]
    BY <1>6 DEF ArePasses
  <2> QED
    BY <2>3, <2>4
<1> QED
  BY <1>6, <1>7, <1>8

\* Pruning only deletes, and nothing that is safe.
LEMMA PruneKeepsSafe ==
    ASSUME NEW T, NEW Q \in Seq(T), NEW a, a = [id \in DOMAIN a |-> a[id]],
           NEW E \in SUBSET DOMAIN a, Safe(E, Q, a)
    PROVE  /\ PruneConditionalAnswers(Q, a) \in Remains(a)
           /\ E \subseteq DOMAIN PruneConditionalAnswers(Q, a)
<1>1. PICK f \in [0..Len(Q) -> Remains(a)] :
         ArePasses(f, Q, a) /\ PruneConditionalAnswers(Q, a) = f[Len(Q)]
  BY PruneIs
<1> DEFINE G == {n \in 0..Len(Q) : E \subseteq DOMAIN f[n]}
<1>2. Len(Q) \in Nat /\ 0 \in G
  BY <1>1 DEF ArePasses
<1>3. ASSUME NEW n \in 1..Len(Q), n - 1 \in G PROVE n \in G
  <2> DEFINE b == f[n - 1]
  <2>1. f[n] = PrunePass(Q, b) /\ b \in Remains(a) /\ b = [id \in DOMAIN b |-> b[id]]
    <3>1. n - 1 \in 0..Len(Q)
      OBVIOUS
    <3>2. b \in Remains(a)
      BY <1>1, <3>1
    <3>3. f[n] = PrunePass(Q, f[n - 1])
      BY <1>1 DEF ArePasses
    <3> HIDE DEF b
    <3>4. b = [id \in DOMAIN b |-> b[id]]
      BY <3>2, PassOfRemains
    <3> QED
      BY <3>2, <3>3, <3>4 DEF b
  <2>2. E \in SUBSET DOMAIN b
    BY <1>3
  <2>3. Safe(E, Q, b)
    BY <2>1, RemainsOfRemains DEF Safe
  <2> HIDE DEF b
  <2>4. E \subseteq DOMAIN PrunePass(Q, b)
    BY <2>1, <2>2, <2>3, PassKeepsSafe
  <2> QED
    BY <2>1, <2>4
<1>4. 0..Len(Q) \subseteq G
  <2> HIDE DEF G
  <2> QED
    BY <1>2, <1>3, Induction
<1> QED
  BY <1>1, <1>2, <1>4

LEMMA PruneInPlace ==
    ASSUME NEW T, NEW Q \in Seq(T), NEW a, a = [id \in DOMAIN a |-> a[id]], AllInPlace(Q, a)
    PROVE  PruneConditionalAnswers(Q, a) = a
<1>1. /\ PruneConditionalAnswers(Q, a) \in Remains(a)
      /\ DOMAIN a \subseteq DOMAIN PruneConditionalAnswers(Q, a)
  BY AllInPlaceSafe, PruneKeepsSafe
<1>2. DOMAIN PruneConditionalAnswers(Q, a) = DOMAIN a
  BY <1>1, RemainsIs
<1> QED
  BY <1>1, <1>2, RemainsIs, ItselfRemains

\* There are passes enough: every one that is not the last deletes an answer.
LEMMA PruneSettles ==
    ASSUME NEW T, NEW Q \in Seq(T), NEW a, a = [id \in DOMAIN a |-> a[id]],
           IsFiniteSet(DOMAIN a), Cardinality(DOMAIN a) <= Len(Q)
    PROVE  AllInPlace(Q, PruneConditionalAnswers(Q, a))
<1>1. PICK f \in [0..Len(Q) -> Remains(a)] :
         ArePasses(f, Q, a) /\ PruneConditionalAnswers(Q, a) = f[Len(Q)]
  BY PruneIs
<1> DEFINE Size(n) == Cardinality(DOMAIN f[n])
           G == {n \in 0..Len(Q) : AllInPlace(Q, f[n]) \/ Size(n) + n <= Cardinality(DOMAIN a)}
<1>2. ASSUME NEW n \in 0..Len(Q)
      PROVE  /\ f[n] \in Remains(a) /\ f[n] = [id \in DOMAIN f[n] |-> f[n][id]]
             /\ IsFiniteSet(DOMAIN f[n]) /\ Size(n) \in Nat
  <2>1. f[n] \in Remains(a)
    BY <1>1
  <2>2. IsFiniteSet(DOMAIN f[n])
    BY <2>1, RemainsIs, FS_Subset
  <2> QED
    BY <2>1, <2>2, PassOfRemains, FS_CardinalityType
<1>3. Len(Q) \in Nat /\ Cardinality(DOMAIN a) \in Nat /\ 0 \in G
  <2>1. Cardinality(DOMAIN a) \in Nat
    BY FS_CardinalityType
  <2> QED
    BY <1>1, <2>1 DEF ArePasses
<1>4. ASSUME NEW n \in 1..Len(Q), n - 1 \in G PROVE n \in G
  <2> DEFINE b == f[n - 1]
  <2>1. n - 1 \in 0..Len(Q) /\ n \in 0..Len(Q)
    OBVIOUS
  <2>2. /\ f[n] = PrunePass(Q, b) /\ b = [id \in DOMAIN b |-> b[id]]
        /\ IsFiniteSet(DOMAIN b)
    BY <1>1, <1>2, <2>1 DEF ArePasses
  <2>3. CASE AllInPlace(Q, b)
    <3>1. f[n] = b
      BY <2>2, <2>3, PassInPlace
    <3> QED
      BY <2>1, <2>3, <3>1
  <2>4. CASE ~AllInPlace(Q, b)
    <3>1. DOMAIN f[n] \subseteq DOMAIN b /\ ~(DOMAIN b \subseteq DOMAIN f[n])
      BY <2>2, <2>4, PassRemains, RemainsIs, IdlePass
    <3>2. Size(n) < Size(n - 1)
      BY <2>2, <3>1, FS_Subset, FS_CardinalityType
    <3>3. Size(n - 1) + (n - 1) <= Cardinality(DOMAIN a)
      BY <1>4, <2>4
    <3>4. Size(n) \in Nat /\ Size(n - 1) \in Nat
      BY <1>2, <2>1
    <3> HIDE DEF Size
    <3>5. Size(n) + n <= Cardinality(DOMAIN a)
      BY <1>3, <3>2, <3>3, <3>4
    <3> QED
      BY <2>1, <3>5
  <2> QED
    BY <2>3, <2>4
<1>5. 0..Len(Q) \subseteq G
  <2> HIDE DEF G
  <2> QED
    BY <1>3, <1>4, Induction
<1>6. CASE ~AllInPlace(Q, f[Len(Q)])
  <2>1. Size(Len(Q)) + Len(Q) <= Cardinality(DOMAIN a) /\ Size(Len(Q)) \in Nat
    BY <1>2, <1>3, <1>5, <1>6
  <2>2. Size(Len(Q)) = 0
    <3> HIDE DEF Size
    <3> QED
      BY <1>3, <2>1
  <2>3. DOMAIN f[Len(Q)] = {}
    BY <1>2, <1>3, <2>2, FS_EmptySet
  <2> QED
    BY <2>3, <1>6 DEF AllInPlace
<1> QED
  BY <1>1, <1>6

-----------------------------------------------------------------------------
(* FormAgreesWithServer: what the form lets through, the backend finds      *)
(* valid.  The answers of the form fit their questions, nothing is out of  *)
(* place, and everything before the section shown is complete.             *)

QuestionsIn(S) == UNION {ToSet(S[i]) : i \in DOMAIN S}
Before(S, n) == UNION {ToSet(S[i]) : i \in {k \in DOMAIN S : k < n}}
IdsOf(questions) == {q.id : q \in questions}
References(q) == {q.when, q.by} \ {NULL}

LEMMA SectionsAre ==
    ASSUME NEW S, PhaseValid(S)
    PROVE  /\ S \in Seq(Seq(QuestionsIn(S))) /\ DOMAIN S = 1..Len(S) /\ Len(S) \in Nat /\ 1 \in DOMAIN S
           /\ FlattenSeq(S) \in Seq(QuestionsIn(S))
           /\ ToSet(FlattenSeq(S)) = QuestionsIn(S)
<1>1. S \in Seq(Seq(QuestionsIn(S))) /\ S # <<>>
  BY DEF PhaseValid, QuestionsIn
<1> HIDE DEF QuestionsIn
<1>2. /\ FlattenSeq(S) \in Seq(QuestionsIn(S))
      /\ ToSet(FlattenSeq(S)) = UNION {ToSet(S[i]) : i \in DOMAIN S}
  BY <1>1, FlattenSeqEntries
<1>3. DOMAIN S = 1..Len(S) /\ Len(S) \in Nat /\ 1 \in DOMAIN S
  BY <1>1
<1> QED
  BY <1>1, <1>2, <1>3 DEF QuestionsIn

\* An id names one question, of one section.
LEMMA OneQuestion ==
    ASSUME NEW S, PhaseValid(S), NEW q \in QuestionsIn(S), NEW r \in QuestionsIn(S), q.id = r.id
    PROVE  /\ q = r
           /\ \A i, k \in DOMAIN S : q \in ToSet(S[i]) /\ r \in ToSet(S[k]) => i = k
  BY DEF PhaseValid, QuestionsIn

\* The questions a condition of q names are single choices no later than q.
LEMMA SourcesPrecede ==
    ASSUME NEW S, PhaseValid(S), NEW i \in DOMAIN S, NEW q \in ToSet(S[i]),
           NEW reference \in References(q)
    PROVE  \E k \in DOMAIN S : k <= i /\ \E s \in ToSet(S[k]) :
              s.id = reference.source /\ s.type = "single_choice"
<1>1. \E k \in 1..i : \E s \in ToSet(S[k]) : s.id = reference.source /\ s.type = "single_choice"
  <2>1. \A r \in ToSet(S[i]) : \A known \in {r.when, r.by} \ {NULL} : \E k \in 1..i :
           \E s \in ToSet(S[k]) : s.id = known.source /\ s.type = "single_choice"
    BY Zenon DEF PhaseValid
  <2> QED
    BY <2>1, Zenon DEF References
<1>2. DOMAIN S = 1..Len(S) /\ Len(S) \in Nat
  BY SectionsAre
<1> QED
  BY <1>1, <1>2

\* What is shown of a question follows from the answers it refers to.
LEMMA SameConditions ==
    ASSUME NEW q, NEW a, NEW c,
           \A reference \in References(q) : SourceAnswer(reference.source, a) = SourceAnswer(reference.source, c)
    PROVE  /\ AvailableOptions(q, a) = AvailableOptions(q, c)
           /\ IsVisible(q, a) <=> IsVisible(q, c)
<1>1. q.by # NULL => SourceAnswer(q.by.source, a) = SourceAnswer(q.by.source, c)
  BY DEF References
<1>2. q.when # NULL => SourceAnswer(q.when.source, a) = SourceAnswer(q.when.source, c)
  BY DEF References
<1>3. AvailableOptions(q, a) = AvailableOptions(q, c)
  BY <1>1 DEF AvailableOptions
<1> QED
  BY <1>2, <1>3 DEF IsVisible

LEMMA SameCompleteness ==
    ASSUME NEW q, NEW a, NEW c, IsVisible(q, a) <=> IsVisible(q, c),
           q.id \in DOMAIN a <=> q.id \in DOMAIN c, q.id \in DOMAIN a => a[q.id] = c[q.id]
    PROVE  Complete(q, a) <=> Complete(q, c)
<1>1. IsBlank(q, a) <=> IsBlank(q, c)
  BY DEF IsBlank
<1>2. MatrixComplete(q, a) <=> MatrixComplete(q, c)
  BY DEF MatrixComplete
<1> QED
  BY <1>1, <1>2, Zenon DEF Complete

-----------------------------------------------------------------------------
\* A value the controls of a question can give it.
Fitting(q, v) ==
    /\ q.type = "single_choice" => v \in ToSet(q.options)
    /\ q.type = "multiple_choice" => v \subseteq ToSet(q.options)
    /\ q.type = "ranking" => /\ v \in [DOMAIN q.options -> ToSet(q.options)]
                             /\ IsInjective(v) /\ ToSet(v) = ToSet(q.options)
    /\ q.type = "scale" => v \in DOMAIN q.options
    /\ q.type = "boolean" => v \in BOOLEAN
    /\ q.type \in {"typed", "file"} => v \in Typed

AnswersOK(S, a) ==
    /\ a = [id \in DOMAIN a |-> a[id]]
    /\ DOMAIN a \subseteq IdsOf(QuestionsIn(S))
    /\ \A q \in QuestionsIn(S) : q.id \in DOMAIN a => ~OutOfPlace(q, a) /\ Fitting(q, a[q.id])

PassedUpto(S, n, a) == \A q \in Before(S, n) : Complete(q, a)

\* There are no more answers than questions.
LEMMA FewAnswers ==
    ASSUME NEW T, NEW Q \in Seq(T), NEW D \in SUBSET IdsOf(ToSet(Q))
    PROVE  IsFiniteSet(D) /\ Cardinality(D) \in Nat /\ Cardinality(D) <= Len(Q)
<1> DEFINE f == [n \in 1..Len(Q) |-> Q[n].id]
           I == IdsOf(ToSet(Q))
<1>1. Len(Q) \in Nat /\ IsFiniteSet(1..Len(Q)) /\ Cardinality(1..Len(Q)) = Len(Q)
  <2>1. Len(Q) \in Nat /\ 1 \in Int
    OBVIOUS
  <2> QED
    BY <2>1, FS_Interval
<1>2. f \in Surjection(1..Len(Q), I)
  BY DEF Surjection, IdsOf, ToSet
<1>3. IsFiniteSet(I) /\ Cardinality(I) <= Len(Q)
  BY <1>1, <1>2, FS_Surjection
<1>4. IsFiniteSet(D) /\ Cardinality(D) <= Cardinality(I)
  BY <1>3, FS_Subset
<1> QED
  BY <1>1, <1>3, <1>4, FS_CardinalityType

\* Giving a question of section n a value keeps the answers fitting, and
\* what was complete before that section.
LEMMA AnsweringKeeps ==
    ASSUME NEW S, PhaseValid(S), NEW n \in DOMAIN S, NEW a, AnswersOK(S, a), PassedUpto(S, n, a),
           NEW q \in ToSet(S[n]), NEW v, Fitting(q, v),
           NEW d, d = PruneConditionalAnswers(FlattenSeq(S),
                         [id \in DOMAIN a \cup {q.id} |-> IF id = q.id THEN v ELSE a[id]])
    PROVE  AnswersOK(S, d) /\ PassedUpto(S, n, d)
<1> DEFINE Q == FlattenSeq(S)
           c == [id \in DOMAIN a \cup {q.id} |-> IF id = q.id THEN v ELSE a[id]]
           T == QuestionsIn(S)
           E == DOMAIN a \cap IdsOf(Before(S, n))
<1>1. /\ Q \in Seq(T) /\ ToSet(Q) = T /\ q \in T /\ Before(S, n) \subseteq T
      /\ DOMAIN S = 1..Len(S) /\ Len(S) \in Nat
  BY SectionsAre DEF QuestionsIn, Before
<1>2. q.id \notin IdsOf(Before(S, n))
  <2> SUFFICES ASSUME NEW r \in Before(S, n), r.id = q.id PROVE FALSE
    BY DEF IdsOf
  <2>1. PICK k \in DOMAIN S : k < n /\ r \in ToSet(S[k])
    BY DEF Before
  <2> QED
    BY <1>1, <2>1, OneQuestion
<1>3. ASSUME NEW r \in Before(S, n), NEW reference \in References(r)
      PROVE  reference.source \in IdsOf(Before(S, n))
  <2>1. PICK i \in DOMAIN S : i < n /\ r \in ToSet(S[i])
    BY DEF Before
  <2>2. PICK k \in DOMAIN S : k <= i /\ \E s \in ToSet(S[k]) : s.id = reference.source
    BY <2>1, SourcesPrecede
  <2>3. k < n
    BY <1>1, <2>1, <2>2
  <2> QED
    BY <2>2, <2>3 DEF Before, IdsOf
<1>4. ASSUME NEW b \in Remains(c), E \subseteq DOMAIN b, NEW id \in IdsOf(Before(S, n))
      PROVE  /\ id \in DOMAIN b <=> id \in DOMAIN a
             /\ id \in DOMAIN a => b[id] = a[id]
             /\ SourceAnswer(id, b) = SourceAnswer(id, a)
  <2>1. DOMAIN b \subseteq DOMAIN c /\ \A i \in DOMAIN b : b[i] = c[i]
    BY RemainsIs
  <2>2. id # q.id
    BY <1>2
  <2>3. id \in DOMAIN a => b[id] = c[id] /\ c[id] = a[id]
    BY <1>4, <2>1, <2>2
  <2>4. id \in DOMAIN b <=> id \in DOMAIN a
    BY <1>4, <2>1, <2>2
  <2> QED
    BY <2>3, <2>4 DEF SourceAnswer
<1>5. ASSUME NEW b \in Remains(c), E \subseteq DOMAIN b, NEW r \in Before(S, n)
      PROVE  /\ IsVisible(r, b) <=> IsVisible(r, a)
             /\ AvailableOptions(r, b) = AvailableOptions(r, a)
             /\ Complete(r, b) <=> Complete(r, a)
             /\ r.id \in E => ~OutOfPlace(r, b)
  <2>1. r.id \in IdsOf(Before(S, n))
    BY DEF IdsOf
  <2>2. \A reference \in References(r) :
           SourceAnswer(reference.source, b) = SourceAnswer(reference.source, a)
    BY <1>3, <1>4, <1>5
  <2> HIDE DEF E, c
  <2>3. (IsVisible(r, b) <=> IsVisible(r, a)) /\ AvailableOptions(r, b) = AvailableOptions(r, a)
    BY <2>2, SameConditions
  <2>4. Complete(r, b) <=> Complete(r, a)
    BY <1>4, <1>5, <2>1, <2>3, SameCompleteness
  <2>5. ASSUME r.id \in E PROVE ~OutOfPlace(r, b)
    <3>1. r.id \in DOMAIN a /\ b[r.id] = a[r.id]
      BY <1>4, <1>5, <2>1, <2>5 DEF E
    <3>2. ~OutOfPlace(r, a)
      BY <1>1, <3>1 DEF AnswersOK
    <3> QED
      BY <2>3, <3>1, <3>2 DEF OutOfPlace
  <2> QED
    BY <2>3, <2>4, <2>5
<1>6. Safe(E, Q, c)
  <2> SUFFICES ASSUME NEW b \in Remains(c), NEW r \in ToSet(Q), r.id \in E, E \subseteq DOMAIN b
               PROVE  ~OutOfPlace(r, b)
    BY DEF Safe
  <2>1. PICK s \in Before(S, n) : s.id = r.id
    BY DEF IdsOf
  <2>2. r = s
    BY <1>1, <2>1, OneQuestion
  <2> QED
    BY <1>5, <2>2
<1>7. c = [id \in DOMAIN c |-> c[id]] /\ E \in SUBSET DOMAIN c
  OBVIOUS
<1>8. d \in Remains(c) /\ E \subseteq DOMAIN d
  <2> HIDE DEF Q, c, E, T
  <2>1. d = PruneConditionalAnswers(Q, c)
    BY DEF Q, c
  <2> QED
    BY <1>1, <1>6, <1>7, <2>1, PruneKeepsSafe
<1>9. DOMAIN c \subseteq IdsOf(ToSet(Q))
  BY <1>1 DEF AnswersOK, IdsOf
<1>10. AllInPlace(Q, d)
  <2> HIDE DEF Q, c, E, T
  <2>1. d = PruneConditionalAnswers(Q, c)
    BY DEF Q, c
  <2>2. IsFiniteSet(DOMAIN c) /\ Cardinality(DOMAIN c) <= Len(Q)
    BY <1>1, <1>9, FewAnswers
  <2> QED
    BY <1>1, <1>7, <2>1, <2>2, PruneSettles
<1>11. DOMAIN d \subseteq DOMAIN c /\ \A id \in DOMAIN d : d[id] = c[id]
  BY <1>8, RemainsIs
<1>12. d = [id \in DOMAIN d |-> d[id]]
  BY <1>8 DEF Remains, Restrict
<1>13. ASSUME NEW r \in T, r.id \in DOMAIN d PROVE ~OutOfPlace(r, d) /\ Fitting(r, d[r.id])
  <2>1. ~OutOfPlace(r, d)
    BY <1>1, <1>10, <1>13 DEF AllInPlace
  <2>2. CASE r.id = q.id
    <3>1. r = q
      BY <1>1, <2>2, OneQuestion
    <3>2. d[r.id] = v
      BY <1>11, <1>13, <2>2
    <3> QED
      BY <2>1, <3>1, <3>2
  <2>3. CASE r.id # q.id
    <3>1. r.id \in DOMAIN a /\ d[r.id] = a[r.id]
      BY <1>11, <1>13, <2>3
    <3> QED
      BY <2>1, <3>1 DEF AnswersOK
  <2> QED
    BY <2>2, <2>3
<1>14. AnswersOK(S, d)
  BY <1>1, <1>9, <1>11, <1>12, <1>13 DEF AnswersOK
<1>15. PassedUpto(S, n, d)
  BY <1>5, <1>8 DEF PassedUpto
<1> QED
  BY <1>14, <1>15

LEMMA BlankIs ==
    ASSUME NEW S, PhaseValid(S), NEW q \in QuestionsIn(S), NEW a, Complete(q, a), IsVisible(q, a),
           IsBlank(q, a), q.required
    PROVE  q.type = "ranking" /\ q.options # <<>> /\ q.id \notin DOMAIN a
<1>1. QuestionValid(q)
  BY DEF PhaseValid, QuestionsIn
<1>2. q.type # "matrix"
  <2> SUFFICES ASSUME q.type = "matrix" PROVE FALSE
    OBVIOUS
  <2>1. MatrixComplete(q, a)
    BY DEF Complete
  <2>2. DOMAIN a[q.id] = {}
    BY <2>1 DEF IsBlank, MatrixComplete
  <2>3. q.options \in Seq(ToSet(q.options)) /\ q.options # <<>>
    BY <1>1 DEF QuestionValid
  <2>4. q.options[1] \in ToSet(q.options)
    BY <2>3 DEF ToSet
  <2> QED
    BY <2>1, <2>2, <2>4 DEF MatrixComplete
<1>3. q.type = "ranking" /\ q.options # <<>>
  BY <1>2 DEF Complete
<1> QED
  BY <1>3 DEF IsBlank

\* A value the form let through is one the backend takes, or was typed beyond
\* the limits of its question.
LEMMA FittingIsValid ==
    ASSUME NEW S, PhaseValid(S), NEW q \in QuestionsIn(S), NEW a, NEW s,
           q.id \in DOMAIN a, ~OutOfPlace(q, a), Fitting(q, a[q.id]), Complete(q, a), ~IsBlank(q, a),
           s[q.id] = a[q.id],
           q.by # NULL => SourceAnswer(q.by.source, s) = SourceAnswer(q.by.source, a)
    PROVE  ValidAnswer(q, s) \/ (q.type = "typed" /\ s[q.id] \notin q.takes \cup {""})
<1>1. QuestionValid(q)
  BY DEF PhaseValid, QuestionsIn
<1>2. IsVisible(q, a) /\ (q.by # NULL => a[q.id] \in AvailableOptions(q, a))
  BY DEF OutOfPlace
<1>3. q.by = NULL => EffectiveOptions(q, s) = ToSet(q.options)
  BY DEF EffectiveOptions
<1>4. q.by # NULL => q.type = "single_choice"
  BY <1>1 DEF QuestionValid
<1>5. CASE q.type = "single_choice"
  <2>1. q.by # NULL => AvailableOptions(q, a) \subseteq EffectiveOptions(q, s)
    BY DEF AvailableOptions, EffectiveOptions
  <2>2. s[q.id] \in EffectiveOptions(q, s)
    BY <1>2, <1>3, <1>5, <2>1 DEF Fitting
  <2> QED
    BY <1>5, <2>2 DEF ValidAnswer
<1>6. CASE q.type = "multiple_choice"
  BY <1>3, <1>4, <1>6 DEF ValidAnswer, Fitting
<1>7. CASE q.type = "ranking"
  BY <1>3, <1>4, <1>7 DEF ValidAnswer, Fitting
<1>8. CASE q.type = "matrix"
  <2>1. MatrixComplete(q, a)
    BY <1>2, <1>8 DEF Complete
  <2> QED
    BY <1>3, <1>4, <1>8, <2>1 DEF ValidAnswer, MatrixComplete
<1>9. CASE q.type = "scale"
  BY <1>9 DEF ValidAnswer, Fitting
<1>10. CASE q.type \in {"boolean", "file"}
  BY <1>10 DEF ValidAnswer, Fitting
<1>11. CASE q.type = "typed"
  <2>1. s[q.id] # ""
    BY <1>11 DEF IsBlank
  <2> QED
    BY <1>11, <2>1 DEF ValidAnswer
<1> QED
  BY <1>1, <1>5, <1>6, <1>7, <1>8, <1>9, <1>10, <1>11 DEF QuestionValid, Types

\* Form and backend agree on what is visible, given the same answers.
LEMMA SameVisibility ==
    ASSUME NEW S, PhaseValid(S), NEW q \in QuestionsIn(S), NEW a, NEW s,
           \A reference \in References(q) : SourceAnswer(reference.source, s) = SourceAnswer(reference.source, a)
    PROVE  ServerVisible(q, s) <=> IsVisible(q, a)
<1>1. q.by # NULL => SourceAnswer(q.by.source, s) = SourceAnswer(q.by.source, a)
  BY DEF References
<1>2. q.when # NULL => SourceAnswer(q.when.source, s) = SourceAnswer(q.when.source, a)
  BY DEF References
<1>3. QuestionValid(q)
  BY DEF PhaseValid, QuestionsIn
<1>4. ASSUME q.by # NULL, NEW answer \in DOMAIN q.by.choices
      PROVE  ToSet(q.by.choices[answer]) \cap ToSet(q.options) # {}
  <2> DEFINE offered == q.by.choices[answer]
  <2>1. offered \in Seq(ToSet(q.options)) /\ offered # <<>>
    BY <1>3, <1>4 DEF QuestionValid
  <2>2. offered[1] \in ToSet(offered) /\ offered[1] \in ToSet(q.options)
    <3> HIDE DEF offered
    <3>1. 1 \in DOMAIN offered
      BY <2>1
    <3>2. offered[1] \in ToSet(q.options)
      BY <2>1, <3>1
    <3> QED
      BY <3>1, <3>2 DEF ToSet
  <2> QED
    BY <2>2
<1>5. ASSUME q.by # NULL
      PROVE  AvailableOptions(q, a) # {} <=> SourceAnswer(q.by.source, a) \in DOMAIN q.by.choices
  BY <1>4, <1>5 DEF AvailableOptions
<1> QED
  BY <1>1, <1>2, <1>5 DEF ServerVisible, IsVisible

\* Answers that fit, and with which every question is complete, are valid as
\* submitted, up to the limits of what is typed.
LEMMA SubmissionIsValid ==
    ASSUME NEW S, S = survey[form.phase], PhaseValid(S), AnswersOK(S, form.answers),
           \A q \in QuestionsIn(S) : Complete(q, form.answers),
           form.phase # 0 => \A q \in QuestionsIn(S) : q.required
    PROVE  ValidUpToLimits(form.phase, SubmittedAnswers)
<1> DEFINE Q == FlattenSeq(S)
           T == QuestionsIn(S)
           a == form.answers
           untouched == {q \in T : q.type = "ranking" /\ q.id \notin DOMAIN a /\ IsVisible(q, a)}
           s == SubmittedAnswers
<1>1. Q \in Seq(T) /\ ToSet(Q) = T /\ Questions(form.phase) = Q
  BY SectionsAre DEF Questions
<1>2. PruneConditionalAnswers(Q, a) = a
  <2>1. AllInPlace(Q, a) /\ a = [id \in DOMAIN a |-> a[id]]
    BY <1>1 DEF AllInPlace, AnswersOK
  <2> HIDE DEF Q, a, T
  <2> QED
    BY <1>1, <2>1, PruneInPlace
<1>3. s = [id \in DOMAIN a \cup {q.id : q \in untouched} |->
              IF id \in DOMAIN a THEN a[id] ELSE (CHOOSE q \in untouched : q.id = id).options]
  <2> DEFINE rankings(questions, b) == {q \in ToSet(questions) : /\ q.type = "ranking"
                                                                 /\ q.id \notin DOMAIN b
                                                                 /\ IsVisible(q, b)}
             filled(b, rest) == [id \in DOMAIN b \cup {q.id : q \in rest} |->
                IF id \in DOMAIN b THEN b[id] ELSE (CHOOSE q \in rest : q.id = id).options]
             pruned == PruneConditionalAnswers(Questions(form.phase), a)
  <2>1. SubmittedAnswers = filled(pruned, rankings(Questions(form.phase), pruned))
    BY DEF SubmittedAnswers
  <2>2. pruned = a
    BY <1>1, <1>2
  <2>3. rankings(Questions(form.phase), a) = untouched
    BY <1>1
  <2>4. s = filled(a, untouched)
    <3> HIDE DEF rankings, filled, pruned, a, untouched, Q, T
    <3> QED
      BY <2>1, <2>2, <2>3 DEF a
  <2> QED
    BY <2>4
<1>4. ASSUME NEW q \in untouched
      PROVE  q.id \in DOMAIN s /\ s[q.id] = q.options
  <2> DEFINE r == CHOOSE r \in untouched : r.id = q.id
  <2>1. r \in untouched /\ r.id = q.id
    OBVIOUS
  <2>2. r = q
    BY <2>1, OneQuestion
  <2>3. s[q.id] = r.options
    BY <1>3
  <2> QED
    BY <1>3, <2>2, <2>3
<1>5. ASSUME NEW id \in DOMAIN a PROVE id \in DOMAIN s /\ s[id] = a[id]
  BY <1>3
<1>6. ASSUME NEW id \in DOMAIN s, id \notin DOMAIN a PROVE \E q \in untouched : id = q.id
  BY <1>3, <1>6
<1> HIDE DEF s, Q
<1>7. ASSUME NEW q \in T, NEW reference \in References(q)
      PROVE  SourceAnswer(reference.source, s) = SourceAnswer(reference.source, a)
  <2>1. PICK i \in DOMAIN S : q \in ToSet(S[i])
    BY DEF QuestionsIn
  <2>2. PICK r \in T : r.id = reference.source /\ r.type = "single_choice"
    BY <2>1, SourcesPrecede DEF QuestionsIn
  <2>4. \A u \in untouched : u.id # r.id
    BY <2>2, OneQuestion
  <2>5. reference.source \in DOMAIN s <=> reference.source \in DOMAIN a
    BY <1>5, <1>6, <2>2, <2>4
  <2> QED
    BY <1>5, <2>5 DEF SourceAnswer
<1>8. DOMAIN s \subseteq IdsOf(T)
  <2>1. DOMAIN a \subseteq IdsOf(T)
    BY DEF AnswersOK
  <2> QED
    BY <1>6, <2>1 DEF IdsOf
<1>9. ASSUME NEW q \in T
      PROVE  AcceptsQuestion(form.phase, q, s) \/ BeyondLimits(q, s)
  <2>1. ServerVisible(q, s) <=> IsVisible(q, a)
    BY <1>7, SameVisibility
  <2>2. Complete(q, a) /\ QuestionValid(q)
    BY DEF PhaseValid, QuestionsIn
  <2>3. CASE q.id \in DOMAIN a
    <3>1. ~OutOfPlace(q, a) /\ Fitting(q, a[q.id])
      BY <2>3 DEF AnswersOK
    <3>2. IsVisible(q, a) /\ q.id \in DOMAIN s /\ s[q.id] = a[q.id]
      BY <1>5, <2>3, <3>1 DEF OutOfPlace
    <3>3. IsBlank(q, s) <=> IsBlank(q, a)
      BY <2>3, <3>2 DEF IsBlank
    <3>4. IsBlank(q, a) => ~q.required
      BY <2>2, <2>3, <3>2, BlankIs
    <3>5. ~IsBlank(q, a) => ValidAnswer(q, s) \/ (q.type = "typed" /\ s[q.id] \notin q.takes \cup {""})
      <4>1. q.by # NULL => SourceAnswer(q.by.source, s) = SourceAnswer(q.by.source, a)
        BY <1>7 DEF References
      <4> HIDE DEF a, T
      <4> QED
        BY <2>2, <2>3, <3>1, <3>2, <4>1, FittingIsValid DEF T
    <3> QED
      BY <2>1, <3>2, <3>3, <3>4, <3>5 DEF AcceptsQuestion, BeyondLimits
  <2>4. CASE q \in untouched
    <3>1. q.id \in DOMAIN s /\ s[q.id] = q.options
      BY <1>4, <2>4
    <3>2. ~IsBlank(q, s)
      BY <2>4, <3>1 DEF IsBlank
    <3>3. q.by = NULL /\ IsInjective(q.options)
      BY <2>2, <2>4 DEF QuestionValid
    <3>4. ValidAnswer(q, s)
      BY <2>4, <3>1, <3>3 DEF ValidAnswer, EffectiveOptions
    <3> QED
      BY <2>1, <2>4, <3>1, <3>2, <3>4 DEF AcceptsQuestion
  <2>5. CASE q.id \notin DOMAIN a /\ q \notin untouched
    <3>1. q.id \notin DOMAIN s
      BY <1>6, <2>5, OneQuestion
    <3>2. IsVisible(q, a) => q.type # "ranking"
      BY <2>5
    <3>3. IsBlank(q, a)
      BY <2>5 DEF IsBlank
    <3>4. IsVisible(q, a) => ~q.required
      BY <2>2, <3>2, <3>3, BlankIs
    <3> QED
      BY <2>1, <3>1, <3>4 DEF AcceptsQuestion
  <2> QED
    BY <2>3, <2>4, <2>5
<1> QED
  BY <1>1, <1>8, <1>9 DEF ValidUpToLimits, Known, IdsOf, s

\* In a survey with phases every question is required.
RequiredInPhases ==
    \A S \in Questionnaires : \A p \in DOMAIN S \ {0} : \A q \in QuestionsIn(S[p]) : q.required

\* The form shows a section of the survey, its answers fit, and all questions
\* before that section are complete.
Filled(f) ==
    /\ f.phase \in DOMAIN survey /\ f.section \in DOMAIN survey[f.phase]
    /\ AnswersOK(survey[f.phase], f.answers)
    /\ PassedUpto(survey[f.phase], f.section, f.answers)

\* What is under way is valid up to limits; the second phase is of a survey that has phases.
AgreeInv ==
    /\ survey \in Questionnaires
    /\ page = "form" => Filled(form)
    /\ wire # NULL => ValidUpToLimits(wire.phase, wire.answers) /\ wire.phase \in DOMAIN survey
    /\ \A call \in late : call.req.phase \in DOMAIN survey
    /\ \A w \in Accounts : server.records[w].at = "phase1" => 1 \in DOMAIN survey

LEMMA PhasesAre ==
    ASSUME survey \in Questionnaires
    PROVE  /\ DOMAIN survey \in {{0}, {1, 2}}
           /\ \A p \in DOMAIN survey : PhaseValid(survey[p])
  BY RespondentAssumption

\* A form that was not opened yet holds nothing.
THEOREM InitAgreeInv == RespondentInit => AgreeInv
  BY DEF RespondentInit, AgreeInv, NoRecord

\* A form just opened has nothing to disagree about.
LEMMA OpenedKeeps ==
    ASSUME FormInv, AgreeInv, NEW shown, LoadPage(shown) PROVE AgreeInv'
<1>1. survey' = survey /\ wire = NULL /\ wire' = NULL /\ late' = late /\ server' = server
  BY DEF LoadPage, Submitting
<1>2. ASSUME page' = "form" PROVE Filled(form)'
  <2>1. shown \in {"single", "phase1", "phase2"}
    <3>1. session # NULL => server.records[session].at \in RecordStates
      BY DEF FormInv, ServerInv
    <3>2. shown # "form"
      BY <3>1 DEF LoadPage, PageShown, CollectionState, RecordStates
    <3> QED
      BY <1>2, <3>2 DEF LoadPage
  <2>2. session # NULL /\ session \in Accounts /\ shown = CollectionState(server.records[session])
    BY <2>1 DEF LoadPage, PageShown, FormInv, ServerInv
  <2>3. server.records[session].at \in RecordStates
    BY <2>2 DEF FormInv, ServerInv
  <2>4. PICK p \in {0, 1, 2} : /\ form' = Mounted(p, server.notice)
                               /\ shown = "single" <=> p = 0
                               /\ shown = "phase1" <=> p = 1
                               /\ shown = "phase2" <=> p = 2
    BY <2>1 DEF LoadPage
  <2>5. p \in DOMAIN survey
    <3>1. CASE server.records[session].at = "none"
      BY <2>2, <2>4, <3>1, PhasesAre DEF CollectionState, AgreeInv
    <3>2. CASE server.records[session].at = "phase1"
      BY <2>2, <2>4, <3>2, PhasesAre DEF CollectionState, AgreeInv
    <3>3. CASE server.records[session].at \in {"completed", "withdrawn"}
      BY <2>1, <2>2, <3>3 DEF CollectionState
    <3> QED
      BY <2>3, <3>1, <3>2, <3>3 DEF RecordStates
  <2>6. PhaseValid(survey[p])
    BY <2>5, PhasesAre DEF AgreeInv
  <2>7. DOMAIN survey[p] = 1..Len(survey[p]) /\ 1 \in DOMAIN survey[p]
    BY <2>6, SectionsAre
  <2>8. form'.phase = p /\ form'.section = 1 /\ form'.answers = NoAnswers
    BY <2>4 DEF Mounted
  <2>9. AnswersOK(survey[p], NoAnswers)
    BY DEF AnswersOK, NoAnswers
  <2>10. PassedUpto(survey[p], 1, NoAnswers)
    BY <2>7 DEF PassedUpto, Before
  <2> QED
    BY <1>1, <2>5, <2>7, <2>8, <2>9, <2>10 DEF Filled
<1> QED
  BY <1>1, <1>2 DEF AgreeInv

\* The order of a ranking stays a permutation of its options.
LEMMA SwapFits ==
    ASSUME NEW q, QuestionValid(q), q.type = "ranking", NEW order, Fitting(q, order),
           NEW i \in DOMAIN q.options, i + 1 \in DOMAIN order
    PROVE  Fitting(q, [order EXCEPT ![i] = order[i + 1], ![i + 1] = order[i]])
<1> DEFINE j == i + 1
           new == [order EXCEPT ![i] = order[j], ![j] = order[i]]
<1>1. /\ order \in [DOMAIN q.options -> ToSet(q.options)] /\ IsInjective(order)
      /\ ToSet(order) = ToSet(q.options) /\ i \in DOMAIN order /\ j \in DOMAIN order
  BY DEF Fitting
<1>2. i # j
  <2>1. i \in Nat
    <3>1. q.options \in Seq(ToSet(q.options))
      BY DEF QuestionValid
    <3>2. DOMAIN q.options = 1..Len(q.options) /\ Len(q.options) \in Nat
      BY <3>1
    <3> QED
      BY <3>2
  <2> QED
    BY <2>1
<1> HIDE DEF j
<1>3. new \in [DOMAIN q.options -> ToSet(q.options)] /\ DOMAIN new = DOMAIN order
  BY <1>1
<1>4. new[i] = order[j] /\ new[j] = order[i] /\ \A k \in DOMAIN order \ {i, j} : new[k] = order[k]
  BY <1>1, <1>2
<1> HIDE DEF new
<1>5. IsInjective(new)
  BY <1>1, <1>2, <1>3, <1>4 DEF IsInjective
<1>6. ToSet(new) = ToSet(order)
  <2>1. \A k \in DOMAIN order : order[k] \in ToSet(order)
    BY DEF ToSet
  <2>2. \A k \in DOMAIN order : new[k] \in ToSet(order)
    BY <1>1, <1>4, <2>1
  <2>3. \A k \in DOMAIN order : new[k] \in ToSet(new)
    BY <1>3 DEF ToSet
  <2>4. \A k \in DOMAIN order : order[k] \in ToSet(new)
    BY <1>1, <1>4, <2>3
  <2>5. ToSet(new) \subseteq ToSet(order)
    BY <1>3, <2>2 DEF ToSet
  <2>6. ToSet(order) \subseteq ToSet(new)
    BY <2>4 DEF ToSet
  <2> QED
    BY <2>5, <2>6
<1> QED
  BY <1>1, <1>3, <1>5, <1>6 DEF Fitting, new, j

\* Every control gives its question a fitting value.
LEMMA ControlsFit ==
    ASSUME AgreeInv, Answer
    PROVE  \E q \in ToSet(Section) : \E v : Fitting(q, v) /\ SetAnswer(q, v)
<1> DEFINE S == survey[form.phase]
<1>1. PhaseValid(S) /\ AnswersOK(S, form.answers) /\ form.section \in DOMAIN S /\ S[form.section] = Section
  BY PhasesAre DEF Answer, AgreeInv, Filled, Section
<1>2. \A q \in ToSet(Section) : q \in QuestionsIn(S)
  BY <1>1 DEF QuestionsIn
<1>3. ASSUME NEW q \in ToSet(Section), q.id \in DOMAIN form.answers
      PROVE  Fitting(q, form.answers[q.id])
  BY <1>1, <1>2, <1>3 DEF AnswersOK
<1>4. ASSUME NEW q \in OnScreen("single_choice"), NEW o \in ToSet(q.options), Choose(q, o)
      PROVE  q \in ToSet(Section) /\ Fitting(q, o) /\ SetAnswer(q, o)
  BY <1>4 DEF OnScreen, Choose, Fitting
<1>5. ASSUME NEW q \in OnScreen("multiple_choice"), NEW o \in ToSet(q.options), ToggleMultiple(q, o)
      PROVE  \E v : q \in ToSet(Section) /\ Fitting(q, v) /\ SetAnswer(q, v)
  <2>1. Current(q, {}) \subseteq ToSet(q.options) /\ q.type = "multiple_choice"
    BY <1>3 DEF OnScreen, Current, Fitting
  <2> QED
    BY <1>5, <2>1 DEF OnScreen, ToggleMultiple, Fitting
<1>6. ASSUME NEW q \in OnScreen("typed"), NEW t \in Typed, Type(q, t)
      PROVE  q \in ToSet(Section) /\ Fitting(q, t) /\ SetAnswer(q, t)
  BY <1>6 DEF OnScreen, Type, Fitting
<1>7. ASSUME NEW q \in OnScreen("scale"), NEW n \in DOMAIN q.options, Rate(q, n)
      PROVE  q \in ToSet(Section) /\ Fitting(q, n) /\ SetAnswer(q, n)
  BY <1>7 DEF OnScreen, Rate, Fitting
<1>8. ASSUME NEW q \in OnScreen("ranking"), NEW i \in DOMAIN q.options, MoveRank(q, i)
      PROVE  \E v : q \in ToSet(Section) /\ Fitting(q, v) /\ SetAnswer(q, v)
  <2>1. q \in ToSet(Section) /\ q.type = "ranking"
    BY DEF OnScreen
  <2>2. QuestionValid(q)
    BY <1>1, <1>2, <2>1 DEF PhaseValid, QuestionsIn
  <2>3. Fitting(q, q.options)
    BY <2>1, <2>2 DEF Fitting, QuestionValid
  <2>4. Fitting(q, Current(q, q.options))
    BY <1>3, <2>1, <2>3 DEF Current
  <2>5. SetAnswer(q, [Current(q, q.options) EXCEPT ![i] = Current(q, q.options)[i + 1],
                                                   ![i + 1] = Current(q, q.options)[i]])
           /\ i + 1 \in DOMAIN Current(q, q.options)
    BY <1>8 DEF MoveRank
  <2> QED
    BY <2>1, <2>2, <2>4, <2>5, SwapFits
<1>9. ASSUME NEW q \in OnScreen("matrix"), NEW row, NEW col, TickCell(q, row, col)
      PROVE  \E v : q \in ToSet(Section) /\ Fitting(q, v) /\ SetAnswer(q, v)
  BY <1>9 DEF OnScreen, TickCell, Fitting
<1>10. ASSUME NEW q \in OnScreen("boolean"), NEW yes \in BOOLEAN, Decide(q, yes)
       PROVE  q \in ToSet(Section) /\ Fitting(q, yes) /\ SetAnswer(q, yes)
  BY <1>10 DEF OnScreen, Decide, Fitting
<1> QED
  BY <1>4, <1>5, <1>6, <1>7, <1>8, <1>9, <1>10 DEF Answer

LEMMA AnswerAgrees == ASSUME FormInv, AgreeInv, Answer PROVE AgreeInv'
<1> DEFINE S == survey[form.phase]
<1>0. PICK q \in ToSet(Section) : \E v : Fitting(q, v) /\ SetAnswer(q, v)
  BY ControlsFit
<1>1. PICK v : Fitting(q, v) /\ SetAnswer(q, v)
  BY <1>0
<1>2. /\ PhaseValid(S) /\ AnswersOK(S, form.answers) /\ PassedUpto(S, form.section, form.answers)
      /\ form.section \in DOMAIN S /\ q \in ToSet(S[form.section]) /\ form.phase \in DOMAIN survey
  BY PhasesAre DEF Answer, AgreeInv, Filled, Section
<1>3. /\ form'.answers = PruneConditionalAnswers(FlattenSeq(S),
             [id \in DOMAIN form.answers \cup {q.id} |-> IF id = q.id THEN v ELSE form.answers[id]])
      /\ form'.phase = form.phase /\ form'.section = form.section
  BY <1>1 DEF SetAnswer, Questions, FormInv, KeyInv, Fields
<1>4. AnswersOK(S, form'.answers) /\ PassedUpto(S, form.section, form'.answers)
  <2> HIDE DEF S
  <2> QED
    BY <1>1, <1>2, <1>3, AnsweringKeeps
<1>5. UNCHANGED <<survey, page, wire, late, server>>
  BY <1>1 DEF SetAnswer, Untouched
<1>6. Filled(form)'
  BY <1>2, <1>3, <1>4, <1>5 DEF Filled
<1> QED
  BY <1>5, <1>6 DEF AgreeInv, ValidUpToLimits, Known, Questions

\* Next, with the section complete, and back.
LEMMA MoveAgrees ==
    ASSUME FormInv, AgreeInv, (\E yes \in BOOLEAN : AgreeNotice(yes)) \/ GoNext \/ GoPrev \/ RetryTimer
    PROVE  AgreeInv'
<1> DEFINE S == survey[form.phase]
<1>1. form'.phase = form.phase /\ form'.answers = form.answers
  BY DEF AgreeNotice, GoNext, GoPrev, RetryTimer, FormInv, KeyInv, Fields
<1>2. page = "form" /\ UNCHANGED <<survey, page, wire, late, server>>
  BY DEF AgreeNotice, GoNext, GoPrev, RetryTimer, Untouched
<1>3. /\ PhaseValid(S) /\ AnswersOK(S, form.answers) /\ PassedUpto(S, form.section, form.answers)
      /\ form.section \in DOMAIN S /\ form.phase \in DOMAIN survey
  BY <1>2, PhasesAre DEF AgreeInv, Filled
<1>4. DOMAIN S = 1..Len(S) /\ Len(S) \in Nat
  BY <1>3, SectionsAre
<1>5. form'.section \in DOMAIN S /\ PassedUpto(S, form'.section, form.answers)
  <2>1. CASE form'.section = form.section
    BY <1>3, <2>1
  <2>2. CASE GoNext
    <3>1. form'.section = form.section + 1 /\ form.section # Len(S) /\ ValidateSection
      BY <2>2 DEF GoNext, IsLast, FormInv, KeyInv, Fields
    <3>2. Before(S, form.section + 1) \subseteq Before(S, form.section) \cup ToSet(Section)
      BY <1>3, <1>4 DEF Before, Section
    <3> QED
      BY <1>3, <1>4, <3>1, <3>2 DEF PassedUpto, ValidateSection
  <2>3. CASE GoPrev
    <3>1. form'.section = form.section - 1 /\ form.section > 1
      BY <2>3 DEF GoPrev, FormInv, KeyInv, Fields
    <3>2. Before(S, form.section - 1) \subseteq Before(S, form.section)
      BY <1>3, <1>4 DEF Before
    <3> QED
      BY <1>3, <1>4, <3>1, <3>2 DEF PassedUpto
  <2>4. CASE (\E yes \in BOOLEAN : AgreeNotice(yes)) \/ RetryTimer
    BY <2>1, <2>4 DEF AgreeNotice, RetryTimer, FormInv, KeyInv, Fields
  <2> QED
    BY <2>2, <2>3, <2>4
<1>6. Filled(form)'
  BY <1>1, <1>2, <1>3, <1>5 DEF Filled
<1> QED
  BY <1>2, <1>6 DEF AgreeInv, ValidUpToLimits, Known, Questions

LEMMA SubmitAgrees == ASSUME RequiredInPhases, FormInv, AgreeInv, Submit PROVE AgreeInv'
<1> DEFINE S == survey[form.phase]
<1>1. page = "form" /\ UNCHANGED <<survey, page, late, server>> /\ IsLast /\ ValidateSection
  BY DEF Submit
<1>2. /\ PhaseValid(S) /\ AnswersOK(S, form.answers) /\ PassedUpto(S, form.section, form.answers)
      /\ form.section \in DOMAIN S /\ form.phase \in DOMAIN survey /\ survey \in Questionnaires
  BY <1>1, PhasesAre DEF AgreeInv, Filled
<1>3. DOMAIN S = 1..Len(S) /\ Len(S) \in Nat /\ form.section = Len(S)
  BY <1>1, <1>2, SectionsAre DEF IsLast
<1>4. QuestionsIn(S) \subseteq Before(S, form.section) \cup ToSet(Section)
  BY <1>2, <1>3 DEF QuestionsIn, Before, Section
<1>5. \A q \in QuestionsIn(S) : Complete(q, form.answers)
  BY <1>1, <1>2, <1>4 DEF PassedUpto, ValidateSection
<1>6. form.phase # 0 => \A q \in QuestionsIn(S) : q.required
  BY <1>2 DEF RequiredInPhases
<1>7. ValidUpToLimits(form.phase, SubmittedAnswers)
  <2> HIDE DEF S
  <2> QED
    BY <1>2, <1>5, <1>6, SubmissionIsValid DEF S
<1>8. wire'.phase = form.phase /\ wire'.answers = SubmittedAnswers
  BY DEF Submit
<1>9. form'.phase = form.phase /\ form'.section = form.section /\ form'.answers = form.answers
  BY DEF Submit, FormInv, KeyInv, Fields
<1>10. ValidUpToLimits(wire.phase, wire.answers)'
  BY <1>1, <1>7, <1>8 DEF ValidUpToLimits, Known, Questions
<1>11. Filled(form)'
  BY <1>1, <1>2, <1>9 DEF Filled
<1> QED
  BY <1>1, <1>2, <1>8, <1>10, <1>11 DEF AgreeInv

\* The record of a first phase is of a survey that has one.
LEMMA TakenPhase ==
    ASSUME ServerInv, AgreeInv, NEW req, req.phase \in DOMAIN survey, NEW who \in Accounts, Take(req, who)
    PROVE  \A w \in Accounts : server'.records[w].at = "phase1" => 1 \in DOMAIN survey
<1>1. CASE server' = server
  BY <1>1 DEF AgreeInv
<1>2. CASE server' # server
  <2> DEFINE at == IF req.phase = 1 THEN "phase1" ELSE "completed"
             record == [at |-> at, key |-> req.key, body |-> req]
  <2>1. server' = [server EXCEPT !.records[who] = record]
    BY <1>2 DEF Take
  <2>2. server'.records = [w \in Accounts |-> IF w = who THEN record ELSE server.records[w]]
    BY <2>1 DEF ServerInv
  <2>3. record.at = "phase1" => 1 \in DOMAIN survey
    OBVIOUS
  <2> HIDE DEF record
  <2> QED
    BY <2>2, <2>3 DEF AgreeInv
<1> QED
  BY <1>1, <1>2

\* The submission is heard of, or given up, and the backend may take it.
LEMMA HeardAgrees ==
    ASSUME FormInv, AgreeInv, Submitting, NEW outcome, Hear(outcome),
           late' \subseteq late \cup {[req |-> wire, who |-> session]},
           server' = server \/ (session \in Accounts /\ Take(wire, session))
    PROVE  AgreeInv'
<1>1. /\ form'.phase = form.phase /\ form'.answers = form.answers /\ form'.section = form.section
      /\ survey' = survey /\ wire' = NULL
  BY DEF Hear, FormInv, KeyInv, Fields
<1>2. page' = "form" => page = "form"
  BY DEF FormInv, DoneInv, Submitting
<1>3. wire.phase \in DOMAIN survey
  BY DEF AgreeInv, Submitting
<1>4. \A call \in late' : call.req.phase \in DOMAIN survey
  BY <1>3 DEF AgreeInv
<1>5. \A w \in Accounts : server'.records[w].at = "phase1" => 1 \in DOMAIN survey
  BY <1>3, TakenPhase DEF AgreeInv, FormInv
<1>6. page' = "form" => Filled(form)'
  BY <1>1, <1>2 DEF AgreeInv, Filled
<1> QED
  BY <1>1, <1>4, <1>5, <1>6 DEF AgreeInv

LEMMA ElsewhereAgrees ==
    ASSUME AgreeInv, UNCHANGED <<survey, page, form, wire>>, late' \subseteq late,
           \A w \in Accounts : server'.records[w].at = "phase1" => 1 \in DOMAIN survey
    PROVE  AgreeInv'
  BY DEF AgreeInv, Filled, ValidUpToLimits, Known, Questions

LEMMA ServerChangesAgrees == ASSUME ServerInv, AgreeInv, ServerChanges PROVE AgreeInv'
<1>1. ASSUME NEW w \in Accounts, server'.records[w].at = "phase1" PROVE 1 \in DOMAIN survey
  <2>1. CASE server'.records = server.records
    BY <1>1, <2>1 DEF AgreeInv
  <2>2. CASE server'.records # server.records
    <3> DEFINE record == [NoRecord EXCEPT !.at = "withdrawn"]
    <3>1. PICK who \in Accounts : server' = [server EXCEPT !.records[who] = record]
      BY <2>2 DEF ServerChanges, ServerInv
    <3>2. server'.records = [v \in Accounts |-> IF v = who THEN record ELSE server.records[v]]
      BY <3>1 DEF ServerInv
    <3>3. record.at = "withdrawn"
      BY DEF NoRecord
    <3> HIDE DEF record
    <3> QED
      BY <1>1, <3>2, <3>3 DEF AgreeInv
  <2> QED
    BY <2>1, <2>2
<1> QED
  BY <1>1, ElsewhereAgrees DEF ServerChanges

\* Answering, moving between sections, submitting and whatever happens around
\* the form keep its answers fitting and complete.
THEOREM StepAgreeInv ==
    RequiredInPhases /\ FormInv /\ AgreeInv /\ [RespondentNext]_respondentVars => AgreeInv'
<1> SUFFICES ASSUME RequiredInPhases, FormInv, AgreeInv, [RespondentNext]_respondentVars PROVE AgreeInv'
  OBVIOUS
<1>1. CASE Visit \/ ContinueToPhase2 \/ Reload
  BY <1>1, OpenedKeeps DEF Visit, ContinueToPhase2, Reload
<1>2. CASE Answer \/ (\E yes \in BOOLEAN : AgreeNotice(yes)) \/ GoNext \/ GoPrev \/ RetryTimer
  BY <1>2, AnswerAgrees, MoveAgrees
<1>3. CASE Submit
  BY <1>3, SubmitAgrees
<1>4. CASE AnsweredEarly \/ Answered \/ TimedOut
  <2>1. Submitting /\ \E outcome : Hear(outcome)
    BY <1>4 DEF AnsweredEarly, Answered, TimedOut
  <2>2. late' \subseteq late \cup {[req |-> wire, who |-> session]}
    BY <1>4 DEF AnsweredEarly, Answered, TimedOut
  <2>3. server' = server \/ (session \in Accounts /\ Take(wire, session))
    BY <1>4 DEF AnsweredEarly, Answered, TimedOut, FormInv, ServerInv
  <2> QED
    BY <2>1, <2>2, <2>3, HeardAgrees
<1>5. ASSUME NEW call \in late, LateArrival(call) PROVE AgreeInv'
  <2>1. Take(call.req, call.who) /\ call.who \in Accounts /\ call.req.phase \in DOMAIN survey
    BY <1>5 DEF LateArrival, FormInv, ServerInv, AgreeInv
  <2>2. \A w \in Accounts : server'.records[w].at = "phase1" => 1 \in DOMAIN survey
    BY <2>1, TakenPhase DEF FormInv
  <2> QED
    BY <1>5, <2>2, ElsewhereAgrees DEF LateArrival
<1>6. CASE (\E who \in Accounts : SignIn(who)) \/ SessionEnds
  <2>1. \A w \in Accounts : server'.records[w].at = "phase1" => 1 \in DOMAIN survey
    BY <1>6 DEF SignIn, SessionEnds, AgreeInv
  <2> QED
    BY <1>6, <2>1, ElsewhereAgrees DEF SignIn, SessionEnds
<1>7. CASE ServerChanges
  BY <1>7, ServerChangesAgrees DEF FormInv
<1>8. CASE UNCHANGED respondentVars
  <2>1. \A w \in Accounts : server'.records[w].at = "phase1" => 1 \in DOMAIN survey
    BY <1>8 DEF respondentVars, AgreeInv
  <2> QED
    BY <1>8, <2>1, ElsewhereAgrees DEF respondentVars
<1> QED
  BY <1>1, <1>2, <1>3, <1>4, <1>5, <1>6, <1>7, <1>8 DEF RespondentNext

\* On what is shown, offered and complete the form (survey-conditions.ts and
\* ClientSurveyForm) and the backend (_validate_answers) agree, whatever was
\* answered, changed and revisited before: the backend finds each answer the
\* form lets through valid, except what was typed beyond the limits of its own
\* question.  A survey with phases must have no optional questions: there the
\* backend wants every visible answer, and the form lets an optional one be
\* left out.
THEOREM AcceptedByFormIsValid == RequiredInPhases => (RespondentSpec => []FormAgreesWithServer)
<1> SUFFICES ASSUME RequiredInPhases PROVE RespondentSpec => []FormAgreesWithServer
  OBVIOUS
<1>1. AgreeInv => FormAgreesWithServer
  BY DEF AgreeInv, FormAgreesWithServer
<1>2. FormInv /\ AgreeInv /\ [RespondentNext]_respondentVars => (FormInv /\ AgreeInv)'
  BY StepFormInv, StepAgreeInv
<1> QED
  BY <1>1, <1>2, InitFormInv, InitAgreeInv, PTL DEF RespondentSpec

-----------------------------------------------------------------------------
(* ResponsePanel.  Aggregates on screen are of the survey whose details are *)
(* shown: loads share one request number, and the one load that does not   *)
(* ask what is on screen, an erasure's refresh, runs while runExclusive    *)
(* keeps the details of another survey from being opened.                  *)

Origins == Surveys \X Pages
Panels == [survey : Surveys \cup {NULL}, aggregates : Origins \cup {NULL},
           raw : Origins \cup {NULL}, identities : Origins \cup {NULL},
           loading : SUBSET Kinds, selected : SUBSET Origins,
           action : {NULL, "export", "erase"}]
Calls == [kind : Kinds \cup {"view", "export", "erase", "import", "survey"},
          survey : Surveys, page : Pages, live : BOOLEAN, rest : Seq(Kinds),
          owner : {NULL, "erase", "import"}]
PanelStates == [panel : Panels, requests : SUBSET Calls]

\* A refresh loads the aggregates first, or not at all.
LeavesAggregates(rest) == \A i \in DOMAIN rest : rest[i] # "aggregates"
AggregatesFirst(r) ==
    /\ r.rest # <<>> => LeavesAggregates(Tail(r.rest))
    /\ r.kind \in Kinds => LeavesAggregates(r.rest)

\* What the panel shows, and is going to show, of the survey v on screen.
Shows(p, v) ==
    /\ v # NULL /\ p.panel.aggregates # NULL => p.panel.aggregates[1] = v
    /\ \A r \in p.requests :
        /\ AggregatesFirst(r)
        /\ r.live /\ r.kind = "aggregates" /\ v # NULL => r.survey = v

\* Who holds the exclusive action, and what that means for the survey.
Holds(r) == r.kind = "view" \/ r.owner = "erase"
Exclusive(R, x, v) ==
    /\ \A r \in R : r.kind = "view" => x = "view" /\ r.owner # "erase"
    /\ \A r \in R : r.owner = "erase" => x = "responses" /\ (v # NULL => r.survey = v)
    /\ \A r, q \in R : Holds(r) /\ Holds(q) => r = q

PanelInv ==
    /\ Now \in PanelStates /\ view \in Surveys \cup {NULL}
    /\ Shows(Now, view)
    /\ Exclusive(requests, exclusive, view)

LEMMA KindsApart ==
    {"view", "export", "erase", "import", "survey"} \cap Kinds = {}
  BY DEF Kinds

\* What Outrun leaves.
LEMMA OutrunIs ==
    ASSUME NEW R \in SUBSET Calls
    PROVE  /\ Outrun(R) \in SUBSET Calls
           /\ \A q \in Outrun(R) : ~q.live /\ \E r \in R :
                 q.kind = r.kind /\ q.survey = r.survey /\ q.rest = r.rest /\ q.owner = r.owner
                 /\ q = [r EXCEPT !.live = FALSE]
<1> SUFFICES ASSUME NEW r \in R
             PROVE  LET q == [r EXCEPT !.live = FALSE] IN
                    /\ q \in Calls /\ ~q.live /\ q.kind = r.kind /\ q.survey = r.survey
                    /\ q.rest = r.rest /\ q.owner = r.owner
  BY DEF Outrun
<1> QED
  BY DEF Calls

LEMMA OutrunKeeps ==
    ASSUME NEW R \in SUBSET Calls, NEW x, NEW v
    PROVE  /\ (\A r \in R : AggregatesFirst(r)) => \A q \in Outrun(R) : AggregatesFirst(q)
           /\ Exclusive(R, x, v) => Exclusive(Outrun(R), x, v)
<1>1. ASSUME \A r \in R : AggregatesFirst(r), NEW q \in Outrun(R) PROVE AggregatesFirst(q)
  BY <1>1, OutrunIs DEF AggregatesFirst
<1>2. ASSUME Exclusive(R, x, v) PROVE Exclusive(Outrun(R), x, v)
  <2>1. ASSUME NEW q \in Outrun(R)
        PROVE  /\ q.kind = "view" => x = "view" /\ q.owner # "erase"
               /\ q.owner = "erase" => x = "responses" /\ (v # NULL => q.survey = v)
    <3>1. PICK r \in R : q.kind = r.kind /\ q.survey = r.survey /\ q.owner = r.owner
      BY OutrunIs
    <3> QED
      BY <1>2, <3>1 DEF Exclusive
  <2>2. ASSUME NEW q \in Outrun(R), NEW o \in Outrun(R), Holds(q), Holds(o) PROVE q = o
    <3>1. PICK r \in R : q.kind = r.kind /\ q.owner = r.owner /\ q = [r EXCEPT !.live = FALSE]
      BY OutrunIs
    <3>2. PICK t \in R : o.kind = t.kind /\ o.owner = t.owner /\ o = [t EXCEPT !.live = FALSE]
      BY OutrunIs
    <3>3. r = t
      BY <1>2, <2>2, <3>1, <3>2 DEF Exclusive, Holds
    <3> QED
      BY <3>1, <3>2, <3>3
  <2> QED
    BY <2>1, <2>2 DEF Exclusive
<1> QED
  BY <1>1, <1>2

LEMMA EmptyPanelIs == EmptyPanel \in Panels /\ EmptyPanel.aggregates = NULL
  BY DEF EmptyPanel, Panels

\* The helpers, on a record of the panel and its requests.
LEMMA ClearShows ==
    ASSUME NEW p \in PanelStates, \A r \in p.requests : AggregatesFirst(r), NEW v
    PROVE  ClearResponseState(p) \in PanelStates /\ Shows(ClearResponseState(p), v)
<1> DEFINE c == ClearResponseState(p)
<1>1. c = [panel |-> EmptyPanel, requests |-> Outrun(p.requests)]
  BY DEF ClearResponseState
<1>2. p.requests \in SUBSET Calls
  BY DEF PanelStates
<1>3. \A q \in Outrun(p.requests) : ~q.live /\ AggregatesFirst(q)
  BY <1>2, OutrunIs, OutrunKeeps
<1>4. c.panel = EmptyPanel /\ c.requests = Outrun(p.requests)
  BY <1>1
<1>5. c \in PanelStates
  BY <1>1, <1>2, OutrunIs, EmptyPanelIs DEF PanelStates
<1> HIDE DEF c
<1>6. Shows(c, v)
  BY <1>3, <1>4, EmptyPanelIs DEF Shows
<1> QED
  BY <1>5, <1>6 DEF c

\* A panel with other fields, and the same aggregates.
LEMMA PanelChanges ==
    ASSUME NEW p \in PanelStates, NEW v, Shows(p, v), NEW n \in Panels,
           n.aggregates = p.panel.aggregates
    PROVE  [p EXCEPT !.panel = n] \in PanelStates /\ Shows([p EXCEPT !.panel = n], v)
<1> DEFINE c == [p EXCEPT !.panel = n]
<1>1. c \in PanelStates /\ c.panel = n /\ c.requests = p.requests
  BY DEF PanelStates
<1> HIDE DEF c
<1>2. Shows(c, v)
  BY <1>1 DEF Shows
<1> QED
  BY <1>1, <1>2 DEF c

LEMMA ShowSurveyShows ==
    ASSUME NEW p \in PanelStates, NEW s \in Surveys, NEW v, Shows(p, v)
    PROVE  ShowSurvey(p, s) \in PanelStates /\ Shows(ShowSurvey(p, s), v)
<1> DEFINE c == ClearResponseState(p)
<1>1. c \in PanelStates /\ Shows(c, v)
  BY ClearShows DEF Shows
<1> HIDE DEF c
<1>2. c.panel \in Panels
  BY <1>1 DEF PanelStates
<1> DEFINE n == [c.panel EXCEPT !.survey = s]
<1>3. n \in Panels /\ n.aggregates = c.panel.aggregates
  BY <1>2 DEF Panels
<1>4. [c EXCEPT !.panel.survey = s] = [c EXCEPT !.panel = n]
  BY <1>1 DEF PanelStates
<1> HIDE DEF n
<1>5. [c EXCEPT !.panel.survey = s] \in PanelStates /\ Shows([c EXCEPT !.panel.survey = s], v)
  BY <1>1, <1>3, <1>4, PanelChanges
<1> QED
  BY <1>5 DEF ShowSurvey, c

\* A load of the aggregates is for the survey on screen.
Fit(r, v) ==
    r \in Calls /\ r.kind \in Kinds /\ AggregatesFirst(r)
    /\ (r.kind = "aggregates" /\ v # NULL => r.survey = v)

LEMMA NumberedShows ==
    ASSUME NEW p \in PanelStates, NEW v, Shows(p, v), NEW r, Fit(r, v)
    PROVE  Numbered(p, r) \in PanelStates /\ Shows(Numbered(p, r), v)
<1> DEFINE n == [p.panel EXCEPT !.loading = @ \cup {r.kind}]
           c == [panel |-> n, requests |-> Outrun(p.requests) \cup {r}]
<1>1. p.panel \in Panels /\ p.requests \in SUBSET Calls
  BY DEF PanelStates
<1>2. n \in Panels /\ n.aggregates = p.panel.aggregates
  BY <1>1 DEF Panels, Fit
<1> HIDE DEF n
<1>3. \A q \in Outrun(p.requests) : ~q.live /\ AggregatesFirst(q)
  BY <1>1, OutrunIs, OutrunKeeps DEF Shows
<1>4. c.panel = n /\ c.requests = Outrun(p.requests) \cup {r}
  OBVIOUS
<1>5. c \in PanelStates
  BY <1>1, <1>2, OutrunIs DEF PanelStates, Fit
<1> HIDE DEF c
<1>6. Shows(c, v)
  BY <1>2, <1>3, <1>4 DEF Shows, Fit
<1> QED
  BY <1>5, <1>6 DEF c, n, Numbered

LEMMA LoadShows ==
    ASSUME NEW p \in PanelStates, NEW v, Shows(p, v), NEW r, Fit(r, v)
    PROVE  Load(p, r) \in PanelStates /\ Shows(Load(p, r), v)
<1>1. p.panel \in Panels
  BY DEF PanelStates
<1> DEFINE n == [p.panel EXCEPT !.identities = NULL, !.selected = {}]
<1>2. n \in Panels /\ n.aggregates = p.panel.aggregates
  BY <1>1 DEF Panels
<1>3. [p EXCEPT !.panel.identities = NULL, !.panel.selected = {}] = [p EXCEPT !.panel = n]
  BY <1>1 DEF PanelStates, Panels
<1> HIDE DEF n
<1>4. LoadRaw(p, r) \in PanelStates /\ Shows(LoadRaw(p, r), v)
  BY <1>2, <1>3, PanelChanges, NumberedShows DEF LoadRaw
<1> QED
  BY <1>4, NumberedShows DEF Load

LEMMA LoadRequests ==
    ASSUME NEW p \in PanelStates, NEW r
    PROVE  Load(p, r).requests = Outrun(p.requests) \cup {r}
  BY DEF Load, LoadRaw, Numbered, PanelStates

\* A refresh goes on with the survey on screen, or with other loads.
LEMMA LoadNextShows ==
    ASSUME NEW p \in PanelStates, NEW v, Shows(p, v), NEW r \in Calls, AggregatesFirst(r),
           r.rest # <<>>, r.kind \in Kinds \/ (v # NULL => r.survey = v)
    PROVE  /\ LoadNext(p, r) \in PanelStates /\ Shows(LoadNext(p, r), v)
           /\ \E q \in Calls : /\ LoadNext(p, r).requests = Outrun(p.requests) \cup {q}
                               /\ q.kind \in Kinds /\ q.survey = r.survey /\ q.owner = r.owner
<1> DEFINE q == [r EXCEPT !.kind = Head(r.rest), !.rest = Tail(r.rest), !.live = TRUE]
<1>1. r.rest \in Seq(Kinds) /\ r.rest # <<>>
  BY DEF Calls
<1>2. Head(r.rest) \in Kinds /\ Tail(r.rest) \in Seq(Kinds)
  BY <1>1
<1>3. /\ q \in Calls /\ q.kind = Head(r.rest) /\ q.rest = Tail(r.rest)
      /\ q.survey = r.survey /\ q.owner = r.owner
  BY <1>2 DEF Calls
<1> HIDE DEF q
<1>4. LeavesAggregates(q.rest)
  BY <1>1, <1>3 DEF AggregatesFirst
<1>5. q.rest # <<>> => LeavesAggregates(Tail(q.rest))
  <2>1. q.rest \in Seq(Kinds)
    BY <1>2, <1>3
  <2>2. ASSUME q.rest # <<>>, NEW i \in DOMAIN Tail(q.rest)
        PROVE  Tail(q.rest)[i] = q.rest[i + 1] /\ i + 1 \in DOMAIN q.rest
    BY <2>1, <2>2
  <2> QED
    BY <1>4, <2>2 DEF LeavesAggregates
<1>6. q.kind = "aggregates" /\ v # NULL => r.survey = v
  <2>1. r.kind \in Kinds => Head(r.rest) # "aggregates"
    <3>1. Head(r.rest) = r.rest[1] /\ 1 \in DOMAIN r.rest
      BY <1>1
    <3> QED
      BY <3>1 DEF AggregatesFirst, LeavesAggregates
  <2> QED
    BY <1>3, <2>1
<1>7. Fit(q, v)
  BY <1>2, <1>3, <1>4, <1>5, <1>6 DEF Fit, AggregatesFirst
<1>8. LoadNext(p, r) = Load(p, q)
  BY DEF LoadNext, q
<1> QED
  BY <1>2, <1>3, <1>7, <1>8, LoadShows, LoadRequests

-----------------------------------------------------------------------------
(* The exclusive action.                                                   *)

\* Request r, answered, and those that are left.
Apart(R, r, x, v) ==
    /\ Exclusive(R, x, v)
    /\ Holds(r) => \A q \in R : ~Holds(q)
    /\ r.owner = "erase" => x = "responses" /\ (v # NULL => r.survey = v)
    /\ r.kind = "view" => x = "view"

LEMMA AnsweredApart ==
    ASSUME NEW R, NEW x, NEW v, Exclusive(R, x, v), NEW r \in R
    PROVE  Apart(R \ {r}, r, x, v)
  BY DEF Exclusive, Apart

LEMMA OutrunApart ==
    ASSUME NEW R \in SUBSET Calls, NEW x, NEW v, NEW r, Apart(R, r, x, v)
    PROVE  Apart(Outrun(R), r, x, v)
<1>1. Exclusive(Outrun(R), x, v)
  BY OutrunKeeps DEF Apart
<1>2. ASSUME Holds(r), NEW q \in Outrun(R) PROVE ~Holds(q)
  BY <1>2, OutrunIs DEF Apart, Holds
<1> QED
  BY <1>1, <1>2 DEF Apart

\* The next request of the same handler, and the end of the handler.
LEMMA SucceededExclusive ==
    ASSUME NEW R, NEW x, NEW v, NEW r, Apart(R, r, x, v), NEW q,
           q.kind # "view", q.survey = r.survey, q.owner = r.owner
    PROVE  Exclusive(R \cup {q}, x, v)
<1>1. Holds(q) => Holds(r)
  BY DEF Holds
<1> QED
  BY <1>1 DEF Apart, Exclusive, Holds

LEMMA FinishedExclusive ==
    ASSUME NEW R, NEW x, NEW v, NEW r, Apart(R, r, x, v)
    PROVE  /\ r.kind # "view" => Exclusive(R, IF r.owner = "erase" THEN NULL ELSE x, v)
           /\ Holds(r) => \A w, y : Exclusive(R, y, w)
<1>1. Holds(r) => \A w, y : Exclusive(R, y, w)
  BY DEF Apart, Exclusive, Holds
<1>2. CASE r.owner = "erase"
  BY <1>1, <1>2 DEF Holds
<1>3. CASE r.owner # "erase"
  BY <1>1, <1>3 DEF Apart
<1> QED
  BY <1>1, <1>2, <1>3

LEMMA ReleasedShows ==
    ASSUME NEW p \in PanelStates, NEW v, Shows(p, v), NEW r
    PROVE  /\ Released(p, r) \in PanelStates /\ Shows(Released(p, r), v)
           /\ Released(p, r).requests = p.requests
<1> DEFINE n == [p.panel EXCEPT !.action = NULL]
<1>1. p.panel \in Panels
  BY DEF PanelStates
<1>2. n \in Panels /\ n.aggregates = p.panel.aggregates
  BY <1>1 DEF Panels
<1>3. [p EXCEPT !.panel.action = NULL] = [p EXCEPT !.panel = n]
  BY DEF PanelStates
<1>4. [p EXCEPT !.panel = n].requests = p.requests
  BY DEF PanelStates
<1> HIDE DEF n
<1> QED
  BY <1>2, <1>3, <1>4, PanelChanges DEF Released

\* What becomes of the state of the panel.
LEMMA BecomeKeeps ==
    ASSUME NEW p \in PanelStates, Become(p), view' \in Surveys \cup {NULL}, Shows(p, view'),
           Exclusive(p.requests, exclusive', view')
    PROVE  PanelInv'
<1>1. panel' = p.panel /\ requests' = p.requests
  BY DEF Become
<1>2. [panel |-> p.panel, requests |-> p.requests] = p
  BY DEF PanelStates
<1>3. Now' = p
  BY <1>1, <1>2 DEF Now
<1> QED
  BY <1>1, <1>3 DEF PanelInv, Shows

LEMMA FinishKeeps ==
    ASSUME NEW p \in PanelStates, NEW r, r.kind # "view", Shows(p, view),
           Apart(p.requests, r, exclusive, view), view \in Surveys \cup {NULL}, view' = view,
           Become(p) \/ Become(Released(p, r)), Finish(r)
    PROVE  PanelInv'
<1>1. exclusive' = IF r.owner = "erase" THEN NULL ELSE exclusive
  BY DEF Finish
<1>2. Exclusive(p.requests, exclusive', view')
  BY <1>1, FinishedExclusive
<1> QED
  BY <1>2, BecomeKeeps, ReleasedShows

LEMMA GoOnKeeps ==
    ASSUME NEW p \in PanelStates, NEW r \in Calls, r.kind # "view", AggregatesFirst(r),
           Shows(p, view), r.kind \in Kinds \/ (view # NULL => r.survey = view),
           Apart(p.requests, r, exclusive, view), view \in Surveys \cup {NULL}, view' = view,
           GoOn(p, r)
    PROVE  PanelInv'
<1>1. CASE r.rest = <<>>
  BY <1>1, FinishKeeps DEF GoOn
<1>2. CASE r.rest # <<>>
  <2>1. p.requests \in SUBSET Calls
    BY DEF PanelStates
  <2>2. PICK q \in Calls : /\ LoadNext(p, r).requests = Outrun(p.requests) \cup {q}
                           /\ q.kind \in Kinds /\ q.survey = r.survey /\ q.owner = r.owner
    BY <1>2, LoadNextShows
  <2>3. q.kind # "view"
    BY <2>2, KindsApart
  <2>4. Exclusive(LoadNext(p, r).requests, exclusive, view)
    BY <2>1, <2>2, <2>3, OutrunApart, SucceededExclusive
  <2>5. Become(LoadNext(p, r)) /\ exclusive' = exclusive
    BY <1>2 DEF GoOn
  <2> QED
    BY <1>2, <2>4, <2>5, LoadNextShows, BecomeKeeps
<1> QED
  BY <1>1, <1>2

-----------------------------------------------------------------------------
(* What the reader does.                                                   *)

\* A panel that shows nothing satisfies the invariant.
THEOREM InitPanelInv == PanelInit => PanelInv
<1> SUFFICES ASSUME PanelInit PROVE PanelInv
  OBVIOUS
<1>1. Now.panel = EmptyPanel /\ Now.requests = {} /\ Now \in PanelStates
  BY EmptyPanelIs DEF PanelInit, Now, PanelStates
<1>2. Shows(Now, view) /\ Exclusive(requests, exclusive, view)
  BY <1>1 DEF Shows, Exclusive, PanelInit
<1> QED
  BY <1>1, <1>2 DEF PanelInv, PanelInit

\* Now, taken apart.
LEMMA NowIs ==
    ASSUME PanelInv
    PROVE  /\ Now \in PanelStates /\ Now.panel = panel /\ Now.requests = requests
           /\ panel \in Panels /\ requests \in SUBSET Calls
           /\ \A r \in requests : AggregatesFirst(r)
  BY DEF PanelInv, Now, PanelStates, Shows

LEMMA PanelPages ==
    ASSUME PanelInv PROVE CurrentPage \in Pages
<1>1. panel.raw \in Origins \cup {NULL}
  BY NowIs DEF Panels
<1> QED
  BY <1>1, CanAssumption DEF CurrentPage, Origins

\* A load the reader asks for.
LEMMA AskedLoadKeeps ==
    ASSUME PanelInv, NEW p \in PanelStates, Shows(p, view), NEW kind \in Kinds, NEW n \in Pages,
           NEW sv \in Surveys, kind = "aggregates" => sv = view,
           \/ p.requests = requests
           \/ p.requests = Outrun(requests),
           Become(Load(p, Request(kind, sv, n, <<>>, NULL))), UNCHANGED <<view, exclusive>>
    PROVE  PanelInv'
<1> DEFINE r == Request(kind, sv, n, <<>>, NULL)
<1>1. r \in Calls /\ r.kind = kind /\ r.survey = sv /\ r.rest = <<>> /\ r.owner = NULL
  <2>1. <<>> \in Seq(Kinds)
    OBVIOUS
  <2> QED
    BY <2>1 DEF Request, Calls
<1> HIDE DEF r
<1>2. Fit(r, view)
  BY <1>1 DEF Fit, AggregatesFirst, LeavesAggregates
<1>3. Load(p, r) \in PanelStates /\ Shows(Load(p, r), view)
  BY <1>2, LoadShows
<1>4. Load(p, r).requests = Outrun(p.requests) \cup {r}
  BY LoadRequests
<1>5. Exclusive(Outrun(p.requests), exclusive, view)
  <2>1. requests \in SUBSET Calls /\ p.requests \in SUBSET Calls
    BY NowIs DEF PanelStates
  <2>2. Exclusive(p.requests, exclusive, view)
    BY <2>1, OutrunKeeps DEF PanelInv
  <2> QED
    BY <2>1, <2>2, OutrunKeeps
<1>6. ~Holds(r)
  BY <1>1, KindsApart, CanAssumption DEF Holds
<1>7. Exclusive(Load(p, r).requests, exclusive, view)
  BY <1>4, <1>5, <1>6 DEF Exclusive, Holds
<1>8. Become(Load(p, r))
  BY DEF r
<1> QED
  BY <1>3, <1>7, <1>8, BecomeKeeps DEF PanelInv

LEMMA ShownRequests ==
    ASSUME NEW p \in PanelStates, NEW s
    PROVE  ShowSurvey(p, s).requests \in {p.requests, Outrun(p.requests)}
  BY DEF ShowSurvey, ClearResponseState

LEMMA HandleViewResponsesKeeps == ASSUME PanelInv, HandleViewResponses PROVE PanelInv'
<1> DEFINE shown == ShowSurvey(Now, view)
           wanted == /\ "readAggregates" \in Can
                     /\ shown.panel.aggregates = NULL
                     /\ "aggregates" \notin panel.loading
<1>1. view \in Surveys /\ UNCHANGED <<view, exclusive>>
  BY DEF PanelInv, HandleViewResponses
<1>2. shown \in PanelStates /\ Shows(shown, view)
  BY <1>1, NowIs, ShowSurveyShows DEF PanelInv
<1>3. shown.requests \in {requests, Outrun(requests)}
  BY NowIs, ShownRequests
<1>4. Become(IF wanted THEN Load(shown, Request("aggregates", view, 0, <<>>, NULL)) ELSE shown)
  BY DEF HandleViewResponses
<1> HIDE DEF shown, wanted
<1>5. CASE wanted
  BY <1>1, <1>2, <1>3, <1>4, <1>5, AskedLoadKeeps, CanAssumption DEF Kinds
<1>6. CASE ~wanted
  <2>1. Exclusive(shown.requests, exclusive, view)
    BY <1>3, NowIs, OutrunKeeps DEF PanelInv
  <2> QED
    BY <1>1, <1>2, <1>4, <1>6, <2>1, BecomeKeeps
<1> QED
  BY <1>5, <1>6

LEMMA HandleLoadRawKeeps ==
    ASSUME PanelInv, NEW n \in Pages, HandleLoadRawResponses(n) PROVE PanelInv'
<1> DEFINE shown == ShowSurvey(Now, view)
<1>1. view \in Surveys /\ UNCHANGED <<view, exclusive>>
  BY DEF PanelInv, HandleLoadRawResponses, AtPanel
<1>2. shown \in PanelStates /\ Shows(shown, view)
  BY <1>1, NowIs, ShowSurveyShows DEF PanelInv
<1>3. shown.requests \in {requests, Outrun(requests)}
  BY NowIs, ShownRequests
<1>4. Become(Load(shown, Request("raw", view, n, <<>>, NULL)))
  BY DEF HandleLoadRawResponses
<1> HIDE DEF shown
<1> QED
  BY <1>1, <1>2, <1>3, <1>4, AskedLoadKeeps DEF Kinds

LEMMA HandleLoadIdentityKeeps == ASSUME PanelInv, HandleLoadIdentityResponses PROVE PanelInv'
<1>1. view \in Surveys /\ UNCHANGED <<view, exclusive>>
  BY DEF PanelInv, HandleLoadIdentityResponses, AtPanel
<1>2. Become(Load(Now, Request("identities", view, CurrentPage, <<>>, NULL)))
  BY DEF HandleLoadIdentityResponses
<1>3. Now \in PanelStates /\ Now.requests = requests /\ Shows(Now, view)
  BY NowIs DEF PanelInv
<1>4. PICK n \in Pages : n = CurrentPage
  BY PanelPages
<1> QED
  BY <1>1, <1>2, <1>3, <1>4, AskedLoadKeeps DEF Kinds

\* A click that changes neither the survey nor what is known of it.
LEMMA SameShown ==
    ASSUME PanelInv, panel' \in Panels, panel'.aggregates = panel.aggregates,
           requests' \in SUBSET Calls,
           \A q \in requests' \ requests : AggregatesFirst(q) /\ ~q.live,
           Exclusive(requests', exclusive', view), view' = view
    PROVE  PanelInv'
<1>1. Now' = [panel |-> panel', requests |-> requests']
  BY DEF Now
<1>2. Now' \in PanelStates
  BY <1>1 DEF PanelStates
<1>3. Shows(Now, view) /\ Now.panel = panel /\ Now.requests = requests
  BY NowIs DEF PanelInv
<1>4. Shows(Now, view)'
  BY <1>1, <1>3 DEF Shows
<1> QED
  BY <1>2, <1>4 DEF PanelInv

\* Requests that carry no data to show, as they are sent.
Silent(kind, sv, n, rest, owner) ==
    [Request(kind, sv, n, rest, owner) EXCEPT !.live = FALSE]

LEMMA SilentRequest ==
    ASSUME NEW kind \in {"view", "export", "erase", "import"}, NEW sv \in Surveys,
           NEW n \in Pages, NEW rest \in Seq(Kinds), NEW owner \in {NULL, "erase", "import"},
           rest # <<>> => LeavesAggregates(Tail(rest)),
           NEW r, r = Silent(kind, sv, n, rest, owner)
    PROVE  /\ r \in Calls /\ AggregatesFirst(r) /\ ~r.live
           /\ r.kind = kind /\ r.owner = owner /\ r.survey = sv
<1>1. /\ r \in Calls /\ ~r.live /\ r.kind = kind /\ r.owner = owner /\ r.survey = sv
      /\ r.rest = rest
  BY DEF Request, Calls, Silent
<1>2. AggregatesFirst(r)
  BY <1>1, KindsApart DEF AggregatesFirst
<1> QED
  BY <1>1, <1>2

LEMMA UnownedRequest ==
    ASSUME NEW kind \in {"view", "export"}, NEW sv \in Surveys
    PROVE  \E q \in Calls :
              /\ q = [Request(kind, sv, 0, <<>>, NULL) EXCEPT !.live = FALSE]
              /\ AggregatesFirst(q) /\ ~q.live /\ q.kind = kind /\ q.owner = NULL
<1>1. PICK rest : rest = <<>>
  OBVIOUS
<1>2. PICK owner \in {NULL, "erase", "import"} : owner = NULL
  OBVIOUS
<1>3. PICK n \in Pages : n = 0
  BY CanAssumption
<1>4. PICK q : q = Silent(kind, sv, n, rest, owner)
  OBVIOUS
<1>5. q \in Calls /\ AggregatesFirst(q) /\ ~q.live /\ q.kind = kind /\ q.owner = owner
  <2>1. kind \in {"view", "export", "erase", "import"}
    OBVIOUS
  <2>2. rest \in Seq(Kinds) /\ (rest # <<>> => LeavesAggregates(Tail(rest)))
    BY <1>1
  <2> QED
    BY <1>4, <2>1, <2>2, SilentRequest
<1>6. q = [Request(kind, sv, 0, <<>>, NULL) EXCEPT !.live = FALSE]
  BY <1>1, <1>2, <1>3, <1>4 DEF Silent
<1> QED
  BY <1>2, <1>5, <1>6

OnlyFirst(s) == \A i \in DOMAIN s : s[i] = "aggregates" => i = 1

LEMMA AppendedOnlyFirst ==
    ASSUME NEW s \in Seq(Kinds), NEW t \in Seq(Kinds), OnlyFirst(s), LeavesAggregates(t)
    PROVE  s \o t \in Seq(Kinds) /\ OnlyFirst(s \o t)
<1>1. s \o t \in Seq(Kinds) /\ Len(s \o t) = Len(s) + Len(t)
  OBVIOUS
<1>2. ASSUME NEW i \in DOMAIN (s \o t), (s \o t)[i] = "aggregates" PROVE i = 1
  <2>1. i \in 1 .. (Len(s) + Len(t))
    BY <1>1
  <2>2. CASE i <= Len(s)
    <3>1. (s \o t)[i] = s[i] /\ i \in DOMAIN s
      BY <2>1, <2>2
    <3> QED
      BY <1>2, <3>1 DEF OnlyFirst
  <2>3. CASE i > Len(s)
    <3>1. (s \o t)[i] = t[i - Len(s)] /\ i - Len(s) \in DOMAIN t
      BY <2>1, <2>3
    <3> QED
      BY <1>2, <3>1 DEF LeavesAggregates
  <2> QED
    BY <2>1, <2>2, <2>3
<1> QED
  BY <1>1, <1>2 DEF OnlyFirst

LEMMA ReloadingIs ==
    /\ Reloading \in Seq(Kinds)
    /\ Reloading # <<>> => LeavesAggregates(Tail(Reloading))
<1>1. PICK a : a = IF "readAggregates" \in Can THEN <<"aggregates">> ELSE <<>>
  OBVIOUS
<1>2. PICK b : b = IF panel.raw # NULL /\ "raw" \notin panel.loading /\ "readRaw" \in Can
                   THEN <<"raw">> ELSE <<>>
  OBVIOUS
<1>3. PICK c : c = IF panel.identities # NULL /\ "identities" \notin panel.loading
                       /\ "readIdentity" \in Can
                   THEN <<"identities">> ELSE <<>>
  OBVIOUS
<1>4. a \in Seq(Kinds) /\ OnlyFirst(a)
  <2>1. CASE a = <<"aggregates">>
    BY <2>1 DEF Kinds, OnlyFirst
  <2>2. CASE a = <<>>
    BY <2>2 DEF Kinds, OnlyFirst
  <2> QED
    BY <1>1, <2>1, <2>2
<1>5. b \in Seq(Kinds) /\ LeavesAggregates(b)
  <2>1. CASE b = <<"raw">>
    BY <2>1 DEF Kinds, LeavesAggregates
  <2>2. CASE b = <<>>
    BY <2>2 DEF Kinds, LeavesAggregates
  <2> QED
    BY <1>2, <2>1, <2>2
<1>6. c \in Seq(Kinds) /\ LeavesAggregates(c)
  <2>1. CASE c = <<"identities">>
    BY <2>1 DEF Kinds, LeavesAggregates
  <2>2. CASE c = <<>>
    BY <2>2 DEF Kinds, LeavesAggregates
  <2> QED
    BY <1>3, <2>1, <2>2
<1>7. Reloading = (a \o b) \o c
  BY <1>1, <1>2, <1>3 DEF Reloading
<1>8. Reloading \in Seq(Kinds) /\ OnlyFirst(Reloading)
  BY <1>4, <1>5, <1>6, <1>7, AppendedOnlyFirst
<1>9. ASSUME Reloading # <<>>, NEW i \in DOMAIN Tail(Reloading)
      PROVE  Tail(Reloading)[i] # "aggregates"
  <2>1. Tail(Reloading)[i] = Reloading[i + 1] /\ i + 1 \in DOMAIN Reloading /\ i + 1 # 1
    BY <1>8, <1>9
  <2> QED
    BY <1>8, <2>1 DEF OnlyFirst
<1> QED
  BY <1>8, <1>9 DEF LeavesAggregates

LEMMA HandleOpenViewKeeps ==
    ASSUME PanelInv, NEW sv \in Surveys, HandleOpenView(sv) PROVE PanelInv'
<1>1. PICK q \in Calls :
        /\ q = [Request("view", sv, 0, <<>>, NULL) EXCEPT !.live = FALSE]
        /\ AggregatesFirst(q) /\ ~q.live /\ q.kind = "view" /\ q.owner = NULL
  BY UnownedRequest
<1>2. /\ requests' = requests \cup {q} /\ exclusive = NULL /\ exclusive' = "view"
      /\ UNCHANGED <<view, panel>>
  BY <1>1 DEF HandleOpenView, RunExclusive
<1>3. \A r \in requests : ~Holds(r)
  BY <1>2, CanAssumption DEF PanelInv, Exclusive, Holds
<1>4. Exclusive(requests', exclusive', view)
  BY <1>1, <1>2, <1>3, CanAssumption DEF Exclusive, Holds
<1> QED
  BY <1>1, <1>2, <1>4, NowIs, SameShown

\* The wait for an import is given up with the panel.
Abandoned(R) == {[r EXCEPT !.owner = IF @ = "import" THEN NULL ELSE @] : r \in R}

LEMMA AbandonedIs ==
    ASSUME NEW R \in SUBSET Calls, \A r \in R : AggregatesFirst(r), NEW x, NEW v, Exclusive(R, x, v)
    PROVE  /\ Abandoned(R) \in SUBSET Calls
           /\ \A q \in Abandoned(R) : /\ AggregatesFirst(q)
                                      /\ \E r \in R : q.kind = r.kind /\ q.survey = r.survey /\ q.live = r.live
           /\ Exclusive(Abandoned(R), x, v)
<1> DEFINE A(r) == [r EXCEPT !.owner = IF @ = "import" THEN NULL ELSE @]
<1>1. ASSUME NEW r \in R
      PROVE  /\ A(r) \in Calls /\ A(r).kind = r.kind /\ A(r).survey = r.survey
             /\ A(r).live = r.live /\ A(r).rest = r.rest
             /\ A(r).owner = "erase" <=> r.owner = "erase"
             /\ Holds(A(r)) <=> Holds(r)
  <2>1. r \in Calls
    OBVIOUS
  <2>2. /\ A(r) \in Calls /\ A(r).kind = r.kind /\ A(r).survey = r.survey
        /\ A(r).live = r.live /\ A(r).rest = r.rest
        /\ A(r).owner = IF r.owner = "import" THEN NULL ELSE r.owner
    BY <2>1 DEF Calls
  <2> HIDE DEF A
  <2> QED
    BY <2>2, CanAssumption DEF Holds
<1>2. \A q \in Abandoned(R) : \E r \in R : q = A(r)
  BY DEF Abandoned
<1> HIDE DEF A
<1>3. Abandoned(R) \in SUBSET Calls
  BY <1>1, <1>2
<1>4. ASSUME NEW q \in Abandoned(R)
      PROVE  /\ AggregatesFirst(q)
             /\ \E r \in R : q.kind = r.kind /\ q.survey = r.survey /\ q.live = r.live
             /\ q.kind = "view" => x = "view" /\ q.owner # "erase"
             /\ q.owner = "erase" => x = "responses" /\ (v # NULL => q.survey = v)
  <2>1. PICK r \in R : q = A(r)
    BY <1>2
  <2> QED
    BY <1>1, <2>1 DEF AggregatesFirst, Exclusive
<1>5. ASSUME NEW q \in Abandoned(R), NEW o \in Abandoned(R), Holds(q), Holds(o) PROVE q = o
  <2>1. PICK r \in R, t \in R : q = A(r) /\ o = A(t)
    BY <1>2
  <2> QED
    BY <1>1, <1>5, <2>1 DEF Exclusive
<1> QED
  BY <1>3, <1>4, <1>5 DEF Exclusive

LEMMA HandleCloseModalKeeps == ASSUME PanelInv, HandleCloseModal PROVE PanelInv'
<1> DEFINE R == Outrun(requests)
<1>1. ClearResponseState(Now).panel = EmptyPanel /\ ClearResponseState(Now).requests = R
  BY NowIs DEF ClearResponseState
<1>2. /\ panel' = EmptyPanel /\ requests' = Abandoned(R) /\ view' = NULL
      /\ exclusive' = exclusive
  BY <1>1 DEF HandleCloseModal, Abandoned
<1>3. R \in SUBSET Calls /\ (\A r \in R : AggregatesFirst(r)) /\ Exclusive(R, exclusive, view)
  BY NowIs, OutrunIs, OutrunKeeps DEF PanelInv
<1>4. Exclusive(R, exclusive, NULL)
  BY <1>3 DEF Exclusive
<1> HIDE DEF R
<1>5. /\ requests' \in SUBSET Calls /\ (\A q \in requests' : AggregatesFirst(q))
      /\ Exclusive(requests', exclusive', view')
  BY <1>2, <1>3, <1>4, AbandonedIs
<1>6. Now'.panel = EmptyPanel /\ Now'.requests = requests' /\ Now' \in PanelStates
  BY <1>2, <1>5, EmptyPanelIs DEF Now, PanelStates
<1>7. Shows(Now, view)'
  BY <1>2, <1>5, <1>6 DEF Shows
<1> QED
  BY <1>2, <1>5, <1>6, <1>7 DEF PanelInv

LEMMA ShowQuestionsKeeps == ASSUME PanelInv, ShowQuestions PROVE PanelInv'
<1>1. /\ requests' = Abandoned(requests) /\ UNCHANGED <<view, panel, exclusive>>
  BY DEF ShowQuestions, Abandoned
<1>2. /\ requests' \in SUBSET Calls
      /\ \A q \in requests' : /\ AggregatesFirst(q)
                              /\ \E r \in requests : q.kind = r.kind /\ q.survey = r.survey /\ q.live = r.live
      /\ Exclusive(requests', exclusive', view')
  BY <1>1, NowIs, AbandonedIs DEF PanelInv
<1>3. Now'.panel = panel /\ Now'.requests = requests' /\ Now' \in PanelStates
  BY <1>1, <1>2, NowIs DEF Now, PanelStates
<1>4. Shows(Now, view) /\ Now.panel = panel /\ Now.requests = requests
  BY NowIs DEF PanelInv
<1>5. Shows(Now, view)'
  BY <1>1, <1>2, <1>3, <1>4 DEF Shows
<1> QED
  BY <1>1, <1>2, <1>3, <1>5 DEF PanelInv

LEMMA ToggleSelectionKeeps == ASSUME PanelInv, ToggleSelection PROVE PanelInv'
<1>1. UNCHANGED <<view, exclusive, requests>>
  BY DEF ToggleSelection
<1>2. panel \in Panels /\ panel.raw \in Origins
  BY NowIs DEF ToggleSelection, RowsShown, Panels
<1>3. panel' \in Panels /\ panel'.aggregates = panel.aggregates
  BY <1>2 DEF ToggleSelection, Panels
<1> QED
  BY <1>1, <1>3, NowIs, SameShown DEF PanelInv

LEMMA HandleExportKeeps == ASSUME PanelInv, HandleExportResponses PROVE PanelInv'
<1>1. view \in Surveys
  BY DEF HandleExportResponses, AtPanel, PanelInv
<1>2. PICK q \in Calls :
        /\ q = [Request("export", view, 0, <<>>, NULL) EXCEPT !.live = FALSE]
        /\ AggregatesFirst(q) /\ ~q.live /\ q.kind = "export" /\ q.owner = NULL
  BY <1>1, UnownedRequest
<1>3. /\ requests' = requests \cup {q} /\ panel' = [panel EXCEPT !.action = "export"]
      /\ UNCHANGED <<view, exclusive>>
  BY <1>2 DEF HandleExportResponses
<1>4. panel' \in Panels /\ panel'.aggregates = panel.aggregates
  BY <1>3, NowIs DEF Panels
<1>5. ~Holds(q) /\ q.kind # "view" /\ q.owner # "erase"
  BY <1>2, CanAssumption DEF Holds
<1>6. Exclusive(requests', exclusive', view)
  BY <1>3, <1>5 DEF PanelInv, Exclusive
<1> QED
  BY <1>2, <1>3, <1>4, <1>6, NowIs, SameShown

LEMMA HandleEraseKeeps == ASSUME PanelInv, HandleEraseSelected PROVE PanelInv'
<1>1. view \in Surveys /\ CurrentPage \in Pages
  BY PanelPages DEF HandleEraseSelected, AtPanel, PanelInv
<1>2. PICK n \in Pages, rest \in Seq(Kinds) : n = CurrentPage /\ rest = Reloading
  BY <1>1, ReloadingIs
<1>3. rest # <<>> => LeavesAggregates(Tail(rest))
  BY <1>2, ReloadingIs
<1>4. PICK q : q = Silent("erase", view, n, rest, "erase")
  OBVIOUS
<1>5. q \in Calls /\ AggregatesFirst(q) /\ ~q.live /\ q.kind = "erase" /\ q.owner = "erase" /\ q.survey = view
  BY <1>1, <1>3, <1>4, SilentRequest
<1>6. /\ requests' = requests \cup {q} /\ panel' = [panel EXCEPT !.action = "erase"]
      /\ exclusive = NULL /\ exclusive' = "responses" /\ view' = view
  BY <1>2, <1>4 DEF HandleEraseSelected, RunExclusive, Silent
<1>7. panel' \in Panels /\ panel'.aggregates = panel.aggregates
  BY <1>6, NowIs DEF Panels
<1>8. \A r \in requests : ~Holds(r)
  BY <1>6, CanAssumption DEF PanelInv, Exclusive, Holds
<1>9. Exclusive(requests', exclusive', view)
  BY <1>5, <1>6, <1>8 DEF Exclusive, Holds
<1> QED
  BY <1>5, <1>6, <1>7, <1>9, NowIs, SameShown

LEMMA OpenImportKeeps == ASSUME PanelInv, OpenImport PROVE PanelInv'
<1>1. view \in Surveys /\ CurrentPage \in Pages
  BY PanelPages DEF OpenImport, AtPanel, PanelInv
<1>2. PICK n \in Pages, rest \in Seq(Kinds) : n = CurrentPage /\ rest = Reloading
  BY <1>1, ReloadingIs
<1>3. rest # <<>> => LeavesAggregates(Tail(rest))
  BY <1>2, ReloadingIs
<1>4. PICK q : q = Silent("import", view, n, rest, "import")
  OBVIOUS
<1>5. q \in Calls /\ AggregatesFirst(q) /\ ~q.live /\ q.kind = "import" /\ q.owner = "import"
  BY <1>1, <1>3, <1>4, SilentRequest
<1>6. requests' = requests \cup {q} /\ UNCHANGED <<view, panel, exclusive>>
  BY <1>2, <1>4 DEF OpenImport, Silent
<1>7. Exclusive(requests', exclusive', view)
  BY <1>5, <1>6 DEF PanelInv, Exclusive, Holds
<1> QED
  BY <1>5, <1>6, <1>7, NowIs, SameShown

-----------------------------------------------------------------------------
(* Answers.                                                                *)

\* A request answered, and what is left.
LEMMA DoneIs ==
    ASSUME PanelInv, NEW r \in requests
    PROVE  /\ r \in Calls /\ AggregatesFirst(r)
           /\ Done(r) \in PanelStates /\ Shows(Done(r), view)
           /\ Done(r).panel = panel /\ Done(r).requests = requests \ {r}
           /\ Apart(requests \ {r}, r, exclusive, view)
           /\ r.live /\ r.kind = "aggregates" /\ view # NULL => r.survey = view
<1>1. Done(r).panel = panel /\ Done(r).requests = requests \ {r} /\ Done(r) \in PanelStates
  BY NowIs DEF Done, PanelStates
<1>2. Shows(Now, view) /\ Now.panel = panel /\ Now.requests = requests
  BY NowIs DEF PanelInv
<1>3. Shows(Done(r), view)
  BY <1>1, <1>2 DEF Shows
<1>4. Apart(requests \ {r}, r, exclusive, view)
  BY AnsweredApart DEF PanelInv
<1> QED
  BY <1>1, <1>2, <1>3, <1>4, NowIs DEF Shows

\* The same, of a panel that was emptied.
LEMMA ClearedIs ==
    ASSUME PanelInv, NEW r \in requests, NEW v
    PROVE  /\ ClearResponseState(Done(r)) \in PanelStates /\ Shows(ClearResponseState(Done(r)), v)
           /\ ClearResponseState(Done(r)).requests = Outrun(requests \ {r})
           /\ Apart(Outrun(requests \ {r}), r, exclusive, view)
<1>1. \A q \in Done(r).requests : AggregatesFirst(q)
  BY DoneIs DEF Shows
<1>2. requests \ {r} \in SUBSET Calls
  BY NowIs
<1> QED
  BY <1>1, <1>2, DoneIs, ClearShows, OutrunApart DEF ClearResponseState

LEMMA ViewAnswerKeeps ==
    ASSUME PanelInv, NEW r \in requests, NEW outcome, ViewAnswer(r, outcome) PROVE PanelInv'
<1>1. Holds(r) /\ exclusive' = NULL /\ r.survey \in Surveys
  BY DoneIs DEF ViewAnswer, Holds, Calls
<1>2. CASE outcome = "ok"
  <2>1. PICK v : v = r.survey /\ view' = v
    BY <1>2 DEF ViewAnswer
  <2>2. Shows(ClearResponseState(Done(r)), v)
    BY ClearedIs
  <2>3. Exclusive(Outrun(requests \ {r}), exclusive', v)
    BY <1>1, ClearedIs, FinishedExclusive
  <2> QED
    BY <1>1, <1>2, <2>1, <2>2, <2>3, ClearedIs, BecomeKeeps DEF ViewAnswer
<1>3. CASE outcome # "ok"
  <2>1. Exclusive(requests \ {r}, exclusive', view)
    BY <1>1, DoneIs, FinishedExclusive
  <2> QED
    BY <1>3, <2>1, DoneIs, BecomeKeeps DEF ViewAnswer, PanelInv
<1> QED
  BY <1>2, <1>3

\* What a load leaves of the panel: its data, if it is still wanted.
LEMMA LoadedShows ==
    ASSUME PanelInv, NEW r \in requests, r.kind \in Kinds, Accepted(r)
    PROVE  LET settled == [Done(r) EXCEPT !.panel.loading = @ \ {r.kind}]
               loaded == [settled EXCEPT !.panel[r.kind] = <<r.survey, r.page>>]
           IN  /\ settled \in PanelStates /\ Shows(settled, view) /\ settled.requests = requests \ {r}
               /\ loaded \in PanelStates /\ Shows(loaded, view) /\ loaded.requests = requests \ {r}
<1>1. PICK p : p = Done(r)
  OBVIOUS
<1>2. p \in PanelStates /\ p.panel = panel /\ p.requests = requests \ {r} /\ Shows(p, view)
  BY <1>1, DoneIs
<1>3. PICK n : n = [panel EXCEPT !.loading = @ \ {r.kind}]
  OBVIOUS
<1>4. n \in Panels /\ n.aggregates = panel.aggregates
  BY <1>3, NowIs DEF Panels
<1>5. PICK settled : settled = [p EXCEPT !.panel.loading = @ \ {r.kind}]
  OBVIOUS
<1>6. settled = [p EXCEPT !.panel = n] /\ settled.requests = p.requests /\ settled.panel = n
  BY <1>2, <1>3, <1>5 DEF PanelStates
<1>7. settled \in PanelStates /\ Shows(settled, view)
  BY <1>2, <1>4, <1>6, PanelChanges
<1>8. PICK origin : origin = <<r.survey, r.page>>
  OBVIOUS
<1>9. origin \in Origins /\ origin[1] = r.survey
  BY <1>8, DoneIs DEF Origins, Calls
<1>10. PICK m : m = [n EXCEPT ![r.kind] = origin]
  OBVIOUS
<1>11. m \in Panels /\ m.aggregates = IF r.kind = "aggregates" THEN origin ELSE n.aggregates
  <2>1. CASE r.kind = "aggregates"
    <3>1. m = [n EXCEPT !.aggregates = origin]
      BY <1>10, <2>1
    <3> QED
      BY <1>4, <1>9, <2>1, <3>1 DEF Panels
  <2>2. CASE r.kind = "raw"
    <3>1. m = [n EXCEPT !.raw = origin]
      BY <1>10, <2>2
    <3> QED
      BY <1>4, <1>9, <2>2, <3>1 DEF Panels
  <2>3. CASE r.kind = "identities"
    <3>1. m = [n EXCEPT !.identities = origin]
      BY <1>10, <2>3
    <3> QED
      BY <1>4, <1>9, <2>3, <3>1 DEF Panels
  <2> QED
    BY <2>1, <2>2, <2>3 DEF Kinds
<1>12. PICK loaded : loaded = [settled EXCEPT !.panel[r.kind] = origin]
  OBVIOUS
<1>13. loaded = [settled EXCEPT !.panel = m] /\ loaded.requests = settled.requests /\ loaded.panel = m
  BY <1>6, <1>7, <1>10, <1>12 DEF PanelStates
<1>14. loaded \in PanelStates
  BY <1>7, <1>11, <1>13 DEF PanelStates
<1>15. Shows(loaded, view)
  <2>1. view # NULL /\ r.kind = "aggregates" => r.survey = view
    BY DoneIs DEF Accepted
  <2> QED
    BY <1>6, <1>7, <1>9, <1>11, <1>13, <2>1 DEF Shows
<1> QED
  BY <1>1, <1>2, <1>5, <1>6, <1>7, <1>8, <1>12, <1>13, <1>14, <1>15

LEMMA LoadAnswerKeeps ==
    ASSUME PanelInv, NEW r \in requests, NEW outcome, LoadAnswer(r, outcome) PROVE PanelInv'
<1>1. r.kind \in Kinds /\ r.kind # "view" /\ view' = view /\ view \in Surveys \cup {NULL}
  BY KindsApart DEF LoadAnswer, PanelInv
<1>2. PICK p : /\ GoOn(p, r) /\ p \in PanelStates /\ Shows(p, view)
               /\ Apart(p.requests, r, exclusive, view)
  <2>1. CASE ~Accepted(r)
    BY <2>1, DoneIs DEF LoadAnswer
  <2>2. CASE Accepted(r)
    <3> DEFINE settled == [Done(r) EXCEPT !.panel.loading = @ \ {r.kind}]
               loaded == [settled EXCEPT !.panel[r.kind] = <<r.survey, r.page>>]
    <3>1. /\ settled \in PanelStates /\ Shows(settled, view) /\ settled.requests = requests \ {r}
          /\ loaded \in PanelStates /\ Shows(loaded, view) /\ loaded.requests = requests \ {r}
      BY <1>1, <2>2, LoadedShows
    <3>2. GoOn(loaded, r) \/ GoOn(ClearResponseState(Done(r)), r) \/ GoOn(settled, r)
      BY <2>2 DEF LoadAnswer
    <3>3. CASE GoOn(loaded, r)
      BY <3>1, <3>3, DoneIs
    <3>4. CASE GoOn(ClearResponseState(Done(r)), r)
      BY <3>4, ClearedIs
    <3>5. CASE GoOn(settled, r)
      BY <3>1, <3>5, DoneIs
    <3> QED
      BY <3>2, <3>3, <3>4, <3>5
  <2> QED
    BY <2>1, <2>2
<1> QED
  BY <1>1, <1>2, DoneIs, GoOnKeeps

\* The survey of a refresh is asked for.
LEMMA BeginRefreshKeeps ==
    ASSUME PanelInv, NEW r \in requests, r.kind # "view", BeginRefresh(r), view' = view
    PROVE  PanelInv'
<1>1. /\ r \in Calls /\ AggregatesFirst(r) /\ view \in Surveys \cup {NULL}
      /\ Done(r) \in PanelStates /\ Shows(Done(r), view)
      /\ Done(r).panel = panel /\ Done(r).requests = requests \ {r}
      /\ Apart(requests \ {r}, r, exclusive, view)
  BY DoneIs DEF PanelInv
<1>2. CASE Become(Done(r)) /\ Finish(r)
  BY <1>1, <1>2, FinishKeeps
<1>3. CASE ~(Become(Done(r)) /\ Finish(r))
  <2>1. PICK q : q = [r EXCEPT !.kind = "survey", !.live = TRUE]
    OBVIOUS
  <2>2. /\ q \in Calls /\ q.kind = "survey" /\ q.survey = r.survey /\ q.owner = r.owner
        /\ q.rest = r.rest
    BY <1>1, <2>1 DEF Calls
  <2>3. q.kind \notin Kinds /\ q.kind # "view" /\ AggregatesFirst(q)
    BY <1>1, <2>2, KindsApart DEF AggregatesFirst
  <2>4. PICK p : p = [Done(r) EXCEPT !.requests = @ \cup {q}]
    OBVIOUS
  <2>5. /\ p \in PanelStates /\ p.panel = panel /\ p.requests = (requests \ {r}) \cup {q}
    BY <1>1, <2>2, <2>4 DEF PanelStates
  <2>6. Shows(p, view)
    BY <1>1, <2>3, <2>5 DEF Shows, Kinds
  <2>7. Exclusive(p.requests, exclusive, view)
    BY <1>1, <2>2, <2>3, <2>5, SucceededExclusive
  <2>8. Become(p) /\ exclusive' = exclusive
    BY <1>3, <2>1, <2>4 DEF BeginRefresh
  <2> QED
    BY <1>1, <2>5, <2>6, <2>7, <2>8, BecomeKeeps
<1> QED
  BY <1>2, <1>3

\* A handler that stops here, with the panel as it is or emptied.
LEMMA StopKeeps ==
    ASSUME PanelInv, NEW r \in requests, r.kind # "view", Finish(r), view' = view,
           \/ Become(Done(r)) \/ Become(Released(Done(r), r))
           \/ Become(ClearResponseState(Done(r)))
    PROVE  PanelInv'
<1>1. view \in Surveys \cup {NULL}
  BY DEF PanelInv
<1>2. CASE Become(ClearResponseState(Done(r)))
  BY <1>1, <1>2, ClearedIs, FinishKeeps
<1>3. CASE Become(Done(r)) \/ Become(Released(Done(r), r))
  BY <1>1, <1>3, DoneIs, FinishKeeps
<1> QED
  BY <1>2, <1>3

LEMMA ImportAnswerKeeps ==
    ASSUME PanelInv, NEW r \in requests, NEW outcome, ImportAnswer(r, outcome) PROVE PanelInv'
<1>1. r.kind # "view" /\ view' = view
  BY DEF ImportAnswer
<1>2. BeginRefresh(r) \/ (Become(Done(r)) /\ Finish(r))
  BY DEF ImportAnswer
<1> QED
  BY <1>1, <1>2, BeginRefreshKeeps, StopKeeps

LEMMA EraseAnswerKeeps ==
    ASSUME PanelInv, NEW r \in requests, NEW outcome, EraseAnswer(r, outcome) PROVE PanelInv'
<1>1. r.kind # "view" /\ view' = view
  BY DEF EraseAnswer
<1>2. \/ BeginRefresh(r)
      \/ (Become(ClearResponseState(Done(r))) \/ Become(Released(Done(r), r))) /\ Finish(r)
  BY DEF EraseAnswer
<1> QED
  BY <1>1, <1>2, BeginRefreshKeeps, StopKeeps

LEMMA RefreshAnswerKeeps ==
    ASSUME PanelInv, NEW r \in requests, NEW outcome, RefreshAnswer(r, outcome) PROVE PanelInv'
<1>1. r.kind # "view" /\ view' = view /\ view \in Surveys \cup {NULL}
  BY DEF RefreshAnswer, PanelInv
<1>2. PICK c : c = ClearResponseState(Done(r))
  OBVIOUS
<1>3. PICK emptied : emptied = [c EXCEPT !.panel.survey = r.survey]
  OBVIOUS
<1>4. \/ r.live /\ (r.owner = "erase" \/ view = r.survey) /\ GoOn(emptied, r)
      \/ (Become(ClearResponseState(Done(r))) \/ Become(Released(Done(r), r))) /\ Finish(r)
  BY <1>2, <1>3 DEF RefreshAnswer
<1>5. CASE (r.owner = "erase" \/ view = r.survey) /\ GoOn(emptied, r)
  <2>1. /\ c \in PanelStates /\ Shows(c, view) /\ c.requests = Outrun(requests \ {r})
        /\ Apart(Outrun(requests \ {r}), r, exclusive, view)
    BY <1>2, ClearedIs
  <2>2. PICK n : n = [c.panel EXCEPT !.survey = r.survey]
    OBVIOUS
  <2>3. n \in Panels /\ n.aggregates = c.panel.aggregates
    BY <2>1, <2>2, DoneIs DEF PanelStates, Panels, Calls
  <2>4. emptied = [c EXCEPT !.panel = n] /\ emptied.requests = c.requests
    BY <1>3, <2>1, <2>2 DEF PanelStates
  <2>5. emptied \in PanelStates /\ Shows(emptied, view)
    BY <2>1, <2>3, <2>4, PanelChanges
  <2>6. view # NULL => r.survey = view
    BY <1>5, <2>1 DEF Apart
  <2> QED
    BY <1>1, <1>5, <2>1, <2>4, <2>5, <2>6, DoneIs, GoOnKeeps
<1>6. CASE (Become(ClearResponseState(Done(r))) \/ Become(Released(Done(r), r))) /\ Finish(r)
  BY <1>1, <1>6, StopKeeps
<1> QED
  BY <1>4, <1>5, <1>6

LEMMA ExportAnswerKeeps ==
    ASSUME PanelInv, NEW r \in requests, NEW outcome, ExportAnswer(r, outcome) PROVE PanelInv'
<1>1. r.kind = "export" /\ view' = view /\ exclusive' = exclusive /\ view \in Surveys \cup {NULL}
  BY DEF ExportAnswer, PanelInv
<1>2. PICK p : p = Done(r)
  OBVIOUS
<1>3. /\ p \in PanelStates /\ p.panel = panel /\ p.requests = requests \ {r} /\ Shows(p, view)
      /\ Apart(requests \ {r}, r, exclusive, view)
  BY <1>2, DoneIs
<1>4. PICK n : n = [panel EXCEPT !.action = NULL]
  OBVIOUS
<1>5. n \in Panels /\ n.aggregates = p.panel.aggregates
  BY <1>3, <1>4, NowIs DEF Panels
<1>6. PICK m : m = [p EXCEPT !.panel = n]
  OBVIOUS
<1>7. m.requests = requests \ {r} /\ m = [p EXCEPT !.panel.action = NULL]
  BY <1>3, <1>4, <1>6 DEF PanelStates
<1>8. m \in PanelStates /\ Shows(m, view)
  BY <1>3, <1>5, <1>6, PanelChanges
<1>9. Exclusive(m.requests, exclusive', view')
  BY <1>1, <1>3, <1>7 DEF Apart
<1>10. Become(m)
  BY <1>2, <1>7 DEF ExportAnswer
<1> QED
  BY <1>1, <1>8, <1>9, <1>10, BecomeKeeps

\* Whatever happens, PanelInv stays.
THEOREM StepPanelInv == PanelInv /\ [PanelNext]_panelVars => PanelInv'
<1> SUFFICES ASSUME PanelInv, [PanelNext]_panelVars PROVE PanelInv'
  OBVIOUS
<1>1. CASE \E sv \in Surveys : HandleOpenView(sv)
  BY <1>1, HandleOpenViewKeeps
<1>2. CASE HandleCloseModal \/ HandleViewResponses \/ ShowQuestions
  BY <1>2, HandleCloseModalKeeps, HandleViewResponsesKeeps, ShowQuestionsKeeps
<1>3. CASE (\E n \in Pages : HandleLoadRawResponses(n)) \/ HandleLoadIdentityResponses
  BY <1>3, HandleLoadRawKeeps, HandleLoadIdentityKeeps
<1>4. CASE ToggleSelection \/ HandleExportResponses \/ HandleEraseSelected \/ OpenImport
  BY <1>4, ToggleSelectionKeeps, HandleExportKeeps, HandleEraseKeeps, OpenImportKeeps
<1>5. ASSUME NEW r \in requests, NEW outcome \in Outcomes, RequestAnswered(r, outcome)
      PROVE  PanelInv'
  BY <1>5, ViewAnswerKeeps, LoadAnswerKeeps, ImportAnswerKeeps, EraseAnswerKeeps,
     RefreshAnswerKeeps, ExportAnswerKeeps DEF RequestAnswered
<1>6. CASE UNCHANGED panelVars
  <2>1. UNCHANGED <<view, panel, exclusive, requests>>
    BY <1>6 DEF panelVars
  <2>2. UNCHANGED Now
    BY <2>1 DEF Now
  <2> QED
    BY <2>1, <2>2 DEF PanelInv
<1> QED
  BY <1>1, <1>2, <1>3, <1>4, <1>5, <1>6 DEF PanelNext

\* The aggregates on screen are those of the survey whose details are shown
\* (useSurveyManagement: one request number for all loads, and an erasure's
\* refresh that nothing but runExclusive keeps on its survey).
THEOREM AggregatesFollowView == PanelSpec => []AggregatesOfView
<1>1. PanelInv => AggregatesOfView
  BY NowIs DEF PanelInv, Shows, AggregatesOfView
<1> QED
  BY <1>1, InitPanelInv, StepPanelInv, PTL DEF PanelSpec

-----------------------------------------------------------------------------
(* ImportDialog.  What the import stores is what the last check accepted:  *)
(* the dialog's choices are the checked ones until it marks them dirty, and *)
(* the version sent with them is the structure of that check.              *)

Chosen == [file |-> file, sheet |-> sheet, column |-> column, values |-> values]

\* A check in flight is for the file of the dialog, which waits for it.
CheckInv ==
    importWire.kind = "check" =>
        /\ importWire = [kind |-> "check", at |-> importWire.at,
                         answer |-> importWire.answer, request |-> importWire.request]
        /\ importWire.request = [file |-> file, sheet |-> importWire.request.sheet,
                column |-> importWire.request.column, values |-> importWire.request.values]
        /\ importWire.at = "answered" => importWire.answer.request = importWire.request

\* An import in flight carries the choices and the version of its check.
ImportInv ==
    importWire.kind = "import" =>
        /\ importWire = [kind |-> "import", at |-> importWire.at, version |-> importWire.version,
                         request |-> importWire.request, after |-> importWire.after]
        /\ importWire.after.canImport
        /\ importWire.request = importWire.after.request
        /\ importWire.version = importWire.after.version

DialogInv == preview.shown /\ ~dirty => preview.request = Chosen

CheckedImportInv == CheckInv /\ ImportInv /\ DialogInv /\ ImportsTheCheck

-------------------------------------------------------------------------------
\* The initial states satisfy the invariant.
THEOREM InitCheckedImportInv == ImportInit => CheckedImportInv
  BY DEF ImportInit, CheckedImportInv, CheckInv, ImportInv, DialogInv, ImportsTheCheck,
         Quiet, NoPreview

LEMMA ServerChecksKeeps == ASSUME CheckedImportInv, ServerChecks PROVE CheckedImportInv'
<1> DEFINE request == importWire.request
<1>1. importWire = [kind |-> "check", at |-> importWire.at, answer |-> importWire.answer, request |-> request]
  BY DEF ServerChecks, CheckedImportInv, CheckInv
<1>2. importWire' = [kind |-> "check", at |-> "answered", answer |-> Checked(request), request |-> request]
  <2> DEFINE answer == Checked(request)
  <2>1. importWire' = [importWire EXCEPT !.at = "answered", !.answer = answer]
    BY DEF ServerChecks
  <2> HIDE DEF request, answer
  <2>2. PICK at, was : importWire = [kind |-> "check", at |-> at, answer |-> was, request |-> request]
    BY <1>1
  <2>3. importWire' = [kind |-> "check", at |-> "answered", answer |-> answer, request |-> request]
    BY <2>1, <2>2
  <2> QED
    BY <2>3 DEF answer
<1>3. Checked(request).request = request
  BY DEF Checked
<1>4. UNCHANGED <<dialog, imports>>
  BY DEF ServerChecks
<1>5. request = [file |-> file, sheet |-> request.sheet, column |-> request.column, values |-> request.values]
  BY DEF ServerChecks, CheckedImportInv, CheckInv
<1> HIDE DEF request
<1>6. CheckInv'
  BY <1>2, <1>3, <1>4, <1>5 DEF CheckInv, dialog
<1> QED
  BY <1>2, <1>4, <1>6 DEF CheckedImportInv, ImportInv, DialogInv, Chosen, ImportsTheCheck, dialog

\* An import is stored only against the structure of its version.
LEMMA ServerImportsKeeps == ASSUME CheckedImportInv, ServerImports PROVE CheckedImportInv'
<1> DEFINE request == importWire.request
           after == importWire.after
           version == importWire.version
           kept == [request |-> request, mapped |-> Mapped(request),
                      options |-> structure.options, after |-> after]
<1>1. /\ importWire = [kind |-> "import", at |-> importWire.at, version |-> version,
                       request |-> request, after |-> after]
      /\ after.canImport /\ request = after.request /\ version = after.version
  BY DEF ServerImports, CheckedImportInv, ImportInv
<1>2. PICK at \in {"changed", "failed", "answered"} : importWire' = [importWire EXCEPT !.at = at]
  BY DEF ServerImports
<1>3. UNCHANGED dialog
  BY DEF ServerImports
<1>4. imports' = imports \/ (imports' = imports \cup {kept} /\ version = structure.options)
  BY DEF ServerImports, SameStructure, StructureVersion
<1>5. kept.request = request /\ kept.options = structure.options /\ kept.after = after
  OBVIOUS
<1>6. importWire' = [kind |-> "import", at |-> at, version |-> version, request |-> request, after |-> after]
  <2> HIDE DEF request, after, version
  <2> QED
    BY <1>1, <1>2
<1> HIDE DEF request, after, version, kept
<1>7. ImportInv'
  BY <1>1, <1>6 DEF ImportInv
<1>8. ImportsTheCheck'
  BY <1>1, <1>4, <1>5 DEF CheckedImportInv, ImportsTheCheck
<1> QED
  BY <1>3, <1>6, <1>7, <1>8 DEF CheckedImportInv, CheckInv, DialogInv, Chosen, dialog

\* What the person changes in the dialog while nothing is in flight.
LEMMA DialogKeeps ==
    ASSUME CheckedImportInv,
           \/ OpenImportDialog \/ CloseImport \/ ChooseAnotherFile
           \/ \E f \in Files \cup {NoFile} : ChooseFile(f)
           \/ \E t \in ImportTargets \cup {Ignore} : ChangeColumn(t)
           \/ \E q \in ImportTargets, c \in Options \cup {Blank} : ChangeValue(q, c)
    PROVE  CheckedImportInv'
<1>1. importWire.kind = "none" /\ UNCHANGED <<importWire, imports>>
  BY DEF OpenImportDialog, CloseImport, ChooseAnotherFile, ChooseFile, ChangeColumn, ChangeValue, busy
<1>2. DialogInv'
  BY DEF OpenImportDialog, CloseImport, ChooseAnotherFile, ChooseFile, ChangeColumn, ChangeValue,
         Reset, NoPreview, CheckedImportInv, DialogInv, Chosen
<1> QED
  BY <1>1, <1>2 DEF CheckedImportInv, CheckInv, ImportInv, ImportsTheCheck

LEMMA RunPreviewKeeps ==
    ASSUME CheckedImportInv, NEW s, NEW c, NEW v, RunPreview(s, c, v) PROVE CheckedImportInv'
<1> DEFINE request == [file |-> file, sheet |-> s, column |-> c, values |-> v]
<1>1. importWire' = [kind |-> "check", at |-> "sent", answer |-> NoPreview, request |-> request]
  BY DEF RunPreview
<1>2. UNCHANGED <<dialog, imports>>
  BY DEF RunPreview
<1> QED
  BY <1>1, <1>2 DEF CheckedImportInv, CheckInv, ImportInv, DialogInv, Chosen, ImportsTheCheck, dialog

\* "Import" is offered only for the choices that were checked.
LEMMA ImportKeeps == ASSUME CheckedImportInv, Import PROVE CheckedImportInv'
<1>1. importWire' = [kind |-> "import", at |-> "sent", version |-> preview.version,
                     request |-> Chosen, after |-> preview]
  BY DEF Import, Chosen
<1>2. preview.canImport /\ preview.request = Chosen /\ UNCHANGED <<dialog, imports>>
  BY DEF Import, Ready, CheckedImportInv, DialogInv
<1> QED
  BY <1>1, <1>2 DEF CheckedImportInv, CheckInv, ImportInv, DialogInv, Chosen, ImportsTheCheck, dialog

LEMMA AnswersKeep ==
    ASSUME CheckedImportInv, HearCheck \/ HearImport \/ HearError PROVE CheckedImportInv'
<1>1. importWire' = Quiet /\ UNCHANGED imports
  BY DEF HearCheck, HearImport, HearError
<1>2. CASE HearCheck
  BY <1>1, <1>2 DEF HearCheck, AdoptedColumn, CheckedImportInv, CheckInv, ImportInv, DialogInv,
                    Chosen, ImportsTheCheck, Quiet
<1>3. CASE HearImport \/ HearError
  BY <1>1, <1>3 DEF HearImport, HearError, CheckedImportInv, CheckInv, ImportInv, DialogInv,
                    Chosen, ImportsTheCheck, Quiet
<1> QED
  BY <1>2, <1>3

\* Every step of the dialog, the server and other administrators keeps the invariant.
THEOREM StepCheckedImportInv == CheckedImportInv /\ [ImportNext]_importVars => CheckedImportInv'
<1> SUFFICES ASSUME CheckedImportInv, [ImportNext]_importVars PROVE CheckedImportInv'
  OBVIOUS
<1>1. CASE CheckFile \/ CheckAgain \/ \E s \in UNION {SheetsOf[f] : f \in Files} : ChangeSheet(s)
  BY <1>1, RunPreviewKeeps DEF CheckFile, CheckAgain, ChangeSheet
<1>2. CASE (\E q \in ImportTargets : EditSurvey(q)) \/ UNCHANGED importVars
  <2>1. UNCHANGED <<dialog, importWire, imports>>
    BY <1>2 DEF EditSurvey, importVars
  <2> QED
    BY <2>1 DEF CheckedImportInv, CheckInv, ImportInv, DialogInv, Chosen, ImportsTheCheck, dialog
<1> QED
  BY <1>1, <1>2, ServerChecksKeeps, ServerImportsKeeps, DialogKeeps, ImportKeeps, AnswersKeep
     DEF ImportNext

\* Every import that is stored is the one its check accepted.
THEOREM ImportsAreChecked == ImportSpec => []ImportsTheCheck
<1>1. CheckedImportInv => ImportsTheCheck
  BY DEF CheckedImportInv
<1> QED
  BY <1>1, InitCheckedImportInv, StepCheckedImportInv, PTL DEF ImportSpec

=============================================================================
