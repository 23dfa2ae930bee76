-------------------------- MODULE LoginManagerProofs --------------------------
(***************************************************************************)
(* Proofs about LoginManager, for any number of clients and timers and any *)
(* behaviour of the credential source.                                     *)
(***************************************************************************)
EXTENDS LoginManager, TLAPS

\* The steps that login() may jump to are steps.
LEMMA StepNames ==
    /\ LoginSteps \subseteq Steps
    /\ \A p \in Procs : AfterLogin(p) \in Steps
    /\ {"idle", "ping", "failLoginTemp", "state", "bearer",
        "refreshLogin", "expireLogin", "hung"} \subseteq Steps
  BY DEF LoginSteps, Steps, AfterLogin

\* The initial states have their types.
LEMMA TypeInit == Init => TypeOK
  BY SourcesKnown, StepNames DEF Init, TypeOK, LoginState, LoginSteps, Steps

\* Every step keeps the types.
LEMMA TypeStep == TypeOK /\ [Next]_vars => TypeOK'
<1> USE DEF session, timers
<1>2. ASSUME TypeOK, [Next]_vars PROVE TypeOK'
  <2> USE <1>2, StepNames DEF TypeOK
  <2>1. ASSUME NEW p \in Procs, LoginStep(p) PROVE TypeOK'
    <3> USE DEF Goto
    <3>1. CASE ProvideCredential(p)
      <4>1. source \in {"err", "zero", "key", "pair"}
        BY SourcesKnown
      <4> QED
        BY <3>1, <4>1 DEF ProvideCredential, LoginSteps
    <3>2. CASE StoreToken(p)
      BY <3>2 DEF StoreToken, LoginState, LoginSteps
    <3>3. CASE SetExpiration(p)
      BY <3>3 DEF SetExpiration, LoginSteps
    <3>4. CASE ScheduleRefresh(p)
      BY <3>4 DEF ScheduleRefresh, SetNextLogin
    <3>5. CASE RefuseCredentials(p)
      BY <3>5 DEF RefuseCredentials, LoginState, LoginSteps
    <3>6. CASE ScheduleRetry(p)
      BY <3>6 DEF ScheduleRetry, SetNextLogin
    <3>7. CASE FailLoginTemp(p)
      BY <3>7 DEF FailLoginTemp, LoginState
    <3> QED
      BY <2>1, <3>1, <3>2, <3>3, <3>4, <3>5, <3>6, <3>7 DEF LoginStep
  <2>2. ASSUME NEW p \in Procs, Exchange(p) PROVE TypeOK'
    BY <2>2 DEF Exchange, ExchangeOK, ExchangeRefused, ExchangeFails,
                ExchangeHangs, ExchangeReturns, Goto, LoginSteps
  <2>3. ASSUME NEW c \in Clients, Precheck(c) \/ ClientStep(c) PROVE TypeOK'
    BY <2>3 DEF Precheck, ClientStep, Ping, State, Token, Goto, LoginSteps
  <2>4. ASSUME NEW r \in Runners,
               FireRefreshTimer(r) \/ FireExpireTimer(r) \/ TimerStep(r)
        PROVE  TypeOK'
    BY <2>4 DEF FireRefreshTimer, FireExpireTimer, TimerStep, RefreshLogin,
                ExpireLogin, Goto, LoginSteps, LoginState
  <2>5. CASE SourceChanges
    BY <2>5 DEF SourceChanges
  <2>6. CASE UNCHANGED vars
    BY <2>6 DEF vars
  <2> QED
    BY <2>1, <2>2, <2>3, <2>4, <2>5, <2>6 DEF Next
<1> QED
  BY <1>2

\* Every variable keeps its type, whatever the goroutines do.
THEOREM TypeCorrect == Spec => []TypeOK
  BY TypeInit, TypeStep, PTL DEF Spec

\* A session that reports LoginActive holds a token.
THEOREM TokenWhileActive == Spec => []ActiveHasToken
<1> USE DEF session, timers, ActiveHasToken
<1>1. Init => ActiveHasToken
  BY DEF Init
<1>2. ASSUME ActiveHasToken, [Next]_vars PROVE ActiveHasToken'
  <2> USE <1>2
  <2>1. ASSUME NEW p \in Procs, LoginStep(p) \/ Exchange(p)
        PROVE  ActiveHasToken'
    BY <2>1 DEF LoginStep, Exchange, ProvideCredential, StoreToken,
                SetExpiration, ScheduleRefresh, RefuseCredentials,
                ScheduleRetry, SetNextLogin, FailLoginTemp, ExchangeOK,
                ExchangeRefused, ExchangeFails, ExchangeHangs, ExchangeReturns
  <2>2. ASSUME NEW c \in Clients, Precheck(c) \/ ClientStep(c)
        PROVE  ActiveHasToken'
    BY <2>2 DEF Precheck, ClientStep, Ping, State, Token
  <2>3. ASSUME NEW r \in Runners,
               FireRefreshTimer(r) \/ FireExpireTimer(r) \/ TimerStep(r)
        PROVE  ActiveHasToken'
    BY <2>3 DEF FireRefreshTimer, FireExpireTimer, TimerStep, RefreshLogin,
                ExpireLogin
  <2>4. CASE SourceChanges \/ UNCHANGED vars
    BY <2>4 DEF SourceChanges, vars
  <2> QED
    BY <2>1, <2>2, <2>3, <2>4 DEF Next
<1> QED
  BY <1>1, <1>2, PTL DEF Spec

\* LoginFailed and LoginUnstarted are reported only before the first success.
THEOREM FailedBeforeSuccess == Spec => []FailedNeverSucceeded
<1> USE DEF session, timers, FailedNeverSucceeded
<1>1. Init => FailedNeverSucceeded
  BY DEF Init
<1>2. ASSUME FailedNeverSucceeded, [Next]_vars PROVE FailedNeverSucceeded'
  <2> USE <1>2
  <2>1. ASSUME NEW p \in Procs, LoginStep(p) \/ Exchange(p)
        PROVE  FailedNeverSucceeded'
    BY <2>1 DEF LoginStep, Exchange, ProvideCredential, StoreToken,
                SetExpiration, ScheduleRefresh, RefuseCredentials,
                ScheduleRetry, SetNextLogin, FailLoginTemp, ExchangeOK,
                ExchangeRefused, ExchangeFails, ExchangeHangs, ExchangeReturns
  <2>2. ASSUME NEW c \in Clients, Precheck(c) \/ ClientStep(c)
        PROVE  FailedNeverSucceeded'
    BY <2>2 DEF Precheck, ClientStep, Ping, State, Token
  <2>3. ASSUME NEW r \in Runners,
               FireRefreshTimer(r) \/ FireExpireTimer(r) \/ TimerStep(r)
        PROVE  FailedNeverSucceeded'
    <3>1. CASE FireRefreshTimer(r) \/ FireExpireTimer(r) \/ RefreshLogin(r)
      BY <3>1 DEF FireRefreshTimer, FireExpireTimer, RefreshLogin
    <3>2. CASE ExpireLogin(r)
      BY <3>2 DEF ExpireLogin
    <3> QED
      BY <2>3, <3>1, <3>2 DEF TimerStep
  <2>4. CASE SourceChanges \/ UNCHANGED vars
    BY <2>4 DEF SourceChanges, vars
  <2> QED
    BY <2>1, <2>2, <2>3, <2>4 DEF Next
<1> QED
  BY <1>1, <1>2, PTL DEF Spec

(***************************************************************************)
(* Renewal never dies.  The invariant needs one more fact: the usage check *)
(* of refreshLogin always passes, because lastRefresh is never assigned    *)
(* after newLoginManager.  An exchange that is never answered, http.Client *)
(* having no timeout, is where renewal may end.                            *)
(***************************************************************************)
RenewalInv ==
    /\ TypeOK
    /\ lastUsageAfterRefresh
    /\ RenewalPending

\* What a step must do so that renewal stays pending: leave the goroutines
\* that still have to arm the timer alone, or keep the moved one on its way.
LEMMA StillPending ==
    ASSUME RenewalInv, TypeOK', NEW p \in Procs, NEW step \in Steps,
           Goto(p, step),
           refreshTimer' # "off" \/ step \in RenewalSteps
             \/ /\ refreshTimer' = refreshTimer
                /\ pc[p] \notin RenewalSteps
    PROVE  RenewalPending'
<1>1. pc' = [pc EXCEPT ![p] = step] /\ pc \in [Procs -> Steps]
  BY DEF Goto, RenewalInv, TypeOK
<1>2. CASE refreshTimer' # "off"
  BY <1>2 DEF RenewalPending
<1>3. CASE step \in RenewalSteps
  BY <1>1, <1>3 DEF RenewalPending
<1>4. CASE /\ refreshTimer' = refreshTimer
           /\ pc[p] \notin RenewalSteps
  <2>1. CASE refreshTimer # "off"
    BY <1>4, <2>1 DEF RenewalPending
  <2>2. CASE \E q \in Procs : pc[q] \in RenewalSteps
    <3>1. PICK q \in Procs : pc[q] \in RenewalSteps
      BY <2>2
    <3>2. q # p /\ pc'[q] = pc[q]
      BY <1>1, <1>4, <3>1
    <3> QED
      BY <3>1, <3>2 DEF RenewalPending
  <2> QED
    BY <2>1, <2>2 DEF RenewalInv, RenewalPending
<1> QED
  BY <1>2, <1>3, <1>4

\* Some goroutine or timer always goes on renewing the session, or waits in an
\* exchange that is never answered.
THEOREM RenewalGoesOn == Spec => []RenewalPending
<1> USE DEF RenewalSteps
<1>1. Init => RenewalInv
  <2> SUFFICES ASSUME Init PROVE lastUsageAfterRefresh /\ RenewalPending
    BY TypeInit DEF RenewalInv
  <2>1. Ctor \in Procs /\ pc[Ctor] = "provide"
    BY DEF Init, Procs
  <2> QED
    BY <2>1 DEF Init, RenewalPending, LoginSteps
<1>2. ASSUME RenewalInv, [Next]_vars PROVE RenewalInv'
  <2> USE <1>2 DEF session, timers
  <2>1. TypeOK'
    BY TypeStep DEF RenewalInv
  <2>2. ASSUME NEW p \in Procs, LoginStep(p) PROVE RenewalInv'
    <3> USE <2>2, StepNames
    <3>1. lastUsageAfterRefresh'
      BY DEF LoginStep, RenewalInv, ProvideCredential, StoreToken,
             SetExpiration, ScheduleRefresh, RefuseCredentials, ScheduleRetry,
             SetNextLogin, FailLoginTemp
    <3> SUFFICES RenewalPending'
      BY <2>1, <3>1 DEF RenewalInv
    <3>2. CASE ScheduleRefresh(p) \/ ScheduleRetry(p)
      BY <3>2 DEF ScheduleRefresh, ScheduleRetry, SetNextLogin, RenewalPending
    <3>3. CASE FailLoginTemp(p)
      BY <3>3, <2>1, StillPending DEF FailLoginTemp, LoginSteps
    <3>4. CASE ProvideCredential(p)
      <4>1. \E step \in LoginSteps : Goto(p, step)
        <5>1. source \in {"err", "zero", "key", "pair"}
          BY SourcesKnown DEF RenewalInv, TypeOK
        <5> QED
          BY <3>4, <5>1 DEF ProvideCredential, LoginSteps
      <4> QED
        BY <4>1, <2>1, StillPending
    <3>5. CASE StoreToken(p) \/ SetExpiration(p) \/ RefuseCredentials(p)
      <4>1. \E step \in LoginSteps : Goto(p, step)
        BY <3>5 DEF StoreToken, SetExpiration, RefuseCredentials, LoginSteps
      <4> QED
        BY <4>1, <2>1, StillPending
    <3> QED
      BY <3>2, <3>3, <3>4, <3>5 DEF LoginStep
  <2>3. ASSUME NEW p \in Procs, Exchange(p) PROVE RenewalInv'
    <3>1. \E step \in RenewalSteps : Goto(p, step)
      BY <2>3 DEF Exchange, ExchangeOK, ExchangeRefused, ExchangeFails,
                  ExchangeHangs, ExchangeReturns, LoginSteps
    <3>2. lastUsageAfterRefresh'
      BY <2>3 DEF Exchange, ExchangeOK, ExchangeRefused, ExchangeFails,
                  ExchangeHangs, ExchangeReturns, RenewalInv
    <3>3. RenewalPending'
      BY <2>1, <3>1, StillPending, StepNames
    <3> QED
      BY <2>1, <3>2, <3>3 DEF RenewalInv
  <2>4. ASSUME NEW c \in Clients, Precheck(c) \/ ClientStep(c)
        PROVE  RenewalInv'
    <3>1. c \in Procs /\ pc[c] \notin RenewalSteps
      BY <2>4 DEF Procs, LoginSteps, Precheck, ClientStep, Ping, State, Token
    <3>2. refreshTimer' = refreshTimer /\ \E step \in Steps : Goto(c, step)
      BY <2>4, StepNames DEF Precheck, ClientStep, Ping, State, Token, LoginSteps
    <3>3. lastUsageAfterRefresh'
      BY <2>4 DEF Precheck, ClientStep, Ping, State, Token, RenewalInv
    <3>4. RenewalPending'
      BY <2>1, <3>1, <3>2, StillPending
    <3> QED
      BY <2>1, <3>3, <3>4 DEF RenewalInv
  <2>5. ASSUME NEW r \in Runners,
               FireRefreshTimer(r) \/ FireExpireTimer(r) \/ TimerStep(r)
        PROVE  RenewalInv'
    <3> USE <2>5, StepNames
    <3>1. r \in Procs /\ lastUsageAfterRefresh'
      BY DEF Procs, FireRefreshTimer, FireExpireTimer, TimerStep, RefreshLogin,
             ExpireLogin, RenewalInv
    <3> SUFFICES RenewalPending'
      BY <2>1, <3>1 DEF RenewalInv
    <3>2. CASE FireRefreshTimer(r) \/ RefreshLogin(r)
      <4>1. \E step \in RenewalSteps : Goto(r, step)
        BY <3>2 DEF FireRefreshTimer, RefreshLogin, LoginSteps, RenewalInv
      <4> QED
        BY <2>1, <3>1, <4>1, StillPending
    <3>3. CASE FireExpireTimer(r) \/ ExpireLogin(r)
      <4>1. /\ pc[r] \notin RenewalSteps
            /\ refreshTimer' = refreshTimer
            /\ \E step \in Steps : Goto(r, step)
        BY <3>3 DEF FireExpireTimer, ExpireLogin, LoginSteps
      <4> QED
        BY <2>1, <3>1, <4>1, StillPending
    <3> QED
      BY <2>5, <3>2, <3>3 DEF TimerStep
  <2>6. CASE SourceChanges \/ UNCHANGED vars
    BY <2>1, <2>6 DEF SourceChanges, vars, RenewalInv, RenewalPending
  <2> QED
    BY <2>2, <2>3, <2>4, <2>5, <2>6 DEF Next
<1> QED
  BY <1>1, <1>2, PTL DEF Spec, RenewalInv

\* If the service answers every exchange, some goroutine or timer always goes
\* on renewing the session.
THEOREM RenewalNeverDies ==
    ~MayHang /\ Spec => [](RenewalPending /\ \A p \in Procs : pc[p] # "hung")
<1> DEFINE Answered == \A p \in Procs : pc[p] # "hung"
<1> SUFFICES ASSUME ~MayHang PROVE Spec => [](RenewalPending /\ Answered)
  OBVIOUS
<1>1. Init => Answered
  BY DEF Init
<1>2. ASSUME TypeOK, Answered, [Next]_vars PROVE Answered'
  <2> USE <1>2 DEF Goto, TypeOK
  <2>1. ASSUME NEW p \in Procs, LoginStep(p) PROVE Answered'
    <3>1. AfterLogin(p) # "hung"
      BY DEF AfterLogin
    <3>2. source \in {"err", "zero", "key", "pair"}
      BY SourcesKnown
    <3>3. \E step : Goto(p, step) /\ step # "hung"
      BY <2>1, <3>1, <3>2 DEF LoginStep, ProvideCredential, StoreToken,
         SetExpiration, ScheduleRefresh, RefuseCredentials, ScheduleRetry,
         SetNextLogin, FailLoginTemp
    <3> QED
      BY <3>3
  <2>5. ASSUME NEW p \in Procs, Exchange(p) PROVE Answered'
    BY <2>5 DEF Exchange, ExchangeOK, ExchangeRefused, ExchangeFails,
                ExchangeHangs, ExchangeReturns
  <2>2. ASSUME NEW c \in Clients, Precheck(c) \/ ClientStep(c) PROVE Answered'
    BY <2>2 DEF Precheck, ClientStep, Ping, State, Token
  <2>3. ASSUME NEW r \in Runners,
               FireRefreshTimer(r) \/ FireExpireTimer(r) \/ TimerStep(r)
        PROVE  Answered'
    BY <2>3 DEF FireRefreshTimer, FireExpireTimer, TimerStep, RefreshLogin,
                ExpireLogin
  <2>4. CASE SourceChanges \/ UNCHANGED vars
    BY <2>4 DEF SourceChanges, vars
  <2> QED
    BY <2>1, <2>2, <2>3, <2>4, <2>5 DEF Next
<1> QED
  BY <1>1, <1>2, TypeCorrect, RenewalGoesOn, PTL DEF Spec

(***************************************************************************)
(* No active session outlives its token.  Only the goroutine at one of the *)
(* two steps below owes the session its expiry; it gives that up only by   *)
(* arming the timer or by ending the active session.                       *)
(***************************************************************************)
Expiring == {"setExpiration", "expireLogin"}

\* A step of a goroutine that owes nothing, or that comes to owe the expiry,
\* keeps the property if it leaves the state and the expire timer alone.
LEMMA StillExpiring ==
    ASSUME TypeOK, ActiveWillExpire, NEW p \in Procs, NEW step \in Steps,
           Goto(p, step),
           \/ step \in Expiring
           \/ expireTimer' = "on"
           \/ /\ pc[p] \notin Expiring
              /\ expireTimer' = expireTimer
              /\ curState' = "Active" => curState = "Active"
    PROVE  ActiveWillExpire'
<1> USE DEF Expiring
<1>1. pc' = [pc EXCEPT ![p] = step] /\ pc \in [Procs -> Steps]
  BY DEF Goto, TypeOK
<1>2. CASE step \in Expiring \/ expireTimer' = "on"
  BY <1>1, <1>2 DEF ActiveWillExpire
<1>3. CASE /\ pc[p] \notin Expiring
           /\ expireTimer' = expireTimer
           /\ curState' = "Active" => curState = "Active"
  <2>1. CASE curState = "Active" /\ expireTimer # "on"
    <3>1. PICK q \in Procs : pc[q] \in Expiring
      BY <2>1 DEF ActiveWillExpire
    <3>2. q # p /\ pc'[q] = pc[q]
      BY <1>1, <1>3, <3>1
    <3> QED
      BY <3>1, <3>2 DEF ActiveWillExpire
  <2> QED
    BY <1>3, <2>1 DEF ActiveWillExpire
<1> QED
  BY <1>2, <1>3

\* An active session always has its expiry ahead of it.
THEOREM SessionExpires == Spec => [](TypeOK /\ ActiveWillExpire)
<1>1. Init => ActiveWillExpire
  BY DEF Init, ActiveWillExpire
<1>2. ASSUME TypeOK, ActiveWillExpire, [Next]_vars PROVE ActiveWillExpire'
  <2> USE <1>2, StepNames DEF session, timers
  <2>1. ASSUME NEW p \in Procs, LoginStep(p) PROVE ActiveWillExpire'
    <3>1. CASE SetExpiration(p)
      BY <3>1 DEF SetExpiration, ActiveWillExpire
    <3>2. CASE StoreToken(p)
      <4>1. Goto(p, "setExpiration") /\ "setExpiration" \in Steps \cap Expiring
        BY <3>2 DEF StoreToken, LoginSteps, Expiring
      <4> QED
        BY <4>1, StillExpiring
    <3>3. CASE ProvideCredential(p)
      <4>1. \E step \in Steps : Goto(p, step)
        <5>1. source \in {"err", "zero", "key", "pair"}
          BY SourcesKnown DEF TypeOK
        <5> QED
          BY <3>3, <5>1 DEF ProvideCredential, LoginSteps
      <4>2. /\ pc[p] \notin Expiring
            /\ expireTimer' = expireTimer
            /\ curState' = curState
        BY <3>3 DEF ProvideCredential, Expiring
      <4> QED
        BY <4>1, <4>2, StillExpiring
    <3>4. CASE ScheduleRefresh(p) \/ RefuseCredentials(p) \/ ScheduleRetry(p)
                 \/ FailLoginTemp(p)
      <4>1. \E step \in Steps : Goto(p, step)
        BY <3>4 DEF ScheduleRefresh, RefuseCredentials, ScheduleRetry,
                    SetNextLogin, FailLoginTemp, LoginSteps
      <4>2. /\ pc[p] \notin Expiring
            /\ expireTimer' = expireTimer
            /\ curState' = "Active" => curState = "Active"
        BY <3>4 DEF ScheduleRefresh, RefuseCredentials, ScheduleRetry,
                    SetNextLogin, FailLoginTemp, Expiring
      <4> QED
        BY <4>1, <4>2, StillExpiring
    <3> QED
      BY <2>1, <3>1, <3>2, <3>3, <3>4 DEF LoginStep
  <2>2. ASSUME NEW p \in Procs, Exchange(p) PROVE ActiveWillExpire'
    <3>1. \E step \in Steps : Goto(p, step)
      BY <2>2 DEF Exchange, ExchangeOK, ExchangeRefused, ExchangeFails,
                  ExchangeHangs, ExchangeReturns, LoginSteps
    <3>2. /\ pc[p] \notin Expiring
          /\ expireTimer' = expireTimer
          /\ curState' = curState
      BY <2>2 DEF Exchange, ExchangeOK, ExchangeRefused, ExchangeFails,
                  ExchangeHangs, ExchangeReturns, Expiring
    <3> QED
      BY <3>1, <3>2, StillExpiring
  <2>3. ASSUME NEW c \in Clients, Precheck(c) \/ ClientStep(c)
        PROVE  ActiveWillExpire'
    <3>1. c \in Procs /\ \E step \in Steps : Goto(c, step)
      BY <2>3 DEF Procs, Precheck, ClientStep, Ping, State, Token, LoginSteps
    <3>2. /\ pc[c] \notin Expiring
          /\ expireTimer' = expireTimer
          /\ curState' = curState
      BY <2>3 DEF Precheck, ClientStep, Ping, State, Token, Expiring
    <3> QED
      BY <3>1, <3>2, StillExpiring
  <2>4. ASSUME NEW r \in Runners,
               FireRefreshTimer(r) \/ FireExpireTimer(r) \/ TimerStep(r)
        PROVE  ActiveWillExpire'
    <3>1. r \in Procs /\ \E step \in Steps : Goto(r, step)
      BY <2>4 DEF Procs, FireRefreshTimer, FireExpireTimer, TimerStep,
                  RefreshLogin, ExpireLogin, LoginSteps
    <3>2. CASE FireRefreshTimer(r) \/ RefreshLogin(r)
      <4>1. /\ pc[r] \notin Expiring
            /\ expireTimer' = expireTimer
            /\ curState' = curState
        BY <3>2 DEF FireRefreshTimer, RefreshLogin, Expiring
      <4> QED
        BY <3>1, <4>1, StillExpiring
    <3>3. CASE FireExpireTimer(r)
      BY <3>1, <3>3, StillExpiring DEF FireExpireTimer, Expiring
    <3>4. CASE ExpireLogin(r)
      BY <3>4 DEF ExpireLogin, ActiveWillExpire
    <3> QED
      BY <2>4, <3>2, <3>3, <3>4 DEF TimerStep
  <2>5. CASE SourceChanges \/ UNCHANGED vars
    BY <2>5 DEF SourceChanges, vars, ActiveWillExpire
  <2> QED
    BY <2>1, <2>2, <2>3, <2>4, <2>5 DEF Next
<1> QED
  BY <1>1, <1>2, TypeInit, TypeStep, PTL DEF Spec

===============================================================================
