---------------------------- MODULE LoginManager ----------------------------
(***************************************************************************)
(* The login session of the Bridge API client (internal/bridgeapi/login.go *)
(* and the precheck of client.go).  One loginManager is shared by every    *)
(* client with the same credentials.  login() runs on three kinds of       *)
(* goroutine: the one that constructs the manager, the clients (through    *)
(* Ping), and the ones the runtime starts when a timer of the manager      *)
(* fires.  Each Lock/Unlock section and each remote call of the code is    *)
(* one step here; everything between two of them may interleave.           *)
(*                                                                         *)
(* Time is left out: an armed timer may fire at any later moment.  The     *)
(* length of the retry delay (retryDelay) is left out with it.             *)
(***************************************************************************)
EXTENDS Naturals, FiniteSets

CONSTANTS
    Clients,   \* goroutines that send API requests (reconcile workers)
    Runners,   \* goroutines available to fired timers: a bound
    Ctor,      \* the goroutine that runs newLoginManager
    Sources,   \* the answers of loginSource.ProvideCredential
    MayHang    \* TRUE iff a token exchange may stay unanswered for ever

ASSUME GoroutinesDistinct ==
    /\ Ctor \notin Clients \cup Runners
    /\ Clients \cap Runners = {}

\* "err": the secret cannot be read.  "zero": both fields are blank.
\* "key": the secret starts with cbkey_.  "pair": application id and secret.
ASSUME SourcesKnown ==
    Sources # {} /\ Sources \subseteq {"err", "zero", "key", "pair"}

ASSUME MayHangBoolean == MayHang \in BOOLEAN

VARIABLES
    pc,            \* where each goroutine is
    curState,      \* LoginState
    activeToken,   \* "" or "token"
    refreshTimer,  \* "off", or the function the armed timer will call
    expireTimer,   \* "off" or "on"
    lastUsageAfterRefresh, \* lastUsage.After(lastRefresh)
    source,        \* what ProvideCredential answers now
    \* History, not in the code:
    succeeded,     \* some login has stored a token
    unexpired      \* no expire timer has fired since the last token was stored

vars == <<pc, curState, activeToken, refreshTimer, expireTimer,
          lastUsageAfterRefresh, source, succeeded, unexpired>>

Procs == Clients \cup Runners \cup {Ctor}

LoginState == {"Unstarted", "Failed", "Active", "Inactive", "InvalidCreds"}

\* The steps of login() that come before it re-arms the refresh timer.
LoginSteps == {"provide", "exchange", "store", "setExpiration", "setRefresh",
               "refuse", "retry", "retryFail"}

Steps == LoginSteps \cup
         {"idle", "ping", "failLoginTemp", "state", "bearer",
          "refreshLogin", "expireLogin", "hung"}

Goto(p, step) == pc' = [pc EXCEPT ![p] = step]

\* login() returns to precheck on a client, and ends the goroutine elsewhere.
AfterLogin(p) == IF p \in Clients THEN "state" ELSE "idle"

timers == <<refreshTimer, expireTimer>>
session == <<curState, activeToken, succeeded, unexpired>>

-----------------------------------------------------------------------------
(* The constructor and the clients.                                        *)

\* newLoginManager: lastUsage starts a millisecond after lastRefresh, and
\* login() runs before the manager is handed out.
Init ==
    /\ pc = [p \in Procs |-> IF p = Ctor THEN "provide" ELSE "idle"]
    /\ curState = "Unstarted"
    /\ activeToken = ""
    /\ refreshTimer = "off"
    /\ expireTimer = "off"
    /\ lastUsageAfterRefresh = TRUE
    /\ source \in Sources
    /\ succeeded = FALSE
    /\ unexpired = FALSE

\* A client method starts with precheck, which pings the session.
Precheck(c) ==
    /\ pc[Ctor] = "idle"
    /\ pc[c] = "idle"
    /\ Goto(c, "ping")
    /\ UNCHANGED <<session, timers, lastUsageAfterRefresh, source>>

Ping(c) ==
    /\ pc[c] = "ping"
    /\ Goto(c, IF curState \in {"Failed", "Inactive", "Unstarted"}
               THEN "provide" ELSE "state")
    /\ UNCHANGED <<session, timers, lastUsageAfterRefresh, source>>

\* GetLoginState().toError(): only an active session lets the request go on.
State(c) ==
    /\ pc[c] = "state"
    /\ Goto(c, IF curState = "Active" THEN "bearer" ELSE "idle")
    /\ UNCHANGED <<session, timers, lastUsageAfterRefresh, source>>

\* setBearer: the request leaves with whatever token() returns.
Token(c) ==
    /\ pc[c] = "bearer"
    /\ lastUsageAfterRefresh' = TRUE
    /\ Goto(c, "idle")
    /\ UNCHANGED <<session, timers, source>>

-----------------------------------------------------------------------------
(* login().                                                                *)

\* Mutant: a failed or blank credential returns without scheduling a retry.
ProvideCredentialNoRetry(p) ==
    /\ pc[p] = "provide"
    /\ Goto(p, CASE source \in {"err", "zero"} -> AfterLogin(p)
                 [] source = "key"  -> "store"
                 [] source = "pair" -> "exchange")
    /\ UNCHANGED <<session, timers, lastUsageAfterRefresh, source>>

ProvideCredential(p) ==
    /\ pc[p] = "provide"
    /\ Goto(p, CASE source \in {"err", "zero"} -> "retry"
                 [] source = "key"  -> "store"
                 [] source = "pair" -> "exchange")
    /\ UNCHANGED <<session, timers, lastUsageAfterRefresh, source>>

\* POST /access-tokens, by its outcome: a decoded 200, a 401 or 403, or a
\* transport error, another status or an unreadable body.
ExchangeReturns(p, step) ==
    /\ pc[p] = "exchange"
    /\ Goto(p, step)
    /\ UNCHANGED <<session, timers, lastUsageAfterRefresh, source>>

ExchangeOK(p)      == ExchangeReturns(p, "store")
ExchangeRefused(p) == ExchangeReturns(p, "refuse")
ExchangeFails(p)   == ExchangeReturns(p, "retryFail")

\* http.Client{} has no timeout: the call may never return.
ExchangeHangs(p) == MayHang /\ ExchangeReturns(p, "hung")

StoreToken(p) ==
    /\ pc[p] = "store"
    /\ activeToken' = "token"
    /\ curState' = "Active"
    /\ succeeded' = TRUE
    /\ unexpired' = TRUE
    /\ Goto(p, "setExpiration")
    /\ UNCHANGED <<timers, lastUsageAfterRefresh, source>>

\* Mutant: the old expire timer is stopped and no new one is made.
SetExpirationStopOnly(p) ==
    /\ pc[p] = "setExpiration"
    /\ expireTimer' = "off"
    /\ Goto(p, "setRefresh")
    /\ UNCHANGED <<session, refreshTimer, lastUsageAfterRefresh, source>>

\* Stop does not recall a timer that has fired: its goroutine runs on.
SetExpiration(p) ==
    /\ pc[p] = "setExpiration"
    /\ expireTimer' = "on"
    /\ Goto(p, "setRefresh")
    /\ UNCHANGED <<session, refreshTimer, lastUsageAfterRefresh, source>>

\* Mutant: the arguments are swapped.
SetNextLoginSwapped(p, loginFunc, step) ==
    /\ refreshTimer' = step
    /\ Goto(p, loginFunc)
    /\ UNCHANGED <<session, expireTimer, lastUsageAfterRefresh, source>>

SetNextLogin(p, loginFunc, step) ==
    /\ refreshTimer' = loginFunc
    /\ Goto(p, step)
    /\ UNCHANGED <<session, expireTimer, lastUsageAfterRefresh, source>>

ScheduleRefresh(p) ==
    /\ pc[p] = "setRefresh"
    /\ SetNextLogin(p, "refreshLogin", AfterLogin(p))

RefuseCredentials(p) ==
    /\ pc[p] = "refuse"
    /\ curState' = "InvalidCreds"
    /\ Goto(p, "retry")
    /\ UNCHANGED <<activeToken, succeeded, unexpired, timers,
                   lastUsageAfterRefresh, source>>

ScheduleRetry(p) ==
    \/ pc[p] = "retry" /\ SetNextLogin(p, "login", AfterLogin(p))
    \/ pc[p] = "retryFail" /\ SetNextLogin(p, "login", "failLoginTemp")

\* Mutant: the check for LoginUnstarted is dropped.
FailLoginTempAlways(p) ==
    /\ pc[p] = "failLoginTemp"
    /\ curState' = "Failed"
    /\ Goto(p, AfterLogin(p))
    /\ UNCHANGED <<activeToken, succeeded, unexpired, timers,
                   lastUsageAfterRefresh, source>>

FailLoginTemp(p) ==
    /\ pc[p] = "failLoginTemp"
    /\ curState' = IF curState = "Unstarted" THEN "Failed" ELSE curState
    /\ Goto(p, AfterLogin(p))
    /\ UNCHANGED <<activeToken, succeeded, unexpired, timers,
                   lastUsageAfterRefresh, source>>

-----------------------------------------------------------------------------
(* The timers.                                                             *)

FireRefreshTimer(r) ==
    /\ refreshTimer # "off"
    /\ pc[r] = "idle"
    /\ refreshTimer' = "off"
    /\ Goto(r, IF refreshTimer = "login" THEN "provide" ELSE "refreshLogin")
    /\ UNCHANGED <<session, expireTimer, lastUsageAfterRefresh, source>>

RefreshLogin(r) ==
    /\ pc[r] = "refreshLogin"
    /\ Goto(r, IF lastUsageAfterRefresh THEN "provide" ELSE "idle")
    /\ UNCHANGED <<session, timers, lastUsageAfterRefresh, source>>

FireExpireTimer(r) ==
    /\ expireTimer = "on"
    /\ pc[r] = "idle"
    /\ expireTimer' = "off"
    /\ unexpired' = FALSE
    /\ Goto(r, "expireLogin")
    /\ UNCHANGED <<curState, activeToken, succeeded, refreshTimer,
                   lastUsageAfterRefresh, source>>

\* Mutant: the token is cleared and the state kept.
ExpireLoginTokenOnly(r) ==
    /\ pc[r] = "expireLogin"
    /\ activeToken' = ""
    /\ Goto(r, "idle")
    /\ UNCHANGED <<curState, succeeded, unexpired, timers,
                   lastUsageAfterRefresh, source>>

ExpireLogin(r) ==
    /\ pc[r] = "expireLogin"
    /\ activeToken' = ""
    /\ curState' = IF curState = "Active" THEN "Inactive" ELSE curState
    /\ Goto(r, "idle")
    /\ UNCHANGED <<succeeded, unexpired, timers, lastUsageAfterRefresh, source>>

\* The secret behind the credential provider is created, edited or deleted.
SourceChanges ==
    /\ source' \in Sources \ {source}
    /\ UNCHANGED <<pc, session, timers, lastUsageAfterRefresh>>

-----------------------------------------------------------------------------

\* The steps a goroutine takes by itself, without waiting for the service.
LoginStep(p) ==
    \/ ProvideCredential(p)
    \/ StoreToken(p)
    \/ SetExpiration(p)
    \/ ScheduleRefresh(p)
    \/ RefuseCredentials(p)
    \/ ScheduleRetry(p)
    \/ FailLoginTemp(p)

ClientStep(c) == Ping(c) \/ State(c) \/ Token(c)

TimerStep(r) == RefreshLogin(r) \/ ExpireLogin(r)

Exchange(p) ==
    \/ ExchangeOK(p)
    \/ ExchangeRefused(p)
    \/ ExchangeFails(p)
    \/ ExchangeHangs(p)

Next ==
    \/ \E p \in Procs : LoginStep(p) \/ Exchange(p)
    \/ \E c \in Clients : Precheck(c) \/ ClientStep(c)
    \/ \E r \in Runners : FireRefreshTimer(r) \/ FireExpireTimer(r) \/ TimerStep(r)
    \/ SourceChanges

Spec == Init /\ [][Next]_vars

\* Goroutines run and armed timers fire.  The service answers, and of the
\* exchanges a goroutine keeps trying one eventually succeeds.  Nothing makes
\* a client send requests or the secret change.
Fairness ==
    /\ \A p \in Procs : WF_vars(LoginStep(p)) /\ WF_vars(Exchange(p))
                        /\ SF_vars(ExchangeOK(p))
    /\ \A c \in Clients : WF_vars(ClientStep(c))
    /\ \A r \in Runners : WF_vars(TimerStep(r))
    /\ WF_vars(\E r \in Runners : FireRefreshTimer(r))
    /\ WF_vars(\E r \in Runners : FireExpireTimer(r))

FairSpec == Spec /\ Fairness

-----------------------------------------------------------------------------
(* Properties.                                                             *)

\* Type invariant: the variables of the manager and the steps of its
\* goroutines stay in the ranges the code declares.
TypeOK ==
    /\ pc \in [Procs -> Steps]
    /\ curState \in LoginState
    /\ activeToken \in {"", "token"}
    /\ refreshTimer \in {"off", "login", "refreshLogin"}
    /\ expireTimer \in {"off", "on"}
    /\ lastUsageAfterRefresh \in BOOLEAN
    /\ source \in Sources
    /\ succeeded \in BOOLEAN
    /\ unexpired \in BOOLEAN

\* A session that reports LoginActive, and so lets precheck pass, holds a
\* token, whatever logins and expirations overlap: the store of a token and
\* its expiry each change token and state under one lock.
ActiveHasToken == curState = "Active" => activeToken # ""

\* LoginUnstarted and LoginFailed are only reported before the first
\* successful login (types.go: "a login that has never had a success"), also
\* when a failing login overlaps a successful one; LoginActive and
\* LoginInactive only after it.
FailedNeverSucceeded ==
    /\ curState \in {"Unstarted", "Failed"} => ~succeeded
    /\ curState \in {"Active", "Inactive"} => succeeded

\* A goroutine at one of these steps will arm the refresh timer, or waits for
\* ever in its exchange.
RenewalSteps == LoginSteps \cup {"refreshLogin", "hung"}

\* Renewal never dies unless the service leaves a token exchange unanswered:
\* the refresh timer is armed, or a goroutine is on its way to arm it.  Every
\* return of login() and refreshLogin() must see to it.
RenewalPending ==
    \/ refreshTimer # "off"
    \/ \E p \in Procs : pc[p] \in RenewalSteps

\* No active session outlives its token unnoticed: the expire timer is armed,
\* or its goroutine is about to run, or the login that stored the token is
\* about to arm it.
ActiveWillExpire ==
    curState = "Active" =>
        \/ expireTimer = "on"
        \/ \E p \in Procs : pc[p] \in {"setExpiration", "expireLogin"}

\* LoginInactive means that the token has expired without being renewed
\* (types.go): some expire timer has fired since the last token was stored.
InactiveIsExpired == curState = "Inactive" => ~unexpired

\* Once the credentials stay usable the session is active again and again,
\* with no client request needed: the timers alone log in and renew, if no
\* exchange is left unanswered.
StaysLoggedIn ==
    /\ <>[](source \in {"key", "pair"})
    /\ [](\A p \in Procs : pc[p] # "hung")
    => []<>(curState = "Active")

=============================================================================
