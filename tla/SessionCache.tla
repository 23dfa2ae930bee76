---------------------------- MODULE SessionCache ----------------------------
(***************************************************************************)
(* The cache of login sessions (internal/bridgeapi/cache.go) with those    *)
(* who use it: the client that main.go makes once at start and keeps, and  *)
(* the reconcile workers of the DBaaS controllers, which make a client for *)
(* every object they reconcile.  A session is found by the credential that *)
(* a client reads from its secret; it logs in, then and later, with what   *)
(* its own source holds at that moment.  GetSession runs under one lock,   *)
(* the token exchange of a new session included.                           *)
(*                                                                         *)
(* Of a session LoginManager has the details; here login() is reading the  *)
(* credential and the exchange.  A secret that starts with cbkey_ needs no *)
(* exchange and is the case of one that succeeds at once.                  *)
(***************************************************************************)
EXTENDS Naturals, Sequences

CONSTANTS
    Workers,     \* goroutines that reconcile objects of the DBaaS controllers
    Main,        \* the client that main.go makes
    MainSecret,  \* the secret it reads
    Secrets,     \* the secrets that inventories refer to
    Credentials, \* usable contents of a secret
    MayHold,     \* what each secret may contain
    MaxChanges   \* bound on edits of secrets and restarts of the operator

\* A secret that is not there, and one whose two fields are not filled in.
Missing == "missing"
Blank   == "blank"

ASSUME SecretsDistinct == MainSecret \notin Secrets /\ Main \notin Workers

ASSUME ClientsNamed == "none" \notin Workers \cup {Main}

ASSUME ContentsKnown ==
    /\ Missing \notin Credentials /\ Blank \notin Credentials
    /\ MayHold \in [Secrets \cup {MainSecret} ->
                        SUBSET (Credentials \cup {Missing, Blank})]

ASSUME BoundNat == MaxChanges \in Nat

VARIABLES
    secret,   \* what each secret contains
    store,    \* managerCache.store: credential |-> number of its session, or 0
    session,  \* the sessions made since the start, as a sequence
    lock,     \* who holds the lock of the cache, or "none"
    client,   \* per client: where it is, its secret, the credential read last
              \* until it has been used, and its session
    changes   \* edits and restarts so far

vars == <<secret, store, session, lock, client, changes>>

AllClients == Workers \cup {Main}

\* What a session can be labelled with.
Labels == (UNION {MayHold[s] : s \in Secrets \cup {MainSecret}}) \ {Missing}

\* Failed stands for LoginUnstarted, LoginFailed and LoginInactive, the states
\* that Ping logs in from.
LoginState == {"Failed", "Active", "InvalidCreds"}

\* exchanging: the credential that the goroutine of the refresh timer is
\* exchanging.  label, source and token are as in the code.
NewSession(label, source) ==
    [label |-> label, source |-> source, state |-> "Failed", token |-> "none",
     exchanging |-> "none"]

\* A client of secret s at a step, with the session i or none.
Client(s, step, cred, i) ==
    [pc |-> step, secret |-> s, cred |-> cred, session |-> i]

Idle == Client(MainSecret, "idle", Missing, 0)

Session(c) == session[client[c].session]

\* What ProvideCredential of session i answers now.
SourceCredential(i) == secret[session[i].source]

\* The workers start when main.go has its client, or has gone without.
Started ==
    \/ client[Main].pc = "disabled"
    \/ client[Main].session # 0 /\ lock # Main

-----------------------------------------------------------------------------

Init ==
    /\ secret \in [Secrets \cup {MainSecret} -> Labels \cup {Missing}]
    /\ \A s \in DOMAIN secret : secret[s] \in MayHold[s]
    /\ store = [l \in Labels |-> 0]
    /\ session = <<>>
    /\ lock = "none"
    /\ client = [c \in AllClients |-> Idle]
    /\ changes = 0

-----------------------------------------------------------------------------
(* NewClient and GetSession.                                               *)

\* Mutant: the error is ignored.
ReadCredentialUnchecked(c, s) ==
    client' = [client EXCEPT ![c] = Client(s, "lock", secret[s], 0)]

\* GetSession reads the credential before it takes the lock.  Without one a
\* reconcile fails and comes again; main.go disables its controllers for good.
ReadCredential(c, s) ==
    client' = [client EXCEPT ![c] =
        IF secret[s] # Missing THEN Client(s, "lock", secret[s], 0)
        ELSE IF c = Main THEN Client(s, "disabled", Missing, 0)
        ELSE Idle]

MainNewClient ==
    /\ client[Main].pc = "idle" /\ client[Main].session = 0
    /\ ReadCredential(Main, MainSecret)
    /\ UNCHANGED <<secret, store, session, lock, changes>>

NewClient(w, s) ==
    /\ Started
    /\ client[w].pc = "idle"
    /\ ReadCredential(w, s)
    /\ UNCHANGED <<secret, store, session, lock, changes>>

\* The next step needs no credential.
GotoWith(c, step, i) ==
    client' = [client EXCEPT ![c] = Client(client[c].secret, step, Missing, i)]

Goto(c, step) == GotoWith(c, step, client[c].session)

\* A worker drops its client with the reconcile; main.go's is kept.
EndRequests(c) ==
    IF c = Main THEN Goto(c, "idle") ELSE client' = [client EXCEPT ![c] = Idle]

\* A credential without a session: newLoginManager, then its first login.
AddSession(c) ==
    LET i == Len(session) + 1
    IN  /\ store[client[c].cred] = 0
        /\ session' = Append(session, NewSession(client[c].cred, client[c].secret))
        /\ lock' = c
        /\ GotoWith(c, "provide", i)

\* Mutant: the source that has changed stays.
FindSessionKeep(c) ==
    LET i == store[client[c].cred]
    IN  /\ i # 0
        /\ GotoWith(c, "precheck", i)
        /\ UNCHANGED <<session, lock>>

\* A known credential.  A source that no longer provides it is replaced and
\* the session pinged, which does nothing to an active one.
FindSession(c) ==
    LET i == store[client[c].cred]
        replace == SourceCredential(i) # client[c].cred
        login == replace /\ session[i].state = "Failed"
    IN  /\ i # 0
        /\ session' = IF replace
                      THEN [session EXCEPT ![i].source = client[c].secret]
                      ELSE session
        /\ lock' = IF login THEN c ELSE lock
        /\ GotoWith(c, IF login THEN "provide" ELSE "precheck", i)

\* Mutant: the lookup does not wait for the lock.
LookupUnlocked(c) ==
    /\ client[c].pc = "lock"
    /\ AddSession(c) \/ FindSession(c)
    /\ UNCHANGED <<secret, store, changes>>

Lookup(c) ==
    /\ client[c].pc = "lock"
    /\ lock = "none"
    /\ AddSession(c) \/ FindSession(c)
    /\ UNCHANGED <<secret, store, changes>>

-----------------------------------------------------------------------------
(* login() on the goroutine of a client: under the lock from GetSession,   *)
(* without it from precheck.                                               *)

\* Mutant: an early return of login() leaves the lock behind.
ReturnLocked(c, state) ==
    /\ store' = IF lock = c
                THEN [store EXCEPT ![Session(c).label] = client[c].session]
                ELSE store
    /\ CASE lock = c                       -> Goto(c, "precheck")
         [] lock # c /\ state = "Active" -> Goto(c, "send")
         [] lock # c /\ state # "Active" -> EndRequests(c)
    /\ lock' = IF lock = c /\ state = "Active" THEN "none" ELSE lock

\* Where login() returns to: GetSession stores a new session and unlocks;
\* precheck goes on if the session is active.
Return(c, state) ==
    IF lock = c
    THEN /\ store' = [store EXCEPT ![Session(c).label] = client[c].session]
         /\ lock' = "none"
         /\ Goto(c, "precheck")
    ELSE /\ IF state = "Active" THEN Goto(c, "send") ELSE EndRequests(c)
         /\ UNCHANGED <<store, lock>>

\* The credential is read again, from the session's source.
ProvideCredential(c) ==
    LET cred == SourceCredential(client[c].session)
    IN  /\ client[c].pc = "provide"
        /\ IF cred \in Credentials
           THEN /\ client' = [client EXCEPT ![c] =
                      Client(client[c].secret, "exchange", cred, client[c].session)]
                /\ UNCHANGED <<store, lock>>
           ELSE Return(c, Session(c).state)
        /\ UNCHANGED <<secret, session, changes>>

\* What a token exchange leaves behind: a token, a refusal, or nothing new.
Stored(s, cred) == [s EXCEPT !.token = cred, !.state = "Active"]
Refused(s)      == [s EXCEPT !.state = "InvalidCreds"]

\* POST /access-tokens returns and leaves the session as s.
ExchangeReturns(c, s) ==
    /\ client[c].pc = "exchange"
    /\ session' = [session EXCEPT ![client[c].session] = s]
    /\ Return(c, s.state)
    /\ UNCHANGED <<secret, changes>>

ExchangeOK(c)      == ExchangeReturns(c, Stored(Session(c), client[c].cred))
ExchangeRefused(c) == ExchangeReturns(c, Refused(Session(c)))
ExchangeFails(c)   == ExchangeReturns(c, Session(c))

-----------------------------------------------------------------------------
(* Requests.                                                               *)

\* precheck: Ping, then the state decides.
Precheck(c) ==
    /\ client[c].pc = "precheck"
    /\ CASE Session(c).state = "Failed"       -> Goto(c, "provide")
         [] Session(c).state = "Active"       -> Goto(c, "send")
         [] Session(c).state = "InvalidCreds" -> EndRequests(c)
    /\ UNCHANGED <<secret, store, session, lock, changes>>

\* setBearer: the request leaves with the token of the session.  One request
\* stands for those of a reconcile.
Send(c) ==
    /\ client[c].pc = "send"
    /\ EndRequests(c)
    /\ UNCHANGED <<secret, store, session, lock, changes>>

MainRequest ==
    /\ client[Main].pc = "idle" /\ client[Main].session # 0
    /\ Goto(Main, "precheck")
    /\ UNCHANGED <<secret, store, session, lock, changes>>

-----------------------------------------------------------------------------
(* The timers of the session i with label l, which run from its first login *)
(* on: the refresh timer is armed unless its goroutine runs (RenewalPending  *)
(* of LoginManager).  One goroutine at a time is enough here.                *)

Timer(l, s) ==
    /\ session' = [session EXCEPT ![store[l]] = s]
    /\ UNCHANGED <<secret, store, lock, client, changes>>

\* Mutant: only an active session is logged in again.
FireRefreshTimerActive(l) ==
    LET i == store[l]
    IN  /\ i # 0
        /\ session[i].exchanging = "none"
        /\ session[i].state = "Active"
        /\ SourceCredential(i) \in Credentials
        /\ Timer(l, [session[i] EXCEPT !.exchanging = SourceCredential(i)])

\* Without a credential the timer is armed again and nothing has changed.
FireRefreshTimer(l) ==
    LET i == store[l]
    IN  /\ i # 0
        /\ session[i].exchanging = "none"
        /\ SourceCredential(i) \in Credentials
        /\ Timer(l, [session[i] EXCEPT !.exchanging = SourceCredential(i)])

Refreshing(l) == store[l] # 0 /\ session[store[l]].exchanging \in Credentials

RefreshReturns(l, s) ==
    /\ Refreshing(l)
    /\ Timer(l, [s EXCEPT !.exchanging = "none"])

RefreshOK(l) ==
    LET s == session[store[l]] IN RefreshReturns(l, Stored(s, s.exchanging))

RefreshRefused(l) == RefreshReturns(l, Refused(session[store[l]]))
RefreshFails(l)   == RefreshReturns(l, session[store[l]])

ExpireLogin(l) ==
    LET i == store[l]
    IN  /\ i # 0
        /\ session[i].token # "none"
        /\ Timer(l, [session[i] EXCEPT
                        !.token = "none",
                        !.state = IF @ = "Active" THEN "Failed" ELSE @])

-----------------------------------------------------------------------------
(* The surroundings.                                                       *)

EditSecret(s) ==
    /\ changes < MaxChanges
    /\ changes' = changes + 1
    /\ \E content \in MayHold[s] \ {secret[s]} :
            secret' = [secret EXCEPT ![s] = content]
    /\ UNCHANGED <<store, session, lock, client>>

\* Cache, sessions and clients are memory.
Restart ==
    /\ changes < MaxChanges
    /\ changes' = changes + 1
    /\ store' = [l \in Labels |-> 0]
    /\ session' = <<>>
    /\ lock' = "none"
    /\ client' = [c \in AllClients |-> Idle]
    /\ UNCHANGED secret

-----------------------------------------------------------------------------

\* What a goroutine does by itself, apart from waiting for the lock.
ClientStep(c) == ProvideCredential(c) \/ Precheck(c) \/ Send(c)

Exchange(c) == ExchangeOK(c) \/ ExchangeRefused(c) \/ ExchangeFails(c)

Refresh(l) == RefreshOK(l) \/ RefreshRefused(l) \/ RefreshFails(l)

Next ==
    \/ MainNewClient \/ MainRequest
    \/ \E w \in Workers, s \in Secrets : NewClient(w, s)
    \/ \E c \in AllClients : Lookup(c) \/ ClientStep(c) \/ Exchange(c)
    \/ \E l \in Labels : FireRefreshTimer(l) \/ Refresh(l) \/ ExpireLogin(l)
    \/ \E s \in DOMAIN secret : EditSecret(s)
    \/ Restart

Spec == Init /\ [][Next]_vars

\* A token whose source has no credential, so that it is not renewed, expires.
ExpireUnrenewed(l) ==
    /\ store[l] # 0
    /\ SourceCredential(store[l]) \notin Credentials
    /\ ExpireLogin(l)

\* main.go runs, Resync comes round to the objects of every inventory, one of
\* those that wait for the lock gets it if it is free again and again, and
\* goroutines run; timers fire, the service answers, and a renewal that is
\* tried for ever succeeds some time.
Fairness ==
    /\ WF_vars(MainNewClient)
    /\ \A s \in Secrets : SF_vars(\E w \in Workers : NewClient(w, s))
    /\ SF_vars(\E c \in AllClients : Lookup(c))
    /\ \A c \in AllClients : WF_vars(ClientStep(c) \/ Exchange(c))
    /\ \A l \in Labels :
          /\ WF_vars(FireRefreshTimer(l) \/ Refresh(l) \/ ExpireUnrenewed(l))
          /\ SF_vars(RefreshOK(l))

FairSpec == Spec /\ Fairness

-----------------------------------------------------------------------------
(* Properties.                                                             *)

SessionType ==
    [label : Labels, source : Secrets \cup {MainSecret}, state : LoginState,
     token : Credentials \cup {"none"}, exchanging : Credentials \cup {"none"}]

ClientType ==
    [pc : {"idle", "disabled", "lock", "provide", "exchange", "precheck", "send"},
     secret : Secrets \cup {MainSecret},
     cred : Labels \cup Credentials \cup {Missing},
     session : Nat]

Types ==
    /\ secret \in [Secrets \cup {MainSecret} -> Labels \cup {Missing}]
    /\ store \in [Labels -> Nat]
    /\ session \in Seq(SessionType)
    /\ lock \in AllClients \cup {"none"}
    /\ client \in [AllClients -> ClientType]
    /\ changes \in 0..MaxChanges

\* The cache and the clients refer to sessions that exist.
References ==
    /\ \A l \in Labels : store[l] <= Len(session)
    /\ \A c \in AllClients :
          /\ client[c].session <= Len(session)
          /\ client[c].pc = "lock" => client[c].cred \in Labels
          /\ client[c].pc = "exchange" => client[c].cred \in Credentials
          /\ client[c].pc \in {"provide", "exchange", "precheck", "send"}
                => client[c].session # 0

\* Type invariant: every variable stays in its range, and a client or the cache
\* never refers to a session that does not exist.
TypeOK == Types /\ References

\* However many clients come with one credential at a time, they share one
\* session: the lookup and the insertion of a new session are one critical
\* section, the exchange between them included.
OneSession ==
    \A i, j \in DOMAIN session : session[i].label = session[j].label => i = j

\* The cache is unlocked again and again if the service answers the exchanges
\* made under its lock: on every way out of login() GetSession unlocks, so that
\* no client keeps the others from their sessions.
CacheUnlocks == []<>(lock = "none")

\* After the last edit, the session that an inventory's credential leads to
\* holds a token of that credential or none, however its source and the
\* exchanges under way were left: the auto-recovery of GetSession
\* (cache.go:60-82) gives it a source that holds, and the next renewal does
\* the rest.
TokenSettles ==
    \A s \in Secrets :
        <>[](secret[s] \in Labels /\ store[secret[s]] # 0 =>
                session[store[secret[s]]].token \in {secret[s], "none"})

\* An inventory whose secret keeps a usable credential is served again and
\* again: its session becomes active with a token of that credential, also
\* after a refusal and with an abandoned source.
Serves ==
    \A s \in Secrets :
        []<>(secret[s] \in Credentials =>
                /\ store[secret[s]] # 0
                /\ session[store[secret[s]]].state = "Active"
                /\ session[store[secret[s]]].token = secret[s])

\* A request leaves with a token of a credential from the client's own secret
\* ("a provided source of credential information", doc.go), or with none.
OwnToken ==
    \A c \in AllClients : client[c].pc = "send" =>
        Session(c).token \in MayHold[client[c].secret] \cup {"none"}

=============================================================================
