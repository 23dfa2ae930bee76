-------------------------- MODULE SessionCacheProofs --------------------------
(***************************************************************************)
(* Proofs about SessionCache, for any number of workers, secrets,          *)
(* credentials, edits and restarts: the type invariant, that clients with  *)
(* one credential share one session, and when a request carries a token of *)
(* its client's own secret.                                                *)
(***************************************************************************)
EXTENDS SessionCache, SequenceTheorems, TLAPS

\* The cache finds a session by its own credential.
Labelled == \A l \in Labels : store[l] # 0 => session[store[l]].label = l

\* The holder of the lock is inside login(), and nobody has stored another
\* session for its credential.
Held ==
    lock # "none" =>
        /\ client[lock].pc \in {"provide", "exchange"}
        /\ store[Session(lock).label] \in {0, client[lock].session}

\* A session is in the cache, or it is the one that the holder of the lock is
\* logging in for the first time.
Registered ==
    \A i \in 1..Len(session) :
        \/ store[session[i].label] = i
        \/ /\ store[session[i].label] = 0
           /\ lock # "none" /\ client[lock].session = i

Unique == Labelled /\ Held /\ Registered

IInv == TypeOK /\ Unique

\* No session has come or gone or has changed its label.
SameLabels ==
    /\ Len(session') = Len(session)
    /\ \A i \in 1..Len(session) : session'[i].label = session[i].label

-----------------------------------------------------------------------------
(* Updates of clients and sessions.                                        *)

Steps == {"idle", "disabled", "lock", "provide", "exchange", "precheck", "send"}

\* A client has the fields it is made from.
LEMMA ClientFields ==
    ASSUME NEW s \in Secrets \cup {MainSecret}, NEW step \in Steps,
           NEW cred \in Labels \cup Credentials \cup {Missing}, NEW i \in Nat
    PROVE  /\ Client(s, step, cred, i) \in ClientType
           /\ Client(s, step, cred, i).pc = step
           /\ Client(s, step, cred, i).cred = cred
           /\ Client(s, step, cred, i).secret = s
           /\ Client(s, step, cred, i).session = i
  BY DEF Client, ClientType, Steps

\* A client that waits for nothing.
LEMMA Sessionless ==
    ASSUME NEW s \in Secrets \cup {MainSecret}, NEW step \in {"disabled", "idle"}
    PROVE  /\ Client(s, step, Missing, 0) \in ClientType
           /\ Client(s, step, Missing, 0).pc = step
           /\ Client(s, step, Missing, 0).session = 0
  BY DEF Client, ClientType

\* The fields of a client have their types.
LEMMA ClientParts ==
    ASSUME NEW v \in ClientType
    PROVE  /\ v.secret \in Secrets \cup {MainSecret}
           /\ v.pc \in Steps
           /\ v.cred \in Labels \cup Credentials \cup {Missing}
           /\ v.session \in Nat
  BY DEF ClientType, Steps

\* A client at a new step: where it is and what it refers to.
LEMMA Moved ==
    ASSUME TypeOK, NEW c \in AllClients, NEW step \in Steps \ {"lock", "exchange"},
           NEW i \in Nat,
           GotoWith(c, step, i)
    PROVE  /\ client' \in [AllClients -> ClientType]
           /\ client'[c].pc = step /\ client'[c].session = i
           /\ client'[c].secret = client[c].secret
           /\ \A d \in AllClients : d # c => client'[d] = client[d]
<1>1. PICK s \in Secrets \cup {MainSecret} : s = client[c].secret
  BY ClientParts DEF TypeOK, Types
<1>2. PICK v : v = Client(s, step, Missing, i)
  OBVIOUS
<1>3. v \in ClientType /\ v.pc = step /\ v.session = i /\ v.secret = s
  <2>1. step \in Steps /\ Missing \in Labels \cup Credentials \cup {Missing}
    OBVIOUS
  <2> QED
    BY <1>1, <1>2, <2>1, ClientFields
<1>4. client' = [client EXCEPT ![c] = v]
  BY <1>1, <1>2 DEF GotoWith
<1> QED
  BY <1>1, <1>3, <1>4 DEF TypeOK, Types

\* Replacing a session keeps the sequence one of sessions.
LEMMA SessionReplaced ==
    ASSUME TypeOK, NEW i \in 1..Len(session), NEW s \in SessionType,
           session' = [session EXCEPT ![i] = s],
           s.label = session[i].label
    PROVE  session' \in Seq(SessionType) /\ SameLabels
  BY ExceptSeq DEF TypeOK, Types, SameLabels

\* So does Goto, which keeps the session.
LEMMA WentTo ==
    ASSUME TypeOK, NEW c \in AllClients, NEW step \in Steps \ {"lock", "exchange"},
           Goto(c, step)
    PROVE  /\ client' \in [AllClients -> ClientType]
           /\ client'[c].pc = step /\ client'[c].session = client[c].session
           /\ client'[c].secret = client[c].secret
           /\ \A d \in AllClients : d # c => client'[d] = client[d]
<1>1. PICK i \in Nat : i = client[c].session
  BY ClientParts DEF TypeOK, Types
<1>2. GotoWith(c, step, i)
  BY <1>1 DEF Goto, GotoWith
<1> QED
  BY <1>1, <1>2, Moved

\* After its requests a client is idle, without a session or with the one it
\* had.
LEMMA Ended ==
    ASSUME TypeOK, NEW c \in AllClients, EndRequests(c)
    PROVE  /\ client' \in [AllClients -> ClientType]
           /\ client'[c].pc = "idle"
           /\ \/ client'[c].session = 0
              \/ /\ client'[c].session = client[c].session
                 /\ client'[c].secret = client[c].secret
           /\ \A d \in AllClients : d # c => client'[d] = client[d]
<1>1. CASE c = Main
  BY <1>1, WentTo DEF EndRequests, Steps
<1>2. CASE c # Main
  <2>1. Idle \in ClientType /\ Idle.pc = "idle" /\ Idle.session = 0
    BY Sessionless DEF Idle
  <2>2. client' = [client EXCEPT ![c] = Idle]
    BY <1>2 DEF EndRequests
  <2> QED
    BY <2>1, <2>2 DEF TypeOK, Types
<1> QED
  BY <1>1, <1>2

\* The step of one client leaves every reference good if its own is.
LEMMA ReferencesKept ==
    ASSUME TypeOK, NEW c \in AllClients,
           Len(session') \in Nat, Len(session) <= Len(session'),
           client' \in [AllClients -> ClientType],
           \A d \in AllClients : d # c => client'[d] = client[d],
           client'[c].session <= Len(session'),
           client'[c].pc = "lock" => client'[c].cred \in Labels,
           client'[c].pc = "exchange" => client'[c].cred \in Credentials,
           client'[c].pc \in {"provide", "exchange", "precheck", "send"}
                => client'[c].session # 0,
           \A l \in Labels : store'[l] <= Len(session')
    PROVE  References'
<1>1. \A d \in AllClients : d # c => client[d].session <= Len(session')
  <2>1. \A d \in AllClients : client[d].session \in Nat
    BY ClientParts DEF TypeOK, Types
  <2>2. Len(session) \in Nat
    BY LenProperties DEF TypeOK, Types
  <2> QED
    BY <2>1, <2>2 DEF TypeOK, References
<1> QED
  BY <1>1 DEF TypeOK, References

-----------------------------------------------------------------------------
(* How a step leaves one session per credential.                           *)

\* Two sessions of one credential are the same.
LEMMA AtMostOne ==
    ASSUME IInv, NEW i \in 1..Len(session), NEW j \in 1..Len(session),
           session[i].label = session[j].label
    PROVE  i = j
  BY DEF IInv, Unique, Registered

\* A session has a label.
LEMMA LabelOf ==
    ASSUME TypeOK, NEW i \in 1..Len(session)
    PROVE  session[i].label \in Labels
<1>1. session[i] \in SessionType
  BY ElementOfSeq DEF TypeOK, Types
<1> QED
  BY <1>1 DEF SessionType

\* Nothing that matters has changed.
LEMMA UniqueKept ==
    ASSUME IInv, TypeOK', SameLabels, UNCHANGED <<store, lock>>,
           lock # "none" => /\ client'[lock].pc \in {"provide", "exchange"}
                            /\ client'[lock].session = client[lock].session
    PROVE  Unique'
<1>1. Len(session) \in Nat
  BY LenProperties DEF IInv, TypeOK, Types
<1>2. Labelled'
  <2> SUFFICES ASSUME NEW l \in Labels, store[l] # 0
               PROVE  session'[store[l]].label = l
    BY DEF Labelled
  <2>1. store[l] \in 1..Len(session)
    BY <1>1 DEF IInv, TypeOK, Types, References
  <2> QED
    BY <2>1 DEF IInv, Unique, Labelled, SameLabels
<1>3. Held'
  <2> SUFFICES ASSUME lock # "none" PROVE Held'
    BY DEF Held
  <2>1. client[lock].session \in 1..Len(session)
    <3>1. lock \in AllClients /\ client[lock].pc \in {"provide", "exchange"}
      BY DEF IInv, TypeOK, Types, Unique, Held
    <3>2. client[lock].session \in Nat
      BY <3>1, ClientParts DEF IInv, TypeOK, Types
    <3> QED
      BY <1>1, <3>1, <3>2 DEF IInv, TypeOK, References
  <2> QED
    BY <2>1 DEF IInv, Unique, Held, Session, SameLabels
<1>4. Registered'
  BY DEF IInv, Unique, Registered, SameLabels
<1> QED
  BY <1>2, <1>3, <1>4 DEF Unique

\* GetSession stores the session of the client and unlocks.
LEMMA UniqueStored ==
    ASSUME IInv, TypeOK', SameLabels, NEW c \in AllClients, lock = c,
           store' = [store EXCEPT ![Session(c).label] = client[c].session],
           lock' = "none"
    PROVE  Unique'
<1>1. PICK n : n = client[c].session
  OBVIOUS
<1>2. n \in 1..Len(session) /\ Len(session) \in Nat
  <2>1. lock # "none" /\ client[c].pc \in {"provide", "exchange"}
    BY ClientsNamed DEF IInv, Unique, Held, AllClients
  <2>2. n \in Nat /\ n # 0 /\ n <= Len(session)
    BY <1>1, <2>1, ClientParts DEF IInv, TypeOK, Types, References
  <2>3. Len(session) \in Nat
    BY LenProperties DEF IInv, TypeOK, Types
  <2> QED
    BY <2>2, <2>3
<1>3. PICK l \in Labels : l = session[n].label
  BY <1>2, LabelOf DEF IInv
<1>4. store' = [store EXCEPT ![l] = n]
  BY <1>1, <1>3 DEF Session
<1>5. store'[l] = n /\ \A k \in Labels : k # l => store'[k] = store[k]
  BY <1>4 DEF IInv, TypeOK, Types
<1>6. Labelled'
  <2> SUFFICES ASSUME NEW k \in Labels, store'[k] # 0
               PROVE  session'[store'[k]].label = k
    BY DEF Labelled
  <2>1. CASE k = l
    BY <2>1, <1>2, <1>3, <1>5 DEF SameLabels
  <2>2. CASE k # l
    <3>1. store[k] \in 1..Len(session)
      BY <1>2, <1>5, <2>2 DEF IInv, TypeOK, Types, References
    <3> QED
      BY <3>1, <1>5, <2>2 DEF IInv, Unique, Labelled, SameLabels
  <2> QED
    BY <2>1, <2>2
<1>7. Registered'
  <2> SUFFICES ASSUME NEW i \in 1..Len(session)
               PROVE  store'[session[i].label] = i
    BY DEF Registered, SameLabels
  <2>1. CASE session[i].label = l
    BY <2>1, <1>2, <1>3, <1>5, AtMostOne
  <2>2. CASE session[i].label # l
    <3>1. store[session[i].label] = i
      BY <2>2, <1>1, <1>3 DEF IInv, Unique, Registered
    <3> QED
      BY <2>2, <3>1, <1>5, LabelOf DEF IInv
  <2> QED
    BY <2>1, <2>2
<1> QED
  BY <1>6, <1>7 DEF Unique, Held

\* A client that has the lock makes a session for a credential without one.
LEMMA UniqueAdded ==
    ASSUME IInv, TypeOK', NEW c \in AllClients, lock = "none",
           NEW s \in SessionType, store[s.label] = 0,
           session' = Append(session, s), UNCHANGED store, lock' = c,
           client'[c].pc = "provide", client'[c].session = Len(session) + 1
    PROVE  Unique'
<1>1. PICK n \in Nat : n = Len(session)
  BY LenProperties DEF IInv, TypeOK, Types
<1>2. /\ Len(session') = n + 1
      /\ session'[n + 1] = s
      /\ \A i \in 1..n : session'[i] = session[i]
  BY <1>1, AppendProperties DEF IInv, TypeOK, Types
<1>3. Labelled'
  <2> SUFFICES ASSUME NEW l \in Labels, store[l] # 0
               PROVE  session'[store[l]].label = l
    BY DEF Labelled
  <2>1. store[l] \in 1..n
    BY <1>1 DEF IInv, TypeOK, Types, References
  <2> QED
    BY <2>1, <1>2 DEF IInv, Unique, Labelled
<1>4. Held'
  BY <1>1, <1>2 DEF Held, Session
<1>5. Registered'
  <2> SUFFICES ASSUME NEW i \in 1..(n + 1)
               PROVE  \/ store[session'[i].label] = i
                      \/ /\ store[session'[i].label] = 0
                         /\ lock' # "none" /\ client'[lock'].session = i
    BY <1>2 DEF Registered
  <2>1. CASE i = n + 1
    <3>1. lock' # "none"
      BY ClientsNamed DEF AllClients
    <3> QED
      BY <2>1, <3>1, <1>1, <1>2
  <2>2. CASE i \in 1..n
    BY <2>2, <1>1, <1>2 DEF IInv, Unique, Registered
  <2>3. i = n + 1 \/ i \in 1..n
    OBVIOUS
  <2> QED
    BY <2>1, <2>2, <2>3
<1> QED
  BY <1>3, <1>4, <1>5 DEF Unique

\* A client that has the lock logs a known session in.
LEMMA UniqueFound ==
    ASSUME IInv, TypeOK', SameLabels, NEW c \in AllClients, lock = "none",
           NEW i \in 1..Len(session), store[session[i].label] = i,
           UNCHANGED store, lock' = c,
           client'[c].pc = "provide", client'[c].session = i
    PROVE  Unique'
<1>1. Labelled'
  <2> SUFFICES ASSUME NEW l \in Labels, store[l] # 0
               PROVE  session'[store[l]].label = l
    BY DEF Labelled
  <2>1. store[l] \in 1..Len(session)
    BY LenProperties DEF IInv, TypeOK, Types, References
  <2> QED
    BY <2>1 DEF IInv, Unique, Labelled, SameLabels
<1>2. Held'
  BY DEF Held, Session, SameLabels
<1>3. Registered'
  BY DEF IInv, Unique, Registered, SameLabels
<1> QED
  BY <1>1, <1>2, <1>3 DEF Unique

-----------------------------------------------------------------------------
(* The operations.                                                         *)

\* Reading the credential: the client has none of the lock's duties yet.
LEMMA ReadCredentialInv ==
    ASSUME IInv, NEW c \in AllClients, NEW s \in Secrets \cup {MainSecret},
           client[c].pc = "idle", ReadCredential(c, s),
           UNCHANGED <<secret, store, session, lock, changes>>
    PROVE  IInv'
<1>1. PICK cred \in Labels \cup {Missing} : cred = secret[s]
  BY DEF IInv, TypeOK, Types
<1>2. PICK v : v = IF cred # Missing THEN Client(s, "lock", cred, 0)
                   ELSE IF c = Main THEN Client(s, "disabled", Missing, 0)
                   ELSE Idle
  OBVIOUS
<1>3. /\ v \in ClientType /\ v.session = 0
      /\ v.pc \in {"lock", "disabled", "idle"}
      /\ v.pc = "lock" => v.cred \in Labels
  <2>1. CASE cred # Missing
    BY <1>1, <1>2, <2>1, ClientFields DEF Steps
  <2>2. CASE cred = Missing /\ c = Main
    <3>1. v = Client(s, "disabled", Missing, 0)
      BY <1>2, <2>2
    <3> QED
      BY <3>1, Sessionless
  <2>3. CASE cred = Missing /\ c # Main
    <3>1. v = Client(MainSecret, "idle", Missing, 0)
      BY <1>2, <2>3 DEF Idle
    <3> QED
      BY <3>1, Sessionless
  <2> QED
    BY <2>1, <2>2, <2>3
<1>4. client' = [client EXCEPT ![c] = v]
  BY <1>1, <1>2 DEF ReadCredential
<1>5. /\ client' \in [AllClients -> ClientType] /\ client'[c] = v
      /\ \A d \in AllClients : d # c => client'[d] = client[d]
  BY <1>3, <1>4 DEF IInv, TypeOK, Types
<1>6. Len(session) \in Nat /\ \A l \in Labels : store[l] <= Len(session)
  BY LenProperties DEF IInv, TypeOK, Types, References
<1>7. References'
  BY <1>3, <1>5, <1>6, ReferencesKept DEF IInv
<1>8. TypeOK'
  BY <1>5, <1>7 DEF IInv, TypeOK, Types
<1>9. lock # c
  BY ClientsNamed DEF IInv, Unique, Held, AllClients
<1> QED
  BY <1>5, <1>8, <1>9, UniqueKept DEF IInv, TypeOK, Types, Unique, Held, SameLabels

\* A step of a client that has no session to store, among the same sessions.
LEMMA ClientStepInv ==
    ASSUME IInv, NEW c \in AllClients,
           session' \in Seq(SessionType), SameLabels,
           UNCHANGED <<secret, store, lock, changes>>,
           client' \in [AllClients -> ClientType],
           \A d \in AllClients : d # c => client'[d] = client[d],
           client'[c].pc # "lock",
           client'[c].session \in {0, client[c].session},
           client'[c].pc = "exchange" => client'[c].cred \in Credentials,
           client'[c].pc \in {"provide", "exchange", "precheck", "send"}
                => client'[c].session # 0,
           lock = c => /\ client'[c].pc \in {"provide", "exchange"}
                       /\ client'[c].session = client[c].session
    PROVE  IInv'
<1>1. Len(session) \in Nat
  BY LenProperties DEF IInv, TypeOK, Types
<1>2. References'
  <2>1. client'[c].session <= Len(session)
    BY <1>1 DEF IInv, TypeOK, References
  <2>2. \A l \in Labels : store[l] <= Len(session)
    BY DEF IInv, TypeOK, References
  <2> QED
    BY <1>1, <2>1, <2>2, ReferencesKept DEF IInv, SameLabels
<1>3. TypeOK'
  BY <1>2 DEF IInv, TypeOK, Types
<1>4. lock # "none" => /\ client'[lock].pc \in {"provide", "exchange"}
                       /\ client'[lock].session = client[lock].session
  BY DEF IInv, TypeOK, Types, Unique, Held
<1> QED
  BY <1>3, <1>4, UniqueKept DEF IInv

\* The end of login(), under the lock or without it.
LEMMA ReturnInv ==
    ASSUME IInv, NEW c \in AllClients, NEW state,
           client[c].pc \in {"provide", "exchange"},
           session' \in Seq(SessionType), SameLabels,
           Return(c, state),
           UNCHANGED <<secret, changes>>
    PROVE  IInv'
<1>1. PICK n \in Nat : n = client[c].session
  BY ClientParts DEF IInv, TypeOK, Types
<1>2. n \in 1..Len(session) /\ Len(session) \in Nat
  BY <1>1, LenProperties DEF IInv, TypeOK, Types, References
<1>3. CASE lock = c
  <2>1. /\ store' = [store EXCEPT ![Session(c).label] = client[c].session]
        /\ lock' = "none"
        /\ Goto(c, "precheck")
    BY <1>3 DEF Return
  <2>2. /\ client' \in [AllClients -> ClientType]
        /\ client'[c].pc = "precheck" /\ client'[c].session = n
        /\ \A d \in AllClients : d # c => client'[d] = client[d]
    BY <2>1, <1>1, WentTo DEF IInv, Steps
  <2>3. store' \in [Labels -> Nat] /\ \A l \in Labels : store'[l] <= Len(session)
    <3>1. store' = [store EXCEPT ![session[n].label] = n]
      BY <2>1, <1>1 DEF Session
    <3> QED
      BY <3>1, <1>2, LabelOf DEF IInv, TypeOK, Types, References
  <2>4. References'
    BY <2>2, <2>3, <1>2, ReferencesKept DEF IInv, SameLabels
  <2>5. TypeOK'
    BY <2>1, <2>2, <2>3, <2>4 DEF IInv, TypeOK, Types
  <2> QED
    BY <2>1, <2>5, <1>3, UniqueStored DEF IInv
<1>4. CASE lock # c
  <2>1. UNCHANGED <<store, lock>>
    BY <1>4 DEF Return
  <2>2. CASE Goto(c, "send")
    <3>1. /\ client' \in [AllClients -> ClientType]
          /\ client'[c].pc = "send" /\ client'[c].session = client[c].session
          /\ \A d \in AllClients : d # c => client'[d] = client[d]
      BY <2>2, WentTo DEF IInv, Steps
    <3> QED
      BY <3>1, <2>1, <1>1, <1>2, <1>4, ClientStepInv
  <2>3. CASE EndRequests(c)
    BY <2>3, <2>1, <1>4, Ended, ClientStepInv DEF IInv
  <2> QED
    BY <1>4, <2>2, <2>3 DEF Return
<1> QED
  BY <1>3, <1>4

\* A session keeps its type and its label when a credential is exchanged.
LEMMA CredentialExchanged ==
    ASSUME NEW s \in SessionType, NEW cred \in Credentials
    PROVE  /\ Stored(s, cred) \in SessionType /\ Stored(s, cred).label = s.label
           /\ LET t == [s EXCEPT !.exchanging = cred]
              IN  t \in SessionType /\ t.label = s.label
<1>1. "Active" \in LoginState
  BY DEF LoginState
<1>2. Stored(s, cred) \in SessionType /\ Stored(s, cred).label = s.label
  BY <1>1 DEF SessionType, Stored
<1>3. LET t == [s EXCEPT !.exchanging = cred]
      IN  t \in SessionType /\ t.label = s.label
  BY DEF SessionType
<1> QED
  BY <1>2, <1>3

\* So it does when it is refused, when the exchange is over, and when its token
\* expires.
LEMMA SessionChanges ==
    ASSUME NEW s \in SessionType
    PROVE  /\ Refused(s) \in SessionType /\ Refused(s).label = s.label
           /\ LET t == [s EXCEPT !.exchanging = "none"]
              IN  t \in SessionType /\ t.label = s.label
           /\ LET t == [s EXCEPT !.token = "none",
                                 !.state = IF @ = "Active" THEN "Failed" ELSE @]
              IN  t \in SessionType /\ t.label = s.label
<1>1. /\ s.state \in LoginState
      /\ "Failed" \in LoginState /\ "InvalidCreds" \in LoginState
  BY DEF SessionType, LoginState
<1>2. Refused(s) \in SessionType /\ Refused(s).label = s.label
  BY <1>1 DEF SessionType, Refused
<1>3. LET t == [s EXCEPT !.exchanging = "none"]
      IN  t \in SessionType /\ t.label = s.label
  BY DEF SessionType
<1>4. LET t == [s EXCEPT !.token = "none",
                         !.state = IF @ = "Active" THEN "Failed" ELSE @]
      IN  t \in SessionType /\ t.label = s.label
  BY <1>1 DEF SessionType
<1> QED
  BY <1>2, <1>3, <1>4

\* So it does when its source is replaced.
LEMMA SourceReplaced ==
    ASSUME NEW s \in SessionType, NEW src \in Secrets \cup {MainSecret}
    PROVE  \E t \in SessionType :
              t = [s EXCEPT !.source = src] /\ t.label = s.label
<1>1. /\ [s EXCEPT !.source = src] \in SessionType
      /\ [s EXCEPT !.source = src].label = s.label
  BY DEF SessionType
<1> QED
  BY <1>1

\* Reading the session's credential: on to the exchange, or back.
LEMMA ProvideCredentialInv ==
    ASSUME IInv, NEW c \in AllClients, ProvideCredential(c)
    PROVE  IInv'
<1> DEFINE here == SourceCredential(client[c].session)
<1>1. client[c].pc = "provide" /\ UNCHANGED <<secret, session, changes>>
  BY DEF ProvideCredential
<1>2. session' \in Seq(SessionType) /\ SameLabels
  BY <1>1 DEF IInv, TypeOK, Types, SameLabels
<1>3. CASE here \in Credentials
  <2>1. PICK cred \in Credentials : cred = here
    BY <1>3
  <2>2. PICK s \in Secrets \cup {MainSecret} : s = client[c].secret
    BY ClientParts DEF IInv, TypeOK, Types
  <2>3. PICK n \in Nat : n = client[c].session
    BY ClientParts DEF IInv, TypeOK, Types
  <2>4. PICK v : v = Client(s, "exchange", cred, n)
    OBVIOUS
  <2>5. /\ v \in ClientType /\ v.pc = "exchange" /\ v.cred = cred
        /\ v.session = n
    BY <2>4, ClientFields DEF Steps
  <2>6. client' = [client EXCEPT ![c] = v] /\ UNCHANGED <<store, lock>>
    BY <1>3, <2>1, <2>2, <2>3, <2>4 DEF ProvideCredential
  <2>7. /\ client' \in [AllClients -> ClientType] /\ client'[c] = v
        /\ \A d \in AllClients : d # c => client'[d] = client[d]
    BY <2>5, <2>6 DEF IInv, TypeOK, Types
  <2>8. n # 0
    BY <1>1, <2>3 DEF IInv, TypeOK, References
  <2> QED
    BY <1>1, <1>2, <2>3, <2>5, <2>6, <2>7, <2>8, ClientStepInv
<1>4. CASE here \notin Credentials
  <2>1. PICK state : state = Session(c).state
    OBVIOUS
  <2>2. Return(c, state)
    BY <1>4, <2>1 DEF ProvideCredential, Return
  <2> QED
    BY <1>1, <1>2, <2>2, ReturnInv
<1> QED
  BY <1>3, <1>4

\* The answer to the token exchange.
LEMMA ExchangeReturnsInv ==
    ASSUME IInv, NEW c \in AllClients, NEW s \in SessionType,
           s.label = Session(c).label, ExchangeReturns(c, s)
    PROVE  IInv'
<1>1. client[c].pc = "exchange" /\ UNCHANGED <<secret, changes>>
  BY DEF ExchangeReturns
<1>2. PICK n \in Nat : n = client[c].session
  BY ClientParts DEF IInv, TypeOK, Types
<1>3. n \in 1..Len(session)
  BY <1>1, <1>2, LenProperties DEF IInv, TypeOK, Types, References
<1>4. session' = [session EXCEPT ![n] = s] /\ s.label = session[n].label
  BY <1>2 DEF ExchangeReturns, Session
<1>5. session' \in Seq(SessionType) /\ SameLabels
  BY <1>3, <1>4, SessionReplaced DEF IInv
<1>6. PICK state : state = s.state
  OBVIOUS
<1>7. Return(c, state)
  BY <1>6 DEF ExchangeReturns, Return
<1> QED
  BY <1>1, <1>5, <1>7, ReturnInv

\* Whatever it is.
LEMMA ExchangeInv == ASSUME IInv, NEW c \in AllClients, Exchange(c) PROVE IInv'
<1>1. client[c].pc = "exchange"
  BY DEF Exchange, ExchangeOK, ExchangeRefused, ExchangeFails, ExchangeReturns
<1>2. PICK cred \in Credentials : cred = client[c].cred
  BY <1>1 DEF IInv, TypeOK, References
<1>3. PICK s \in SessionType : s = Session(c)
  <2>1. client[c].session \in 1..Len(session)
    BY <1>1, ClientParts, LenProperties DEF IInv, TypeOK, Types, References
  <2> QED
    BY <2>1, ElementOfSeq DEF IInv, TypeOK, Types, Session
<1>4. CASE ExchangeOK(c)
  <2>1. PICK t \in SessionType : t = Stored(s, cred) /\ t.label = s.label
    BY CredentialExchanged
  <2>2. ExchangeReturns(c, t)
    BY <1>2, <1>3, <1>4, <2>1 DEF ExchangeOK, ExchangeReturns
  <2> QED
    BY <1>3, <2>1, <2>2, ExchangeReturnsInv
<1>5. CASE ExchangeRefused(c)
  <2>1. PICK t \in SessionType : t = Refused(s) /\ t.label = s.label
    BY SessionChanges
  <2>2. ExchangeReturns(c, t)
    BY <1>3, <1>5, <2>1 DEF ExchangeRefused, ExchangeReturns
  <2> QED
    BY <1>3, <2>1, <2>2, ExchangeReturnsInv
<1>6. CASE ExchangeFails(c)
  <2>1. ExchangeReturns(c, s)
    BY <1>3, <1>6 DEF ExchangeFails, ExchangeReturns
  <2> QED
    BY <1>3, <2>1, ExchangeReturnsInv
<1> QED
  BY <1>4, <1>5, <1>6 DEF Exchange

\* The lookup under the lock: a new session, or the one that is known.
LEMMA LookupInv == ASSUME IInv, NEW c \in AllClients, Lookup(c) PROVE IInv'
<1>1. /\ client[c].pc = "lock" /\ lock = "none"
      /\ UNCHANGED <<secret, store, changes>>
  BY DEF Lookup
<1>2. PICK l \in Labels : l = client[c].cred
  BY <1>1 DEF IInv, TypeOK, References
<1>3. PICK src \in Secrets \cup {MainSecret} : src = client[c].secret
  BY ClientParts DEF IInv, TypeOK, Types
<1>4. Len(session) \in Nat /\ \A k \in Labels : store[k] \in 0..Len(session)
  BY LenProperties DEF IInv, TypeOK, Types, References
<1>5. CASE AddSession(c)
  <2>1. PICK n \in Nat : n = Len(session) + 1
    BY <1>4
  <2>2. PICK s : s = NewSession(l, src)
    OBVIOUS
  <2>3. s \in SessionType /\ s.label = l
    BY <2>2 DEF NewSession, SessionType, LoginState
  <2>4. /\ store[l] = 0 /\ session' = Append(session, s) /\ lock' = c
        /\ GotoWith(c, "provide", n)
    BY <1>2, <1>3, <1>5, <2>1, <2>2 DEF AddSession, GotoWith
  <2>5. /\ client' \in [AllClients -> ClientType]
        /\ client'[c].pc = "provide" /\ client'[c].session = n
        /\ \A d \in AllClients : d # c => client'[d] = client[d]
    BY <2>4, Moved DEF IInv, Steps
  <2>6. session' \in Seq(SessionType) /\ Len(session') = n
    BY <2>1, <2>3, <2>4, AppendProperties DEF IInv, TypeOK, Types
  <2>7. References'
    BY <1>1, <1>4, <2>1, <2>5, <2>6, ReferencesKept DEF IInv
  <2>8. TypeOK'
    BY <1>1, <2>4, <2>5, <2>6, <2>7 DEF IInv, TypeOK, Types
  <2> QED
    BY <1>1, <2>1, <2>3, <2>4, <2>5, <2>8, UniqueAdded DEF IInv
<1>6. CASE FindSession(c)
  <2>1. PICK i \in 1..Len(session) : i = store[l]
    BY <1>2, <1>4, <1>6 DEF FindSession
  <2>2. store[session[i].label] = i
    BY <2>1 DEF IInv, Unique, Labelled
  <2>3. session' \in Seq(SessionType) /\ SameLabels
    <3>1. PICK s \in SessionType : s = [session[i] EXCEPT !.source = src]
                                 /\ s.label = session[i].label
      <4>1. PICK old \in SessionType : old = session[i]
        BY ElementOfSeq DEF IInv, TypeOK, Types
      <4> QED
        BY <4>1, SourceReplaced
    <3>2. session' = [session EXCEPT ![i] = s] \/ session' = session
      BY <1>2, <1>3, <1>6, <2>1, <3>1 DEF FindSession
    <3> QED
      BY <3>1, <3>2, SessionReplaced DEF IInv, TypeOK, Types, SameLabels
  <2>4. CASE lock' = c /\ GotoWith(c, "provide", i)
    <3>1. /\ client' \in [AllClients -> ClientType]
          /\ client'[c].pc = "provide" /\ client'[c].session = i
          /\ \A d \in AllClients : d # c => client'[d] = client[d]
      BY <2>4, Moved DEF IInv, Steps
    <3>2. References'
      BY <1>1, <1>4, <2>3, <3>1, ReferencesKept DEF IInv, SameLabels
    <3>3. TypeOK'
      BY <1>1, <2>3, <2>4, <3>1, <3>2 DEF IInv, TypeOK, Types
    <3> QED
      BY <1>1, <2>2, <2>3, <2>4, <3>1, <3>3, UniqueFound DEF IInv
  <2>5. CASE lock' = lock /\ GotoWith(c, "precheck", i)
    <3>1. /\ client' \in [AllClients -> ClientType]
          /\ client'[c].pc = "precheck" /\ client'[c].session = i
          /\ \A d \in AllClients : d # c => client'[d] = client[d]
      BY <2>5, Moved DEF IInv, Steps
    <3>2. References'
      BY <1>1, <1>4, <2>3, <3>1, ReferencesKept DEF IInv, SameLabels
    <3>3. TypeOK'
      BY <1>1, <2>3, <2>5, <3>1, <3>2 DEF IInv, TypeOK, Types
    <3> QED
      BY <1>1, <2>3, <2>5, <3>3, UniqueKept DEF IInv
  <2> QED
    BY <1>2, <1>6, <2>1, <2>4, <2>5 DEF FindSession, GotoWith
<1> QED
  BY <1>5, <1>6 DEF Lookup

\* A request's own steps: none of them is taken by the holder of the lock.
LEMMA RequestInv ==
    ASSUME IInv, NEW c \in AllClients,
           client[c].pc \in {"idle", "precheck", "send"},
           \/ /\ Goto(c, "provide") \/ Goto(c, "send") \/ Goto(c, "precheck")
              /\ client[c].session # 0
           \/ EndRequests(c),
           UNCHANGED <<secret, store, session, lock, changes>>
    PROVE  IInv'
<1>1. session' \in Seq(SessionType) /\ SameLabels
  BY DEF IInv, TypeOK, Types, SameLabels
<1>2. lock # c
  BY ClientsNamed DEF IInv, Unique, Held, AllClients
<1>3. ASSUME NEW step \in {"provide", "send", "precheck"}, Goto(c, step),
             client[c].session # 0
      PROVE  IInv'
  <2>1. /\ client' \in [AllClients -> ClientType]
        /\ client'[c].pc = step /\ client'[c].session = client[c].session
        /\ \A d \in AllClients : d # c => client'[d] = client[d]
    BY <1>3, WentTo DEF IInv, Steps
  <2> QED
    BY <1>1, <1>2, <1>3, <2>1, ClientStepInv
<1>4. CASE EndRequests(c)
  BY <1>1, <1>2, <1>4, Ended, ClientStepInv DEF IInv
<1> QED
  BY <1>3, <1>4

\* Requests come from clients that have a session.
LEMMA RequestsInv ==
    IInv /\ (MainRequest \/ \E c \in AllClients : Precheck(c) \/ Send(c)) => IInv'
<1>1. ASSUME IInv, MainRequest PROVE IInv'
  BY <1>1, RequestInv DEF MainRequest, AllClients
<1>2. ASSUME IInv, NEW c \in AllClients, Precheck(c) PROVE IInv'
  <2>1. client[c].pc = "precheck" /\ client[c].session # 0
    BY <1>2 DEF IInv, TypeOK, References, Precheck
  <2>2. Session(c).state \in LoginState
    <3>1. client[c].session \in 1..Len(session)
      BY <1>2, <2>1, ClientParts, LenProperties DEF IInv, TypeOK, Types, References
    <3>2. Session(c) \in SessionType
      BY <1>2, <3>1, ElementOfSeq DEF IInv, TypeOK, Types, Session
    <3> QED
      BY <3>2 DEF SessionType
  <2>3. Goto(c, "provide") \/ Goto(c, "send") \/ EndRequests(c)
    BY <1>2, <2>2 DEF Precheck, LoginState
  <2> QED
    BY <1>2, <2>1, <2>3, RequestInv DEF Precheck
<1>3. ASSUME IInv, NEW c \in AllClients, Send(c) PROVE IInv'
  BY <1>3, RequestInv DEF Send
<1> QED
  BY <1>1, <1>2, <1>3

\* What a timer does to its session.
LEMMA TimerStepInv ==
    ASSUME IInv, NEW l \in Labels, store[l] # 0, NEW s \in SessionType,
           s.label = session[store[l]].label, Timer(l, s)
    PROVE  IInv'
<1>1. PICK i \in 1..Len(session) : i = store[l]
  BY LenProperties DEF IInv, TypeOK, Types, References
<1>2. session' = [session EXCEPT ![i] = s] /\ s.label = session[i].label
  BY <1>1 DEF Timer
<1>3. session' \in Seq(SessionType) /\ SameLabels
  BY <1>2, SessionReplaced DEF IInv
<1>4. UNCHANGED <<secret, store, lock, client, changes>>
  BY DEF Timer
<1>5. TypeOK'
  BY <1>3, <1>4 DEF IInv, TypeOK, Types, References, SameLabels
<1> QED
  BY <1>3, <1>4, <1>5, UniqueKept DEF IInv, Unique, Held

\* The timers of a session.
LEMMA TimerInv ==
    ASSUME IInv, NEW l \in Labels,
           FireRefreshTimer(l) \/ Refresh(l) \/ ExpireLogin(l)
    PROVE  IInv'
<1>1. store[l] # 0
  BY DEF FireRefreshTimer, Refresh, RefreshOK, RefreshRefused, RefreshFails,
         RefreshReturns, Refreshing, ExpireLogin
<1>2. PICK s \in SessionType : s = session[store[l]]
  <2>1. store[l] \in 1..Len(session)
    BY <1>1, LenProperties DEF IInv, TypeOK, Types, References
  <2> QED
    BY <2>1, ElementOfSeq DEF IInv, TypeOK, Types
<1>3. CASE FireRefreshTimer(l)
  <2>1. PICK cred \in Credentials : cred = SourceCredential(store[l])
    BY <1>3 DEF FireRefreshTimer
  <2>2. PICK t \in SessionType :
            t = [s EXCEPT !.exchanging = cred] /\ t.label = s.label
    BY CredentialExchanged
  <2>3. Timer(l, t)
    BY <1>2, <1>3, <2>1, <2>2 DEF FireRefreshTimer, Timer
  <2> QED
    BY <1>1, <1>2, <2>2, <2>3, TimerStepInv
<1>4. ASSUME NEW r \in SessionType, r.label = s.label, RefreshReturns(l, r)
      PROVE  IInv'
  <2>1. PICK t \in SessionType :
            t = [r EXCEPT !.exchanging = "none"] /\ t.label = r.label
    BY SessionChanges
  <2>2. Timer(l, t)
    BY <1>4, <2>1 DEF RefreshReturns, Timer
  <2> QED
    BY <1>1, <1>2, <1>4, <2>1, <2>2, TimerStepInv
<1>5. CASE RefreshOK(l)
  <2>1. PICK cred \in Credentials : cred = s.exchanging
    BY <1>2, <1>5 DEF RefreshOK, RefreshReturns, Refreshing
  <2>2. PICK r \in SessionType : r = Stored(s, cred) /\ r.label = s.label
    BY CredentialExchanged
  <2>3. RefreshReturns(l, r)
    BY <1>2, <1>5, <2>1, <2>2 DEF RefreshOK, RefreshReturns, Timer
  <2> QED
    BY <2>2, <2>3, <1>4
<1>6. CASE RefreshRefused(l)
  <2>1. PICK r \in SessionType : r = Refused(s) /\ r.label = s.label
    BY SessionChanges
  <2>2. RefreshReturns(l, r)
    BY <1>2, <1>6, <2>1 DEF RefreshRefused, RefreshReturns, Timer
  <2> QED
    BY <2>1, <2>2, <1>4
<1>7. CASE RefreshFails(l)
  <2>1. RefreshReturns(l, s)
    BY <1>2, <1>7 DEF RefreshFails, RefreshReturns, Timer
  <2> QED
    BY <2>1, <1>4
<1>8. CASE ExpireLogin(l)
  <2>1. PICK t \in SessionType :
            /\ t = [s EXCEPT !.token = "none",
                             !.state = IF @ = "Active" THEN "Failed" ELSE @]
            /\ t.label = s.label
    BY SessionChanges
  <2>2. Timer(l, t)
    BY <1>2, <1>8, <2>1 DEF ExpireLogin, Timer
  <2> QED
    BY <1>1, <1>2, <2>1, <2>2, TimerStepInv
<1> QED
  BY <1>3, <1>5, <1>6, <1>7, <1>8 DEF Refresh

-----------------------------------------------------------------------------
(* The invariant.                                                          *)

\* What a secret may contain is a label or nothing.
LEMMA Contents ==
    ASSUME NEW s \in Secrets \cup {MainSecret}, NEW content \in MayHold[s]
    PROVE  content \in Labels \cup {Missing}
<1>1. content \in UNION {MayHold[t] : t \in Secrets \cup {MainSecret}}
  BY Zenon
<1> QED
  BY <1>1 DEF Labels

\* Nothing has been stored or made.
LEMMA EmptyCache ==
    ASSUME store = [l \in Labels |-> 0], session = <<>>, lock = "none",
           client = [c \in AllClients |-> Idle],
           secret \in [Secrets \cup {MainSecret} -> Labels \cup {Missing}],
           changes \in 0..MaxChanges
    PROVE  IInv
<1>1. session \in Seq(SessionType) /\ Len(session) = 0
  BY EmptySeq
<1>2. client \in [AllClients -> ClientType]
      /\ \A c \in AllClients : client[c].pc = "idle" /\ client[c].session = 0
  BY Sessionless DEF Idle
<1> QED
  BY <1>1, <1>2 DEF IInv, TypeOK, Types, References, Unique, Labelled, Held,
                    Registered

\* The invariant holds initially.
LEMMA InitInv == Init => IInv
  BY BoundNat, EmptyCache DEF Init

\* An edit of a secret disturbs nothing, a restart forgets everything.
LEMMA SurroundingsInv ==
    IInv /\ (Restart \/ \E s \in DOMAIN secret : EditSecret(s)) => IInv'
<1>1. ASSUME IInv, NEW s \in DOMAIN secret, EditSecret(s) PROVE IInv'
  <2>1. s \in Secrets \cup {MainSecret}
    BY <1>1 DEF IInv, TypeOK, Types
  <2>2. PICK content \in Labels \cup {Missing} :
            secret' = [secret EXCEPT ![s] = content]
    BY <1>1, <2>1, Contents DEF EditSecret
  <2>3. changes' \in 0..MaxChanges
    BY <1>1, BoundNat DEF EditSecret, IInv, TypeOK, Types
  <2>4. UNCHANGED <<store, session, lock, client>>
    BY <1>1 DEF EditSecret
  <2>5. TypeOK'
    BY <1>1, <2>2, <2>3, <2>4 DEF IInv, TypeOK, Types, References
  <2> QED
    BY <1>1, <2>4, <2>5, UniqueKept DEF IInv, Unique, Held, SameLabels
<1>2. ASSUME IInv, Restart PROVE IInv'
  <2>1. changes' \in 0..MaxChanges
    BY <1>2, BoundNat DEF Restart, IInv, TypeOK, Types
  <2>2. session' \in Seq(SessionType) /\ Len(session') = 0
    BY <1>2, EmptySeq DEF Restart
  <2>3. /\ client' \in [AllClients -> ClientType]
        /\ \A c \in AllClients :
              client'[c].pc = "idle" /\ client'[c].session = 0
    BY <1>2, Sessionless DEF Restart, Idle
  <2>4. /\ store' = [l \in Labels |-> 0] /\ lock' = "none"
        /\ UNCHANGED secret
    BY <1>2 DEF Restart
  <2> QED
    BY <1>2, <2>1, <2>2, <2>3, <2>4
       DEF IInv, TypeOK, Types, References, Unique, Labelled, Held, Registered
<1> QED
  BY <1>1, <1>2

\* The invariant is inductive.
LEMMA StepInv == IInv /\ [Next]_vars => IInv'
<1> SUFFICES ASSUME IInv, [Next]_vars PROVE IInv'
  OBVIOUS
<1>1. CASE MainNewClient
  BY <1>1, ReadCredentialInv DEF MainNewClient, AllClients
<1>2. CASE \E w \in Workers, s \in Secrets : NewClient(w, s)
  BY <1>2, ReadCredentialInv DEF NewClient, AllClients
<1>3. CASE MainRequest \/ \E c \in AllClients : Precheck(c) \/ Send(c)
  BY <1>3, RequestsInv
<1>4. CASE \E c \in AllClients : Lookup(c) \/ ProvideCredential(c) \/ Exchange(c)
  BY <1>4, LookupInv, ProvideCredentialInv, ExchangeInv
<1>5. CASE \E l \in Labels : FireRefreshTimer(l) \/ Refresh(l) \/ ExpireLogin(l)
  BY <1>5, TimerInv
<1>6. CASE Restart \/ \E s \in DOMAIN secret : EditSecret(s)
  BY <1>6, SurroundingsInv
<1>7. CASE UNCHANGED vars
  BY <1>7 DEF vars, IInv, TypeOK, Types, References, Unique, Labelled, Held,
              Session, Registered
<1> QED
  BY <1>1, <1>2, <1>3, <1>4, <1>5, <1>6, <1>7 DEF Next, ClientStep

\* Every variable stays in its range, and clients and cache refer to sessions
\* that exist, whoever holds the lock.
THEOREM TypeCorrect == Spec => []TypeOK
<1>1. IInv => TypeOK
  BY DEF IInv
<1> QED
  BY <1>1, InitInv, StepInv, PTL DEF Spec

\* GetSession gives every credential one session, however many clients come
\* with it at a time and however long the first exchange takes.
THEOREM OneSessionEach == Spec => []OneSession
<1>1. IInv => OneSession
  BY AtMostOne, LenProperties DEF OneSession, IInv, TypeOK, Types
<1> QED
  BY <1>1, InitInv, StepInv, PTL DEF Spec

-----------------------------------------------------------------------------
(* Whose token a request carries.  A session is found by the credential that *)
(* a client has read, and may get its token from another secret, its source. *)
(* That is the client's own as long as secrets with a content in common may  *)
(* hold the same contents: each has credentials of its own, or is a copy.    *)

AllSecrets == Secrets \cup {MainSecret}

Apart ==
    \A s, t \in AllSecrets :
        (MayHold[s] \cap MayHold[t]) \ {Missing} # {} =>
            MayHold[s] \ {Missing} = MayHold[t] \ {Missing}

\* Every secret that may hold the label l may hold the credential.
Serving(l, cred) == \A s \in AllSecrets : l \in MayHold[s] => cred \in MayHold[s]

Proper(s) ==
    /\ s.label \in MayHold[s.source]
    /\ s.token # "none" => Serving(s.label, s.token)
    /\ s.exchanging # "none" => Serving(s.label, s.exchanging)

Holding == \A s \in AllSecrets : secret[s] \in MayHold[s]

ProperSessions == \A i \in 1..Len(session) : Proper(session[i])

\* What client value v holds is from its own secret.
OwnClient(v) ==
    /\ v.pc = "lock" => v.cred \in MayHold[v.secret]
    /\ v.session # 0 => session[v.session].label \in MayHold[v.secret]
    /\ v.pc = "exchange" => Serving(session[v.session].label, v.cred)

OInv ==
    /\ Holding
    /\ ProperSessions
    /\ \A c \in AllClients : OwnClient(client[c])

\* What the source of a session provides serves all who come with its label.
LEMMA SourceServes ==
    ASSUME Apart, IInv, OInv, NEW i \in 1..Len(session),
           SourceCredential(i) \in Credentials
    PROVE  Serving(session[i].label, SourceCredential(i))
<1>1. PICK s \in SessionType : s = session[i]
  BY ElementOfSeq DEF IInv, TypeOK, Types
<1>2. s.source \in AllSecrets /\ s.label \in Labels
  BY <1>1 DEF SessionType, AllSecrets
<1>3. s.label \in MayHold[s.source] /\ s.label # Missing
  BY <1>1, <1>2 DEF OInv, ProperSessions, Proper, Labels
<1>4. PICK cred \in Credentials : cred = secret[s.source]
  BY <1>1 DEF SourceCredential
<1>5. cred \in MayHold[s.source] /\ cred # Missing
  BY <1>2, <1>4, ContentsKnown DEF OInv, Holding
<1>6. Serving(s.label, cred)
  BY <1>2, <1>3, <1>5 DEF Apart, Serving
<1> QED
  BY <1>1, <1>4, <1>6 DEF SourceCredential

\* The other clients and the older sessions of a client's step stay as they are.
LEMMA ClientOwns ==
    ASSUME IInv, OInv, Holding', ProperSessions', NEW c \in AllClients,
           \A i \in 1..Len(session) : session'[i].label = session[i].label,
           \A d \in AllClients : d # c => client'[d] = client[d],
           OwnClient(client[c])'
    PROVE  OInv'
<1>1. ASSUME NEW d \in AllClients, d # c PROVE OwnClient(client[d])'
  <2>1. PICK v \in ClientType : v = client[d]
    BY DEF IInv, TypeOK, Types
  <2>2. client'[d] = v /\ OwnClient(v)
    BY <1>1, <2>1 DEF OInv
  <2>3. v.session # 0 => v.session \in 1..Len(session)
    BY <2>1, ClientParts, LenProperties DEF IInv, TypeOK, Types, References
  <2>4. v.pc = "exchange" => v.session # 0
    BY <2>1 DEF IInv, TypeOK, References
  <2> QED
    BY <2>2, <2>3, <2>4 DEF OwnClient
<1> QED
  BY <1>1 DEF OInv

\* A client that goes on with its session, or without one, has nothing new.
LEMMA GoesOn ==
    ASSUME IInv, OInv, Holding', ProperSessions', SameLabels,
           NEW c \in AllClients,
           \A d \in AllClients : d # c => client'[d] = client[d],
           client'[c].pc \notin {"lock", "exchange"},
           \/ client'[c].session = 0
           \/ /\ client'[c].session = client[c].session
              /\ client'[c].secret = client[c].secret
    PROVE  OInv'
<1>1. PICK v \in ClientType : v = client[c]
  BY DEF IInv, TypeOK, Types
<1>2. v.session # 0 => v.session \in 1..Len(session)
  BY <1>1, ClientParts, LenProperties DEF IInv, TypeOK, Types, References
<1>3. OwnClient(client[c])'
  BY <1>1, <1>2 DEF OInv, OwnClient, SameLabels
<1> QED
  BY <1>3, ClientOwns DEF SameLabels

\* So has one that ends its requests or goes to another step.
LEMMA WalksOn ==
    ASSUME IInv, OInv, ProperSessions', SameLabels, secret' = secret,
           NEW c \in AllClients,
           \/ \E step \in {"provide", "precheck", "send", "idle"} : Goto(c, step)
           \/ EndRequests(c)
    PROVE  OInv'
<1>1. Holding'
  BY DEF OInv, Holding
<1>2. CASE \E step \in {"provide", "precheck", "send", "idle"} : Goto(c, step)
  <2>1. PICK step \in {"provide", "precheck", "send", "idle"} : Goto(c, step)
    BY <1>2
  <2>2. step \in Steps \ {"lock", "exchange"}
    BY DEF Steps
  <2>3. /\ client'[c].pc = step /\ client'[c].session = client[c].session
        /\ client'[c].secret = client[c].secret
        /\ \A d \in AllClients : d # c => client'[d] = client[d]
    BY <2>1, <2>2, WentTo DEF IInv
  <2> QED
    BY <1>1, <2>3, GoesOn
<1>3. CASE EndRequests(c)
  BY <1>1, <1>3, Ended, GoesOn DEF IInv
<1> QED
  BY <1>2, <1>3

\* A session that changes keeps its label.
LEMMA SessionOwns ==
    ASSUME IInv, OInv, NEW i \in 1..Len(session), NEW s \in SessionType,
           session' = [session EXCEPT ![i] = s], s.label = session[i].label,
           Proper(s)
    PROVE  ProperSessions' /\ SameLabels
<1>1. SameLabels
  BY SessionReplaced DEF IInv
<1>2. \A j \in 1..Len(session) : session'[j] = IF j = i THEN s ELSE session[j]
  BY ExceptSeq DEF IInv, TypeOK, Types
<1>3. Len(session') = Len(session)
  BY <1>1 DEF SameLabels
<1>4. \A j \in 1..Len(session) : Proper(session'[j])
  BY <1>2 DEF OInv, ProperSessions
<1> QED
  BY <1>1, <1>3, <1>4 DEF ProperSessions, Proper, Serving

\* What the exchange, the timers and a new source make of a proper session.
LEMMA ProperChanges ==
    ASSUME NEW s \in SessionType, Proper(s)
    PROVE  /\ \A cred \in Credentials : Serving(s.label, cred) =>
                  /\ Proper(Stored(s, cred))
                  /\ Proper([s EXCEPT !.exchanging = cred])
           /\ Proper(Refused(s))
           /\ Proper([s EXCEPT !.exchanging = "none"])
           /\ Proper([s EXCEPT !.token = "none",
                               !.state = IF @ = "Active" THEN "Failed" ELSE @])
           /\ \A src \in AllSecrets :
                  s.label \in MayHold[src] => Proper([s EXCEPT !.source = src])
<1>1. ASSUME NEW cred \in Credentials, Serving(s.label, cred)
      PROVE  /\ Proper(Stored(s, cred))
             /\ Proper([s EXCEPT !.exchanging = cred])
  <2>1. /\ Stored(s, cred).label = s.label
        /\ Stored(s, cred).source = s.source
        /\ Stored(s, cred).token = cred
        /\ Stored(s, cred).exchanging = s.exchanging
    BY DEF SessionType, Stored
  <2>2. Proper(Stored(s, cred))
    BY <1>1, <2>1 DEF Proper
  <2>3. Proper([s EXCEPT !.exchanging = cred])
    BY <1>1 DEF Proper, SessionType
  <2> QED
    BY <2>2, <2>3
<1>2. Proper(Refused(s))
  BY DEF Proper, Refused, SessionType
<1>3. Proper([s EXCEPT !.exchanging = "none"])
  BY DEF Proper, SessionType
<1>4. Proper([s EXCEPT !.token = "none",
                       !.state = IF @ = "Active" THEN "Failed" ELSE @])
  BY DEF Proper, SessionType
<1>5. ASSUME NEW src \in AllSecrets, s.label \in MayHold[src]
      PROVE  Proper([s EXCEPT !.source = src])
  BY <1>5 DEF Proper, SessionType
<1> QED
  BY <1>1, <1>2, <1>3, <1>4, <1>5

\* A client holds what it has read from its secret.
LEMMA ReadCredentialOwns ==
    ASSUME IInv, OInv, NEW c \in AllClients, NEW s \in AllSecrets,
           ReadCredential(c, s), UNCHANGED <<secret, session>>
    PROVE  OInv'
<1>1. PICK cred \in Labels \cup {Missing} : cred = secret[s]
  BY DEF IInv, TypeOK, Types, AllSecrets
<1>2. PICK v : v = IF cred # Missing THEN Client(s, "lock", cred, 0)
                   ELSE IF c = Main THEN Client(s, "disabled", Missing, 0)
                   ELSE Idle
  OBVIOUS
<1>3. /\ v.session = 0 /\ v.pc # "exchange"
      /\ v.pc = "lock" => v.cred \in MayHold[v.secret]
  <2>1. CASE cred # Missing
    <3>1. v = Client(s, "lock", cred, 0)
      BY <1>2, <2>1
    <3>2. /\ s \in Secrets \cup {MainSecret} /\ "lock" \in Steps
          /\ cred \in Labels \cup Credentials \cup {Missing} /\ 0 \in Nat
      BY DEF AllSecrets, Steps
    <3>3. v.session = 0 /\ v.pc = "lock" /\ v.cred = cred /\ v.secret = s
      BY <3>1, <3>2, ClientFields
    <3>4. cred \in MayHold[s]
      BY <1>1 DEF OInv, Holding
    <3> QED
      BY <3>3, <3>4
  <2>2. CASE cred = Missing /\ c = Main
    <3>1. v = Client(s, "disabled", Missing, 0)
      BY <1>2, <2>2
    <3> QED
      BY <3>1, Sessionless DEF AllSecrets
  <2>3. CASE cred = Missing /\ c # Main
    <3>1. v = Client(MainSecret, "idle", Missing, 0)
      BY <1>2, <2>3 DEF Idle
    <3> QED
      BY <3>1, Sessionless
  <2> QED
    BY <2>1, <2>2, <2>3
<1>4. client' = [client EXCEPT ![c] = v]
  BY <1>1, <1>2 DEF ReadCredential
<1>5. /\ client'[c] = v
      /\ \A d \in AllClients : d # c => client'[d] = client[d]
  BY <1>4 DEF IInv, TypeOK, Types
<1>6. OwnClient(client[c])'
  BY <1>3, <1>5 DEF OwnClient
<1>7. Holding' /\ ProperSessions'
  BY DEF OInv, Holding, ProperSessions, Proper, Serving
<1> QED
  BY <1>5, <1>6, <1>7, ClientOwns

\* A new session and a new source are of the credential that the client has
\* read.
LEMMA LookupOwns ==
    ASSUME IInv, OInv, NEW c \in AllClients, Lookup(c)
    PROVE  OInv'
<1>1. client[c].pc = "lock" /\ UNCHANGED secret
  BY DEF Lookup
<1>2. PICK l \in Labels : l = client[c].cred
  BY <1>1 DEF IInv, TypeOK, References
<1>3. PICK src \in AllSecrets : src = client[c].secret
  BY ClientParts DEF IInv, TypeOK, Types, AllSecrets
<1>4. l \in MayHold[src]
  BY <1>1, <1>2, <1>3 DEF OInv, OwnClient
<1>5. Len(session) \in Nat /\ \A k \in Labels : store[k] \in 0..Len(session)
  BY LenProperties DEF IInv, TypeOK, Types, References
<1>6. Holding'
  BY <1>1 DEF OInv, Holding
<1>7. CASE AddSession(c)
  <2>1. PICK n \in Nat : n = Len(session) + 1
    BY <1>5
  <2>2. PICK s : s = NewSession(l, src)
    OBVIOUS
  <2>3. s \in SessionType /\ s.label = l /\ Proper(s)
    BY <1>3, <1>4, <2>2 DEF NewSession, SessionType, LoginState, Proper, AllSecrets
  <2>4. session' = Append(session, s) /\ GotoWith(c, "provide", n)
    BY <1>2, <1>3, <1>7, <2>1, <2>2 DEF AddSession, GotoWith
  <2>5. /\ client'[c].pc = "provide" /\ client'[c].session = n
        /\ client'[c].secret = src
        /\ \A d \in AllClients : d # c => client'[d] = client[d]
    BY <1>3, <2>4, Moved DEF IInv, Steps
  <2>6. /\ Len(session') = n /\ session'[n] = s
        /\ \A i \in 1..Len(session) : session'[i] = session[i]
    BY <2>1, <2>3, <2>4, AppendProperties DEF IInv, TypeOK, Types
  <2>7. \A i \in 1..n : Proper(session'[i])
    <3>1. \A i \in 1..n : i = n \/ i \in 1..Len(session)
      BY <1>5, <2>1
    <3> QED
      BY <2>3, <2>6, <3>1 DEF OInv, ProperSessions
  <2>8. ProperSessions'
    BY <2>6, <2>7 DEF ProperSessions, Proper, Serving
  <2>9. OwnClient(client[c])'
    BY <1>4, <2>3, <2>5, <2>6 DEF OwnClient
  <2> QED
    BY <1>6, <2>5, <2>6, <2>8, <2>9, ClientOwns
<1>8. CASE FindSession(c)
  <2>1. PICK i \in 1..Len(session) : i = store[l]
    BY <1>2, <1>5, <1>8 DEF FindSession
  <2>2. PICK old \in SessionType : old = session[i]
    BY <2>1, ElementOfSeq DEF IInv, TypeOK, Types
  <2>3. old.label = l /\ Proper(old)
    BY <2>1, <2>2 DEF IInv, Unique, Labelled, OInv, ProperSessions
  <2>4. ProperSessions' /\ SameLabels
    <3>1. PICK s \in SessionType : s = [old EXCEPT !.source = src]
                                 /\ s.label = old.label
      BY <1>3, SourceReplaced DEF AllSecrets
    <3>2. Proper(s)
      BY <1>3, <1>4, <2>3, <3>1, ProperChanges
    <3>3. CASE session' = [session EXCEPT ![i] = s]
      BY <2>2, <3>1, <3>2, <3>3, SessionOwns
    <3>4. CASE session' = session
      BY <3>4 DEF OInv, ProperSessions, Proper, Serving, SameLabels
    <3>5. session' = [session EXCEPT ![i] = s] \/ session' = session
      BY <1>2, <1>3, <1>8, <2>1, <2>2, <3>1 DEF FindSession
    <3> QED
      BY <3>3, <3>4, <3>5
  <2>5. PICK step \in {"provide", "precheck"} : GotoWith(c, step, i)
    BY <1>2, <1>8, <2>1 DEF FindSession, GotoWith
  <2>6. /\ client'[c].pc = step /\ client'[c].session = i
        /\ client'[c].secret = src
        /\ \A d \in AllClients : d # c => client'[d] = client[d]
    BY <1>3, <2>1, <2>5, Moved DEF IInv, Steps
  <2>7. OwnClient(client[c])'
    BY <1>4, <2>2, <2>3, <2>4, <2>6 DEF OwnClient, SameLabels
  <2> QED
    BY <1>6, <2>4, <2>6, <2>7, ClientOwns DEF SameLabels
<1> QED
  BY <1>7, <1>8 DEF Lookup

\* The end of login() gives a client nothing.
LEMMA ReturnOwns ==
    ASSUME IInv, OInv, NEW c \in AllClients, NEW state,
           ProperSessions', SameLabels, secret' = secret, Return(c, state)
    PROVE  OInv'
<1>1. Goto(c, "precheck") \/ Goto(c, "send") \/ EndRequests(c)
  BY DEF Return
<1> QED
  BY <1>1, WalksOn

\* The credential that a login exchanges is the source's, and serves its client.
LEMMA ProvideCredentialOwns ==
    ASSUME Apart, IInv, OInv, NEW c \in AllClients, ProvideCredential(c)
    PROVE  OInv'
<1> DEFINE here == SourceCredential(client[c].session)
<1>1. client[c].pc = "provide" /\ UNCHANGED <<secret, session>>
  BY DEF ProvideCredential
<1>2. Holding' /\ ProperSessions' /\ SameLabels
  BY <1>1 DEF OInv, Holding, ProperSessions, Proper, Serving, SameLabels
<1>3. CASE here \in Credentials
  <2>1. PICK cred \in Credentials : cred = here
    BY <1>3
  <2>2. PICK s \in AllSecrets : s = client[c].secret
    BY ClientParts DEF IInv, TypeOK, Types, AllSecrets
  <2>3. PICK n \in 1..Len(session) : n = client[c].session
    BY <1>1, ClientParts, LenProperties DEF IInv, TypeOK, Types, References
  <2>4. Serving(session[n].label, cred)
    BY <2>1, <2>3, SourceServes
  <2>5. session[n].label \in MayHold[s]
    BY <2>2, <2>3 DEF OInv, OwnClient
  <2>6. PICK v : v = Client(s, "exchange", cred, n)
    OBVIOUS
  <2>7. /\ v.pc = "exchange" /\ v.cred = cred /\ v.session = n
        /\ v.secret = s
    <3>1. /\ s \in Secrets \cup {MainSecret} /\ "exchange" \in Steps
          /\ cred \in Labels \cup Credentials \cup {Missing} /\ n \in Nat
      BY DEF AllSecrets, Steps
    <3> QED
      BY <2>6, <3>1, ClientFields
  <2>8. client' = [client EXCEPT ![c] = v]
    BY <1>3, <2>1, <2>2, <2>3, <2>6 DEF ProvideCredential
  <2>9. /\ client'[c] = v
        /\ \A d \in AllClients : d # c => client'[d] = client[d]
    BY <2>8 DEF IInv, TypeOK, Types
  <2>10. OwnClient(client[c])'
    BY <1>1, <2>4, <2>5, <2>7, <2>9 DEF OwnClient, Serving
  <2> QED
    BY <1>2, <2>9, <2>10, ClientOwns DEF SameLabels
<1>4. CASE here \notin Credentials
  <2>1. PICK state : state = Session(c).state
    OBVIOUS
  <2>2. Return(c, state)
    BY <1>4, <2>1 DEF ProvideCredential, Return
  <2> QED
    BY <1>1, <1>2, <2>2, ReturnOwns
<1> QED
  BY <1>3, <1>4

\* The answer to the token exchange is for the session of the client.
LEMMA ExchangeReturnsOwns ==
    ASSUME IInv, OInv, NEW c \in AllClients, NEW s \in SessionType,
           s.label = Session(c).label, Proper(s), ExchangeReturns(c, s)
    PROVE  OInv'
<1>1. client[c].pc = "exchange" /\ UNCHANGED secret
  BY DEF ExchangeReturns
<1>2. PICK n \in 1..Len(session) : n = client[c].session
  BY <1>1, ClientParts, LenProperties DEF IInv, TypeOK, Types, References
<1>3. session' = [session EXCEPT ![n] = s] /\ s.label = session[n].label
  BY <1>2 DEF ExchangeReturns, Session
<1>4. ProperSessions' /\ SameLabels
  BY <1>3, SessionOwns
<1>5. PICK state : state = s.state
  OBVIOUS
<1>6. Return(c, state)
  BY <1>5 DEF ExchangeReturns, Return
<1> QED
  BY <1>1, <1>4, <1>6, ReturnOwns

\* Whatever it is.
LEMMA ExchangeOwns ==
    ASSUME IInv, OInv, NEW c \in AllClients, Exchange(c)
    PROVE  OInv'
<1>1. client[c].pc = "exchange"
  BY DEF Exchange, ExchangeOK, ExchangeRefused, ExchangeFails, ExchangeReturns
<1>2. PICK cred \in Credentials : cred = client[c].cred
  BY <1>1 DEF IInv, TypeOK, References
<1>3. PICK n \in 1..Len(session) : n = client[c].session
  BY <1>1, ClientParts, LenProperties DEF IInv, TypeOK, Types, References
<1>4. PICK s \in SessionType : s = session[n]
  BY ElementOfSeq DEF IInv, TypeOK, Types
<1>5. s = Session(c)
  BY <1>3, <1>4 DEF Session
<1>6. Proper(s) /\ Serving(s.label, cred)
  BY <1>1, <1>2, <1>3, <1>4 DEF OInv, ProperSessions, OwnClient
<1>7. CASE ExchangeOK(c)
  <2>1. PICK t \in SessionType : t = Stored(s, cred) /\ t.label = s.label
    BY CredentialExchanged
  <2>2. ExchangeReturns(c, t)
    BY <1>2, <1>5, <1>7, <2>1 DEF ExchangeOK, ExchangeReturns
  <2>3. Proper(t)
    BY <1>6, <2>1, ProperChanges
  <2> QED
    BY <1>5, <2>1, <2>2, <2>3, ExchangeReturnsOwns
<1>8. CASE ExchangeRefused(c)
  <2>1. PICK t \in SessionType : t = Refused(s) /\ t.label = s.label
    BY SessionChanges
  <2>2. ExchangeReturns(c, t)
    BY <1>5, <1>8, <2>1 DEF ExchangeRefused, ExchangeReturns
  <2>3. Proper(t)
    BY <1>6, <2>1, ProperChanges
  <2> QED
    BY <1>5, <2>1, <2>2, <2>3, ExchangeReturnsOwns
<1>9. CASE ExchangeFails(c)
  <2>1. ExchangeReturns(c, s)
    BY <1>5, <1>9 DEF ExchangeFails, ExchangeReturns
  <2> QED
    BY <1>5, <1>6, <2>1, ExchangeReturnsOwns
<1> QED
  BY <1>7, <1>8, <1>9 DEF Exchange

\* Requests give a client nothing.
LEMMA RequestsOwn ==
    ASSUME IInv, OInv,
           MainRequest \/ \E c \in AllClients : Precheck(c) \/ Send(c)
    PROVE  OInv'
<1>1. UNCHANGED <<secret, session>>
  BY DEF MainRequest, Precheck, Send
<1>2. ProperSessions' /\ SameLabels
  BY <1>1 DEF OInv, ProperSessions, Proper, Serving, SameLabels
<1>3. CASE MainRequest
  BY <1>1, <1>2, <1>3, WalksOn DEF MainRequest, AllClients
<1>4. CASE \E c \in AllClients : Send(c)
  BY <1>1, <1>2, <1>4, WalksOn DEF Send
<1>5. ASSUME NEW c \in AllClients, Precheck(c) PROVE OInv'
  <2>1. client[c].session \in 1..Len(session)
    BY <1>5, ClientParts, LenProperties
       DEF IInv, TypeOK, Types, References, Precheck
  <2>2. PICK s \in SessionType : s = Session(c)
    BY <2>1, ElementOfSeq DEF IInv, TypeOK, Types, Session
  <2>3. Session(c).state \in LoginState
    BY <2>2 DEF SessionType
  <2>4. Goto(c, "provide") \/ Goto(c, "send") \/ EndRequests(c)
    BY <1>5, <2>3 DEF Precheck, LoginState
  <2> QED
    BY <1>1, <1>2, <2>4, WalksOn
<1> QED
  BY <1>3, <1>4, <1>5

\* A timer changes its session alone.
LEMMA TimerStepOwns ==
    ASSUME IInv, OInv, NEW l \in Labels, store[l] # 0, NEW s \in SessionType,
           s.label = session[store[l]].label, Proper(s), Timer(l, s)
    PROVE  OInv'
<1>1. PICK i \in 1..Len(session) : i = store[l]
  BY LenProperties DEF IInv, TypeOK, Types, References
<1>2. session' = [session EXCEPT ![i] = s] /\ s.label = session[i].label
  BY <1>1 DEF Timer
<1>3. ProperSessions' /\ SameLabels
  BY <1>2, SessionOwns
<1>4. secret' = secret /\ client' = client
  BY DEF Timer
<1>5. Holding'
  BY <1>4 DEF OInv, Holding
<1>6. ASSUME NEW c \in AllClients PROVE OwnClient(client[c])'
  <2>1. PICK v \in ClientType : v = client[c]
    BY DEF IInv, TypeOK, Types
  <2>2. client'[c] = v /\ OwnClient(v)
    BY <1>4, <2>1 DEF OInv
  <2>3. v.session # 0 => v.session \in 1..Len(session)
    BY <2>1, ClientParts, LenProperties DEF IInv, TypeOK, Types, References
  <2>4. v.pc = "exchange" => v.session # 0
    BY <2>1 DEF IInv, TypeOK, References
  <2> QED
    BY <1>3, <2>2, <2>3, <2>4 DEF OwnClient, SameLabels
<1> QED
  BY <1>3, <1>5, <1>6 DEF OInv

\* The refresh timer exchanges what the source provides; expiry only takes away.
LEMMA TimersOwn ==
    ASSUME Apart, IInv, OInv, NEW l \in Labels,
           FireRefreshTimer(l) \/ Refresh(l) \/ ExpireLogin(l)
    PROVE  OInv'
<1>1. store[l] # 0
  BY DEF FireRefreshTimer, Refresh, RefreshOK, RefreshRefused, RefreshFails,
         RefreshReturns, Refreshing, ExpireLogin
<1>2. PICK i \in 1..Len(session) : i = store[l]
  BY <1>1, LenProperties DEF IInv, TypeOK, Types, References
<1>3. PICK s \in SessionType : s = session[store[l]]
  BY <1>2, ElementOfSeq DEF IInv, TypeOK, Types
<1>4. Proper(s)
  BY <1>2, <1>3 DEF OInv, ProperSessions
<1>5. CASE FireRefreshTimer(l)
  <2>1. PICK cred \in Credentials : cred = SourceCredential(store[l])
    BY <1>5 DEF FireRefreshTimer
  <2>2. Serving(s.label, cred)
    BY <1>2, <1>3, <2>1, SourceServes
  <2>3. PICK t \in SessionType :
            t = [s EXCEPT !.exchanging = cred] /\ t.label = s.label
    BY CredentialExchanged
  <2>4. Timer(l, t)
    BY <1>3, <1>5, <2>1, <2>3 DEF FireRefreshTimer, Timer
  <2>5. Proper(t)
    BY <1>4, <2>2, <2>3, ProperChanges
  <2> QED
    BY <1>1, <1>3, <2>3, <2>4, <2>5, TimerStepOwns
<1>6. ASSUME NEW r \in SessionType, r.label = s.label, Proper(r),
             RefreshReturns(l, r)
      PROVE  OInv'
  <2>1. PICK t \in SessionType :
            t = [r EXCEPT !.exchanging = "none"] /\ t.label = r.label
    BY SessionChanges
  <2>2. Timer(l, t)
    BY <1>6, <2>1 DEF RefreshReturns, Timer
  <2>3. Proper(t)
    BY <1>6, <2>1, ProperChanges
  <2> QED
    BY <1>1, <1>3, <1>6, <2>1, <2>2, <2>3, TimerStepOwns
<1>7. CASE RefreshOK(l)
  <2>1. PICK cred \in Credentials : cred = s.exchanging
    BY <1>3, <1>7 DEF RefreshOK, RefreshReturns, Refreshing
  <2>2. cred # "none" => Serving(s.label, cred)
    BY <1>4, <2>1 DEF Proper
  <2>3. PICK r \in SessionType : r = Stored(s, cred) /\ r.label = s.label
    BY CredentialExchanged
  <2>4. RefreshReturns(l, r)
    BY <1>3, <1>7, <2>1, <2>3 DEF RefreshOK, RefreshReturns, Timer
  <2>5. Proper(r)
    <3>1. r.source = s.source /\ r.token = cred /\ r.exchanging = cred
      BY <2>1, <2>3 DEF Stored, SessionType
    <3> QED
      BY <1>4, <2>2, <2>3, <3>1 DEF Proper
  <2> QED
    BY <2>3, <2>4, <2>5, <1>6
<1>8. CASE RefreshRefused(l)
  <2>1. PICK r \in SessionType : r = Refused(s) /\ r.label = s.label
    BY SessionChanges
  <2>2. RefreshReturns(l, r)
    BY <1>3, <1>8, <2>1 DEF RefreshRefused, RefreshReturns, Timer
  <2>3. Proper(r)
    BY <1>4, <2>1, ProperChanges
  <2> QED
    BY <2>1, <2>2, <2>3, <1>6
<1>9. CASE RefreshFails(l)
  <2>1. RefreshReturns(l, s)
    BY <1>3, <1>9 DEF RefreshFails, RefreshReturns, Timer
  <2> QED
    BY <1>4, <2>1, <1>6
<1>10. CASE ExpireLogin(l)
  <2>1. PICK t \in SessionType :
            /\ t = [s EXCEPT !.token = "none",
                             !.state = IF @ = "Active" THEN "Failed" ELSE @]
            /\ t.label = s.label
    BY SessionChanges
  <2>2. Timer(l, t)
    BY <1>3, <1>10, <2>1 DEF ExpireLogin, Timer
  <2>3. Proper(t)
    BY <1>4, <2>1, ProperChanges
  <2> QED
    BY <1>1, <1>3, <2>1, <2>2, <2>3, TimerStepOwns
<1> QED
  BY <1>5, <1>7, <1>8, <1>9, <1>10 DEF Refresh

\* Nothing has been read, stored or made.
LEMMA NothingOwned ==
    ASSUME session = <<>>, client = [c \in AllClients |-> Idle], Holding
    PROVE  OInv
<1>1. Len(session) = 0
  BY EmptySeq
<1>2. Idle.pc = "idle" /\ Idle.session = 0
  BY Sessionless DEF Idle
<1> QED
  BY <1>1, <1>2 DEF OInv, ProperSessions, OwnClient

\* A secret is edited within what it may hold; a restart forgets the rest.
LEMMA SurroundingsOwn ==
    ASSUME IInv, OInv, Restart \/ \E s \in DOMAIN secret : EditSecret(s)
    PROVE  OInv'
<1>1. ASSUME NEW s \in DOMAIN secret, EditSecret(s) PROVE OInv'
  <2>1. PICK content \in MayHold[s] :
            secret' = [secret EXCEPT ![s] = content]
    BY <1>1 DEF EditSecret
  <2>2. UNCHANGED <<session, client>>
    BY <1>1 DEF EditSecret
  <2>3. Holding'
    BY <2>1 DEF IInv, TypeOK, Types, OInv, Holding, AllSecrets
  <2> QED
    BY <2>2, <2>3 DEF OInv, ProperSessions, Proper, Serving, OwnClient
<1>2. ASSUME Restart PROVE OInv'
  <2>1. /\ session' = <<>> /\ client' = [c \in AllClients |-> Idle]
        /\ secret' = secret
    BY <1>2 DEF Restart
  <2>2. Len(session') = 0 /\ Idle.pc = "idle" /\ Idle.session = 0
    BY <2>1, EmptySeq, Sessionless DEF Idle
  <2> QED
    BY <2>1, <2>2 DEF OInv, Holding, ProperSessions, OwnClient
<1> QED
  BY <1>1, <1>2

\* The invariant is inductive.
LEMMA StepOwns == Apart /\ IInv /\ OInv /\ [Next]_vars => OInv'
<1> SUFFICES ASSUME Apart, IInv, OInv, [Next]_vars PROVE OInv'
  OBVIOUS
<1>1. CASE MainNewClient \/ \E w \in Workers, s \in Secrets : NewClient(w, s)
  BY <1>1, ReadCredentialOwns DEF MainNewClient, NewClient, AllClients, AllSecrets
<1>2. CASE MainRequest \/ \E c \in AllClients : Precheck(c) \/ Send(c)
  BY <1>2, RequestsOwn
<1>3. CASE \E c \in AllClients : Lookup(c) \/ ProvideCredential(c) \/ Exchange(c)
  BY <1>3, LookupOwns, ProvideCredentialOwns, ExchangeOwns
<1>4. CASE \E l \in Labels : FireRefreshTimer(l) \/ Refresh(l) \/ ExpireLogin(l)
  BY <1>4, TimersOwn
<1>5. CASE Restart \/ \E s \in DOMAIN secret : EditSecret(s)
  BY <1>5, SurroundingsOwn
<1>6. CASE UNCHANGED vars
  BY <1>6 DEF vars, OInv, Holding, ProperSessions, Proper, Serving, OwnClient
<1> QED
  BY <1>1, <1>2, <1>3, <1>4, <1>5, <1>6 DEF Next, ClientStep

\* A request carries a token of its client's own secret or none, if secrets
\* that may have a content in common may hold the same ones: the sources that a
\* session has had, and the exchanges under way when they changed, do not mix
\* up accounts that keep their credentials apart.
THEOREM OwnTokenWhenApart == ASSUME Apart PROVE Spec => []OwnToken
<1>1. Init => OInv
  <2> SUFFICES ASSUME Init PROVE OInv
    OBVIOUS
  <2>1. Holding
    BY DEF Init, Holding, AllSecrets
  <2> QED
    BY <2>1, NothingOwned DEF Init
<1>2. IInv /\ OInv => OwnToken
  <2> SUFFICES ASSUME IInv, OInv, NEW c \in AllClients, client[c].pc = "send"
               PROVE  Session(c).token \in MayHold[client[c].secret] \cup {"none"}
    BY DEF OwnToken
  <2>1. PICK n \in 1..Len(session) : n = client[c].session
    BY ClientParts, LenProperties DEF IInv, TypeOK, Types, References
  <2>2. client[c].secret \in AllSecrets
    BY ClientParts DEF IInv, TypeOK, Types, AllSecrets
  <2>3. Proper(session[n]) /\ session[n].label \in MayHold[client[c].secret]
    BY <2>1 DEF OInv, ProperSessions, OwnClient
  <2> QED
    BY <2>1, <2>2, <2>3 DEF Proper, Serving, Session
<1>3. IInv /\ OInv /\ [Next]_vars => IInv' /\ OInv'
  BY StepInv, StepOwns
<1> QED
  BY <1>1, <1>2, <1>3, InitInv, PTL DEF Spec

===============================================================================
