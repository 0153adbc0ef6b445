-------------------------- MODULE HttpsServerProofs --------------------------
(***************************************************************************)
(* Proofs about the accept loop and its sessions, for any number of        *)
(* session objects, any limit of connections and any requests.             *)
(***************************************************************************)
EXTENDS HttpsServer, FiniteSetTheorems, TLAPS

-----------------------------------------------------------------------------
(* The inductive invariant.                                                *)

Outcomes == {Pending, Success, Failure, EndOfStream} \cup {Request(r) : r \in Requests}

SessionStates ==
  [op : {"none", "handshake", "read", "write", "shutdown"}, outcome : Outcomes, armed : BOOLEAN,
   expired : BOOLEAN, closeAfterWrite : BOOLEAN, stopped : BOOLEAN]

TypeOK ==
  /\ startedOnce \in BOOLEAN /\ ready \in BOOLEAN
  /\ accept \in {"none", "waiting", "accepted", "failed"}
  /\ sessions \subseteq Objects
  /\ session \in [Objects -> SessionStates]

\* Before start there is neither an accept nor a session.
IdleBeforeStart == ~startedOnce => ~ready /\ accept = "none" /\ sessions = {}

IInv == TypeOK /\ IdleBeforeStart /\ ConnectionsAccounted

-----------------------------------------------------------------------------
(* Lemmas on the operations of a session.                                  *)

\* A session that is not stopped waits for an operation whose end is certain:
\* its timer runs, or a handler is queued.
Awaited(s) ==
  ~s.stopped => s.op # "none" /\ (s.armed \/ s.expired \/ s.outcome # Pending)

\* An object without a session counts as stopped.
LEMMA NoSessionFacts == NoSession \in SessionStates /\ NoSession.stopped
BY DEF NoSession, SessionStates, Outcomes

\* An operation that begins arms the timer, so its end is awaited.
LEMMA BeginFacts ==
  ASSUME NEW s \in SessionStates, NEW op \in {"handshake", "read", "write", "shutdown"}
  PROVE  /\ Begin(s, op) \in SessionStates
         /\ Begin(s, op).stopped = s.stopped
         /\ Awaited(Begin(s, op))
BY DEF Begin, armTimer, cancelTimer, SessionStates, Outcomes, Awaited

\* stop ends in a stopped session.
LEMMA StopFacts ==
  ASSUME NEW s \in SessionStates
  PROVE  stop(s) \in SessionStates /\ stop(s).stopped
BY DEF stop, cancelTimer, SessionStates, Outcomes

\* Only stopped sessions are freed.
LEMMA FreedFacts ==
  ASSUME NEW s \in SessionStates
  PROVE  /\ Freed(s) \in SessionStates
         /\ Freed(s).stopped = s.stopped
         /\ ~s.stopped => Freed(s) = s
BY NoSessionFacts DEF Freed, SessionStates

\* A handler leaves its session stopped or waiting for the next operation.
LEMMA HandlerFacts ==
  ASSUME NEW s \in SessionStates, NEW outcome \in Outcomes, ~s.stopped
  PROVE  /\ onHandshake(s, outcome) \in SessionStates /\ Awaited(onHandshake(s, outcome))
         /\ onRead(s, outcome) \in SessionStates /\ Awaited(onRead(s, outcome))
         /\ onWrite(s, outcome) \in SessionStates /\ Awaited(onWrite(s, outcome))
<1>1. /\ readRequest(s) \in SessionStates /\ Awaited(readRequest(s))
      /\ shutdownTls(s) \in SessionStates /\ Awaited(shutdownTls(s))
  BY BeginFacts DEF readRequest, shutdownTls
<1>2. ASSUME NEW k \in BOOLEAN
      PROVE  writeResponse(s, k) \in SessionStates /\ Awaited(writeResponse(s, k))
  <2>1. Begin(s, "write") \in SessionStates /\ Awaited(Begin(s, "write"))
    BY BeginFacts
  <2> QED BY <2>1 DEF writeResponse, SessionStates, Awaited
<1>3. stop(s) \in SessionStates /\ Awaited(stop(s))
  BY StopFacts DEF Awaited
<1>4. \A r : KeepsAlive(r) \in BOOLEAN
  BY DEF KeepsAlive
<1>5. onHandshake(s, outcome) \in {readRequest(s), stop(s)}
  BY DEF onHandshake
<1>6. onWrite(s, outcome) \in {readRequest(s), shutdownTls(s), stop(s)}
  BY DEF onWrite
<1>7. onRead(s, outcome) \in {shutdownTls(s), writeResponse(s, FALSE), writeResponse(s, KeepsAlive(outcome.request))}
  BY DEF onRead
<1>8. /\ writeResponse(s, FALSE) \in SessionStates /\ Awaited(writeResponse(s, FALSE))
      /\ writeResponse(s, KeepsAlive(outcome.request)) \in SessionStates
      /\ Awaited(writeResponse(s, KeepsAlive(outcome.request)))
  BY <1>2, <1>4
<1> QED BY <1>1, <1>3, <1>5, <1>6, <1>7, <1>8

-----------------------------------------------------------------------------
(* Lemmas on the server.                                                   *)

\* The table is a subset of finitely many objects.
LEMMA SessionsFinite ==
  ASSUME TypeOK
  PROVE  IsFiniteSet(sessions) /\ Cardinality(sessions) \in Nat
BY HttpsAssumption, FS_Subset, FS_CardinalityType DEF TypeOK

\* The limit of connections is a positive number.
LEMMA Limit == MaximumConnections \in Nat /\ MaximumConnections >= 1
<1>1. Cardinality(Objects) \in Nat
  BY HttpsAssumption, FS_CardinalityType
<1> QED BY <1>1, HttpsAssumption

\* What ConnectionsAccounted says of the sessions one by one.
LEMMA Accounted ==
  ConnectionsAccounted <=>
    /\ sessions = {c \in Objects : ~session[c].stopped}
    /\ Cardinality(sessions) <= MaximumConnections
    /\ ready => (accept # "none" <=> Cardinality(sessions) < MaximumConnections)
    /\ \A c \in Objects : Awaited(session[c])
BY DEF ConnectionsAccounted, Awaited

\* An operation completes or a timer expires: the session goes on waiting.
LEMMA QueuedPreserves ==
  ASSUME IInv, NEW c \in Objects, NEW s \in SessionStates,
         s.stopped = session[c].stopped, Awaited(s),
         session' = [session EXCEPT ![c] = s],
         UNCHANGED <<startedOnce, ready, accept, sessions>>
  PROVE  IInv'
<1>1. TypeOK' /\ IdleBeforeStart'
  BY DEF IInv, TypeOK, IdleBeforeStart
<1>2. \A d \in Objects : session'[d].stopped = session[d].stopped /\ Awaited(session'[d])
  BY Accounted DEF IInv, TypeOK
<1>3. ConnectionsAccounted'
  BY <1>2 DEF IInv, ConnectionsAccounted, Awaited
<1> QED BY <1>1, <1>3 DEF IInv

\* A handler that leaves its session stopped or waiting keeps the account; one
\* that stops it gives its place back.
LEMMA LeavePreserves ==
  ASSUME IInv, NEW c \in Objects, NEW s \in SessionStates, Awaited(s),
         session[c].stopped => s.stopped,
         Leave(c, s)
  PROVE  IInv'
<1>1. /\ session' = [session EXCEPT ![c] = Freed(s)]
      /\ UNCHANGED <<startedOnce, ready>>
  BY DEF Leave
<1>2. /\ Freed(s) \in SessionStates /\ Freed(s).stopped = s.stopped /\ Awaited(Freed(s))
  BY FreedFacts DEF Awaited
<1>3. CASE s.stopped /\ ~session[c].stopped
  <2>1. sessions' = sessions \ {c} /\ accept' = acceptNext(sessions \ {c}, accept)
    BY <1>3 DEF Leave
  <2>2. c \in sessions
    BY <1>3 DEF IInv, ConnectionsAccounted
  <2>3. /\ IsFiniteSet(sessions) /\ Cardinality(sessions) \in Nat
        /\ Cardinality(sessions \ {c}) = Cardinality(sessions) - 1
    BY <2>2, SessionsFinite, FS_RemoveElement DEF IInv
  <2>4. /\ Cardinality(sessions') = Cardinality(sessions) - 1
        /\ Cardinality(sessions') < MaximumConnections
    BY <2>1, <2>3, Limit DEF IInv, ConnectionsAccounted
  <2>5. /\ accept' \in {"none", "waiting", "accepted", "failed"}
        /\ ready => accept' # "none"
        /\ ~ready => accept' = accept
    BY <2>1, <2>4 DEF acceptNext, MayAccept, IInv, TypeOK
  <2>6. TypeOK'
    BY <1>1, <1>2, <2>1, <2>5 DEF IInv, TypeOK
  <2>7. IdleBeforeStart'
    BY <1>1, <2>1, <2>5 DEF IInv, IdleBeforeStart
  <2>8. \A d \in Objects : /\ Awaited(session'[d])
                           /\ ~session'[d].stopped <=> d \in sessions'
    BY <1>1, <1>2, <1>3, <2>1, Accounted DEF IInv, TypeOK, ConnectionsAccounted
  <2>9. sessions' = {d \in Objects : ~session'[d].stopped}
    BY <2>6, <2>8 DEF TypeOK
  <2>10. ConnectionsAccounted'
    BY <1>1, <2>4, <2>5, <2>8, <2>9, Limit, <2>3 DEF ConnectionsAccounted, Awaited
  <2> QED BY <2>6, <2>7, <2>10 DEF IInv
<1>4. CASE ~(s.stopped /\ ~session[c].stopped)
  <2>1. UNCHANGED <<sessions, accept>> /\ s.stopped = session[c].stopped
    <3>1. UNCHANGED <<sessions, accept>>
      BY <1>4 DEF Leave
    <3>2. s.stopped \in BOOLEAN /\ session[c].stopped \in BOOLEAN
      BY DEF IInv, TypeOK, SessionStates
    <3> QED BY <1>4, <3>1, <3>2
  <2> QED BY <1>1, <1>2, <2>1, QueuedPreserves
<1> QED BY <1>3, <1>4

-----------------------------------------------------------------------------
(* Init and the actions.                                                   *)

\* A server that was not started has neither sessions nor an accept.
LEMMA InitInv == Init => IInv
<1> SUFFICES ASSUME Init PROVE IInv
  OBVIOUS
<1>1. TypeOK /\ IdleBeforeStart
  BY NoSessionFacts DEF Init, TypeOK, IdleBeforeStart
<1>2. sessions = {c \in Objects : ~session[c].stopped}
  BY NoSessionFacts DEF Init
<1>3. Cardinality(sessions) = 0
  BY FS_EmptySet DEF Init
<1> QED BY <1>1, <1>2, <1>3, Limit DEF IInv, ConnectionsAccounted, Init

\* start finds an empty table and begins the first accept.
LEMMA StartPreserves == ASSUME IInv, Start PROVE IInv'
<1>1. sessions = {} /\ Cardinality(sessions) = 0
  BY FS_EmptySet DEF Start, IInv, IdleBeforeStart
<1>2. TypeOK' /\ IdleBeforeStart'
  BY DEF Start, IInv, TypeOK, IdleBeforeStart
<1>3. ConnectionsAccounted'
  BY <1>1, Limit DEF Start, IInv, IdleBeforeStart, ConnectionsAccounted
<1> QED BY <1>2, <1>3 DEF IInv

\* stop stops each session and empties the table.
LEMMA StopPreserves == ASSUME IInv, Stop PROVE IInv'
<1>1. \A c \in Objects : session'[c] \in SessionStates /\ session'[c].stopped
  <2> SUFFICES ASSUME NEW c \in Objects
               PROVE  session'[c] \in SessionStates /\ session'[c].stopped
    OBVIOUS
  <2>1. session[c] \in SessionStates
    BY DEF IInv, TypeOK
  <2>2. session'[c] = IF c \in sessions THEN Freed(stop(session[c])) ELSE session[c]
    BY DEF Stop
  <2>3. CASE c \in sessions
    BY <2>1, <2>2, <2>3, StopFacts, FreedFacts
  <2>4. CASE c \notin sessions
    BY <2>1, <2>2, <2>4 DEF IInv, ConnectionsAccounted
  <2> QED BY <2>3, <2>4
<1>2. TypeOK' /\ IdleBeforeStart'
  BY <1>1 DEF Stop, IInv, TypeOK, IdleBeforeStart
<1>3. sessions' = {c \in Objects : ~session'[c].stopped}
  BY <1>1 DEF Stop
<1>4. Cardinality(sessions') = 0
  BY FS_EmptySet DEF Stop
<1>5. ConnectionsAccounted'
  BY <1>3, <1>4, Limit DEF Stop, ConnectionsAccounted
<1> QED BY <1>2, <1>5 DEF IInv

\* A connection is entered only below the limit; the next accept begins only
\* while there is a place left.
LEMMA AcceptPreserves == ASSUME IInv, onAccept PROVE IInv'
<1>1. CASE ready /\ accept = "accepted"
  <2>1. PICK c \in Objects :
          /\ session[c] = NoSession
          /\ sessions' = sessions \cup {c}
          /\ session' = [session EXCEPT ![c] = Started]
          /\ accept' = acceptNext(sessions \cup {c}, "none")
    BY <1>1 DEF onAccept
  <2>2. UNCHANGED <<ready, startedOnce>>
    BY <1>1 DEF onAccept
  <2>3. c \notin sessions
    BY <2>1, NoSessionFacts DEF IInv, ConnectionsAccounted
  <2>4. /\ IsFiniteSet(sessions) /\ Cardinality(sessions) \in Nat
        /\ Cardinality(sessions') = Cardinality(sessions) + 1
    BY <2>1, <2>3, SessionsFinite, FS_AddElement DEF IInv
  <2>5. Cardinality(sessions') <= MaximumConnections
    BY <1>1, <2>4, Limit DEF IInv, ConnectionsAccounted
  <2>6. /\ accept' \in {"none", "waiting"}
        /\ accept' # "none" <=> Cardinality(sessions') < MaximumConnections
    BY <1>1, <2>1, <2>4, Limit DEF acceptNext, MayAccept
  <2>7. Started \in SessionStates /\ ~Started.stopped /\ Awaited(Started)
    <3>1. Begin(NoSession, "handshake") \in SessionStates
      BY NoSessionFacts, BeginFacts
    <3>2. /\ Begin(NoSession, "handshake").op = "handshake"
          /\ Begin(NoSession, "handshake").armed
      BY NoSessionFacts DEF Begin, armTimer, cancelTimer, SessionStates
    <3> QED BY <3>1, <3>2 DEF Started, SessionStates, Awaited
  <2>8. TypeOK' /\ IdleBeforeStart'
    BY <1>1, <2>1, <2>2, <2>6, <2>7 DEF IInv, TypeOK, IdleBeforeStart
  <2>9. \A d \in Objects : /\ Awaited(session'[d])
                           /\ ~session'[d].stopped <=> d \in sessions'
    BY <2>1, <2>7, Accounted DEF IInv, TypeOK, ConnectionsAccounted
  <2>10. sessions' = {d \in Objects : ~session'[d].stopped}
    BY <2>8, <2>9 DEF TypeOK
  <2>11. ConnectionsAccounted'
    BY <2>2, <2>5, <2>6, <2>9, <2>10 DEF ConnectionsAccounted, Awaited
  <2> QED BY <2>8, <2>11 DEF IInv
<1>2. CASE ~(ready /\ accept = "accepted")
  <2>1. /\ ready' = FALSE /\ accept' = "none"
        /\ UNCHANGED <<startedOnce, sessions, session>>
    BY <1>2 DEF onAccept, IInv, TypeOK
  <2> QED BY <2>1 DEF IInv, TypeOK, IdleBeforeStart, ConnectionsAccounted
<1> QED BY <1>1, <1>2

\* The end of an operation is queued.
LEMMA CompletesPreserves ==
  ASSUME IInv, NEW c \in Objects, NEW ops, NEW outcome \in Outcomes, outcome # Pending,
         Completes(c, ops, outcome)
  PROVE  IInv'
<1> DEFINE s == [session[c] EXCEPT !.outcome = outcome]
<1>1. session[c] \in SessionStates /\ Awaited(session[c])
  BY Accounted DEF IInv, TypeOK
<1>2. s \in SessionStates /\ s.stopped = session[c].stopped /\ Awaited(s)
  BY <1>1 DEF SessionStates, Awaited
<1>3. /\ session' = [session EXCEPT ![c] = s]
      /\ UNCHANGED <<startedOnce, ready, accept, sessions>>
  BY DEF Completes
<1> QED BY <1>2, <1>3, QueuedPreserves

\* The expiry of a timer is queued.
LEMMA ExpiresPreserves == ASSUME IInv, NEW c \in Objects, Expires(c) PROVE IInv'
<1> DEFINE s == [session[c] EXCEPT !.armed = FALSE, !.expired = TRUE]
<1>1. session[c] \in SessionStates /\ Awaited(session[c])
  BY Accounted DEF IInv, TypeOK
<1>2. s \in SessionStates /\ s.stopped = session[c].stopped /\ Awaited(s)
  BY <1>1 DEF SessionStates, Awaited
<1>3. /\ session' = [session EXCEPT ![c] = s]
      /\ UNCHANGED <<startedOnce, ready, accept, sessions>>
  BY <1>1 DEF Expires, IInv, TypeOK, SessionStates
<1> QED BY <1>2, <1>3, QueuedPreserves

\* The handler of an operation goes on with the session or lets it leave.
LEMMA OutcomePreserves == ASSUME IInv, NEW c \in Objects, HandleOutcome(c) PROVE IInv'
<1> DEFINE outcome == session[c].outcome
           s == [session[c] EXCEPT !.op = "none", !.outcome = Pending]
           t == cancelTimer(s)
<1>1. session[c] \in SessionStates /\ outcome \in Outcomes
  BY DEF IInv, TypeOK, SessionStates
<1>2. s \in SessionStates /\ s.stopped = session[c].stopped
  BY <1>1 DEF SessionStates, Outcomes
<1>3. t \in SessionStates /\ t.stopped = s.stopped
  BY <1>2 DEF cancelTimer, SessionStates
<1>4. CASE session[c].stopped
  <2>1. Leave(c, s)
    BY <1>2, <1>4 DEF HandleOutcome
  <2> QED BY <1>2, <1>4, <2>1, LeavePreserves DEF Awaited
<1>5. CASE ~session[c].stopped
  <2>1. \/ Leave(c, onHandshake(t, outcome)) \/ Leave(c, onRead(t, outcome))
        \/ Leave(c, onWrite(t, outcome)) \/ Leave(c, stop(s))
    <3>1. session[c].op \in {"handshake", "read", "write", "shutdown"}
      BY <1>1 DEF HandleOutcome, SessionStates
    <3> QED BY <1>2, <1>5, <3>1 DEF HandleOutcome
  <2> HIDE DEF s, t, outcome
  <2>2. stop(s) \in SessionStates /\ Awaited(stop(s))
    BY <1>2, StopFacts DEF Awaited
  <2> QED BY <1>1, <1>2, <1>3, <1>5, <2>1, <2>2, HandlerFacts, LeavePreserves
<1> QED BY <1>4, <1>5

\* The handler of an expiry lets the session leave.
LEMMA ExpiryPreserves == ASSUME IInv, NEW c \in Objects, HandleExpiry(c) PROVE IInv'
<1> DEFINE s == [session[c] EXCEPT !.expired = FALSE]
<1>1. s \in SessionStates
  BY DEF IInv, TypeOK, SessionStates
<1>2. Leave(c, stop(s))
  BY DEF HandleExpiry
<1> HIDE DEF s
<1>3. stop(s) \in SessionStates /\ stop(s).stopped
  BY <1>1, StopFacts
<1> QED BY <1>2, <1>3, LeavePreserves DEF Awaited

-----------------------------------------------------------------------------
(* The theorems.                                                           *)

\* IInv holds in every state of every behaviour.
THEOREM Invariance == Spec => []IInv
<1>1. Init => IInv
  BY InitInv
<1>2. ASSUME IInv, [Next]_vars PROVE IInv'
  <2>1. CASE Start
    BY <1>2, <2>1, StartPreserves
  <2>2. CASE Stop
    BY <1>2, <2>2, StopPreserves
  <2>3. CASE AcceptCompletes
    BY <1>2, <2>3 DEF AcceptCompletes, IInv, TypeOK, IdleBeforeStart, ConnectionsAccounted
  <2>4. CASE onAccept
    BY <1>2, <2>4, AcceptPreserves
  <2>5. ASSUME NEW c \in Objects,
               OperationSucceeds(c) \/ OperationFails(c) \/ PeerEnds(c) \/ RequestArrives(c)
        PROVE  IInv'
    <3>1. {Success, Failure, EndOfStream} \subseteq Outcomes \ {Pending}
      BY DEF Outcomes, Success, Failure, EndOfStream, Pending
    <3>2. CASE RequestArrives(c)
      <4>1. PICK r \in Requests : Completes(c, {"read"}, Request(r))
        BY <3>2 DEF RequestArrives
      <4>2. Request(r) \in Outcomes /\ Request(r) # Pending
        BY DEF Outcomes, Request, Pending
      <4> QED BY <1>2, <4>1, <4>2, CompletesPreserves
    <3>3. CASE OperationSucceeds(c)
      BY <1>2, <3>1, <3>3, CompletesPreserves DEF OperationSucceeds
    <3>4. CASE OperationFails(c)
      BY <1>2, <3>1, <3>4, CompletesPreserves DEF OperationFails
    <3>5. CASE PeerEnds(c)
      BY <1>2, <3>1, <3>5, CompletesPreserves DEF PeerEnds
    <3> QED BY <2>5, <3>2, <3>3, <3>4, <3>5
  <2>6. ASSUME NEW c \in Objects, Expires(c) PROVE IInv'
    BY <1>2, <2>6, ExpiresPreserves
  <2>7. ASSUME NEW c \in Objects, HandleOutcome(c) PROVE IInv'
    BY <1>2, <2>7, OutcomePreserves
  <2>8. ASSUME NEW c \in Objects, HandleExpiry(c) PROVE IInv'
    BY <1>2, <2>8, ExpiryPreserves
  <2>9. CASE UNCHANGED vars
    BY <1>2, <2>9 DEF vars, IInv, TypeOK, IdleBeforeStart, ConnectionsAccounted
  <2> QED BY <1>2, <2>1, <2>2, <2>3, <2>4, <2>5, <2>6, <2>7, <2>8, <2>9 DEF Next
<1> QED BY <1>1, <1>2, PTL DEF Spec

\* The table of sessions, the outstanding accept and the deadlines of the
\* sessions are right after every handler of the server, however late it runs.
THEOREM AccountIsRight == Spec => []ConnectionsAccounted
<1>1. IInv => ConnectionsAccounted
  BY DEF IInv
<1> QED BY <1>1, Invariance, PTL

=============================================================================
