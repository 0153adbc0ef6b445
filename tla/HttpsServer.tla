----------------------------- MODULE HttpsServer -----------------------------
(***************************************************************************)
(* The HTTPS server of the browser assets: the accept loop and its         *)
(* sessions, driven by the completion handlers of one io_context thread.   *)
(*                                                                         *)
(* A handler is one step.  Between two handlers the peer, the network and  *)
(* the clock decide which operation completes next; a completion waits in  *)
(* the queue of the io_context for its handler.  Cancelling an operation   *)
(* completes it with an error, but neither takes back a completion that is *)
(* queued already nor the expiry of a timer that is: its handler runs,     *)
(* however late.  A session object lives as long as a handler refers to it.*)
(***************************************************************************)
EXTENDS Integers, FiniteSets

CONSTANTS
  Objects,             \* bound of the model: session objects alive at a time
  Requests,            \* the HTTP requests a peer may send
  MaximumConnections   \* HttpsStaticServerConfiguration

ASSUME HttpsAssumption ==
  /\ IsFiniteSet(Objects)
  /\ MaximumConnections \in 1..Cardinality(Objects)

VARIABLES
  startedOnce, ready,
  accept,    \* async_accept: "none" or, while acceptPending_ holds, "waiting" or its outcome
  sessions,  \* sessions_
  session    \* the session objects, with the one operation each has outstanding

vars == <<startedOnce, ready, accept, sessions, session>>

\* How an operation ended, or that it did not.
Pending == [kind |-> "pending"]
Success == [kind |-> "success"]
Failure == [kind |-> "error"]
EndOfStream == [kind |-> "end_of_stream"]
Request(r) == [kind |-> "request", request |-> r]

\* A place where no object lives.
NoSession == [op |-> "none", outcome |-> Pending, armed |-> FALSE, expired |-> FALSE,
              closeAfterWrite |-> FALSE, stopped |-> TRUE]

Init ==
  /\ startedOnce = FALSE /\ ready = FALSE /\ accept = "none"
  /\ sessions = {} /\ session = [c \in Objects |-> NoSession]

-----------------------------------------------------------------------------
(* HttpsSession.                                                           *)

cancelTimer(s) == [s EXCEPT !.armed = FALSE]

armTimer(s) == [cancelTimer(s) EXCEPT !.armed = TRUE]

\* The next operation, with its deadline.  closeAfterWrite_ matters to a write only.
Begin(s, op) == [armTimer(s) EXCEPT !.op = op, !.outcome = Pending, !.closeAfterWrite = FALSE]

\* HttpsSession::start of a new object.
Started == [Begin(NoSession, "handshake") EXCEPT !.stopped = FALSE]

readRequest(s) == Begin(s, "read")

writeResponse(s, keepAlive) == [Begin(s, "write") EXCEPT !.closeAfterWrite = ~keepAlive]

\* MUTANT: the exchange of TLS close notifications has no deadline.
shutdownTls_unarmed(s) == [s EXCEPT !.op = "shutdown", !.outcome = Pending]

shutdownTls(s) == Begin(s, "shutdown")

\* HttpsSession::stop: an operation that is still outstanding is aborted.  What
\* a queued outcome and closeAfterWrite_ say is of no more consequence.
stop(s) ==
  IF s.stopped THEN s
  ELSE [cancelTimer(s) EXCEPT !.stopped = TRUE, !.closeAfterWrite = FALSE,
                              !.outcome = IF s.op = "none" THEN Pending ELSE Failure]

\* Whether the response to a request leaves the connection open.  An upgrade, an
\* asset that cannot be looked up and one that cannot be read close it; any
\* other error leaves it as the request has it.
KeepsAlive(request) ==
  /\ request.keepAlive
  /\ ~request.upgrade
  /\ request.method \in {"GET", "HEAD"} => request.asset # "FILESYSTEM_FAILURE"
  /\ request.method = "GET" => request.asset # "UNREADABLE"

onHandshake(s, outcome) == IF outcome = Failure THEN stop(s) ELSE readRequest(s)

\* A request that is malformed or too large is answered as well, and is the last.
onRead(s, outcome) ==
  CASE outcome = EndOfStream -> shutdownTls(s)
    [] outcome = Failure -> writeResponse(s, FALSE)
    [] OTHER -> writeResponse(s, KeepsAlive(outcome.request))

onWrite(s, outcome) ==
  IF outcome = Failure THEN stop(s)
  ELSE IF s.closeAfterWrite THEN shutdownTls(s)
  ELSE readRequest(s)

-----------------------------------------------------------------------------
(* HttpsStaticServer::Implementation.                                      *)

\* MUTANT: one connection too many.
MayAccept_offByOne(live, pending) == ready /\ Cardinality(live) <= MaximumConnections /\ ~pending

MayAccept(live, pending) == ready /\ Cardinality(live) < MaximumConnections /\ ~pending

acceptNext(live, current) == IF MayAccept(live, current # "none") THEN "waiting" ELSE current

\* Every way in which start fails leaves the acceptor closed.
Start ==
  /\ ~startedOnce
  /\ startedOnce' = TRUE
  /\ \/ ready' = TRUE /\ accept' = "waiting"
     \/ UNCHANGED <<ready, accept>>
  /\ UNCHANGED <<sessions, session>>

\* No handler refers to the object any more.
Freed(s) == IF s.stopped /\ s.op = "none" /\ ~s.expired THEN NoSession ELSE s

\* A closed acceptor aborts the accept that waits.  Sessions notify nobody.
Stop ==
  /\ startedOnce
  /\ ready' = FALSE
  /\ accept' = IF accept = "waiting" THEN "failed" ELSE accept
  /\ session' = [c \in Objects |-> IF c \in sessions THEN Freed(stop(session[c])) ELSE session[c]]
  /\ sessions' = {}
  /\ UNCHANGED startedOnce

onAccept ==
  /\ accept \in {"accepted", "failed"}
  /\ \/ /\ ~ready
        /\ accept' = "none" /\ UNCHANGED <<ready, sessions, session>>
     \/ /\ ready /\ accept = "failed"
        /\ ready' = FALSE /\ accept' = "none" /\ UNCHANGED <<sessions, session>>
     \/ /\ ready /\ accept = "accepted"
        /\ \E c \in Objects :
             /\ session[c] = NoSession
             /\ sessions' = sessions \cup {c}
             /\ session' = [session EXCEPT ![c] = Started]
             /\ accept' = acceptNext(sessions \cup {c}, "none")
        /\ UNCHANGED ready
  /\ UNCHANGED startedOnce

\* A handler leaves session c as s.  One that stopped it calls sessionClosed.
Leave(c, s) ==
  /\ session' = [session EXCEPT ![c] = Freed(s)]
  /\ IF s.stopped /\ ~session[c].stopped
     THEN sessions' = sessions \ {c} /\ accept' = acceptNext(sessions \ {c}, accept)
     ELSE UNCHANGED <<sessions, accept>>
  /\ UNCHANGED <<startedOnce, ready>>

-----------------------------------------------------------------------------
(* The io_context: completions, and their handlers.                        *)

AcceptCompletes ==
  /\ accept = "waiting"
  /\ accept' \in {"accepted", "failed"}
  /\ UNCHANGED <<startedOnce, ready, sessions, session>>

Completes(c, ops, outcome) ==
  /\ session[c].op \in ops /\ session[c].outcome = Pending
  /\ session' = [session EXCEPT ![c].outcome = outcome]
  /\ UNCHANGED <<startedOnce, ready, accept, sessions>>

OperationSucceeds(c) == Completes(c, {"handshake", "write", "shutdown"}, Success)
OperationFails(c) == Completes(c, {"handshake", "read", "write", "shutdown"}, Failure)
PeerEnds(c) == Completes(c, {"read"}, EndOfStream)
RequestArrives(c) == \E r \in Requests : Completes(c, {"read"}, Request(r))

Expires(c) ==
  /\ session[c].armed
  /\ session' = [session EXCEPT ![c].armed = FALSE, ![c].expired = TRUE]
  /\ UNCHANGED <<startedOnce, ready, accept, sessions>>

\* The handler of an operation; of a stopped session it does nothing.
HandleOutcome(c) ==
  LET outcome == session[c].outcome
      s == [session[c] EXCEPT !.op = "none", !.outcome = Pending]
  IN
  /\ session[c].op # "none" /\ outcome # Pending
  /\ Leave(c, CASE s.stopped -> s
                [] ~s.stopped /\ session[c].op = "handshake" -> onHandshake(cancelTimer(s), outcome)
                [] ~s.stopped /\ session[c].op = "read" -> onRead(cancelTimer(s), outcome)
                [] ~s.stopped /\ session[c].op = "write" -> onWrite(cancelTimer(s), outcome)
                [] ~s.stopped /\ session[c].op = "shutdown" -> stop(s))

\* The handler of a timer that was not cancelled in time.
HandleExpiry(c) ==
  /\ session[c].expired
  /\ Leave(c, stop([session[c] EXCEPT !.expired = FALSE]))

Next ==
  \/ Start \/ Stop \/ AcceptCompletes \/ onAccept
  \/ \E c \in Objects :
       \/ OperationSucceeds(c) \/ OperationFails(c) \/ PeerEnds(c) \/ RequestArrives(c) \/ Expires(c)
       \/ HandleOutcome(c) \/ HandleExpiry(c)

Spec == Init /\ [][Next]_vars

\* The thread runs every queued handler, and time passes.  Peers owe nothing.
FairSpec ==
  /\ Spec
  /\ WF_vars(onAccept)
  /\ \A c \in Objects : WF_vars(HandleOutcome(c)) /\ WF_vars(HandleExpiry(c)) /\ WF_vars(Expires(c))

-----------------------------------------------------------------------------
(* Properties.                                                             *)

\* The server's account of its connections is right after every handler, late
\* ones included: the table holds exactly the sessions with an open socket and
\* no more than it may, an accept is outstanding exactly when there is room for
\* a connection, and no session waits for its peer without a deadline.
ConnectionsAccounted ==
  /\ sessions = {c \in Objects : ~session[c].stopped}
  /\ Cardinality(sessions) <= MaximumConnections
  /\ ready => (accept # "none" <=> Cardinality(sessions) < MaximumConnections)
  /\ \A c \in sessions :
       /\ session[c].op # "none"
       /\ session[c].armed \/ session[c].expired \/ session[c].outcome # Pending

\* Handshake, request, response and TLS shutdown each end with their peer or with
\* their deadline: a session gives its place back unless its peer keeps sending
\* requests for ever.
SessionsReleased ==
  \A c \in Objects :
    []<><<RequestArrives(c)>>_vars \/ ((c \in sessions) ~> (c \notin sessions))

=============================================================================
