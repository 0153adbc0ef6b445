--------------------------- MODULE MCEventGateway ---------------------------
(***************************************************************************)
(* EventGateway for TLC: every shape of a result of two events that the    *)
(* projections tell apart, for each client.                                *)
(***************************************************************************)
EXTENDS EventGateway, TLC

\* Of a client: only trades with itself; a trade with another and an owned
\* event; a trade with another and one with itself; an owned event alone.
MCSamples ==
  UNION {{[client |-> c, events |-> <<[maker |-> c, taker |-> c], [maker |-> c, taker |-> c]>>],
          [client |-> c, events |-> <<[maker |-> d, taker |-> c], OwnedEvent(c)>>],
          [client |-> c, events |-> <<[maker |-> d, taker |-> c], [maker |-> c, taker |-> c]>>],
          [client |-> c, events |-> <<OwnedEvent(c)>>]} : <<c, d>> \in {p \in Clients \X Clients : p[1] # p[2]}}

\* Clients and handles are only compared.
IdentitySymmetry == Permutations(Handles) \cup Permutations(Clients)
=============================================================================
