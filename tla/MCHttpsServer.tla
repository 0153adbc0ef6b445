---------------------------- MODULE MCHttpsServer ----------------------------
(* HttpsServer for TLC.                                                    *)
EXTENDS HttpsServer

\* An asset that cannot be read ends the connection only if its body was asked for.
MCRequests ==
  {[method |-> "HEAD", upgrade |-> FALSE, keepAlive |-> TRUE, asset |-> "UNREADABLE"],
   [method |-> "GET", upgrade |-> FALSE, keepAlive |-> TRUE, asset |-> "UNREADABLE"],
   [method |-> "GET", upgrade |-> TRUE, keepAlive |-> TRUE, asset |-> "FOUND"]}
=============================================================================
