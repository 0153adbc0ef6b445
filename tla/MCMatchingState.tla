--------------------------- MODULE MCMatchingState ---------------------------
(***************************************************************************)
(* MatchingState for TLC: two clients, two prices, small quantities.       *)
(***************************************************************************)
EXTENDS MatchingState, TLC

\* No handler distinguishes clients other than by equality.
ClientSymmetry == Permutations(Clients)
=============================================================================
