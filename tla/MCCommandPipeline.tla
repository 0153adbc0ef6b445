-------------------------- MODULE MCCommandPipeline --------------------------
(***************************************************************************)
(* CommandPipeline for TLC: queues of one or two places, so that every     *)
(* pending slot is used, and frames of two sizes.                          *)
(***************************************************************************)
EXTENDS CommandPipeline, TLC

CONSTANTS plain, trade, poison

\* A trading content has the longer frame.
MCFrameBytes == [b \in Bodies |-> IF b = trade THEN 2 ELSE 1]

\* Keys are only compared.
KeySymmetry == Permutations(Keys)
=============================================================================
