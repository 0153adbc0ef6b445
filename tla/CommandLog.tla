----------------------------- MODULE CommandLog -----------------------------
(***************************************************************************)
(* What the journal of a run promises to those who are told of its         *)
(* contents.  The log grows at its end by commands with new keys; a        *)
(* channel is told a prefix of the log, each time a longer one; a failure  *)
(* may take back the end of the log, but nothing anyone was told.          *)
(***************************************************************************)
EXTENDS Naturals, Sequences, SequencesExt

CONSTANTS
  Channels,  \* who is told
  KeyOf(_)   \* what identifies a command

VARIABLES
  log,       \* the commands, in the order of their sequences
  told       \* the longest prefix each channel was told

logVars == <<log, told>>

LogInit ==
  /\ log = <<>>
  /\ told = [channel \in Channels |-> <<>>]

\* A command whose key is new is added at the end.
Extend ==
  /\ Len(log') = Len(log) + 1
  /\ IsPrefix(log, log')
  /\ \A i \in DOMAIN log : KeyOf(log[i]) # KeyOf(Last(log'))
  /\ UNCHANGED told

\* One channel is told more than before, and all of it is in the log.
Tell ==
  /\ \E channel \in Channels, n \in 1..Len(log) :
       /\ n > Len(told[channel])
       /\ told' = [told EXCEPT ![channel] = SubSeq(log, 1, n)]
  /\ UNCHANGED log

\* The end of the log is lost.  What anyone was told stays in it.
Lose ==
  /\ IsPrefix(log', log)
  /\ \A channel \in Channels : IsPrefix(told[channel], log')
  /\ UNCHANGED told

LogNext == Extend \/ Tell \/ Lose

LogSpec == LogInit /\ [][LogNext]_logVars

=============================================================================
