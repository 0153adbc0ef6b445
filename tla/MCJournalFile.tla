---------------------------- MODULE MCJournalFile ----------------------------
(***************************************************************************)
(* JournalFile for TLC.  Two long frames and a short one exceed the byte   *)
(* limit, three short ones meet the limit of commands.                     *)
(***************************************************************************)
EXTENDS JournalFile
=============================================================================
