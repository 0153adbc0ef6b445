\* Three runs, so that a stop replaces a retained run while a third can begin;
\* three faults, so that a failed replacement can precede a power loss.
CONSTANTS
  MaxRuns = 3
  MaxGeneration = 10
  MaxFaults = 3
SPECIFICATION Spec
INVARIANTS
  SelectedJournalsSurvive
  RunIdsNotReused
  NoReplacementRefused
  StateMatchesCatalog
  ViewIsRetained
  ReportedIsDurable
CHECK_DEADLOCK FALSE
