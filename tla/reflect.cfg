SPECIFICATION Spec
CONSTANTS
  job1 = job1
  job2 = job2
  note = note
  Old = old
  Stale = stale
  Main = Main
  Job <- TwoJobs
  Note <- OneNote
  Scored = TRUE
  Erasable <- StaleAndNote
  MaxTrouble = 1
SYMMETRY Symmetry
INVARIANTS TreeHoldsCommit RestsOnMain AcceptedLands OthersStayOut NotesSurvive DecisionsLogged
CHECK_DEADLOCK FALSE
