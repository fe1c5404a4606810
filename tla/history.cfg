\* The instances are in MCHistory.
CONSTANTS
  a1 = a1
  p1 = p1
  p2 = p2
  c1 = c1
  c2 = c2
  NoFile = NoFile
  User = User
  Outside = Outside
SPECIFICATION Spec
INVARIANTS LineIntact RewindLosesNothingKept PullConverges
PROPERTIES EditsSurvive NoLostUpdate ExternalEditsKept
SYMMETRY Permutes
