SPECIFICATION FairSpec
CONSTANTS
  None = None
  Task <- Phase1
  Prio <- Prio1
  Suspends <- Suspends1
  Resumes <- Resumes1
INVARIANTS HolderIsReady NoInversion
PROPERTIES UrgentPrints
