SPECIFICATION Spec
CONSTANTS
  recruiter = recruiter
  admin = admin
  home = home
  away = away
  Actor <- TwoActors
  Run <- TwoRuns
  Fact <- TwoFacts
  FirstFact <- home
  Suits <- SomeSuits
  Clash <- SomeClash
  MaxProfile = 2
  MaxRequirement = 2
  MaxRow = 4
  MaxDraft = 3
  MaxChange = 1
SYMMETRY Actors
CHECK_DEADLOCK FALSE
PROPERTIES RetentionSparesDecided
