SPECIFICATION Spec
CONSTANTS
  python = python  remote = remote  engineer = engineer  dev = dev  chef = chef  r1 = r1  r2 = r2
  Skill <- OneSkill
  Fact <- OneFact
  Role <- OneRole
  None = None
  Title <- TwoTitles
  Draft0 <- Empty
  Form <- Forms
  Answer <- Answers
  Requires <- OneSkill
  Prefers = {}
  States <- StatesEngineer
  Web <- TwoRequests
  MaxVersion = 2
  MaxRule = 2
  MaxAsk = 4
SYMMETRY Symmetry
CHECK_DEADLOCK FALSE
INVARIANTS OneDraft ConfirmedIsSound DeadlockNeedsOutOfOrder
PROPERTY ConfirmedIsFrozen
