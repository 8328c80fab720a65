SPECIFICATION Spec
CONSTANTS
  a = a  b = b
  Recruiter = {r1, r2}
  Candidate = {a}
  Doc = {1, 2}
  OwnerOf <- OneOwner
  Run = {m}
  Picks <- BothCvs
  Faulty = {}
  MaxChange = 2
INVARIANTS OneJobPerKey OneCvPerCandidate
CHECK_DEADLOCK FALSE
