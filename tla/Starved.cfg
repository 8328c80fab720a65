SPECIFICATION FairSpec
CONSTANTS
  a = a  b = b
  Recruiter = {r1}
  Candidate = {a, b}
  Doc = {1, 2}
  OwnerOf <- TwoOwners
  Run = {}
  Picks = {}
  Faulty = {1}
  MaxChange = 0
PROPERTY NewCvServed
CHECK_DEADLOCK FALSE
