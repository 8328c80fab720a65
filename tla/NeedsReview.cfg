SPECIFICATION Spec
CONSTANTS
  py = py  pydev = pydev  js = js  ecma = ecma  sql = sql  qa = qa
  nobody = nobody  english = english
  Candidate = {1, 2}
  Doc = {1, 2}
  Name <- Names
  Canonical <- KeyOf
  Legacy = {py, pydev, ecma}
  Years = {1, 3}
  Nobody = nobody
  Content <- Contents
  Place <- Places
  Version <- Versions
  SHORTLIST_LIMIT = 1
  MaxProfile = 3
  MaxEdit = 1
INVARIANT OnlyFailuresAreExcluded
CHECK_DEADLOCK FALSE
