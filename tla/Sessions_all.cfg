SPECIFICATION Spec
CONSTANTS
  Workers = {w1, w2, w3}
  Codes = {c1, c2}
  Sessions = {s1, s2, s3, s4}
  NoCode = NoCode
  NoSession = NoSession
SYMMETRY Symmetric
INVARIANTS OneTokenPerLogin LogoutEndsLogin HeirIsSent
