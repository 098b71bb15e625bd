SPECIFICATION Spec
CONSTANTS
  Workers = {w1, w2}
  Users = {boss, u1}
  Boss = boss
  Invited = {u1}
  Invites = {i1, i2}
  Passkeys = {k1, k2}
  MaxRow = 1
  NoUser = NoUser
  NoInvite = NoInvite
  NoWorker = NoWorker
SYMMETRY Symmetric
INVARIANTS
  InviteHonoured
  ResetRevokes
PROPERTIES
  OneAdmin
  NeverLockedOut
