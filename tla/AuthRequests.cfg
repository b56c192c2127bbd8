SPECIFICATION Spec
CONSTANTS
  Users = {ann}
  Tokens = {s1, s2}
  Requests = {r1, r2}
  Passwords = {p1, p2}
  Secrets = {k1, k2}
  NoSecret = NoSecret
  MaxFailures = 2
  MaxWrong = 2
  LockSteps = 1
  MaxNow = 3
SYMMETRY AuthSymmetry
INVARIANT AuthInv
PROPERTIES CodeOnce ImplementsCredentials
