SPECIFICATION ACSpec
CONSTANTS
  p1 = p1
  p2 = p2
  p3 = p3
  k1 = k1
  k2 = k2
  Clients = {c1, c2}
  IDs = {u1, u2}
  Emails = {e1, e2}
  BadRequest = badrequest
  Passwords = {p1, p2, p3}
  LongPasswords = {p2, p3}
  Keys = {k1, k2}
  BcryptKey <- MCBcryptKey
  Roles = {developer, admin}
  Developer = developer
  NoRole = norole
  NoUser = nouser
  NoToken = notoken
  DBMayFail = TRUE
SYMMETRY MCSymmetry
INVARIANTS
  ACTypeOK
  AnswersAreTrue
  TokensAreTrue
PROPERTIES
  AccountsArePermanent
  ImplementsAccountService
