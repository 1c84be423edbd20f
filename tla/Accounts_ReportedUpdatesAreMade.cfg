SPECIFICATION ACSpec
CONSTANTS
  p1 = p1
  p2 = p2
  p3 = p3
  k1 = k1
  k2 = k2
  Clients = {c1}
  IDs = {u1}
  Emails = {e1}
  BadRequest = badrequest
  Passwords = {p1, p2, p3}
  LongPasswords = {p2, p3}
  Keys = {k1, k2}
  BcryptKey <- MCBcryptKey
  Roles = {developer, admin}
  Developer = developer
  NoRole = norole
  NoUser = nouser
  NoToken = notoken
  DBMayFail = FALSE
INVARIANT ReportedUpdatesAreMade
