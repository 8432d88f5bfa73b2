\* A remote account is held, refused by a moderator, and then sends something.
SPECIFICATION Spec
CONSTANTS
  r1 = r1
  host = host
  x = x
  Requests = {r1}
  Domains = {host}
  Accounts = {x}
  Under <- OneHost
INVARIANTS
  SuspendedNeverResolves
CHECK_DEADLOCK FALSE
