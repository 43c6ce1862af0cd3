SPECIFICATION Spec
CONSTANTS
  Thread = {t1, t2}
  Home <- OneProcess
  Account = {a, b}
  Project = {p}
  Version = {v, w}
  MaxAccounts = 2
  Fault = {"store", "metadata", "unlock", "undo", "crash"}
  Nobody = Nobody
  NoSecret = NoSecret
INVARIANT Paired
PROPERTIES GrantOnRequest Atomic
