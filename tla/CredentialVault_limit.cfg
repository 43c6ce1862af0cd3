SPECIFICATION Spec
CONSTANTS
  Thread = {t1, t2}
  Home <- OneProcess
  Account = {a, b}
  Project = {p}
  Version = {v}
  MaxAccounts = 1
  Fault = {}
  Nobody = Nobody
  NoSecret = NoSecret
INVARIANT StaysReadable
