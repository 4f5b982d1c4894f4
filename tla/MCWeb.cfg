SPECIFICATION FairSpec
CONSTANTS
  b1 = b1
  l1 = l1
  x = x
  y = y
  None = None
  Browsers = {b1}
  SessionCalls = {m1}
  ListCalls = {l1, l2}
  FormCalls = {f1}
  BrowserOf <- MCBrowserOf
  FilterOf <- MCFilterOf
  MaxAccounts = 2
  Emails = {e1}
  Tokens = {t1, t2}
  Filters = {x, y}
  Lossy = {l1}
CHECK_DEADLOCK FALSE
INVARIANTS WebTypeOK OneAccountPerEmail ListFitsFilter
PROPERTIES SessionKept ListSettles
