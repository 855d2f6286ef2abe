SPECIFICATION Spec
CONSTANTS
  t1 = t1
  t2 = t2
  Tab = {t1, t2}
  Importer = t1
  Viewers = {t2}
  User = {a, b}
  a = a
  b = b
  File = {f, g}
  f = f
  g = g
  Logins = 2
  Retries = 1
  Uploads = 2
  None = None
INVARIANTS
  LoneTabShowsOwn
  PreviewIsOfItsFile
PROPERTIES
  RequestsAreOwn
CHECK_DEADLOCK FALSE
