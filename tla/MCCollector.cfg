CONSTANTS
  m = m
  c = c
  r = r
  t = t
  wv = wv
  wk = wk
  f = f
  g = g
  v = v
  u = u
  u2 = u2
  s = s
  Nil = Nil
  Closed = Closed
  Registry = r
  Main = m
  NSlots = 2
  Tab <- MCTab
  WeakVal <- MCWeakVal
  WeakKey <- MCWeakKey
  Func <- MCFunc
  Upval <- MCUpval
  Udata <- MCUdata
  Str <- MCStr
  Thread <- MCThread
  Arenas <- MCArenas
SPECIFICATION FairSpec
INVARIANTS ReachableSurvives NoBlackToWhite GrayOnOneList UpvalueColors CleanRestart
PROPERTIES FinalizedOnce FinalizesGarbage GarbageGoes
