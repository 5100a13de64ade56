SPECIFICATION Spec
SYMMETRY Symmetric
CONSTANTS
  k1 = k1 k2 = k2 s1 = s1 r1 = r1 r2 = r2
  t1 = t1 t2 = t2 t3 = t3 None = None
  Keys = {k1, k2}
  Singletons = {s1}
  SingletonOf <- OneSingleton
  Rereading = {}
  Relays = {r1}
  Tokens = {t1, t2, t3}
  BatchSize = 1
  Lease = 1
  MaxDelay = 1
  Punctual = FALSE
INVARIANTS TypeOK RequestsCovered
