SPECIFICATION Spec
CONSTANTS
  w1 = w1  w2 = w2
  o1 = o1  o2 = o2  o3 = o3
  k1 = k1  k2 = k2  k3 = k3
  d1 = d1  d2 = d2
  None = None
  NullKey = nullkey
  Writers = {w1, w2}
  Readers = {}
  Objects = {o1, o3}
  Empty = {o3}
  Keys = {k1, k3, nullkey}
  Prefixes = {d1, d2}
  Names = {t1, t2}
  HashOf <- MCHash
  PrefixOf <- MCPrefix
  Faults = {}
INVARIANT NullKeyUnused
