\* Two attempts and two requests at a time.
CONSTANTS
  t1 = t1
  t2 = t2
  w1 = w1
  w2 = w2
  Tokens = {t1, t2}
  Workers = {w1, w2}
  Ttl = 2
SPECIFICATION Spec
SYMMETRY Symmetry
INVARIANTS
  LinkedOnce
  RefusedIsFinal
PROPERTIES
  LinkedInTime
