\* Two workers race over a member, under failures, deaths and lost webhooks.
CONSTANTS
  w1 = w1
  w2 = w2
  m1 = m1
  Nobody = Nobody
  Workers = {w1, w2}
  Members = {m1}
  Ttl = 2
  MaxVersion = 3
  Deaths = TRUE
SPECIFICATION FairSpec
INVARIANTS
  LeaseHasHolder
PROPERTIES
  EventuallyFresh
  StoredNeverRegresses
