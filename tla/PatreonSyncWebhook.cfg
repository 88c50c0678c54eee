\* The documented promise that a webhook is kept while the lease is busy.
CONSTANTS
  w1 = w1
  w2 = w2
  m1 = m1
  Nobody = Nobody
  Workers = {w1, w2}
  Members = {m1}
  Ttl = 2
  MaxVersion = 3
  Deaths = FALSE
SPECIFICATION Spec
INVARIANTS
  WebhookKept
