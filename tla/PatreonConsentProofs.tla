------------------------ MODULE PatreonConsentProofs ------------------------
(***************************************************************************)
(* Single use of a consent, for any number of attempts and workers and any *)
(* lifetime: one link at most, none after a refusal and none out of time.  *)
(***************************************************************************)
EXTENDS PatreonConsent, TLAPS

\* PATREON_LOCK: at most one confirmation has its transaction open.
OneConfirms ==
  \A w, v \in Workers : \A t, u \in Tokens :
    job[w] = Busy("confirm", t) /\ job[v] = Busy("confirm", u) => w = v

\* The row a confirmation has locked stays usable, or lapses, under it.
ConfirmsOpen ==
  \A w \in Workers, t \in Tokens :
    job[w] = Busy("confirm", t) => pending[t].st = "open"

\* An attempt asks Patreon once, after its state is spent and before there is
\* a pending row.
Exchanging(t) == \E w \in Workers : job[w] = Busy("exchange", t)
ExchangesOnce ==
  \A t \in Tokens :
    /\ Exchanging(t) => state[t].st \in {"used", "gone"} /\ pending[t].st = "none"
    /\ \A w, v \in Workers :
         job[w] = Busy("exchange", t) /\ job[v] = Busy("exchange", t) => w = v
    /\ state[t].st \in {"none", "open"} => pending[t].st = "none"

\* A link takes the pending row with it.
LinkedIsSpent ==
  \A t \in Tokens :
    /\ made[t] \in {0, 1}
    /\ made[t] = 1 => pending[t].st \in {"used", "gone"}

\* A refusal takes what was there, and nothing can follow.
RefusedIsSpent ==
  \A t \in refused :
    /\ made[t] = 0
    /\ state[t].st \in {"used", "gone"}
    /\ pending[t].st # "open"
    /\ ~Exchanging(t)

\* Who was told "expired" has a row that cannot be used again.
LapsedIsDead == \A t \in lapsed : pending[t].st # "none" /\ ~Live(pending[t])

IInv == /\ TypeOK /\ OneConfirms /\ ConfirmsOpen /\ ExchangesOnce
        /\ LinkedIsSpent /\ RefusedIsSpent /\ LapsedIsDead

-----------------------------------------------------------------------------
\* A row that is purged or grows older keeps its type, and is opened by neither.
LEMMA PurgedRows ==
  ASSUME NEW rows \in [Tokens -> Token]
  PROVE  /\ Purged(rows) \in [Tokens -> Token]
         /\ \A t \in Tokens :
              /\ Purged(rows)[t].left = rows[t].left
              /\ Purged(rows)[t].st = IF Dead(rows[t]) THEN "gone" ELSE rows[t].st
BY DEF Purged, Token, Dead

LEMMA OlderRows ==
  ASSUME NEW rows \in [Tokens -> Token]
  PROVE  /\ Older(rows) \in [Tokens -> Token]
         /\ \A t \in Tokens : /\ Older(rows)[t].st = rows[t].st
                              /\ Older(rows)[t].left <= rows[t].left
BY ConsentAssumption DEF Older, Token

\* What a worker is busy with can be told from its job.
LEMMA JobsDiffer ==
  /\ \A p, q \in {"exchange", "confirm", "sync"}, t, u \in Tokens :
       Busy(p, t) = Busy(q, u) => p = q /\ t = u
  /\ \A p \in {"exchange", "confirm", "sync"}, t \in Tokens :
       Busy(p, t) \in Job /\ Busy(p, t) # Idle
<1>1. ASSUME NEW p \in {"exchange", "confirm", "sync"},
             NEW q \in {"exchange", "confirm", "sync"},
             NEW t \in Tokens, NEW u \in Tokens, Busy(p, t) = Busy(q, u)
      PROVE  p = q /\ t = u
    BY <1>1 DEF Busy
<1>2. ASSUME NEW p \in {"exchange", "confirm", "sync"}, NEW t \in Tokens
      PROVE  Busy(p, t) \in Job
    BY DEF Job
<1>3. ASSUME NEW p \in {"exchange", "confirm", "sync"}, NEW t \in Tokens
      PROVE  Busy(p, t) # Idle
    BY DEF Busy, Idle
<1> QED BY <1>1, <1>2, <1>3

LEMMA InitInv == Init => IInv
BY ConsentAssumption
   DEF Init, IInv, TypeOK, OneConfirms, ConfirmsOpen, ExchangesOnce, Exchanging,
       LinkedIsSpent, RefusedIsSpent, LapsedIsDead, Token, NoToken, Idle, Busy, Job

-----------------------------------------------------------------------------
\* The states of an attempt.
LEMMA StartLinkInv ==
  ASSUME IInv, NEW t \in Tokens, StartLink(t)
  PROVE  IInv'
<1> DEFINE purged == Purged(state)
<1>1. /\ purged \in [Tokens -> Token]
      /\ \A u \in Tokens :
           purged[u].st = IF Dead(state[u]) THEN "gone" ELSE state[u].st
    BY PurgedRows DEF IInv, TypeOK
<1>2. state' = [purged EXCEPT ![t] = Opened] /\ state[t].st = "none"
    BY DEF StartLink
<1>3. Opened \in Token
    BY ConsentAssumption DEF Opened, Token
<1> HIDE DEF purged
<1>4. TypeOK'
    BY <1>1, <1>2, <1>3 DEF IInv, TypeOK, StartLink
<1>5. \A u \in Tokens : state[u].st \in {"used", "gone"} =>
                          state'[u].st \in {"used", "gone"}
    BY <1>1, <1>2
<1>6. \A u \in Tokens : state'[u].st \in {"none", "open"} =>
                          state[u].st \in {"none", "open"}
    BY <1>1, <1>2 DEF IInv, TypeOK, Token
<1>7. ExchangesOnce'
    BY <1>5, <1>6 DEF IInv, ExchangesOnce, Exchanging, StartLink
<1>8. RefusedIsSpent'
    BY <1>5 DEF IInv, TypeOK, RefusedIsSpent, Exchanging, StartLink
<1> QED
    BY <1>4, <1>7, <1>8
       DEF IInv, OneConfirms, ConfirmsOpen, LinkedIsSpent, LapsedIsDead, StartLink

LEMMA DeniedInv ==
  ASSUME IInv, NEW t \in Tokens, Denied(t)
  PROVE  IInv'
<1>1. /\ state[t].st = "open" /\ refused' = refused \cup {t}
      /\ state' = [state EXCEPT ![t] = Spent(@)]
      /\ UNCHANGED <<pending, job, made, lapsed>>
    BY DEF Denied, Live
<1>2. TypeOK'
    BY <1>1 DEF IInv, TypeOK, Token, Spent
<1>3. \A u \in Tokens : state'[u].st = IF u = t THEN "used" ELSE state[u].st
    BY <1>1 DEF IInv, TypeOK, Token, Spent
<1>4. ExchangesOnce'
    BY <1>1, <1>3 DEF IInv, ExchangesOnce, Exchanging
<1>5. pending[t].st = "none" /\ ~Exchanging(t) /\ made[t] = 0
    BY <1>1 DEF IInv, ExchangesOnce, LinkedIsSpent
<1>6. RefusedIsSpent'
    BY <1>1, <1>3, <1>5 DEF IInv, TypeOK, RefusedIsSpent, Exchanging
<1> QED
    BY <1>1, <1>2, <1>4, <1>6
       DEF IInv, OneConfirms, ConfirmsOpen, LinkedIsSpent, LapsedIsDead

LEMMA CallbackInv ==
  ASSUME IInv, NEW t \in Tokens, NEW w \in Workers, Callback(w, t)
  PROVE  IInv'
<1>1. /\ state[t].st = "open"
      /\ state' = [state EXCEPT ![t] = Spent(@)]
      /\ job' = [job EXCEPT ![w] = Busy("exchange", t)]
      /\ UNCHANGED <<pending, made, refused, lapsed>>
    BY DEF Callback, Live
<1>2. TypeOK'
  <2>1. Busy("exchange", t) \in Job
      BY JobsDiffer
  <2>2. state' \in [Tokens -> Token]
      BY <1>1 DEF IInv, TypeOK, Token, Spent
  <2> QED BY <1>1, <2>1, <2>2 DEF IInv, TypeOK
<1>3. \A u \in Tokens : state'[u].st = IF u = t THEN "used" ELSE state[u].st
    BY <1>1 DEF IInv, TypeOK, Token, Spent
<1>4. pending[t].st = "none" /\ ~Exchanging(t) /\ t \notin refused
    BY <1>1 DEF IInv, ExchangesOnce, RefusedIsSpent
<1>5. \A v \in Workers : job'[v] = IF v = w THEN Busy("exchange", t) ELSE job[v]
    BY <1>1 DEF IInv, TypeOK
<1>6. \A u \in Tokens : Busy("exchange", t) # Busy("confirm", u)
    BY JobsDiffer
<1>7. \A u \in Tokens : u # t => Busy("exchange", t) # Busy("exchange", u)
    BY JobsDiffer
<1>8. \A u \in Tokens \ {t} : Exchanging(u)' => Exchanging(u)
    BY <1>5, <1>7 DEF Exchanging
<1>9. ExchangesOnce'
  <2> SUFFICES ASSUME NEW u \in Tokens
               PROVE /\ Exchanging(u)' => /\ state'[u].st \in {"used", "gone"}
                                          /\ pending'[u].st = "none"
                     /\ \A x, y \in Workers :
                          (job'[x] = Busy("exchange", u)
                             /\ job'[y] = Busy("exchange", u)) => x = y
                     /\ state'[u].st \in {"none", "open"} => pending'[u].st = "none"
      BY DEF ExchangesOnce
  <2>1. CASE u = t
    <3>1. state'[u].st = "used" /\ pending'[u].st = "none"
        BY <2>1, <1>1, <1>3, <1>4
    <3>2. \A x \in Workers : job'[x] = Busy("exchange", u) => x = w
        BY <2>1, <1>4, <1>5 DEF Exchanging
    <3> QED BY <3>1, <3>2
  <2>2. CASE u # t
    <3>1. state'[u].st = state[u].st /\ pending'[u].st = pending[u].st
        BY <2>2, <1>1, <1>3
    <3>2. \A x \in Workers : job'[x] = Busy("exchange", u) =>
                               job[x] = Busy("exchange", u)
        BY <2>2, <1>5, <1>7
    <3>3. Exchanging(u)' => Exchanging(u)
        BY <2>2, <1>8
    <3> QED BY <3>1, <3>2, <3>3 DEF IInv, ExchangesOnce
  <2> QED BY <2>1, <2>2
<1>10. RefusedIsSpent'
    BY <1>1, <1>3, <1>4, <1>8 DEF IInv, TypeOK, RefusedIsSpent
<1>11. OneConfirms' /\ ConfirmsOpen'
    BY <1>1, <1>5, <1>6 DEF IInv, OneConfirms, ConfirmsOpen
<1> QED
    BY <1>1, <1>2, <1>9, <1>10, <1>11 DEF IInv, LinkedIsSpent, LapsedIsDead

-----------------------------------------------------------------------------
\* No worker starts to exchange or to confirm.
NothingBegins ==
  \A v \in Workers, t \in Tokens, p \in {"exchange", "confirm"} :
    job'[v] = Busy(p, t) => job[v] = Busy(p, t)

LEMMA WorkerGoesOn ==
  ASSUME TypeOK, NEW w \in Workers, NEW t \in Tokens,
         NEW next \in {Idle, Busy("sync", t)}, job' = [job EXCEPT ![w] = next]
  PROVE  job' \in [Workers -> Job] /\ NothingBegins
<1>1. Idle \in Job /\ Busy("sync", t) \in Job
    BY JobsDiffer DEF Job
<1>2. job' \in [Workers -> Job]
    BY <1>1 DEF TypeOK
<1>3. ASSUME NEW u \in Tokens, NEW p \in {"exchange", "confirm"}
      PROVE  next # Busy(p, u)
    BY JobsDiffer
<1>4. NothingBegins
    BY <1>3 DEF NothingBegins, TypeOK
<1> QED BY <1>2, <1>4

\* Jobs that end break nothing while the rows stay as they are.
LEMMA JobsEnd ==
  ASSUME IInv, NothingBegins
  PROVE  /\ OneConfirms'
         /\ \A t \in Tokens :
              /\ Exchanging(t)' => Exchanging(t)
              /\ \A w, v \in Workers :
                   job'[w] = Busy("exchange", t) /\ job'[v] = Busy("exchange", t) => w = v
<1>1. OneConfirms'
    BY DEF IInv, OneConfirms, NothingBegins
<1>2. ASSUME NEW t \in Tokens
      PROVE  /\ Exchanging(t)' => Exchanging(t)
             /\ \A w, v \in Workers :
                  job'[w] = Busy("exchange", t) /\ job'[v] = Busy("exchange", t) => w = v
    BY DEF IInv, ExchangesOnce, Exchanging, NothingBegins
<1> QED BY <1>1, <1>2

LEMMA JobsEndInv ==
  ASSUME IInv, NothingBegins, job' \in [Workers -> Job],
         UNCHANGED <<state, pending, made, refused, lapsed>>
  PROVE  IInv'
<1>1. TypeOK'
    BY DEF IInv, TypeOK
<1>2. ConfirmsOpen'
    BY DEF IInv, ConfirmsOpen, NothingBegins
<1>3. ExchangesOnce'
    BY JobsEnd DEF IInv, ExchangesOnce
<1>4. RefusedIsSpent'
    BY JobsEnd DEF IInv, TypeOK, RefusedIsSpent
<1> QED BY <1>1, <1>2, <1>3, <1>4, JobsEnd DEF IInv, LinkedIsSpent, LapsedIsDead

LEMMA EndInv ==
  ASSUME IInv, NEW w \in Workers, End(w)
  PROVE  IInv'
<1>1. CASE Tokens = {}
  <2>1. job' = [job EXCEPT ![w] = Idle]
      BY DEF End
  <2>2. Idle \in Job
      BY DEF Job
  <2> QED BY <1>1, <2>1, <2>2, JobsEndInv DEF End, IInv, TypeOK, NothingBegins
<1>2. ASSUME NEW t \in Tokens
      PROVE  IInv'
    BY WorkerGoesOn, JobsEndInv DEF End, IInv
<1> QED BY <1>1, <1>2

\* What refusing and expiring change.
LEMMA ConfirmExpiredInv ==
  ASSUME IInv, NEW w \in Workers, NEW t \in Tokens, ConfirmExpired(w, t)
  PROVE  IInv'
BY DEF ConfirmExpired, CanSpend, IInv, TypeOK, OneConfirms, ConfirmsOpen,
       ExchangesOnce, Exchanging, LinkedIsSpent, RefusedIsSpent, LapsedIsDead

LEMMA BeginConfirmInv ==
  ASSUME IInv, NEW w \in Workers, NEW t \in Tokens, BeginConfirm(w, t)
  PROVE  IInv'
<1>1. /\ \A v \in Workers, u \in Tokens : job[v] # Busy("confirm", u)
      /\ pending[t].st = "open"
      /\ job' = [job EXCEPT ![w] = Busy("confirm", t)]
      /\ UNCHANGED <<state, pending, made, refused, lapsed>>
    BY DEF BeginConfirm, CanSpend, Live, Locked, Confirming
<1>2. Busy("confirm", t) \in Job
    BY JobsDiffer
<1>3. TypeOK'
    BY <1>1, <1>2 DEF IInv, TypeOK
<1>4. \A v \in Workers : job'[v] = IF v = w THEN Busy("confirm", t) ELSE job[v]
    BY <1>1 DEF IInv, TypeOK
<1>5. OneConfirms'
    BY <1>1, <1>4 DEF OneConfirms
<1>6. \A u \in Tokens : u # t => Busy("confirm", t) # Busy("confirm", u)
    BY JobsDiffer
<1>7. ConfirmsOpen'
    BY <1>1, <1>4, <1>6 DEF ConfirmsOpen
<1>8. \A v \in Workers, u \in Tokens :
         job'[v] = Busy("exchange", u) => job[v] = Busy("exchange", u)
  <2>1. \A u \in Tokens : Busy("confirm", t) # Busy("exchange", u)
      BY JobsDiffer
  <2> QED BY <1>4, <2>1
<1>9. \A u \in Tokens : Exchanging(u)' => Exchanging(u)
    BY <1>8 DEF Exchanging
<1>10. ExchangesOnce'
    BY <1>1, <1>8, <1>9 DEF IInv, ExchangesOnce
<1>11. RefusedIsSpent'
    BY <1>1, <1>9 DEF IInv, TypeOK, RefusedIsSpent
<1> QED BY <1>1, <1>3, <1>5, <1>7, <1>10, <1>11 DEF IInv, LinkedIsSpent, LapsedIsDead

\* A row that is cancelled had made no link, and no confirmation holds it.
LEMMA CancelInv ==
  ASSUME IInv, NEW t \in Tokens, Cancel(t)
  PROVE  IInv'
<1>1. /\ \A v \in Workers : job[v] # Busy("confirm", t)
      /\ pending[t].st = "open" /\ refused' = refused \cup {t}
      /\ pending' = [pending EXCEPT ![t] = Spent(@)]
      /\ UNCHANGED <<state, job, made, lapsed>>
    BY DEF Cancel, CanSpend, Live, Confirming
<1>2. TypeOK'
    BY <1>1 DEF IInv, TypeOK, Token, Spent
<1>3. \A u \in Tokens : pending'[u].st = IF u = t THEN "used" ELSE pending[u].st
    BY <1>1 DEF IInv, TypeOK, Token, Spent
<1>4. /\ state[t].st \in {"used", "gone"} /\ ~Exchanging(t) /\ made[t] = 0
    BY <1>1 DEF IInv, TypeOK, Token, ExchangesOnce, LinkedIsSpent
<1>5. ConfirmsOpen'
    BY <1>1, <1>3 DEF IInv, ConfirmsOpen
<1>6. ExchangesOnce'
  <2> SUFFICES ASSUME NEW u \in Tokens
               PROVE /\ Exchanging(u) => /\ state[u].st \in {"used", "gone"}
                                         /\ pending'[u].st = "none"
                     /\ \A w, v \in Workers :
                          (job[w] = Busy("exchange", u)
                             /\ job[v] = Busy("exchange", u)) => w = v
                     /\ state[u].st \in {"none", "open"} => pending'[u].st = "none"
      BY <1>1 DEF ExchangesOnce, Exchanging
  <2> QED BY <1>3, <1>4 DEF IInv, ExchangesOnce
<1>7. LinkedIsSpent'
    BY <1>1, <1>3, <1>4 DEF IInv, LinkedIsSpent
<1>8. RefusedIsSpent'
    BY <1>1, <1>3, <1>4 DEF IInv, TypeOK, RefusedIsSpent, Exchanging
<1>9. LapsedIsDead'
    BY <1>1, <1>3 DEF IInv, TypeOK, LapsedIsDead, Live
<1> QED BY <1>1, <1>2, <1>5, <1>6, <1>7, <1>8, <1>9 DEF IInv, OneConfirms

\* The purge spares what a confirmation holds, and the row it stores is new.
LEMMA ExchangedInv ==
  ASSUME IInv, NEW w \in Workers, NEW t \in Tokens, Exchanged(w, t)
  PROVE  IInv'
<1> DEFINE purged == Purged(pending)
<1>1. /\ job[w] = Busy("exchange", t) /\ job' = [job EXCEPT ![w] = Idle]
      /\ \A u \in Tokens, v \in Workers :
           job[v] = Busy("confirm", u) => pending[u].left > 0
      /\ pending' = [purged EXCEPT ![t] = Opened]
      /\ UNCHANGED <<state, made, refused, lapsed>>
    BY DEF Exchanged, Confirming
<1>2. /\ purged \in [Tokens -> Token]
      /\ \A u \in Tokens :
           /\ purged[u].left = pending[u].left
           /\ purged[u].st = IF Dead(pending[u]) THEN "gone" ELSE pending[u].st
    BY PurgedRows DEF IInv, TypeOK
<1>3. Opened \in Token /\ Opened.st = "open" /\ Idle \in Job
    BY ConsentAssumption DEF Opened, Token, Job
<1> HIDE DEF purged
<1>4. NothingBegins /\ job' \in [Workers -> Job]
    BY <1>1, WorkerGoesOn DEF IInv
<1>5. TypeOK'
    BY <1>1, <1>2, <1>3, <1>4 DEF IInv, TypeOK
<1>6. \A u \in Tokens : pending'[u] = IF u = t THEN Opened ELSE purged[u]
    BY <1>1, <1>2
<1>7. /\ pending[t].st = "none" /\ state[t].st \in {"used", "gone"}
      /\ t \notin refused /\ t \notin lapsed /\ made[t] = 0
    BY <1>1 DEF IInv, ExchangesOnce, Exchanging, RefusedIsSpent, LapsedIsDead,
                LinkedIsSpent
<1>8. ~Exchanging(t)'
  <2>1. \A v \in Workers : job[v] = Busy("exchange", t) => v = w
      BY <1>1 DEF IInv, ExchangesOnce
  <2>2. Idle # Busy("exchange", t)
      BY JobsDiffer
  <2> QED BY <2>1, <2>2, <1>1 DEF Exchanging, IInv, TypeOK
<1>9. \A u \in Tokens : u # t => pending'[u].st = "none" <=> pending[u].st = "none"
    BY <1>2, <1>6 DEF Dead
<1>10. ConfirmsOpen'
  <2> SUFFICES ASSUME NEW v \in Workers, NEW u \in Tokens,
                      job'[v] = Busy("confirm", u)
               PROVE  pending'[u].st = "open"
      BY DEF ConfirmsOpen
  <2>1. job[v] = Busy("confirm", u)
      BY <1>4 DEF NothingBegins
  <2>2. pending[u].st = "open" /\ pending[u].left > 0
      BY <2>1, <1>1 DEF IInv, ConfirmsOpen
  <2>3. ~Dead(pending[u])
      BY <2>2 DEF IInv, TypeOK, Token, Dead
  <2> QED BY <2>2, <2>3, <1>2, <1>3, <1>6
<1>11. ExchangesOnce'
  <2> SUFFICES ASSUME NEW u \in Tokens
               PROVE /\ Exchanging(u)' => /\ state[u].st \in {"used", "gone"}
                                          /\ pending'[u].st = "none"
                     /\ state[u].st \in {"none", "open"} => pending'[u].st = "none"
      BY <1>1, <1>4, JobsEnd DEF ExchangesOnce
  <2>1. CASE u = t
      BY <2>1, <1>7, <1>8
  <2>2. CASE u # t
      BY <2>2, <1>4, <1>9, JobsEnd DEF IInv, ExchangesOnce
  <2> QED BY <2>1, <2>2
<1>12. LinkedIsSpent'
  <2> SUFFICES ASSUME NEW u \in Tokens, made[u] = 1
               PROVE  pending'[u].st \in {"used", "gone"}
      BY <1>1 DEF IInv, LinkedIsSpent
  <2> QED BY <1>2, <1>6, <1>7 DEF IInv, LinkedIsSpent
<1>13. RefusedIsSpent'
  <2> SUFFICES ASSUME NEW u \in refused
               PROVE  /\ made[u] = 0 /\ state[u].st \in {"used", "gone"}
                      /\ pending'[u].st # "open" /\ ~Exchanging(u)'
      BY <1>1 DEF RefusedIsSpent
  <2>1. u \in Tokens /\ u # t
      BY <1>7 DEF IInv, TypeOK
  <2> QED BY <2>1, <1>2, <1>4, <1>6, JobsEnd DEF IInv, RefusedIsSpent
<1>14. LapsedIsDead'
  <2> SUFFICES ASSUME NEW u \in lapsed
               PROVE  pending'[u].st # "none" /\ ~Live(pending'[u])
      BY <1>1 DEF LapsedIsDead
  <2>1. u \in Tokens /\ u # t /\ pending[u].st # "none" /\ ~Live(pending[u])
      BY <1>7 DEF IInv, TypeOK, LapsedIsDead
  <2> QED BY <2>1, <1>2, <1>6, <1>9 DEF Live
<1> QED BY <1>4, <1>5, <1>10, <1>11, <1>12, <1>13, <1>14, JobsEnd DEF IInv

\* A confirmation spends its row with the link, or lets it lapse.
LEMMA EndConfirmInv ==
  ASSUME IInv, NEW w \in Workers, NEW t \in Tokens, EndConfirm(w, t)
  PROVE  IInv'
<1>1. /\ job[w] = Busy("confirm", t) /\ pending[t].st = "open"
      /\ UNCHANGED <<state, refused>>
    BY DEF EndConfirm, IInv, ConfirmsOpen
<1>2. /\ made[t] = 0 /\ t \notin refused /\ ~Exchanging(t)
      /\ state[t].st \in {"used", "gone"}
    BY <1>1 DEF IInv, TypeOK, Token, LinkedIsSpent, RefusedIsSpent, ExchangesOnce
<1>3. \E next \in {Idle, Busy("sync", t)} : job' = [job EXCEPT ![w] = next]
    BY DEF EndConfirm
<1>4. NothingBegins /\ job' \in [Workers -> Job]
    BY <1>3, WorkerGoesOn DEF IInv
<1>5. \A v \in Workers, u \in Tokens : job'[v] = Busy("confirm", u) => u # t
  <2> SUFFICES ASSUME NEW v \in Workers, job'[v] = Busy("confirm", t)
               PROVE  FALSE
      OBVIOUS
  <2>1. v = w
      BY <1>1, <1>4 DEF NothingBegins, IInv, OneConfirms
  <2>2. Busy("confirm", t) # Idle /\ Busy("confirm", t) # Busy("sync", t)
      BY JobsDiffer
  <2> QED BY <1>3, <2>1, <2>2 DEF IInv, TypeOK
<1>6. CASE Consented(t)
  <2>1. /\ pending' = [pending EXCEPT ![t] = Spent(@)] /\ lapsed' = lapsed
        /\ \/ made' = made
           \/ made' = [made EXCEPT ![t] = @ + 1]
      BY <1>6 DEF EndConfirm
  <2>2. /\ pending' \in [Tokens -> Token]
        /\ \A u \in Tokens : pending'[u].st = IF u = t THEN "used" ELSE pending[u].st
        /\ \A u \in Tokens : u # t => pending'[u] = pending[u]
      BY <2>1 DEF IInv, TypeOK, Token, Spent
  <2>3. /\ made' \in [Tokens -> Nat] /\ made'[t] \in {0, 1}
        /\ \A u \in Tokens : u # t => made'[u] = made[u]
      BY <2>1, <1>2 DEF IInv, TypeOK
  <2>4. TypeOK'
      BY <1>1, <1>4, <2>1, <2>2, <2>3 DEF IInv, TypeOK
  <2>5. ConfirmsOpen'
      BY <1>4, <1>5, <2>2 DEF IInv, ConfirmsOpen, NothingBegins
  <2>6. ExchangesOnce'
    <3> SUFFICES ASSUME NEW u \in Tokens
                 PROVE /\ Exchanging(u)' => /\ state[u].st \in {"used", "gone"}
                                            /\ pending'[u].st = "none"
                       /\ state[u].st \in {"none", "open"} => pending'[u].st = "none"
        BY <1>1, <1>4, JobsEnd DEF ExchangesOnce
    <3>1. CASE u = t
        BY <3>1, <1>2, <1>4, JobsEnd
    <3>2. CASE u # t
        BY <3>2, <1>4, <2>2, JobsEnd DEF IInv, ExchangesOnce
    <3> QED BY <3>1, <3>2
  <2>7. LinkedIsSpent'
      BY <2>2, <2>3 DEF IInv, LinkedIsSpent
  <2>8. RefusedIsSpent'
    <3> SUFFICES ASSUME NEW u \in refused
                 PROVE  /\ made'[u] = 0 /\ state[u].st \in {"used", "gone"}
                        /\ pending'[u].st # "open" /\ ~Exchanging(u)'
        BY <1>1 DEF RefusedIsSpent
    <3>1. u \in Tokens /\ u # t
        BY <1>2 DEF IInv, TypeOK
    <3> QED BY <3>1, <1>4, <2>2, <2>3, JobsEnd DEF IInv, RefusedIsSpent
  <2>9. LapsedIsDead'
    <3> SUFFICES ASSUME NEW u \in lapsed
                 PROVE  pending'[u].st # "none" /\ ~Live(pending'[u])
        BY <2>1 DEF LapsedIsDead
    <3>1. u \in Tokens /\ pending[u].st # "none" /\ ~Live(pending[u])
        BY DEF IInv, TypeOK, LapsedIsDead
    <3> QED BY <3>1, <2>2 DEF Live
  <2> QED BY <1>4, <2>4, <2>5, <2>6, <2>7, <2>8, <2>9, JobsEnd DEF IInv
<1>7. CASE ~Consented(t)
  <2>1. /\ lapsed' = lapsed \cup {t} /\ UNCHANGED <<pending, made>>
      BY <1>7 DEF EndConfirm
  <2>2. ~Live(pending[t])
      BY <1>7 DEF Consented, Live
  <2>3. LapsedIsDead'
      BY <1>1, <2>1, <2>2 DEF IInv, LapsedIsDead
  <2>4. TypeOK'
      BY <1>1, <1>4, <2>1 DEF IInv, TypeOK
  <2>5. ConfirmsOpen'
      BY <1>4, <2>1 DEF IInv, ConfirmsOpen, NothingBegins
  <2>6. ExchangesOnce'
      BY <1>1, <1>4, <2>1, JobsEnd DEF IInv, ExchangesOnce
  <2>7. RefusedIsSpent'
      BY <1>1, <1>4, <2>1, JobsEnd DEF IInv, TypeOK, RefusedIsSpent
  <2> QED BY <1>4, <2>1, <2>3, <2>4, <2>5, <2>6, <2>7, JobsEnd DEF IInv, LinkedIsSpent
<1> QED BY <1>6, <1>7

\* Time opens nothing.
LEMMA TickInv ==
  ASSUME IInv, Tick
  PROVE  IInv'
<1> DEFINE older == Older(pending)
           aged == Older(state)
<1>1. /\ older \in [Tokens -> Token]
      /\ \A t \in Tokens : /\ older[t].st = pending[t].st
                           /\ older[t].left <= pending[t].left
      /\ aged \in [Tokens -> Token]
      /\ \A t \in Tokens : aged[t].st = state[t].st
    BY OlderRows DEF IInv, TypeOK
<1>2. pending' = older /\ state' = aged /\ UNCHANGED <<job, made, refused, lapsed>>
    BY DEF Tick
<1> HIDE DEF older, aged
<1>3. TypeOK'
    BY <1>1, <1>2 DEF IInv, TypeOK
<1>4. ExchangesOnce'
    BY <1>1, <1>2 DEF IInv, ExchangesOnce, Exchanging
<1>5. RefusedIsSpent'
    BY <1>1, <1>2 DEF IInv, TypeOK, RefusedIsSpent, Exchanging
<1>6. LapsedIsDead'
  <2> SUFFICES ASSUME NEW t \in lapsed
               PROVE  older[t].st # "none" /\ ~Live(older[t])
      BY <1>2 DEF LapsedIsDead
  <2>1. t \in Tokens /\ pending[t].st # "none" /\ ~Live(pending[t])
      BY DEF IInv, TypeOK, LapsedIsDead
  <2>2. pending[t].left \in Nat /\ older[t].left \in Nat
      BY <2>1, <1>1, ConsentAssumption DEF IInv, TypeOK, Token
  <2> QED BY <2>1, <2>2, <1>1 DEF Live
<1> QED
    BY <1>1, <1>2, <1>3, <1>4, <1>5, <1>6
       DEF IInv, OneConfirms, ConfirmsOpen, LinkedIsSpent

-----------------------------------------------------------------------------
LEMMA NextInv == IInv /\ [Next]_vars => IInv'
<1> SUFFICES ASSUME IInv, [Next]_vars
             PROVE  IInv'
    OBVIOUS
<1>1. ASSUME NEW t \in Tokens, StartLink(t) \/ Denied(t) \/ Cancel(t)
      PROVE  IInv'
    BY <1>1, StartLinkInv, DeniedInv, CancelInv
<1>2. ASSUME NEW t \in Tokens, NEW w \in Workers,
             \/ Callback(w, t) \/ Exchanged(w, t)
             \/ BeginConfirm(w, t) \/ ConfirmExpired(w, t) \/ EndConfirm(w, t)
      PROVE  IInv'
    BY <1>2, CallbackInv, ExchangedInv, BeginConfirmInv, ConfirmExpiredInv,
       EndConfirmInv
<1>3. ASSUME NEW w \in Workers, End(w)
      PROVE  IInv'
    BY <1>3, EndInv
<1>4. CASE Tick
    BY <1>4, TickInv
<1>5. CASE UNCHANGED vars
    BY <1>5
       DEF vars, IInv, TypeOK, OneConfirms, ConfirmsOpen, ExchangesOnce, Exchanging,
           LinkedIsSpent, RefusedIsSpent, LapsedIsDead
<1> QED BY <1>1, <1>2, <1>3, <1>4, <1>5 DEF Next

\* The rows, the jobs and the histories keep their types, and what is used or
\* refused stays so (spend_token, confirm_link).
THEOREM Invariant == Spec => []IInv
BY InitInv, NextInv, PTL DEF Spec

\* One consent makes one link at most, however its confirmations race.
THEOREM LinksOnce == Spec => []LinkedOnce
<1>1. IInv => LinkedOnce
  <2> SUFFICES ASSUME IInv, NEW t \in Tokens
               PROVE  made[t] <= 1
      BY DEF LinkedOnce
  <2>1. made[t] = 0 \/ made[t] = 1
      BY DEF IInv, LinkedIsSpent
  <2> QED BY <2>1
<1> QED BY <1>1, Invariant, PTL

\* An attempt that was denied or cancelled never makes a link.
THEOREM RefusesFinally == Spec => []RefusedIsFinal
<1>1. IInv => RefusedIsFinal
    BY DEF IInv, RefusedIsSpent, RefusedIsFinal
<1> QED BY <1>1, Invariant, PTL

\* Links are made in time, and not after the consent was called expired.
THEOREM LinksInTime == Spec => LinkedInTime
<1> DEFINE InTime == \A t \in Tokens :
             made'[t] # made[t] => Live(pending[t]) /\ (t \notin lapsed \/ made[t] > 0)
<1>1. ASSUME IInv, Next
      PROVE  InTime
  <2>1. CASE made' = made
      BY <2>1
  <2>2. CASE made' # made
    <3>1. PICK w \in Workers, t \in Tokens : EndConfirm(w, t)
        BY <1>1, <2>2
           DEF Next, StartLink, Denied, Cancel, Callback, Exchanged, BeginConfirm,
               ConfirmExpired, End, Tick
    <3>2. Consented(t) /\ \A u \in Tokens : u # t => made'[u] = made[u]
        BY <1>1, <2>2, <3>1 DEF EndConfirm, IInv, TypeOK
    <3>3. Live(pending[t])
        BY <1>1, <3>1, <3>2 DEF EndConfirm, Consented, Live, IInv, ConfirmsOpen
    <3>4. t \notin lapsed
        BY <1>1, <3>3 DEF IInv, LapsedIsDead
    <3> QED BY <3>2, <3>3, <3>4
  <2> QED BY <2>1, <2>2
<1>2. IInv /\ [Next]_vars => [InTime]_vars
    BY <1>1
<1> QED BY <1>2, Invariant, PTL DEF Spec, LinkedInTime
=============================================================================
