--------------------------- MODULE PatreonConsent ---------------------------
(***************************************************************************)
(* From a supporter's OAuth consent to a link (backend/src/patreon/        *)
(* linking.py).  A started link has a state token; the callback spends it, *)
(* asks Patreon who consented, and stores a pending link under a second    *)
(* token; confirming or cancelling spends that.  Both tokens expire.       *)
(*                                                                         *)
(* A token stands for one attempt, from its start to its end: the state    *)
(* and the pending row it leads to.  Requests run in worker threads, may   *)
(* be repeated by impatient browsers and may die half way.  Spending a     *)
(* token is atomic (a row lock, then the clock, then one UPDATE).          *)
(* Confirming is not: the pending row is spent and the link made in one    *)
(* transaction under PATREON_LOCK, and time passes while that waits.       *)
(***************************************************************************)
EXTENDS Naturals

CONSTANTS Tokens, Workers,
          Ttl      \* ticks a state or a pending row lives

ASSUME ConsentAssumption == Ttl \in Nat \ {0}

VARIABLES
  state,    \* patreon_oauth_states
  pending,  \* patreon_pending_links
  job,      \* the request each worker runs, if it is one of several steps
  made,     \* history: how many links each attempt made
  refused,  \* history: attempts answered as denied or cancelled
  lapsed    \* history: attempts a confirmation was answered "expired" for

vars == <<state, pending, job, made, refused, lapsed>>

\* A row: not there yet, usable, used, or deleted again.
Token == [st : {"none", "open", "used", "gone"}, left : 0..Ttl]
NoToken == [st |-> "none", left |-> 0]
Opened == [st |-> "open", left |-> Ttl]
Spent(row) == [row EXCEPT !.st = "used"]

Live(row) == row.st = "open" /\ row.left > 0

\* "confirm" has the transaction open, "sync" looks the patron up after it.
Idle == [pc |-> "idle"]
Busy(pc, t) == [pc |-> pc, of |-> t]
Job == {Idle} \cup {Busy(pc, t) : pc \in {"exchange", "confirm", "sync"}, t \in Tokens}

TypeOK ==
  /\ state \in [Tokens -> Token] /\ pending \in [Tokens -> Token]
  /\ job \in [Workers -> Job]
  /\ made \in [Tokens -> Nat]
  /\ refused \subseteq Tokens /\ lapsed \subseteq Tokens

Init ==
  /\ state = [t \in Tokens |-> NoToken]
  /\ pending = [t \in Tokens |-> NoToken]
  /\ job = [w \in Workers |-> Idle]
  /\ made = [t \in Tokens |-> 0]
  /\ refused = {} /\ lapsed = {}

Dead(row) == row.st = "used" \/ (row.st = "open" /\ row.left = 0)
Purged(rows) == [t \in Tokens |-> IF Dead(rows[t]) THEN [rows[t] EXCEPT !.st = "gone"]
                                                   ELSE rows[t]]

\* The confirmation that has the pending row of t locked, and PATREON_LOCK.
Confirming(t) == \E w \in Workers : job[w] = Busy("confirm", t)
Locked == \E t \in Tokens : Confirming(t)

-----------------------------------------------------------------------------
\* start_link drops what is used or expired and stores a new state.
StartLink(t) ==
  /\ state[t].st = "none"
  /\ state' = [Purged(state) EXCEPT ![t] = Opened]
  /\ UNCHANGED <<pending, job, made, refused, lapsed>>

\* The supporter declined: the callback only spends the state.
Denied(t) ==
  /\ Live(state[t])
  /\ state' = [state EXCEPT ![t] = Spent(@)]
  /\ refused' = refused \cup {t}
  /\ UNCHANGED <<pending, job, made, lapsed>>

\* The supporter agreed: the callback spends the state and goes on to Patreon.
Callback(w, t) ==
  /\ job[w] = Idle
  /\ Live(state[t])
  /\ state' = [state EXCEPT ![t] = Spent(@)]
  /\ job' = [job EXCEPT ![w] = Busy("exchange", t)]
  /\ UNCHANGED <<pending, made, refused, lapsed>>

\* Patreon told who consented.  Purging waits for a confirmation that has an
\* expired row locked.
Exchanged(w, t) ==
  /\ job[w] = Busy("exchange", t)
  /\ \A u \in Tokens : Confirming(u) => pending[u].left > 0
  /\ pending' = [Purged(pending) EXCEPT ![t] = Opened]
  /\ job' = [job EXCEPT ![w] = Idle]
  /\ UNCHANGED <<state, made, refused, lapsed>>

\* Faulty: any row that was not deleted will do.
CanSpendAgain(t) == pending[t].st \in {"open", "used"} /\ pending[t].left > 0

\* What spending a pending row asks for, once its lock is held.
CanSpend(t) == Live(pending[t])

\* cancel_link waits for a confirmation of the same row.
Cancel(t) ==
  /\ ~Confirming(t)
  /\ CanSpend(t)
  /\ pending' = [pending EXCEPT ![t] = Spent(@)]
  /\ refused' = refused \cup {t}
  /\ UNCHANGED <<state, job, made, lapsed>>

\* confirm_link gets PATREON_LOCK and the row.
BeginConfirm(w, t) ==
  /\ job[w] = Idle
  /\ ~Locked
  /\ CanSpend(t)
  /\ job' = [job EXCEPT ![w] = Busy("confirm", t)]
  /\ UNCHANGED <<state, pending, made, refused, lapsed>>

\* It finds nothing to confirm.
ConfirmExpired(w, t) ==
  /\ job[w] = Idle
  /\ ~Locked
  /\ pending[t].st # "none" /\ ~CanSpend(t)
  /\ lapsed' = lapsed \cup {t}
  /\ UNCHANGED <<state, pending, job, made, refused>>

\* Faulty: the clock is only read when the row is spent.
StillConsented(t) == TRUE

\* The check at the end of the transaction.
Consented(t) == pending[t].left > 0

\* The transaction ends.  The link was made, or refused by _link's rules, or
\* an error undid that part of it; the row is spent in any case, unless the
\* consent expired meanwhile, which undoes everything.  A patron who is not
\* known yet is looked up by a full sync, without a transaction.
EndConfirm(w, t) ==
  /\ job[w] = Busy("confirm", t)
  /\ IF Consented(t)
       THEN /\ pending' = [pending EXCEPT ![t] = Spent(@)]
            /\ UNCHANGED lapsed
            /\ \E linked, known \in BOOLEAN :
                 /\ made' = IF linked THEN [made EXCEPT ![t] = @ + 1] ELSE made
                 /\ job' = [job EXCEPT ![w] = IF linked /\ ~known THEN Busy("sync", t)
                                                                 ELSE Idle]
       ELSE /\ lapsed' = lapsed \cup {t}
            /\ job' = [job EXCEPT ![w] = Idle]
            /\ UNCHANGED <<pending, made>>
  /\ UNCHANGED <<state, refused>>

\* A request ends: an exchange that failed, a look-up that succeeded or not,
\* or any request whose process dies, which rolls its transaction back.
End(w) ==
  /\ job[w] # Idle
  /\ job' = [job EXCEPT ![w] = Idle]
  /\ UNCHANGED <<state, pending, made, refused, lapsed>>

Older(rows) == [t \in Tokens |-> [rows[t] EXCEPT !.left = IF @ = 0 THEN 0 ELSE @ - 1]]

Tick ==
  /\ state' = Older(state)
  /\ pending' = Older(pending)
  /\ UNCHANGED <<job, made, refused, lapsed>>

Next ==
  \/ \E t \in Tokens :
       \/ StartLink(t) \/ Denied(t) \/ Cancel(t)
       \/ \E w \in Workers :
            \/ Callback(w, t) \/ Exchanged(w, t)
            \/ BeginConfirm(w, t) \/ ConfirmExpired(w, t) \/ EndConfirm(w, t)
  \/ \E w \in Workers : End(w)
  \/ Tick

Spec == Init /\ [][Next]_vars

-----------------------------------------------------------------------------
\* One consent makes one link at most, however often it is confirmed and
\* however confirmations and a cancellation race ("only one gets the row").
LinkedOnce == \A t \in Tokens : made[t] <= 1

\* An attempt that was declined at Patreon or cancelled on the site never
\* makes a link, not even by a confirmation that was already waiting.
RefusedIsFinal == \A t \in refused : made[t] = 0

\* A link is only made while the consent is still good when the transaction
\* that makes it ends, and never after somebody was told it expired; a row
\* that was used by then is not used again.
LinkedInTime ==
  [][\A t \in Tokens :
       made'[t] # made[t] => Live(pending[t]) /\ (t \notin lapsed \/ made[t] > 0)]_vars
=============================================================================
