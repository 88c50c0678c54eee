---------------------------- MODULE PatreonSync ----------------------------
(***************************************************************************)
(* How member data gets from Patreon into patreon_members                  *)
(* (service.py _run_fetch, linking.py webhooks).  Runs of several worker   *)
(* threads and processes fetch members over HTTP with no transaction open, *)
(* under the "sync" lease, and then store what they fetched in one         *)
(* transaction.  Webhooks record a member for a refresh of its own.        *)
(*                                                                         *)
(* The data of a member is a version number: what Patreon has now, what a  *)
(* run fetched and what is stored.  Version 0 is "not stored".             *)
(***************************************************************************)
EXTENDS PatreonLease, FiniteSets

CONSTANTS Members, Workers,
          MaxVersion,  \* bound: changes of a member at Patreon
          Deaths       \* whether processes may end in the middle of their work

ASSUME SyncAssumption ==
  MaxVersion \in Nat \ {0} /\ Deaths \in BOOLEAN /\ Nobody \notin Workers /\ IsFiniteSet(Members)

VARIABLES
  remote,   \* version of each member at Patreon
  gone,     \* members Patreon no longer serves by id
  stored,   \* version of each member in patreon_members
  lease,    \* the "sync" row of patreon_leases
  queue,    \* patreon_webhook_members
  tasks,    \* refreshes the process was told to run and has not started
  job,      \* what each worker is doing
  owed      \* history: version of each member when its last webhook was recorded

vars == <<remote, gone, stored, lease, queue, tasks, job, owed>>

\* A run is for every member or a refresh of one.  It fetches what is in todo,
\* stores the versions it fetched and gives the lease back; a refresh that is
\* done (stored, or its member is gone) then drops its webhook row.
Job == [pc : {"idle", "fetch", "release", "drop"},
        full : BOOLEAN, of : SUBSET Members, done : BOOLEAN,
        todo : SUBSET Members, snap : [Members -> 0..MaxVersion]]

Nothing == [m \in Members |-> 0]
IdleJob == [pc |-> "idle", full |-> FALSE, of |-> {}, done |-> FALSE,
            todo |-> {}, snap |-> Nothing]
NewJob(full, of) == [IdleJob EXCEPT !.pc = "fetch", !.full = full, !.of = of,
                                    !.todo = of]

TypeOK ==
  /\ remote \in [Members -> 1..MaxVersion] /\ stored \in [Members -> 0..MaxVersion]
  /\ owed \in [Members -> 0..MaxVersion]
  /\ gone \subseteq Members /\ queue \subseteq Members /\ tasks \subseteq Members
  /\ lease \in Lease(Workers)
  /\ job \in [Workers -> Job]

Init ==
  /\ remote = [m \in Members |-> 1]
  /\ stored = Nothing
  /\ owed = Nothing
  /\ gone = {} /\ queue = {} /\ tasks = {}
  /\ lease = Unowned
  /\ job = [w \in Workers |-> IdleJob]

-----------------------------------------------------------------------------
(* Patreon and its webhooks                                                *)

\* A member changes at Patreon, perhaps so that its id is no longer served.
RemoteChange(m) ==
  /\ remote[m] < MaxVersion
  /\ remote' = [remote EXCEPT ![m] = @ + 1]
  /\ gone' \in {gone, gone \cup {m}}
  /\ UNCHANGED <<stored, lease, queue, tasks, job, owed>>

\* A webhook for m arrives, now or late, once or again: the member is
\* recorded and the reply schedules its refresh.
Webhook(m) ==
  /\ queue' = queue \cup {m}
  /\ tasks' = tasks \cup {m}
  /\ owed' = [owed EXCEPT ![m] = remote[m]]
  /\ UNCHANGED <<remote, gone, stored, lease, job>>

\* retry_pending_webhooks, at the start of every round of the sync loop.
Retry ==
  /\ tasks' = tasks \cup queue
  /\ UNCHANGED <<remote, gone, stored, lease, queue, job, owed>>

\* A process ends before it got to the refresh of m.
LoseTask(m) ==
  /\ Deaths
  /\ m \in tasks
  /\ tasks' = tasks \ {m}
  /\ UNCHANGED <<remote, gone, stored, lease, queue, job, owed>>

-----------------------------------------------------------------------------
(* Runs                                                                    *)

\* sync_now takes the lease; while another run has it the answer is busy.
StartFull(w) ==
  /\ job[w].pc = "idle"
  /\ Available(lease)
  /\ lease' = Acquired(w)
  /\ job' = [job EXCEPT ![w] = NewJob(TRUE, Members)]
  /\ UNCHANGED <<remote, gone, stored, queue, tasks, owed>>

\* refresh_webhook_member_sync: the same for one member.  If the lease is
\* busy the refresh is given up and the row stays in the queue.
StartRefresh(w, m) ==
  /\ job[w].pc = "idle"
  /\ m \in tasks
  /\ tasks' = tasks \ {m}
  /\ IF Available(lease)
       THEN /\ lease' = Acquired(w)
            /\ job' = [job EXCEPT ![w] = NewJob(FALSE, {m})]
       ELSE UNCHANGED <<lease, job>>
  /\ UNCHANGED <<remote, gone, stored, queue, owed>>

Finished(j, ok) == [j EXCEPT !.pc = "release", !.done = ok]

\* One HTTP request of a run, for the page that holds m: the heartbeat before
\* it renews the lease.  A member Patreon no longer serves by id ends its
\* refresh; the full sync stores it as a former patron.
Fetch(w, m) ==
  /\ job[w].pc = "fetch" /\ m \in job[w].todo
  /\ Holds(lease, w)
  /\ lease' = Renewed(lease)
  /\ job' = [job EXCEPT ![w] =
               IF m \in gone /\ ~job[w].full
                 THEN Finished(job[w], TRUE)
                 ELSE [job[w] EXCEPT !.todo = @ \ {m}, !.snap[m] = remote[m]]]
  /\ UNCHANGED <<remote, gone, stored, queue, tasks, owed>>

\* The request fails, or the heartbeat finds the lease lost.
FetchFails(w) ==
  /\ job[w].pc = "fetch" /\ job[w].todo # {}
  /\ job' = [job EXCEPT ![w] = Finished(job[w], FALSE)]
  /\ UNCHANGED <<remote, gone, stored, lease, queue, tasks, owed>>

\* Faulty: stores without looking at the lease again.
StoreUnchecked(w) ==
  /\ job[w].pc = "fetch" /\ job[w].todo = {}
  /\ stored' = [m \in Members |-> IF m \in job[w].of THEN job[w].snap[m] ELSE stored[m]]
  /\ job' = [job EXCEPT ![w] = Finished(job[w], TRUE)]
  /\ UNCHANGED <<remote, gone, lease, queue, tasks, owed>>

\* Faulty: stores new members and does not update the ones it knows.
StoreInsertOnly(w) ==
  /\ job[w].pc = "fetch" /\ job[w].todo = {}
  /\ stored' = [m \in Members |->
                  IF m \in job[w].of /\ Holds(lease, w) /\ stored[m] = 0
                    THEN job[w].snap[m] ELSE stored[m]]
  /\ job' = [job EXCEPT ![w] = Finished(job[w], Holds(lease, w))]
  /\ UNCHANGED <<remote, gone, lease, queue, tasks, owed>>

\* The write transaction, which locks the lease row and rolls back unless the
\* lease is held at its start and still at its end.
Store(w) ==
  /\ job[w].pc = "fetch" /\ job[w].todo = {}
  /\ stored' = [m \in Members |-> IF m \in job[w].of /\ Holds(lease, w)
                                    THEN job[w].snap[m] ELSE stored[m]]
  /\ job' = [job EXCEPT ![w] = Finished(job[w], Holds(lease, w))]
  /\ UNCHANGED <<remote, gone, lease, queue, tasks, owed>>

Release(w) ==
  /\ job[w].pc = "release"
  /\ lease' = Released(lease, w)
  /\ job' = [job EXCEPT ![w] = IF @.done /\ ~@.full
                                 THEN [IdleJob EXCEPT !.pc = "drop", !.of = job[w].of]
                                 ELSE IdleJob]
  /\ UNCHANGED <<remote, gone, stored, queue, tasks, owed>>

\* The refresh deletes its member's webhook row.
Drop(w) ==
  /\ job[w].pc = "drop"
  /\ queue' = queue \ job[w].of
  /\ job' = [job EXCEPT ![w] = IdleJob]
  /\ UNCHANGED <<remote, gone, stored, lease, tasks, owed>>

\* A worker's process dies in the middle of a run, or gives up on an error it
\* did not expect; nobody releases its lease.
Die(w) ==
  /\ Deaths
  /\ job[w].pc # "idle"
  /\ job' = [job EXCEPT ![w] = IdleJob]
  /\ lease' = Orphaned(lease, w)
  /\ UNCHANGED <<remote, gone, stored, queue, tasks, owed>>

Tick ==
  /\ lease' = Aged(lease)
  /\ UNCHANGED <<remote, gone, stored, queue, tasks, job, owed>>

Next ==
  \/ \E m \in Members : RemoteChange(m) \/ Webhook(m) \/ LoseTask(m)
  \/ Retry
  \/ \E w \in Workers :
       \/ StartFull(w)
       \/ \E m \in Members : StartRefresh(w, m) \/ Fetch(w, m)
       \/ FetchFails(w) \/ Store(w) \/ Release(w) \/ Drop(w) \/ Die(w)
  \/ Tick

Spec == Init /\ [][Next]_vars

\* Some process's sync loop is alive and starts full syncs for ever, threads
\* keep running, time passes, and not every full sync fails or loses its lease.
Fairness ==
  /\ WF_vars(Tick)
  /\ SF_vars(\E w \in Workers : StartFull(w))
  /\ \A w \in Workers :
       /\ \A m \in Members : SF_vars(job[w].full /\ Fetch(w, m))
       /\ SF_vars(job[w].full /\ Holds(lease, w) /\ Store(w))
       /\ WF_vars(FetchFails(w) \/ \E m \in Members : Fetch(w, m))
       /\ WF_vars(Store(w)) /\ WF_vars(Release(w)) /\ WF_vars(Drop(w))

FairSpec == Spec /\ Fairness

-----------------------------------------------------------------------------
(* Properties                                                              *)

\* Nothing stored is ever overwritten by an older fetch: of two runs whose
\* fetches overlap, the one whose lease ran out stores nothing, however late
\* it wakes up.
StoredNeverRegresses == [][\A m \in Members : stored'[m] >= stored[m]]_vars

\* A live lease belongs to a run that is still going or to one that died: no
\* run that ended leaves the next one locked out.
LeaseHasHolder ==
  lease.left > 0 /\ lease.owner \in Workers =>
    job[lease.owner].pc \in {"fetch", "release"}

\* What Patreon has is eventually stored and stays stored, whatever webhooks
\* are lost, as long as full syncs do not fail for ever.
EventuallyFresh == <>[](stored = remote)

\* A refresh of m that is still to read m from Patreon.
RefreshComing(m) ==
  m \in tasks \/ \E w \in Workers : job[w].pc = "fetch" /\ m \in job[w].todo

\* "Webhook member ids waiting for an out-of-band refresh (kept if the sync
\* lease is busy)" (0001_baseline.sql): once no refresh of a recorded member is
\* still to come, the member is kept until a version at least as new as the
\* one its webhook was about is stored.
WebhookKept ==
  \A m \in Members \ gone :
    owed[m] > stored[m] => m \in queue \/ RefreshComing(m)
=============================================================================
