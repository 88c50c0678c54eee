-------------------------- MODULE PatreonSyncProofs --------------------------
(***************************************************************************)
(* The lease of the member sync does its work for any number of members,   *)
(* workers, versions and any time to live: a run whose lease ran out never *)
(* stores what it fetched, no run leaves a lease behind, and a webhook     *)
(* recorded before a refresh began is not forgotten by it.                 *)
(***************************************************************************)
EXTENDS PatreonSync, TLAPS

\* What a run fetched is not newer than Patreon's data.
SnapsAreReal ==
  /\ \A m \in Members : stored[m] <= remote[m]
  /\ \A w \in Workers, m \in Members : job[w].snap[m] <= remote[m]

\* While a run holds the lease nobody stores newer data than it has fetched.
FetchedIsCurrent ==
  \A w \in Workers :
    Holds(lease, w) /\ job[w].pc = "fetch" =>
      \A m \in job[w].of \ job[w].todo : stored[m] <= job[w].snap[m]

IInv == TypeOK /\ SnapsAreReal /\ FetchedIsCurrent /\ LeaseHasHolder

-----------------------------------------------------------------------------
\* The jobs a worker can have.
LEMMA IdleJobs == IdleJob \in Job /\ IdleJob.pc = "idle" /\ IdleJob.snap = Nothing
BY SyncAssumption DEF IdleJob, Job, Nothing

LEMMA NewJobs ==
  ASSUME NEW full \in BOOLEAN, NEW of \in SUBSET Members
  PROVE  /\ NewJob(full, of) \in Job
         /\ NewJob(full, of).pc = "fetch" /\ NewJob(full, of).of = of
         /\ NewJob(full, of).todo = of /\ NewJob(full, of).snap = Nothing
<1>1. IdleJob \in Job
    BY IdleJobs
<1> QED BY <1>1 DEF IdleJob, NewJob, Job

LEMMA DropJobs ==
  ASSUME NEW of \in SUBSET Members
  PROVE  /\ [IdleJob EXCEPT !.pc = "drop", !.of = of] \in Job
         /\ [IdleJob EXCEPT !.pc = "drop", !.of = of].snap = Nothing
<1>1. IdleJob \in Job
    BY IdleJobs
<1> QED BY <1>1 DEF IdleJob, Job

LEMMA FinishedJob ==
  ASSUME NEW j \in Job, NEW ok \in BOOLEAN
  PROVE  /\ Finished(j, ok) \in Job
         /\ Finished(j, ok).pc = "release" /\ Finished(j, ok).snap = j.snap
BY DEF Finished, Job

\* The lease: what it is after each operation, and that none gives it away.
LEMMA Leases ==
  ASSUME NEW l \in Lease(Workers), NEW w \in Workers
  PROVE  /\ Acquired(w) \in Lease(Workers) /\ Acquired(w).owner = w
         /\ Holds(l, w) => /\ Renewed(l) \in Lease(Workers)
                           /\ Renewed(l).owner = w
         /\ Released(l, w) \in Lease(Workers)
         /\ Orphaned(l, w) \in Lease(Workers)
         /\ Aged(l) \in Lease(Workers)
         /\ Released(l, w).owner # w /\ Orphaned(l, w).owner # w
         /\ \A v \in Workers :
              /\ Holds(Released(l, w), v) => Holds(l, v)
              /\ Holds(Orphaned(l, w), v) => Holds(l, v)
              /\ Holds(Aged(l), v) => Holds(l, v)
BY SyncAssumption, LeaseAssumption
   DEF Lease, Acquired, Renewed, Released, Orphaned, Aged, Holds, Unowned

LEMMA HoldersAreOne ==
  ASSUME NEW l, NEW w \in Workers, NEW v \in Workers, Holds(l, w), Holds(l, v)
  PROVE  w = v
BY DEF Holds

\* A live lease is held by its owner, so the invariant can speak of holders.
LEMMA HoldersGoOn ==
  ASSUME TypeOK
  PROVE  LeaseHasHolder <=>
           \A w \in Workers : Holds(lease, w) => job[w].pc \in {"fetch", "release"}
BY DEF LeaseHasHolder, Holds

LEMMA InitInv == Init => IInv
<1> SUFFICES ASSUME Init
             PROVE  IInv
    OBVIOUS
<1>1. TypeOK
  <2>1. Nothing \in [Members -> 0..MaxVersion]
      BY SyncAssumption DEF Nothing
  <2>2. Unowned \in Lease(Workers)
      BY LeaseAssumption DEF Lease, Unowned
  <2>3. remote \in [Members -> 1..MaxVersion]
      BY SyncAssumption DEF Init
  <2> QED BY IdleJobs, <2>1, <2>2, <2>3 DEF Init, TypeOK
<1>2. SnapsAreReal
  <2>1. \A w \in Workers : job[w].snap = Nothing
      BY IdleJobs DEF Init
  <2> QED BY <2>1 DEF Init, SnapsAreReal, Nothing
<1>3. FetchedIsCurrent /\ LeaseHasHolder
    BY DEF Init, FetchedIsCurrent, LeaseHasHolder, Holds, Unowned
<1> QED BY <1>1, <1>2, <1>3 DEF IInv

-----------------------------------------------------------------------------
\* Patreon's data grow, and a run's hold on the lease is not touched.
LEMMA RemoteChangeInv ==
  ASSUME IInv, NEW m \in Members, RemoteChange(m)
  PROVE  IInv'
<1>1. /\ remote' = [remote EXCEPT ![m] = @ + 1] /\ remote[m] < MaxVersion
      /\ gone' \in {gone, gone \cup {m}}
      /\ UNCHANGED <<stored, lease, queue, tasks, job, owed>>
    BY DEF RemoteChange
<1>2. TypeOK'
    BY <1>1, SyncAssumption DEF IInv, TypeOK
<1>3. \A n \in Members : remote'[n] >= remote[n] /\ remote[n] \in Nat /\ remote'[n] \in Nat
    BY <1>1, SyncAssumption DEF IInv, TypeOK
<1>4. SnapsAreReal'
  <2>1. \A n \in Members : stored[n] \in Nat /\ stored[n] <= remote[n]
      BY SyncAssumption DEF IInv, TypeOK, SnapsAreReal
  <2>2. \A w \in Workers, n \in Members :
           job[w].snap[n] \in Nat /\ job[w].snap[n] <= remote[n]
      BY SyncAssumption DEF IInv, TypeOK, Job, SnapsAreReal
  <2> QED BY <1>1, <1>3, <2>1, <2>2 DEF SnapsAreReal
<1> QED BY <1>1, <1>2, <1>4 DEF IInv, FetchedIsCurrent, LeaseHasHolder

\* Webhooks and the queue have nothing to do with the lease.
LEMMA QueueInv ==
  ASSUME IInv, TypeOK', UNCHANGED <<remote, stored, lease, job>>
  PROVE  IInv'
BY DEF IInv, SnapsAreReal, FetchedIsCurrent, LeaseHasHolder

LEMMA WebhooksInv ==
  ASSUME IInv, NEW m \in Members, Webhook(m) \/ LoseTask(m) \/ Retry
  PROVE  IInv'
<1>1. remote[m] \in 0..MaxVersion
    BY SyncAssumption DEF IInv, TypeOK
<1>2. TypeOK'
    BY <1>1 DEF IInv, TypeOK, Webhook, LoseTask, Retry
<1> QED BY <1>2, QueueInv DEF Webhook, LoseTask, Retry

\* A worker that stops, or that starts when it holds nothing, and leaves the
\* members alone.
LEMMA WorkerInv ==
  ASSUME IInv, NEW w \in Workers, NEW j \in Job, job' = [job EXCEPT ![w] = j],
         TypeOK', UNCHANGED <<remote, stored>>,
         \A m \in Members : j.snap[m] <= remote[m],
         \A v \in Workers \ {w} : Holds(lease', v) => Holds(lease, v),
         Holds(lease', w) => /\ j.pc \in {"fetch", "release"}
                             /\ j.pc = "fetch" =>
                                  \A m \in j.of \ j.todo : stored[m] <= j.snap[m]
  PROVE  IInv'
<1>1. \A v \in Workers : job'[v] = IF v = w THEN j ELSE job[v]
    BY DEF IInv, TypeOK
<1>2. SnapsAreReal'
    BY <1>1 DEF IInv, SnapsAreReal
<1>3. FetchedIsCurrent'
  <2> SUFFICES ASSUME NEW v \in Workers, Holds(lease', v), job'[v].pc = "fetch",
                      NEW m \in job'[v].of \ job'[v].todo
               PROVE  stored[m] <= job'[v].snap[m]
      BY DEF FetchedIsCurrent
  <2>1. CASE v = w
      BY <2>1, <1>1
  <2>2. CASE v # w
      BY <2>2, <1>1 DEF IInv, FetchedIsCurrent
  <2> QED BY <2>1, <2>2
<1>4. LeaseHasHolder'
  <2> SUFFICES ASSUME NEW v \in Workers, Holds(lease', v)
               PROVE  job'[v].pc \in {"fetch", "release"}
      BY DEF LeaseHasHolder, Holds
  <2>1. CASE v = w
      BY <2>1, <1>1
  <2>2. CASE v # w
      BY <2>2, <1>1, HoldersGoOn DEF IInv
  <2> QED BY <2>1, <2>2
<1> QED BY <1>2, <1>3, <1>4 DEF IInv

LEMMA NothingIsOld ==
  ASSUME IInv
  PROVE  \A m \in Members : Nothing[m] <= remote[m]
BY SyncAssumption DEF IInv, TypeOK, Nothing

\* A run starts with the lease and has fetched nothing.
LEMMA StartInv ==
  ASSUME IInv, NEW w \in Workers, NEW full \in BOOLEAN, NEW of \in SUBSET Members,
         job' = [job EXCEPT ![w] = NewJob(full, of)], lease' = Acquired(w),
         tasks' \subseteq tasks, UNCHANGED <<remote, gone, stored, queue, owed>>
  PROVE  IInv'
<1> DEFINE j == NewJob(full, of)
<1>1. /\ j \in Job /\ j.pc = "fetch" /\ j.of = of /\ j.todo = of
      /\ j.snap = Nothing
    BY NewJobs
<1>2. lease' \in Lease(Workers) /\ lease'.owner = w
    BY Leases DEF IInv, TypeOK
<1>3. TypeOK'
    BY <1>1, <1>2 DEF IInv, TypeOK
<1>4. \A v \in Workers \ {w} : ~Holds(lease', v)
    BY <1>2 DEF Holds
<1> HIDE DEF j
<1>5. job' = [job EXCEPT ![w] = j]
    BY DEF j
<1> QED BY <1>1, <1>3, <1>4, <1>5, NothingIsOld, WorkerInv

LEMMA StartFullInv ==
  ASSUME IInv, NEW w \in Workers, StartFull(w)
  PROVE  IInv'
BY StartInv DEF StartFull

LEMMA StartRefreshInv ==
  ASSUME IInv, NEW w \in Workers, NEW m \in Members, StartRefresh(w, m)
  PROVE  IInv'
<1>1. CASE Available(lease)
  <2>1. /\ job' = [job EXCEPT ![w] = NewJob(FALSE, {m})] /\ lease' = Acquired(w)
        /\ tasks' \subseteq tasks /\ UNCHANGED <<remote, gone, stored, queue, owed>>
      BY <1>1 DEF StartRefresh
  <2>2. {m} \in SUBSET Members
      OBVIOUS
  <2> QED BY <2>1, <2>2, StartInv
<1>2. CASE ~Available(lease)
  <2>1. UNCHANGED <<remote, stored, lease, job>>
      BY <1>2 DEF StartRefresh
  <2>2. TypeOK'
      BY <1>2 DEF StartRefresh, IInv, TypeOK
  <2> QED BY <2>1, <2>2, QueueInv
<1> QED BY <1>1, <1>2

\* A fetch needs the lease and reads Patreon's data as they are.
LEMMA FetchInv ==
  ASSUME IInv, NEW w \in Workers, NEW m \in Members, Fetch(w, m)
  PROVE  IInv'
<1>1. /\ job[w] \in Job /\ job[w].pc = "fetch" /\ Holds(lease, w)
      /\ lease \in Lease(Workers)
      /\ lease' = Renewed(lease)
      /\ UNCHANGED <<remote, gone, stored, queue, tasks, owed>>
    BY DEF Fetch, IInv, TypeOK
<1>2. lease' \in Lease(Workers) /\ lease'.owner = w
    BY <1>1, Leases
<1>3. \A v \in Workers \ {w} : ~Holds(lease', v)
    BY <1>2 DEF Holds
<1>4. \A n \in Members : job[w].snap[n] <= remote[n]
    BY DEF IInv, SnapsAreReal
<1>5. CASE m \in gone /\ ~job[w].full
  <2> DEFINE j == Finished(job[w], TRUE)
  <2>1. j \in Job /\ j.pc = "release" /\ j.snap = job[w].snap
      BY <1>1, FinishedJob
  <2>2. job' = [job EXCEPT ![w] = j]
      BY <1>5 DEF Fetch
  <2> HIDE DEF j
  <2>3. TypeOK'
      BY <1>1, <1>2, <2>1, <2>2 DEF IInv, TypeOK
  <2> QED BY <1>1, <1>3, <1>4, <2>1, <2>2, <2>3, WorkerInv
<1>6. CASE ~(m \in gone /\ ~job[w].full)
  <2> DEFINE j == [job[w] EXCEPT !.todo = @ \ {m}, !.snap[m] = remote[m]]
  <2>1. remote[m] \in 0..MaxVersion /\ stored[m] <= remote[m]
      BY SyncAssumption DEF IInv, TypeOK, SnapsAreReal
  <2>2. /\ j \in Job /\ j.pc = "fetch" /\ j.of = job[w].of
        /\ j.todo = job[w].todo \ {m} /\ j.snap = [job[w].snap EXCEPT ![m] = remote[m]]
      BY <1>1, <2>1 DEF Job
  <2>3. job' = [job EXCEPT ![w] = j]
      BY <1>6 DEF Fetch
  <2> HIDE DEF j
  <2>4. TypeOK'
      BY <1>1, <1>2, <2>2, <2>3 DEF IInv, TypeOK
  <2>5. job[w].snap \in [Members -> 0..MaxVersion] /\ job[w].of \subseteq Members
      BY <1>1 DEF Job
  <2>6. \A n \in Members : j.snap[n] = IF n = m THEN remote[m] ELSE job[w].snap[n]
      BY <2>2, <2>5
  <2>7. remote[m] <= remote[m]
      BY <2>1, SyncAssumption
  <2>8. \A n \in Members : j.snap[n] <= remote[n]
      BY <1>4, <2>6, <2>7
  <2>9. \A n \in j.of \ j.todo : stored[n] <= j.snap[n]
      BY <1>1, <2>1, <2>2, <2>5, <2>6 DEF IInv, FetchedIsCurrent
  <2> QED BY <1>1, <1>3, <2>2, <2>3, <2>4, <2>8, <2>9, WorkerInv
<1> QED BY <1>5, <1>6

LEMMA FetchFailsInv ==
  ASSUME IInv, NEW w \in Workers, FetchFails(w)
  PROVE  IInv'
<1> DEFINE j == Finished(job[w], FALSE)
<1>1. job[w] \in Job
    BY DEF IInv, TypeOK
<1>2. j \in Job /\ j.pc = "release" /\ j.snap = job[w].snap
    BY <1>1, FinishedJob
<1>3. job' = [job EXCEPT ![w] = j] /\ UNCHANGED <<remote, gone, stored, lease, queue, tasks, owed>>
    BY DEF FetchFails
<1> HIDE DEF j
<1>4. TypeOK'
    BY <1>2, <1>3 DEF IInv, TypeOK
<1>5. \A m \in Members : j.snap[m] <= remote[m]
    BY <1>2 DEF IInv, SnapsAreReal
<1> QED BY <1>2, <1>3, <1>4, <1>5, WorkerInv

\* Only the holder of the lease stores, and nobody else has it meanwhile.
LEMMA StoreInv ==
  ASSUME IInv, NEW w \in Workers, Store(w)
  PROVE  /\ IInv'
         /\ \A m \in Members : stored'[m] >= stored[m]
<1> DEFINE j == Finished(job[w], Holds(lease, w))
<1>1. /\ job[w] \in Job /\ job[w].snap \in [Members -> 0..MaxVersion]
      /\ job[w].of \subseteq Members
    BY DEF IInv, TypeOK, Job
<1>2. j \in Job /\ j.pc = "release" /\ j.snap = job[w].snap
  <2>1. Holds(lease, w) \in BOOLEAN
      BY DEF Holds
  <2> QED BY <1>1, <2>1, FinishedJob
<1>3. /\ job' = [job EXCEPT ![w] = j] /\ job[w].pc = "fetch" /\ job[w].todo = {}
      /\ UNCHANGED <<remote, gone, lease, queue, tasks, owed>>
    BY DEF Store
<1>4. stored' = [m \in Members |-> IF m \in job[w].of /\ Holds(lease, w)
                                     THEN job[w].snap[m] ELSE stored[m]]
    BY DEF Store
<1> HIDE DEF j
<1>5. TypeOK'
    BY <1>1, <1>2, <1>3, <1>4 DEF IInv, TypeOK
<1>6. \A v \in Workers : job'[v] = IF v = w THEN j ELSE job[v]
    BY <1>3 DEF IInv, TypeOK
<1>7. \A m \in Members : stored'[m] <= remote[m]
    BY <1>4 DEF IInv, SnapsAreReal
<1>8. SnapsAreReal'
    BY <1>2, <1>3, <1>6, <1>7 DEF IInv, SnapsAreReal
<1>9. FetchedIsCurrent'
  <2> SUFFICES ASSUME NEW v \in Workers, Holds(lease, v), job'[v].pc = "fetch",
                      NEW m \in job'[v].of \ job'[v].todo
               PROVE  stored'[m] <= job'[v].snap[m]
      BY <1>3 DEF FetchedIsCurrent
  <2>1. v # w /\ job'[v] = job[v]
      BY <1>2, <1>6
  <2>2. ~Holds(lease, w)
      BY <2>1, HoldersAreOne
  <2>3. m \in Members
      BY <2>1 DEF IInv, TypeOK, Job
  <2> QED BY <2>1, <2>2, <2>3, <1>4 DEF IInv, FetchedIsCurrent
<1>10. LeaseHasHolder'
  <2>1. \A v \in Workers : Holds(lease, v) => job[v].pc \in {"fetch", "release"}
      BY HoldersGoOn DEF IInv
  <2> QED BY <2>1, <1>2, <1>3, <1>6 DEF LeaseHasHolder, Holds
<1>11. ASSUME NEW m \in Members
       PROVE  stored'[m] >= stored[m]
  <2>1. stored[m] \in Nat
      BY SyncAssumption DEF IInv, TypeOK
  <2>2. CASE m \in job[w].of /\ Holds(lease, w)
    <3>1. stored[m] <= job[w].snap[m] /\ job[w].snap[m] \in Nat
        BY <2>2, <1>1, <1>3, SyncAssumption DEF IInv, FetchedIsCurrent
    <3> QED BY <2>1, <2>2, <3>1, <1>4
  <2>3. CASE ~(m \in job[w].of /\ Holds(lease, w))
      BY <2>1, <2>3, <1>4
  <2> QED BY <2>2, <2>3
<1> QED BY <1>5, <1>8, <1>9, <1>10, <1>11 DEF IInv

\* A run that ends, well or not, has no lease afterwards.
LEMMA ReleaseInv ==
  ASSUME IInv, NEW w \in Workers, Release(w)
  PROVE  IInv'
<1>1. PICK j \in Job : /\ job' = [job EXCEPT ![w] = j] /\ j.snap = Nothing
  <2>1. job[w].of \in SUBSET Members
      BY DEF IInv, TypeOK, Job
  <2> DEFINE drop == [IdleJob EXCEPT !.pc = "drop", !.of = job[w].of]
  <2>2. drop \in Job /\ drop.snap = Nothing
      BY <2>1, DropJobs
  <2>3. job' = [job EXCEPT ![w] = drop] \/ job' = [job EXCEPT ![w] = IdleJob]
      BY DEF Release, IInv, TypeOK
  <2> QED BY <2>2, <2>3, IdleJobs
<1>2. /\ lease' = Released(lease, w) /\ UNCHANGED <<remote, gone, stored, queue, tasks, owed>>
      /\ lease \in Lease(Workers)
    BY DEF Release, IInv, TypeOK
<1>3. /\ lease' \in Lease(Workers) /\ ~Holds(lease', w)
      /\ \A v \in Workers : Holds(lease', v) => Holds(lease, v)
    BY <1>2, Leases DEF Holds
<1>4. TypeOK'
    BY <1>1, <1>2, <1>3 DEF IInv, TypeOK
<1> QED BY <1>1, <1>2, <1>3, <1>4, NothingIsOld, WorkerInv

LEMMA DieInv ==
  ASSUME IInv, NEW w \in Workers, Die(w)
  PROVE  IInv'
<1>1. /\ lease' = Orphaned(lease, w) /\ UNCHANGED <<remote, gone, stored, queue, tasks, owed>>
      /\ lease \in Lease(Workers) /\ job' = [job EXCEPT ![w] = IdleJob]
    BY DEF Die, IInv, TypeOK
<1>2. /\ lease' \in Lease(Workers) /\ ~Holds(lease', w)
      /\ \A v \in Workers : Holds(lease', v) => Holds(lease, v)
    BY <1>1, Leases DEF Holds
<1>3. TypeOK'
    BY <1>1, <1>2, IdleJobs DEF IInv, TypeOK
<1> QED BY <1>1, <1>2, <1>3, IdleJobs, NothingIsOld, WorkerInv

\* A job that drops its webhook row gave its lease back before.
LEMMA DropInv ==
  ASSUME IInv, NEW w \in Workers, Drop(w)
  PROVE  IInv'
<1>1. /\ job' = [job EXCEPT ![w] = IdleJob] /\ job[w].pc = "drop"
      /\ queue' = queue \ job[w].of
      /\ UNCHANGED <<remote, gone, stored, lease, tasks, owed>>
    BY DEF Drop
<1>2. ~Holds(lease, w)
    BY <1>1, HoldersGoOn DEF IInv
<1>3. TypeOK'
    BY <1>1, IdleJobs DEF IInv, TypeOK
<1> QED BY <1>1, <1>2, <1>3, IdleJobs, NothingIsOld, WorkerInv

LEMMA TickInv ==
  ASSUME IInv, Tick
  PROVE  IInv'
<1>1. /\ lease' = Aged(lease) /\ lease \in Lease(Workers)
      /\ UNCHANGED <<remote, gone, stored, queue, tasks, job, owed>>
    BY DEF Tick, IInv, TypeOK
<1>2. ASSUME NEW w \in Workers, Holds(lease', w)
      PROVE  Holds(lease, w)
    BY <1>1, <1>2, Leases
<1>3. lease' \in Lease(Workers)
    BY <1>1, LeaseAssumption DEF Aged, Lease
<1>4. TypeOK'
    BY <1>1, <1>3 DEF IInv, TypeOK
<1>5. FetchedIsCurrent'
  <2> SUFFICES ASSUME NEW w \in Workers, Holds(lease', w), job[w].pc = "fetch",
                      NEW m \in job[w].of \ job[w].todo
               PROVE  stored[m] <= job[w].snap[m]
      BY <1>1 DEF FetchedIsCurrent
  <2> QED BY <1>2 DEF IInv, FetchedIsCurrent
<1>6. LeaseHasHolder'
  <2> SUFFICES ASSUME NEW w \in Workers, Holds(lease', w)
               PROVE  job[w].pc \in {"fetch", "release"}
      BY <1>1 DEF LeaseHasHolder, Holds
  <2> QED BY <1>2, HoldersGoOn DEF IInv
<1> QED BY <1>1, <1>4, <1>5, <1>6 DEF IInv, SnapsAreReal

-----------------------------------------------------------------------------
LEMMA NextInv ==
  ASSUME IInv, [Next]_vars
  PROVE  /\ IInv'
         /\ \A m \in Members : stored'[m] >= stored[m]
<1>1. ASSUME UNCHANGED stored
      PROVE  \A m \in Members : stored'[m] >= stored[m]
  <2>1. \A m \in Members : stored[m] \in Nat
      BY SyncAssumption DEF IInv, TypeOK
  <2> QED BY <1>1, <2>1
<1>2. ASSUME NEW m \in Members, RemoteChange(m) \/ Webhook(m) \/ LoseTask(m)
      PROVE  IInv' /\ UNCHANGED stored
    BY <1>2, RemoteChangeInv, WebhooksInv DEF RemoteChange, Webhook, LoseTask
<1>3. CASE Retry
  <2>1. TypeOK'
      BY <1>3 DEF Retry, IInv, TypeOK
  <2> QED BY <1>1, <1>3, <2>1, QueueInv DEF Retry
<1>4. ASSUME NEW w \in Workers, NEW m \in Members, StartRefresh(w, m) \/ Fetch(w, m)
      PROVE  IInv' /\ UNCHANGED stored
    BY <1>4, StartRefreshInv, FetchInv DEF StartRefresh, Fetch
<1>5. ASSUME NEW w \in Workers,
             \/ StartFull(w) \/ FetchFails(w) \/ Release(w) \/ Drop(w) \/ Die(w)
      PROVE  IInv' /\ UNCHANGED stored
    BY <1>5, StartFullInv, FetchFailsInv, ReleaseInv, DropInv, DieInv
       DEF StartFull, FetchFails, Release, Drop, Die
<1>6. ASSUME NEW w \in Workers, Store(w)
      PROVE  IInv' /\ \A m \in Members : stored'[m] >= stored[m]
    BY <1>6, StoreInv
<1>7. CASE Tick
    BY <1>1, <1>7, TickInv DEF Tick
<1>8. CASE UNCHANGED vars
    BY <1>1, <1>8
       DEF vars, IInv, TypeOK, SnapsAreReal, FetchedIsCurrent, LeaseHasHolder
<1> QED BY <1>1, <1>2, <1>3, <1>4, <1>5, <1>6, <1>7, <1>8 DEF Next

\* What runs and leases keep, whatever fails, dies or wakes up late.
THEOREM Invariant == Spec => []IInv
BY InitInv, NextInv, PTL DEF Spec

\* No run that ended, released, dropped or died leaves its lease behind.
THEOREM LeasesAreHeld == Spec => []LeaseHasHolder
<1>1. IInv => LeaseHasHolder
    BY DEF IInv
<1> QED BY <1>1, Invariant, PTL

\* A run that lost its lease never overwrites newer member data with its own.
THEOREM NeverRegresses == Spec => StoredNeverRegresses
<1>1. ASSUME IInv, [Next]_vars
      PROVE  [\A m \in Members : stored'[m] >= stored[m]]_vars
    BY <1>1, NextInv
<1> QED BY <1>1, Invariant, PTL DEF Spec, StoredNeverRegresses

\* Data that are fresh stay so until Patreon's change.
FreshStays == [][stored = remote /\ UNCHANGED remote => UNCHANGED stored]_vars

\* The safety half of EventuallyFresh: no run, however old what it fetched is,
\* undoes a sync that stored all there is.
THEOREM OnceFreshStaysFresh == Spec => FreshStays
<1>1. ASSUME IInv, [Next]_vars, stored = remote, UNCHANGED remote
      PROVE  UNCHANGED stored
  <2>1. IInv' /\ \A m \in Members : stored'[m] >= stored[m]
    BY <1>1, NextInv
  <2>2. /\ stored \in [Members -> 0..MaxVersion] /\ stored' \in [Members -> 0..MaxVersion]
        /\ \A m \in Members : stored'[m] <= remote'[m]
    BY <1>1, <2>1 DEF IInv, TypeOK, SnapsAreReal
  <2>3. \A m \in Members : stored'[m] = stored[m]
    BY <1>1, <2>1, <2>2, SyncAssumption
  <2> QED BY <2>2, <2>3
<1>2. IInv /\ [Next]_vars =>
        [stored = remote /\ UNCHANGED remote => UNCHANGED stored]_vars
  BY <1>1
<1> QED BY <1>2, Invariant, PTL DEF Spec, FreshStays

-----------------------------------------------------------------------------
(* Webhook rows                                                            *)

VARIABLE
  begun     \* history: what Patreon had of each member when each run began

Begins(w) == job[w].pc = "idle" /\ job'[w].pc = "fetch"
HNext == /\ Next
         /\ begun' = [w \in Workers |-> IF Begins(w) THEN remote ELSE begun[w]]
HSpec == /\ Init /\ begun = [w \in Workers |-> Nothing]
         /\ [][HNext]_<<vars, begun>>

\* A webhook row leaves the queue by a refresh of its member that stored it as
\* it was when the refresh began or later, or found that Patreon does not serve
\* it: no webhook that was recorded by then is forgotten.
DroppedIsServed ==
  [][\A m \in queue \ queue' :
       \E w \in Workers : /\ job[w].pc = "drop" /\ m \in job[w].of
                          /\ stored[m] >= begun[w][m] \/ m \in gone]_<<vars, begun>>

\* Our data are as new as b, or Patreon does not serve m.
Served(m, b) == stored[m] >= b[m] \/ m \in gone

\* What a job that began with b says it did, it did: it fetched what it no
\* longer has to, and the member a refresh is done with is served.
Accounted(j, b) ==
  /\ b \in [Members -> Nat]
  /\ j.pc = "fetch" =>
       /\ \A m \in Members : remote[m] >= b[m]
       /\ \A m \in j.of \ j.todo : j.snap[m] >= b[m]
  /\ ~j.full => \A m, n \in j.of : m = n
  /\ j.pc \in {"release", "drop"} /\ j.done /\ ~j.full =>
       \A m \in j.of : Served(m, b)
  /\ j.pc = "drop" => \A m \in j.of : Served(m, b)
  /\ j.todo \subseteq j.of

Accounts == \A w \in Workers : Accounted(job[w], begun[w])

\* Patreon's data and ours only get newer, and who is gone stays gone.
LEMMA OnlyNewer ==
  ASSUME IInv, [Next]_vars, NEW m \in Members
  PROVE  /\ stored'[m] >= stored[m] /\ remote'[m] >= remote[m] /\ gone \subseteq gone'
         /\ stored[m] \in Nat /\ stored'[m] \in Nat
         /\ remote[m] \in Nat /\ remote'[m] \in Nat
<1>1. stored'[m] >= stored[m] /\ IInv'
  BY NextInv
<1>2. /\ stored[m] \in Nat /\ stored'[m] \in Nat
      /\ remote[m] \in Nat /\ remote'[m] \in Nat
  BY <1>1, SyncAssumption DEF IInv, TypeOK
<1>3. UNCHANGED <<remote, gone>> \/ \E n \in Members : RemoteChange(n)
  BY DEF Next, Webhook, LoseTask, Retry, StartFull, StartRefresh, Fetch,
         FetchFails, Store, Release, Drop, Die, Tick, vars
<1>4. ASSUME NEW n \in Members, RemoteChange(n)
      PROVE  remote'[m] >= remote[m] /\ gone \subseteq gone'
  BY <1>2, <1>4 DEF RemoteChange, IInv, TypeOK
<1> QED BY <1>1, <1>2, <1>3, <1>4

\* So a job that leaves things as they are stays true to what it says.
LEMMA StaysAccounted ==
  ASSUME IInv, [Next]_vars, NEW j \in Job, NEW b, Accounted(j, b)
  PROVE  Accounted(j, b)'
<1>1. j.of \subseteq Members /\ b \in [Members -> Nat]
  BY DEF Job, Accounted
<1>2. \A m \in Members : Served(m, b) => Served(m, b)'
  BY <1>1, OnlyNewer DEF Served
<1>3. \A m \in Members : remote[m] >= b[m] => remote'[m] >= b[m]
  BY <1>1, OnlyNewer
<1> QED BY <1>1, <1>2, <1>3 DEF Accounted

\* A step that changes the job of one worker, and accounts for it.
LEMMA OneJob ==
  ASSUME IInv, Accounts, HNext, NEW w \in Workers, NEW j, NEW b,
         job' = [job EXCEPT ![w] = j], begun'[w] = b, Accounted(j, b)'
  PROVE  Accounts'
<1>1. ASSUME NEW v \in Workers PROVE Accounted(job[v], begun[v])'
  <2>1. job \in [Workers -> Job] /\ job[v] \in Job
    BY DEF IInv, TypeOK
  <2>2. CASE v = w
    <3>1. job'[v] = j
      BY <2>1, <2>2
    <3> QED BY <2>2, <3>1 DEF Accounted, Served
  <2>3. CASE v # w
    <3>1. job'[v] = job[v] /\ Accounted(job[v], begun[v])
      BY <2>1, <2>3 DEF Accounts
    <3>2. begun'[v] = begun[v]
      BY <3>1 DEF HNext, Begins
    <3> PICK k, c : k = job[v] /\ c = begun[v]
      OBVIOUS
    <3>3. Accounted(k, c)'
      BY <2>1, <3>1, StaysAccounted DEF HNext
    <3> QED BY <3>1, <3>2, <3>3 DEF Accounted, Served
  <2> QED BY <2>2, <2>3
<1> QED BY <1>1 DEF Accounts

\* A step that changes no job.
LEMMA NoJob ==
  ASSUME IInv, Accounts, HNext, UNCHANGED job
  PROVE  Accounts'
<1>1. ASSUME NEW v \in Workers PROVE Accounted(job[v], begun[v])'
  <2>1. job[v] \in Job /\ Accounted(job[v], begun[v])
    BY DEF IInv, TypeOK, Accounts
  <2>2. begun'[v] = begun[v] /\ job'[v] = job[v]
    BY DEF HNext, Begins
  <2> PICK k, c : k = job[v] /\ c = begun[v]
    OBVIOUS
  <2>3. Accounted(k, c)'
    BY <2>1, StaysAccounted DEF HNext
  <2> QED BY <2>2, <2>3 DEF Accounted, Served
<1> QED BY <1>1 DEF Accounts

\* An idle worker has nothing to account for.
LEMMA IdleAccounted ==
  ASSUME NEW b \in [Members -> Nat]
  PROVE  Accounted(IdleJob, b) /\ Accounted(IdleJob, b)'
BY DEF IdleJob, Accounted

\* A run that begins has all to fetch.
LEMMA NewAccounted ==
  ASSUME IInv, NEW full \in BOOLEAN, NEW of \in SUBSET Members,
         ~full => \A m, n \in of : m = n, UNCHANGED remote
  PROVE  Accounted(NewJob(full, of), remote)'
<1>1. remote' \in [Members -> Nat]
  BY SyncAssumption DEF IInv, TypeOK
<1>2. \A m \in Members : remote'[m] >= remote'[m]
  BY <1>1
<1> QED BY <1>1, <1>2 DEF NewJob, IdleJob, Accounted

\* Every step keeps the jobs true to what they say.
LEMMA StepAccounts == IInv /\ Accounts /\ [HNext]_<<vars, begun>> => Accounts'
<1> SUFFICES ASSUME IInv, Accounts, HNext PROVE Accounts'
  BY DEF Accounts, Accounted, Served, vars
<1>a. \A w \in Workers : /\ job[w] \in Job /\ Accounted(job[w], begun[w])
                         /\ begun[w] \in [Members -> Nat]
  BY DEF IInv, TypeOK, Accounts, Accounted
<1>b. ASSUME NEW w \in Workers, job[w].pc # "idle" \/ job'[w].pc # "fetch"
      PROVE  begun'[w] = begun[w]
  BY <1>b DEF HNext, Begins
<1>c. ASSUME NEW w \in Workers, NEW full \in BOOLEAN, NEW of \in SUBSET Members,
             ~full => \A m, n \in of : m = n, UNCHANGED remote,
             job[w].pc = "idle", job' = [job EXCEPT ![w] = NewJob(full, of)]
      PROVE  Accounts'
  <2>1. job'[w].pc = "fetch"
    BY <1>c DEF NewJob, IdleJob, IInv, TypeOK
  <2>2. begun'[w] = remote
    BY <1>c, <2>1 DEF HNext, Begins
  <2> PICK b : b = remote
    OBVIOUS
  <2>3. Accounted(NewJob(full, of), b)'
    BY <1>c, NewAccounted DEF Accounted, Served
  <2> QED BY <1>c, <2>2, <2>3, OneJob
<1>1. ASSUME NEW w \in Workers, StartFull(w) PROVE Accounts'
  <2> PICK full, of : full = TRUE /\ of = Members
    OBVIOUS
  <2>1. /\ job[w].pc = "idle" /\ UNCHANGED remote
        /\ job' = [job EXCEPT ![w] = NewJob(full, of)]
    BY <1>1 DEF StartFull
  <2>2. full \in BOOLEAN /\ of \in SUBSET Members /\ full
    OBVIOUS
  <2> QED BY <2>1, <2>2, <1>c
<1>2. ASSUME NEW w \in Workers, NEW m \in Members, StartRefresh(w, m) PROVE Accounts'
  <2> PICK full, of : full = FALSE /\ of = {m}
    OBVIOUS
  <2>1. CASE Available(lease)
    <3>1. /\ job[w].pc = "idle" /\ UNCHANGED remote
          /\ job' = [job EXCEPT ![w] = NewJob(full, of)]
      BY <1>2, <2>1 DEF StartRefresh
    <3>2. /\ full \in BOOLEAN /\ of \in SUBSET Members
          /\ \A n, o \in of : n = o
      OBVIOUS
    <3> QED BY <3>1, <3>2, <1>c
  <2>2. CASE ~Available(lease)
    BY <1>2, <2>2, NoJob DEF StartRefresh
  <2> QED BY <2>1, <2>2
<1>3. ASSUME NEW w \in Workers, NEW m \in Members, Fetch(w, m) PROVE Accounts'
  <2> PICK b : b = begun[w]
    OBVIOUS
  <2>0. begun'[w] = b /\ b \in [Members -> Nat] /\ Accounted(job[w], b)
    BY <1>3, <1>a, <1>b DEF Fetch
  <2>1. CASE m \in gone /\ ~job[w].full
    <3>0. PICK j : j = Finished(job[w], TRUE)
      OBVIOUS
    <3>1. /\ j.pc = "release" /\ j.of = job[w].of /\ j.full = job[w].full
          /\ j.todo = job[w].todo
      BY <1>a, <3>0 DEF Finished, Job
    <3>2. m \in job[w].todo /\ gone' = gone /\ job' = [job EXCEPT ![w] = j]
      BY <1>3, <2>1, <3>0 DEF Fetch
    <3>3. \A n \in job[w].of : n \in gone'
      BY <2>0, <2>1, <3>2 DEF Accounted
    <3>4. Accounted(j, b)'
      BY <2>0, <3>1, <3>3 DEF Accounted, Served
    <3> QED BY <2>0, <3>2, <3>4, OneJob
  <2>2. CASE ~(m \in gone /\ ~job[w].full)
    <3>0. PICK j : j = [job[w] EXCEPT !.todo = @ \ {m}, !.snap[m] = remote[m]]
      OBVIOUS
    <3>1. /\ j.pc = job[w].pc /\ j.of = job[w].of /\ j.full = job[w].full
          /\ j.todo = job[w].todo \ {m} /\ j.snap = [job[w].snap EXCEPT ![m] = remote[m]]
      BY <1>a, <3>0 DEF Job
    <3>2. /\ job' = [job EXCEPT ![w] = j] /\ job[w].pc = "fetch"
          /\ remote' = remote
      BY <1>3, <2>2, <3>0 DEF Fetch
    <3>3. /\ \A n \in Members : remote[n] >= b[n]
          /\ job[w].of \subseteq Members
          /\ job[w].snap \in [Members -> 0..MaxVersion]
      BY <1>a, <2>0, <3>2 DEF Accounted, Job
    <3>4. \A n \in j.of \ j.todo : j.snap[n] >= b[n]
      BY <2>0, <3>1, <3>2, <3>3 DEF Accounted
    <3>5. Accounted(j, b)'
      BY <2>0, <3>1, <3>2, <3>3, <3>4 DEF Accounted
    <3> QED BY <2>0, <3>2, <3>5, OneJob
  <2> QED BY <2>1, <2>2
<1>4. ASSUME NEW w \in Workers, FetchFails(w) PROVE Accounts'
  <2> PICK b : b = begun[w]
    OBVIOUS
  <2>a. begun'[w] = b /\ b \in [Members -> Nat] /\ Accounted(job[w], b)
    BY <1>4, <1>a, <1>b DEF FetchFails
  <2>0. PICK j : j = Finished(job[w], FALSE)
    OBVIOUS
  <2>1. /\ j.pc = "release" /\ j.of = job[w].of /\ j.full = job[w].full
        /\ j.todo = job[w].todo /\ ~j.done
    BY <1>a, <2>0 DEF Finished, Job
  <2>2. job' = [job EXCEPT ![w] = j]
    BY <1>4, <2>0 DEF FetchFails
  <2>3. Accounted(j, b)'
    BY <2>a, <2>1 DEF Accounted
  <2> QED BY <2>a, <2>2, <2>3, OneJob
<1>5. ASSUME NEW w \in Workers, Store(w) PROVE Accounts'
  <2> PICK b : b = begun[w]
    OBVIOUS
  <2>a. begun'[w] = b /\ b \in [Members -> Nat] /\ Accounted(job[w], b)
    BY <1>5, <1>a, <1>b DEF Store
  <2>0. PICK j : j = Finished(job[w], Holds(lease, w))
    OBVIOUS
  <2>1. /\ j.pc = "release" /\ j.of = job[w].of /\ j.full = job[w].full
        /\ j.todo = {} /\ j.done = Holds(lease, w)
    BY <1>a, <1>5, <2>0 DEF Finished, Job, Store
  <2>2. /\ job' = [job EXCEPT ![w] = j] /\ job[w].pc = "fetch" /\ job[w].todo = {}
        /\ stored' = [m \in Members |-> IF m \in job[w].of /\ Holds(lease, w)
                                          THEN job[w].snap[m] ELSE stored[m]]
    BY <1>5, <2>0 DEF Store
  <2>3. Holds(lease, w) => \A m \in job[w].of : stored'[m] >= b[m]
    BY <1>a, <2>a, <2>2 DEF Accounted, Job
  <2>4. Accounted(j, b)'
    BY <2>a, <2>1, <2>3 DEF Accounted, Served
  <2> QED BY <2>a, <2>2, <2>4, OneJob
<1>6. ASSUME NEW w \in Workers, Release(w) PROVE Accounts'
  <2> PICK b : b = begun[w]
    OBVIOUS
  <2>a. begun'[w] = b /\ b \in [Members -> Nat] /\ Accounted(job[w], b)
    BY <1>6, <1>a, <1>b DEF Release
  <2>0. PICK drop : drop = [IdleJob EXCEPT !.pc = "drop", !.of = job[w].of]
    OBVIOUS
  <2>1. /\ drop.pc = "drop" /\ drop.of = job[w].of /\ drop.todo = {}
        /\ drop.full = FALSE
    BY <2>0 DEF IdleJob
  <2>2. CASE job[w].done /\ ~job[w].full
    <3>1. job' = [job EXCEPT ![w] = drop] /\ job[w].pc = "release"
      BY <1>6, <2>0, <2>2 DEF Release, IInv, TypeOK
    <3>2. /\ UNCHANGED <<stored, gone>> /\ \A m \in job[w].of : Served(m, b)
      BY <1>6, <2>a, <2>2, <3>1 DEF Accounted, Release
    <3>3. Accounted(drop, b)'
      BY <2>a, <2>1, <2>2, <3>2 DEF Accounted, Served
    <3> QED BY <2>a, <3>1, <3>3, OneJob
  <2>3. CASE ~(job[w].done /\ ~job[w].full)
    <3>1. job' = [job EXCEPT ![w] = IdleJob]
      BY <1>6, <2>3 DEF Release, IInv, TypeOK
    <3> QED BY <2>a, <3>1, IdleAccounted, OneJob
  <2> QED BY <2>2, <2>3
<1>7. ASSUME NEW w \in Workers, Drop(w) \/ Die(w) PROVE Accounts'
  <2>1. job' = [job EXCEPT ![w] = IdleJob]
    BY <1>7 DEF Drop, Die
  <2>2. begun'[w] = begun[w]
    BY <1>7, <1>b DEF Drop, Die
  <2> PICK b : b = begun[w]
    OBVIOUS
  <2> QED BY <1>a, <2>1, <2>2, IdleAccounted, OneJob
<1>8. CASE UNCHANGED job
  BY <1>8, NoJob
<1> QED
  BY <1>1, <1>2, <1>3, <1>4, <1>5, <1>6, <1>7, <1>8
     DEF HNext, Next, RemoteChange, Webhook, LoseTask, Retry, Tick

\* A refresh that found the lease busy, failed, lost its lease or died leaves
\* the row to the next round; WebhookKept fails only by a webhook that arrives
\* while the refresh that drops its row is under way
\* (refresh_webhook_member_sync).
THEOREM EarlierWebhooksAreServed == HSpec => DroppedIsServed
<1>1. Init /\ begun = [w \in Workers |-> Nothing] => IInv /\ Accounts
  <2> SUFFICES ASSUME Init, begun = [w \in Workers |-> Nothing] PROVE Accounts
    BY InitInv
  <2>1. Nothing \in [Members -> Nat]
    BY DEF Nothing
  <2> QED BY <2>1, IdleAccounted DEF Init, Accounts
<1>2. IInv /\ [HNext]_<<vars, begun>> => IInv'
  BY NextInv DEF HNext, vars
<1>3. ASSUME IInv, Accounts, HNext, NEW m \in queue \ queue'
      PROVE  \E w \in Workers : /\ job[w].pc = "drop" /\ m \in job[w].of
                                /\ stored[m] >= begun[w][m] \/ m \in gone
  <2>1. PICK w \in Workers : Drop(w)
    BY <1>3 DEF HNext, Next, RemoteChange, Webhook, LoseTask, Retry, StartFull,
                StartRefresh, Fetch, FetchFails, Store, Release, Die, Tick
  <2>2. job[w].pc = "drop" /\ m \in job[w].of
    BY <1>3, <2>1 DEF Drop
  <2> QED BY <1>3, <2>2 DEF Accounts, Accounted, Served
<1>4. IInv /\ Accounts /\ [HNext]_<<vars, begun>> =>
        [\A m \in queue \ queue' :
           \E w \in Workers : /\ job[w].pc = "drop" /\ m \in job[w].of
                              /\ stored[m] >= begun[w][m] \/ m \in gone]_<<vars, begun>>
  BY <1>3
<1> QED BY <1>1, <1>2, <1>4, StepAccounts, PTL DEF HSpec, DroppedIsServed
=============================================================================
