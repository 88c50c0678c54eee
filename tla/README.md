# Models of TFMCWeb

TFMCWeb is the website and backend of a Minecraft community: a FastAPI backend
over one PostgreSQL database, several uvicorn worker processes, background
threads and loops, a Next.js front end, Discord cogs and deployment scripts, all
talking to game servers, Discord and Patreon, which it does not control.  This
directory holds TLA+ models of the parts where that makes the code hard to
test, their TLC configurations and machine-checked proofs.

Paths below are relative to `src/`; `service.py` is
`backend/src/patreon/service.py` and so on.

## 1. The system

### Components, their state and operations

| component | state | operations | hard behaviour |
|---|---|---|---|
| **Patreon outbox** (`patreon/service.py`) | `patreon_desired`, `patreon_applied`, `patreon_changes`, `patreon_brake_approvals`, `patreon_sync_state.brake_held` | `_compute`, `_plan`, `list_changes`, `ack_changes`, `roster`, `release_brake`, `recompute_link`, `unlink`, `import_links` | two appliers poll and acknowledge late, twice or never while every sync replans; a brake holds mass removals; restarts change mode |
| **Patreon member sync** (`service.py`, `linking.py`, `client.py`) | `patreon_members`, `patreon_leases`, `patreon_webhook_members` | `sync_now`, `refresh_member`, `sync_loop`, webhook and retry | runs in several processes fetch over HTTP outside any transaction; leases expire; processes die |
| **Patreon links** (`service.py`) | `patreon_links`; reads `discord_links` | link (OAuth, staff, import, auto), move, unlink, resolve | uniqueness over two tables, one of which another component writes during a READ COMMITTED transaction; a cooldown |
| **Patreon OAuth consent** (`linking.py`) | `patreon_oauth_states`, `patreon_pending_links` | start, callback, confirm, cancel | repeats and races of single-use tokens, lock waits longer than the consent |
| Patreon tokens, grace, configuration, routes (`client.py`, `resolver.py`, `config.py`, `api/patreon_routes.py`) | `patreon_tokens`; decline history in `patreon_members` | token refresh, `resolve` | a rotating refresh token and a crash |
| Discord-to-Minecraft links (`skins/discord_link.py`) | `discord_link_codes`, `discord_links` | issue, redeem, unlink | single-use codes redeemed from two sides |
| Skin submissions, drinks, codes, moderation (`skins/`) | codes, submissions, review batches, plugin notices | redeem, submit, review, revoke, notify | reviews racing resubmission and revocation; notices polled by the plugin |
| Characters, wardrobe, lore items, wills, estates (`characters/`) | creates, roster, wardrobe slots, entitlements, estates | create, acknowledge, delete, upload, claim, wipe | the plugin answers late; entitlements are spent on two sides |
| LuckPerms (`luckperms/`) | change rows, mirror of groups | queue, poll, acknowledge, reject, mirror | a second outbox, with rejections |
| Accounts (`auth/`) | sessions, users, linked accounts | sign in, view-as | request-local checks |
| Patch notes (`patchnotes/`, `scripts/patchnotes-update.py`) | drafts, versions, rewrite jobs | generate, rewrite, approve, weekly run | workers claim jobs; a human edits meanwhile |
| Precedent (`precedent/`) | cases, revisions | record, change, revert | little concurrency |
| Servers (`servers/`) | requests, inventory | start, stop, restart | the host answers late |
| CoreProtect (`coreprotect/`) | none of its own | queries | read-only |
| Database layer (`database/`, `dbstudio/`) | connections, migrations | `transaction`, `migrate` | advisory locks, isolation levels |
| Map locks, atomic files (`scripts/util/`) | lock files, thread locks | `map_lock`, `rename_aside` | re-entrant over threads and processes |
| Regeneration, editor, map generation | queue file, images | regenerate, edit | uploads during a regeneration |
| Chronicle and ledger archives (`scripts/chronicle`, `scripts/ledger`) | day trees and index rows | capture, wipe, restore, reindex | a crash between a rename and a delete |
| Tile and image caches (`api/tile_cache.py`, `api/webp_cache.py`) | cache files | build, serve, invalidate | source changes while an entry is built |
| War codes, rail (`wars/`, `rail/`) | codes, one snapshot | redeem, replace | single use |
| **Timelapse studio** (`frontend/app/components/chronicle/ChronicleStudio.tsx`, `frontend/app/lib/map/chronicleBuild.ts`, `chronicleGifExport.ts`) | looks, days and realm chosen; frames and their bitmaps; the build and the export in flight | compose, pick, build, cancel, start over, export | a visitor clicks while promises settle; fetches run ahead of the paint; bitmaps are closed by hand; an export shares them |
| **Character creation wizard** (`frontend/app/components/character/CreationWizard.tsx`, `frontend/lib/characters/wizardState.ts`, with `characters/creates.py`, `characters/creation_rules.py`) | the draft, its steps, the id of a create already stored; the create's row | pick, prune, step, submit, upload, release; look up, validate, insert, take up | steps and picks depend on each other; two versions of the same rules; a request is retried while the first is handled |
| Other pages, Discord cogs, deployment, skin converter | mostly none | presentation, commands, docker | one deploy at a time |

### How they interact

The backend writes everything through PostgreSQL.  Operations of the Patreon
integration that read and write more than one table run in
`database.transaction(lock=PATREON_LOCK)`, an advisory lock: such a
transaction is one step for all the others.  What is *not* under the lock is
where behaviours interleave: HTTP calls to Patreon, the leases (row locks of
their own), the OAuth states, the webhook queue and `discord_links`.
Appliers (the Discord bot's patreon cog and the server plugin, neither in this
repository) poll `list_changes`, apply what they get, call `ack_changes` and
now and then reconcile with `roster`.  Staff link, unlink, import and release
the brake.

The front end talks to the backend over HTTP alone.  The timelapse studio only
reads: the stored days of the chronicle and the province grid.  The wizard
writes once, a create, and then the skins that belong to it; RPCharacters, the
game server's plugin, pulls creates that are pending and not held, and reports
what became of them.

### What makes each modelled component correct

* Outbox: an identity has one change outstanding; an applier's change is never
  altered; nothing ungranted is removed; nothing that differs is forgotten; a
  waiting change leads to the current desired state; a transition is announced
  once; the brake holds removals and their announcements; shadow mode does
  nothing.
* Delivery: what identities really have never drifts from what the backend
  records, and settles on what they are entitled to.
* Sync: newer data is never overwritten by older data; no lease is left behind
  by a run that ended; everything is stored in the end; a webhook is not
  forgotten.
* Links: an identity follows one Patreon account, the one that is linked to it
  (if that account is known to a sync);
  no accepted link makes later recomputes fail;
  an explicit unlink is respected; moving to another person is slow.
* Consent: a confirmation page links at most once, not after it was refused and
  not after it expired.
* Timelapse studio: the screen holds the whole film a build was begun for, or no
  film, and no film outlives a change of what is asked for; one build runs and
  can be cancelled; a bitmap is open exactly while something draws it; every
  build and every export comes to an end.
* Creation: the picks are at every moment some that the rules allow together;
  what the wizard lets through, the backend accepts; one visit makes one
  character; a stored create reaches the game.

## 2. Modules

| module | role | extends / composes |
|---|---|---|
| `PatreonGrants` | abstract: the promise to appliers | |
| `PatreonOutbox` | the outbox's transactions | implements `PatreonGrants` |
| `PatreonOutboxProofs` | theorems and proofs | `PatreonOutbox`, TLAPS |
| `PatreonPlanProofs` | theorems about what is still to do | `PatreonOutboxProofs` |
| `PatreonDelivery` | the outbox with its appliers and the roster | `PatreonOutbox` |
| `PatreonDeliveryProofs` | theorems and proofs | `PatreonDelivery`, `PatreonPlanProofs` |
| `PatreonLease` | one row of `patreon_leases`, as operators | |
| `PatreonSync` | runs, lease, webhook queue, Patreon itself | `PatreonLease` |
| `PatreonSyncProofs` | theorems and proofs | `PatreonSync`, TLAPS |
| `PatreonLinks` | links and their resolution | |
| `PatreonLinksProofs` | theorems and proofs | `PatreonLinks`, TLAPS |
| `PatreonConsent` | single-use tokens of an OAuth attempt | |
| `PatreonConsentProofs` | theorems and proofs | `PatreonConsent`, TLAPS |
| `ChronicleTimelapse` | abstract: the promise to who asked for a film | |
| `ChronicleStudio` | the visitor's choices, the build and its frames | implements `ChronicleTimelapse` |
| `ChronicleExport` | the GIF export beside the studio | `ChronicleStudio` |
| `ChronicleStudioProofs` | theorems and proofs | `ChronicleStudio`, TLAPS |
| `CreationRules` | the rules of the wizard and of the backend, side by side | |
| `CreationWizard` | the draft and its steps | `CreationRules` |
| `CreationSubmit` | submission, backend and RPCharacters | `CreationWizard` |
| `CreationProofs` | theorems and proofs | `CreationSubmit`, TLAPS |
| `MC...` | constants for TLC | the module they name |

Definitions marked "Faulty" or "Mutant" in a module are deliberately wrong variants of the
operator that follows them.  No specification uses them; substituting one for
its operator must break the property named with it in `PROJECT.json`, which is
how we know that the properties can fail.  The type invariants of `PatreonDelivery`,
`PatreonSync`, `PatreonLinks`, `PatreonConsent` and `CreationSubmit` are not among
the runs' properties: they are proved instead, as part of the invariants of section 4
(that of `CreationSubmit` as the theorem `Types`).

### PatreonOutbox

An identity is a (target, subject) pair.  A tier is its rank; 0 is none.

| variable | code |
|---|---|
| `wanted` | what `resolve` gives for members and links at the moment; an input |
| `desired`, `applied`, `approved`, `held` | the tables and column of the same name |
| `changes` | the rows of `patreon_changes` neither acknowledged nor cancelled |
| `lastId` | the last row id handed out for the identity; ids are per identity because only their order per identity matters, and an id nobody was given may be reused because nobody can name it |
| `apply`, `suppress` | `PATREON_APPLY`, `PATREON_SUPPRESS_DMS` of the running process |
| `edits` | the bound on changes from outside |
| `planned`, `told` | history, read by properties only |

| action | code |
|---|---|
| `Sync` | the write transaction of `_run_fetch`: `_compute(brake_check=True)` |
| `RecomputeLink` | `recompute_link`, `staff_link`, `unlink`: `_compute` without the brake check, perhaps with a link event |
| `ImportGrants` | `import_links`, not dry-run: seeds `patreon_applied`, then `_compute` |
| `ReleaseBrake` | `release_brake`: clears the flag, `_compute`, records approvals |
| `ListChanges` | `list_changes` of one target: dispatches what it returns |
| `AckChange` | one id of `ack_changes` that is dispatched and not yet acknowledged; others change nothing |
| `Entitle` | a member, a link or time changes `wanted` |
| `Restart` | the environment of the process changes |

`_set_desired`, `_plan` and `_compute` are `SetDesired`, `Plan` (with `RowFor`)
and `Compute`.  Each action is the whole transaction: a compute replans every
identity.  Time appears as the opaque grace deadline of `wanted`; times of rows
are left out because nothing reads them but for being set.  Emails, names and
alerts are left out.

### PatreonDelivery

Adds `hand`, `acking`, `roles` and `copy`: what an applier fetched, applied and
not yet acknowledged, what the identity really has, and a roster copy it has
not acted on.  Appliers are external: they poll only with empty hands, apply
each row, acknowledge it; a reply may be lost after dispatch (`PollLost`), an
acknowledgement may be lost or its applier die at any step (`Crash`).
`Reconciled` are the identities whose applier also writes what `roster` says.
Such an applier may act on a roster that is older than a change it has applied
since, and undo the change for a while; `RolesTracked` therefore speaks of the other
identities only, and what is said of these is that they settle (`RolesConverge`).
`RosterTier` is `roster`'s expression, the brake included.

### PatreonLease and PatreonSync

Data of a member is a version.  `job` is the program counter and the local
variables of each worker's run: `Fetch` is one HTTP request (with the heartbeat
that renews the lease), `Store` the write transaction with its two lease checks,
`Release` the `finally`, `Drop` the deletion of the webhook row.  `Die` ends a
worker anywhere; `Tick` lets the lease's time run.  A lease has its remaining
time, so the model needs no bound on time.  Every acquisition has a new uuid in
the code; the model names owners after workers and disowns the lease of a
worker that dies, which is the same.

### PatreonLinks

`links` are the rows of `patreon_links`, `members` the accounts that have a row
in `patreon_members` (none is ever removed), `pairs` is `discord_links`, changed
by its environment at any moment, and `control` says whose Patreon account feeds
an identity.  `tx` is the transaction under `PATREON_LOCK`.

`LinkAccount` is `_link` with the halves given or missing.  What staff link, and
what a person links whose account is known, is recomputed in the same
transaction.  The link of a person no sync has brought a member row of is not:
`_confirm_link` commits it by itself (`linking.py:243-247`), and asks for a sync
and a recompute afterwards, each in a transaction of its own (254-265), either of which
may not come about.  In the model both are a `BeginSync`, which may follow at once,
later or never; the one of a recompute alone fetches nobody.  `BeginSync`,
`AutoLink` and `ScanLinks` are the write transaction of `_run_fetch`: it stores the
members it fetched, links those that Patreon knows a Discord account of and
that have no link row, and then reads the active links.  `Unlink` leaves a
tombstone.

A recompute reads pairs link by link
(`Resolve`, one at a time, with `PairChange` between them), because under READ
COMMITTED each SELECT sees a new snapshot; a conflict rolls the transaction
back, as `patreon_subject_conflict` does, and so may anything else (`Rollback`).

### PatreonConsent

A token goes from state (opened by `start_link`) to pending (stored by the
callback) to spent.  `Callback` spends the state before the token exchange and
`Exchanged` stores the pending link after it, with time passing and the process
dying in between.  `BeginConfirm` ... `EndConfirm` is `_confirm_link`: it
spends, links, and checks the expiry again at its end; expiry rolls all of it
back.

### ChronicleStudio and ChronicleExport

The code between two awaits is one step; a fetch that settles, a canvas that
answers and a click are steps of their own, in any order.

| variable | code |
|---|---|
| `stored` | the day files on the server, by the hash of their contents |
| `draft`, `clips`, `focus`, `range`, `stage` | `toggles`, `clips`, `focusNationId`, `rangeStart`/`rangeEnd`, `stage` |
| `shown` | `framesRef`: for each look and day the bitmap of its frame, if any |
| `building`, `buildError`, `grid` | `buildingRef` and `building`, `buildError`, `gridRef` |
| `runs`, `owner` | the local variables of each `startBuild` call that has not returned, and the one whose controller is in `abortRef` |
| `open`, `lost` | bitmaps allocated and not closed, and among them those no frame ever got |
| `index` | `indexLoading` |
| `mounted`, `builds` | the page is there; the bound on builds |
| `gif` | the export in flight: the frames it captured, those drawn, those left |

| action | code |
|---|---|
| `ToggleLayer`, `AddClip`, `RemoveClip`, `MoveClip`, `PickFocus`, `PickRange`, `PickSize` | the panels' callbacks, each with the effects on its choice (`Choose`, `Discards`) |
| `SignIn`, `IndexArrives`, `IndexFails` | a login or logout in another tab: the effects on `mapId` and `authToken`, which drop the grid, fetch the index and move the days to the default, in any stage |
| `GoTo`, `StartOver`, `BackToDays`, `CancelBuild`, `Leave` | `goToStep`, the footer's buttons, unmounting |
| `StartBuild` | `startBuild` up to its first await |
| `Begin`, `GridArrives`, `GridFails` | the await on `ensureGrid` |
| `Settle` | a day's files arrive or fail, inside the window of fetches |
| `SkipDay`, `ReuseDay`, `RenderDay`, `PaintDay` | one turn of `runChronicleBuild`'s loop, `renderDay` being an await of its own |
| `DayFails`, `PaintFails` | its exceptions, with the clean-up of `runChronicleBuild` and `startBuild` (`Fails`) |
| `ExportGif`, `DrawDay`, `Encode` | `exportGif` and the render and encode loops of `exportChronicleGif` |

A picture is what determines it: the content of the day file, the look and the
realm in focus.  A look is one of five kinds, by the files it reads and whether
it paints a fill.  Of the render size only its effect is kept, which discards the
frames of another size (`PickSize`).

The days move under a build when the session changes: the effect that watches
them returns early, for there are no frames to discard yet, so the build goes on
and shows the film of the days it was begun for.  The looks and the realm cannot
move under a build.  `ChronicleTimelapse` therefore promises the film that was
begun, whole or not at all, and that it goes when something else is asked for
later.

`DrawDay` is one turn of the export's render loop.  It may end the export at any
turn: because it was aborted, because a bitmap is closed, because a painter throws
or the canvas cannot be read (`chronicleGifExport.ts:652-656`, 700-709).  A request
that is refused for its size, or finds no 2D context (602-616), is over before
anything is drawn and is no export here.  The message an export ends with is
left out.

Left out, because nothing here reads them: playback, progress, the label and
border caches, the compose preview but for its part in fetching the grid, the
reasons that block a build until names or terrain have loaded, and the gate that
hides the studio while the index is refused (403; nobody can click then, and nobody ever
has to).  What a day holds and which days there are is taken not to change during a
visit, and a page that is opened again after `Leave` is another visit.

### CreationRules, CreationWizard and CreationSubmit

A catalog is a constant: traits with key, cost, exclusions, requirement, what
they replace and whether they ask for an account of some age; races with an
oldest age; stages with their kind, key, requirement, gate, limits and budget.
`CatalogAssumption` says what of a catalog the results rest on: no two stages
offer the same key, every trait has a stage, no trait stage closes as an account
ages and none that opens only then insists on a pick, and there is a race, an
age and a clue step that is always shown.  One age threshold stands for all.

`CreationRules` has the wizard's rules (`Met`, `KeptBeside`, `PlayableStages`,
`StageCanContinue`, ...) and the backend's (`DependencyMet`, `Opens`,
`TraitsPass`, `RulesPass`), each translated from its own source.
`pruneUnavailableTraits` is there twice: `PruneLoop` is its loop, `Pruned` what
the loop should leave, the largest set of picks that may stay together;
`LoopKeepsTheMost` compares them.

`CreationWizard` has one action per field and per way to move between steps,
every change of the draft being pruned (`SetDraft`) and the index clamped.  The
account may age while the wizard is open (`AccountAges`); the page keeps what it
was told.  Fields right or wrong by themselves (name, class, description,
birthday, colours), and the attribute ranks with the traits they stand for, are
left out.

In `CreationSubmit`, `Submit`, `CreateTimesOut`, `Upload` and `Release` are
`onSubmit` between its awaits; `Lookup`, `Validate` and `Insert` the three
transactions of `create_character`; `Lapse` is the end of the hold, `TakeUp` is
RPCharacters and `CancelCreate` the profile in another tab.  A request is still
handled after the page gave up on it, or lost.  Names and slots other players
hold refuse a create at will.  Validation and the second lookup that follows
its failure are one step.

## 3. Runs

| run | instance | shows |
|---|---|---|
| `outbox` | one Discord identity, one player, two tiers, a grace deadline, brake at more than half of the granted; 3 changes from outside; 831k states | every safety property of the outbox, and that it implements `PatreonGrants` |
| `outbox_hidden` | one identity, suppression switched by restarts | finding 1 |
| `delivery` | the two identities with their appliers, the bot reconciling with the roster | `RolesTracked` and, under fairness, `RolesConverge` |
| `delivery_additions` | one identity, two tiers | finding 2 |
| `sync` | two workers, one member with three versions, deaths; 150k states | no regress, no lease left locked, and under fairness `EventuallyFresh` |
| `sync_webhook` | the same without deaths | finding 3 |
| `links` | two accounts, two Discord users, two players | accounts known to a sync or not; one controller, control follows the links of known accounts, no link blocks a recompute, unlinks respected, cooldown |
| `links_person` | the same instance | finding 4 |
| `consent` | two attempts, two workers, lifetime of two ticks | single use and expiry |
| `chronicle` | three days in two histories, one that begins with a missing file and one that ends on a quiet day; off and a fill; one realm, two ranges, the last day as the default, two queued looks, two builds, a window of two, three frames under the ceiling, changes of session at any time; 369k states | the studio's and the export's properties, and that the studio implements `ChronicleTimelapse` |
| `creation` | three traits (one exclusive, dependent and replacing), two races, seven kinds of stage, two requests; 146k states | the picks, the rules, one character, and under fairness that creates are taken up |
| `creation_release` | the same instance | finding 5 |

The bounds, and why they are enough.

* *Three changes from outside* in `outbox`: each of the hazards listed for it
  takes at most two changes of entitlement (get, lose or change) and one restart
  or import; transactions, polls and acknowledgements are not bounded, and all
  the `Faulty` variants are caught with them.  The proofs have no bound.
* *Two tiers*: the least where a row both adds and removes.  *One deadline*: the
  least where a declined payment is announced.  *Two identities*, one of each
  target: identities interact only through the brake, which is set to trip
  when one of one or both of two lose rank; 5 and 25 % in the code.
* *One member* in `sync`: versions of different members never mix, and a run
  for every member stores them in one transaction; with two members the safety
  properties were checked as well (6.5 million states) and hold.
* *Two workers*: a conflict of leases is between two runs.
* *Suppression* stays off in `outbox`: it sets only the hidden flag of a row,
  which no other property reads.  `outbox_hidden` switches it.
* *Cooldown of one tick* and *lifetimes of two*: the least where "not yet" and
  "just now" differ.

* *Three days, one missing or two alike*: the least where a day is skipped, a frame
  is painted after it, a frame is reused and one is not.  *Two queued looks* are the
  fill twice, so that a build goes through its days again; that a frame of another
  kind of look is never taken over is seen by the proof only, for any kinds.  *The last day as the
  default* is the least where a change of session moves the days.  A window of two
  is the least where one fetch is in flight ahead of the one awaited; *two builds* the least where one can meet another; *three frames*
  refuse two looks over three days and allow what is left, so that both happen.
  The theorems have none of these bounds.
* *The catalog of `creation`*: an exclusive pair that only one of the two lists, a
  requirement on another pick and on a race, a prosthetic that replaces an
  injury, a stage behind a pick and behind an account age, and traits that ask
  for playtime: the least where pruning needs two turns.  *Two requests* are one
  and its retry.

Deadlock checking is on in every run but the last three, where a visit ends: the
visitor leaves the page, and nothing is left to do.

### Fairness

The two Patreon specifications with liveness assume that some live process runs `sync_loop`.  The code
does not guarantee it alone: a leader that loses its lease, or meets a database
error, ends its loop for good (`service.py:488-492`) and nothing in its process
starts it again.  The assumption holds as long as another process waits for the
leadership (`service.py:477-481`), the process is restarted, or staff resync
(`patreon_routes.py:235`); the liveness results say nothing of a deployment
where none of the three happens.

* `PatreonDelivery!Fairness`: `Sync` is weakly fair under that assumption, and
  `Poll` and the roster because appliers poll on a timer.  `ApplyChange` and
  `Ack` are strongly fair: an applier may die or lose an acknowledgement any
  number of times but not every time.  Staff are not fair: nothing says they
  release the brake, so `RolesConverge` excepts a brake that stays held.
* `PatreonSync!Fairness`: time passes; the loop starts full syncs again and
  again, under that assumption; a full sync does not fail or lose its lease every
  time (strong fairness of its `Fetch` and `Store` while it holds the lease); a
  thread keeps running (weak).  Webhooks, refreshes and deaths have none.
* `ChronicleStudio!Spec`: promises settle and the event loop runs what they wake
  (weak fairness of `Settles`): a fetch answers, fails or, aborted, rejects.  The
  browser gives no more than that, and no click is fair.  `XSpec` adds the
  export's loops, which wait only for the event loop.
* `CreationSubmit!Spec`: the clock runs, so a hold lapses; RPCharacters polls on a
  timer.  The visitor, the page and the network have none.

### Findings

1. *A suppressed DM can be shown later* (`outbox_hidden`).  A DM queued while
   `PATREON_SUPPRESS_DMS` is set is recorded as suppressed on its row, so that it
   stays hidden once the flag is cleared (`patreon-backend.md:122-123`).  The row
   of a DM is replaced, however, when what it adds or removes changes before an
   applier fetched it, and the new row takes the flag as it is then
   (`service.py:263`).
2. *Additions do not always continue* (`delivery_additions`).  While the brake
   holds, `list_changes` skips rows with removals whole (`service.py:504`), and a
   dispatched removal that nobody acknowledged keeps `_plan` from queueing
   anything else; the documentation says "Additions continue."
   (`patreon-backend.md:127`).
3. *A webhook can be forgotten* (`sync_webhook`).  It arrives while a refresh of
   the same member, already past its fetch, is under way; its own refresh finds
   the lease busy and leaves the row for a retry; then the first refresh deletes
   the row (`linking.py:326`).  The next full sync repairs it, which is why
   `EventuallyFresh` holds.
4. *The cooldown does not cover a missing half* (`links_person`).  A link that
   names only a Discord user accepts the player of another person at once
   (`service.py:155`): the documented delay "before a Patreon identity can move
   to another person" (`patreon.md:74`) compares only halves that were both set.
5. *A create can stay held though the wizard is done* (`creation_release`).  It is
   sent with `hold: true` because there are skins; an upload fails; the visitor
   removes the skins and submits again.  The retry reuses the stored create, has
   no skins, and so never releases it (`CreationWizard.tsx:762`); the character
   arrives only when its hold of ten minutes lapses, which is why
   `CreatesAreTakenUp` holds.

Seen while reading and not modelled yet: a row queued before a restart into
shadow mode waits there and is delivered, out of date, if apply is switched on
and an applier polls before the first sync; a leader of `sync_loop` that loses
its lease ends its loop for good (`service.py:488-489`); a crash between the token
exchange and its storage loses the rotated creator token (`client.py:176-188`).
Of the links: a confirmation of an unknown patron answers "error" when the sync
after its commit finds the lease busy, although the link stands and will be served
by the next sync (`linking.py:254-265`); until then the link is active and
controls nothing, and what it names may still follow an account it was filled in
for (which is why `ControlFollowsLinks` speaks of accounts that are known).

In the studio: a login in another tab during a build moves the days, and the film of
the former days is then shown under them, without the notice a later change of the
days gives (`ChronicleStudio.tsx:384-394`, 1251-1256); a grid that is in flight when
the session changes is stored when it arrives, although the comment there says "Drop it
— and any fetch still in flight for it" (440-443); a day whose data break `buildLayers` leaves its bitmap, painted and
in no frame yet, to the garbage collector (`chronicleBuild.ts:450-459`; `lost` in
the model); *Start over* closes bitmaps an export is still drawing, which then
fails with the browser's message (`ExportKeepsOrLosesItsFilm`: it has lost all of
its bitmaps then, never some); a build that failed leaves its prefetches running, so that a
retry at once exceeds the window; the comment on `buildingRef` speaks of a Back
button the build panel no longer has.  In the wizard: edits made after a create
was stored are not sent, since a retry only uploads and releases; and skins that
take longer than the hold meet a character that has been made, and fail.

## 4. Proofs

Every safety invariant and every action property of the runs is a theorem; what
TLC shows on a small instance holds there for every value of the constants.  A
theorem marked "proofs only" states a property that its proof module defines and
no run checks.  Two kinds of these stand out.  Four of them say how far the
disagreement of a violated run reaches: what the code does keep
(`HiddenStaysHiddenUnlessReplaced`, `EarlierWebhooksAreServed`,
`FullLinksKeepTheirPerson`, `ReleasedIfItHadSkins`), and `BrakeHoldsNoGrant` does
so for the brake.  Five are the safety half of a liveness property that only TLC
can check (`QuietRolesAreRight`, `OnceFreshStaysFresh`, `BuildsOnlyGetNearer`,
`ExportsOnlyGetNearer`, `CreatesGoForward`): progress once made is not undone.

`PatreonOutboxProofs` proves, for any finite sets of identities, any number of
tiers, deadlines and outside changes and any brake (`OutboxAssumption`):

| theorem | property |
|---|---|
| `TypeCorrect` | `TypeOK` |
| `AtMostOneRow` | `OneLiveRow` |
| `OnlyGrantedRemoved` | `RemovesOnlyGranted` |
| `DispatchedNeverTouched` | `DispatchedImmutable` |
| `AnnouncedOnce` | `OneDmPerGeneration` |
| `HeldRemovalsWait` | `NoHeldRemoval` |
| `ShadowStaysSilent` | `ShadowIsSilent` |
| `OutboxImplementsGrants` | `ImplementsGrants` |

The inductive invariant `Inv` is the type invariant and, for each identity,
`Orderly`: at most one row is outstanding; it removes only tiers acknowledged
and not the one it adds; its id is the last one handed out if it is dispatched
and the next one otherwise; if it carries a DM and is not dispatched, its
generation is newer than any that was told; and what was told is acknowledged
or is in the dispatched row.  `RemovesOnlyGranted` is not inductive alone: an
acknowledgement shrinks what is granted, and only because the acknowledged row
is the single one does nothing else rest on it.  `OneDmPerGeneration` needs that
the told generation is remembered in one of two places, `patreon_applied` or the
row in flight, since `_plan` looks only at the first and is stopped by the
second.  The lemmas follow the code: `RowForFacts` and `PlanFacts` say what
`_plan` can return, `PlanOrderly` that planning keeps an identity orderly,
`ComputeOrderly` that a whole recompute does, `StepKinds` and `OfferStep` map
each step to a step of `PatreonGrants`.

`PatreonPlanProofs` adds, under the same assumption, what only holds once a
recompute ran with apply on (`planned`):

| theorem | property |
|---|---|
| `NothingIsLost` | `NothingLost` |
| `PendingLeadsThere` | `PendingIsCurrent` |
| `HeldStaysQuiet` | `HeldIsQuiet` |
| `BrakeHoldsNoGrant` | `AdditionsGo` (proofs only) |
| `HiddenStaysHiddenUnlessReplaced` | `HiddenUnlessReplaced` (proofs only) |
| `SyncingAgainChangesNothing` | a sync right after a sync or a release leaves every row as it is (stated in the theorem) |

Each of them follows from `Planned`: an identity has a row in an applier's hands,
or the row `_plan` would plan now, field by field, or it agrees with what is
desired as far as the brake allows (`Settled`); and an identity without a desired
row has no rows at all (`Unknown`).  None of the three is inductive alone, since
an acknowledgement replans from desired, applied and brake together.  That the
highest tier owned exists at all (`MaxOfTiers`) comes from the well-foundedness
of the naturals, by looking at how far each tier is from the highest.
`BrakeHoldsNoGrant` tells what the run `delivery_additions` leaves open: the brake
keeps back reductions, never the tier an identity is still to gain.
`HiddenStaysHiddenUnlessReplaced` does the same for `outbox_hidden`: a DM planned
while DMs were suppressed comes back into view only when the flag is off, no
applier has seen its row, and a row that grants or removes other tiers takes its
place.

`PatreonDeliveryProofs` proves of the outbox and its appliers:

| theorem | property |
|---|---|
| `RolesAreTracked` | `RolesTracked` |
| `DeliveryImplementsGrants` | `ImplementsGrants` |
| `OnlyGrantedTaken` | `TakesOnlyGranted` (proofs only) |
| `QuietRolesAreRight` | `QuietIsRight` (proofs only) |

They rest on `DInv`: the types, the outbox's `Inv`, and `InHand`, that
what an applier holds of an identity is the one row in flight, to be applied or
applied already.  Applying is idempotent because no row adds what it removes, and
no row is applied or acknowledged after another took its place because `_plan`
is stopped by the one that is dispatched.  An applier therefore takes away only
what was granted, and an identity with nothing pending, nothing held and no
applier at work has the roles of its tier.

`PatreonSyncProofs` proves, for any number of members, workers and versions and
any lease time (`SyncAssumption`, `LeaseAssumption`):

| theorem | property |
|---|---|
| `LeasesAreHeld` | `LeaseHasHolder` |
| `NeverRegresses` | `StoredNeverRegresses` |
| `OnceFreshStaysFresh` | `FreshStays` (proofs only) |
| `EarlierWebhooksAreServed` | `DroppedIsServed` (proofs only) |

Data cannot go back because of `FetchedIsCurrent`: as long as a run holds the
lease, nobody has stored anything newer than what it has fetched.  It survives
an expiry because who lost the lease neither renews it nor gets through the
checks of the write transaction, and a store by another run needs the lease.
`EarlierWebhooksAreServed` delimits the run `sync_webhook`: what a worker deletes from the queue
unserved can only be a webhook that arrived after its run began to fetch; an earlier
one is served by what the run stores.  The module declares a history variable,
`begun`, for when a run began to fetch, and the specification `HSpec` that keeps
it beside `Spec`; nothing of `PatreonSync` reads it.  Its invariant is `Accounts`.

`PatreonLinksProofs` proves, for any number of accounts and subjects and any
cooldown (`LinksAssumption`):

| theorem | property |
|---|---|
| `ControlledOnce` | `OneController` |
| `ControlFollows` | `ControlFollowsLinks` |
| `NoStoredConflict` | `NeverStuck` |
| `SyncsKeep` | `SyncKeepsLinks` |
| `MovesWithLeave` | `MovesAreRare` |
| `FullLinksKeepTheirPerson` | `JoinsFillBlanks` (proofs only) |

Its invariant `LInv` says of the stored links and of those of the open
transaction that no two active ones name a subject (`Distinct`) and that a row
that is not there names none (`Blank`); of a transaction how its links differ
from the stored ones (`Moved`, `Kept`), what it has collected if it recomputes
(`Collected`: the named halves of every link it is done with, nothing its links
do not fit, and, while `discord_links` stands still, nothing but what those links
claim), and what it leaves alone if it does not (`Stored`: it ends no link, and
touches none of a known account).  `ControlFollowsLinks` survives a link without a
recompute because of `Stored`, and the sync that brings its member row because
that sync recomputes in the transaction that stores the row.  `ClaimsDisjoint` is the heart: two
claims of one subject, named or filled in, contradict `Distinct` and that
`discord_links` pairs each subject with one other.  `OneController` does not need
that `discord_links` stands still: the recompute checks what it has collected.
`FullLinksKeepTheirPerson` delimits the run `links_person`: a sync may fill in the
missing half of a link, and a link with both halves keeps them.

`PatreonConsentProofs` proves, for any number of attempts and workers and any
lifetime:

| theorem | property |
|---|---|
| `LinksOnce` | `LinkedOnce` |
| `RefusesFinally` | `RefusedIsFinal` |
| `LinksInTime` | `LinkedInTime` |

Its invariant relates three things: the tokens' rows, the workers that spend
them and the histories.  One confirmation has its transaction open and its row
is still there (`OneConfirms`, `ConfirmsOpen`); an attempt is exchanged by one
worker, before its pending row exists (`ExchangesOnce`); what linked is spent,
what was refused cannot follow, and what was called expired stays dead
(`LinkedIsSpent`, `RefusedIsSpent`, `LapsedIsDead`).

`ChronicleStudioProofs` proves, for any history of days, any looks, realms,
ranges, window, ceiling and number of builds (`StudioAssumption`):

| theorem | property |
|---|---|
| `Types` | `TypeOK` |
| `OneBuildAlive` | `OneBuild` |
| `NoBitmapLeaks` | `BitmapsAccountedFor` |
| `WayOut` | `BuildScreenHasWayOut` |
| `BuildPaintsTheFilm` | `PaintsTheFilm` |
| `CancelStays` | `CancelledStaysOff` |
| `Promise` | `ShowsTheFilm` |
| `ExportsOneFilm` | `ExportIsOneFilm` |
| `ExportHoldsItsFilm` | `ExportKeepsOrLosesItsFilm` |
| `StaysUnderCeiling` | `UnderCeiling` |
| `WindowKept` | `FetchesAhead` (proofs only) |
| `BuildsOnlyGetNearer` | `OnlyNearer` (proofs only) |
| `ExportsOnlyGetNearer` | `ExportOnlyNearer` (proofs only) |

Its invariant `Inv` joins the types, `BitmapsAccountedFor` and
`BuildScreenHasWayOut` with three parts none of the properties states.  `RunInv`
is about the only run alive: it is `owner`, its frames are exactly those of
the recorded days before its cursor, each the picture of the film, and
`previous` is the last of them, of this look.  `Steady` says that while a build lives the screen is dark and the panels that
change the looks are not on it; so the looks and the realm stay those the build was
asked for, and only the days may move.  `LostIsOver` says that a lost bitmap
belongs to a build that has returned, so no later frame ever holds it.  Reuse is
right because two days with one fingerprint have one picture (the realm is
constant over a build); the film is whole at the end because the days come in order
and a day is only skipped when it is not recorded.  The mapping to
`ChronicleTimelapse` follows: the film that is being made is the film of what the
live build was asked for; a choice, or an index that arrives, is `Ask`, a build
begins with `Begin` and ends with `Show`, anything that discards or gives up is
`Drop`, and the rest stutters.

The export adds `ExportInv`: what is drawn is what was captured, but for the days
left.  That a next day exists while one is left comes from the order of the numbers
(`LeastNumber`, `NextIsLeft`).  `ExportHoldsItsFilm` needs `HoldInv`: the frames on
the screen and those of an export are of builds that are over, and lost to none
(`OfThePast`).  Whatever a live build paints is therefore not among them, so nothing
reopens a bitmap that an export has lost; and the screen's bitmaps are closed
together, in the step that takes them off the screen.

`StaysUnderCeiling` counts.  A run is let through by an estimate that counts the slots
of its request, one for each look and recorded day.  Each frame has at most one
picture, so the bitmaps of a run, and of the film it becomes, inject into those
slots (`CeilingInv`).  `WindowKept` says that a run that waits for a day has asked
for exactly that day and those after it, up to the window, so that its wait has an
answer to come.

`CreationProofs` proves, for every catalog of the shape `CatalogAssumption` gives
and any number of requests:

| theorem | property |
|---|---|
| `AllowedPicks` | `PicksAreAllowed` |
| `AtMostOneCharacter` | `OneCharacter` |
| `RefusedForOthersOnly` | `OnlyOthersRefuse` |
| `PruningKeepsTheMost` | `LoopKeepsTheMost` |
| `Types` | `TypeOK` |
| `CreatesGoForward` | `CreatesGoOneWay` (proofs only) |
| `ReleasedIfItHadSkins` | `HeldOnlyWithoutSkins` (proofs only) |

The picks stay allowed (`PicksInv`) because what may stay beside a set of picks
only grows with that set (`MetMonotone`, `KeptMonotone`): the union of
self-supporting sets is self-supporting, so pruning leaves one, and a subset of
harmless picks is harmless.  A create is lawful (`LawInv`) at the account age of
the moment it is sent and at any later one: the steps the wizard calls complete
are the conjuncts of the backend's rules (`CompleteIsLawful`), and what opens or
closes with age insists on nothing.  One row at most follows from the unique
index alone (`NextRow`), not from the lookups before it.

`PruningKeepsTheMost` is about a recursive function: `PruneLoop` is the loop as the
code has it, `Pruned` its specification.  `Pruned` solves the equation of the loop
(a turn drops nothing of it, and the loop stops where nothing is dropped), so
the function the loop chooses is one that solves it; and because every turn but the last
drops a pick of finitely many traits, the strict subsets are well-founded and
no other function does.

`CreatesGoForward`: a create is stored once for a request, its hold ends once, and what
RPCharacters has applied or rejected is not touched again.  `ReleasedIfItHadSkins`
delimits the run `creation_release`: the page reaches *done* with a create still on
hold only by a submission whose skins were taken back meanwhile.

Only model-checked: the liveness properties `RolesConverge`, `EventuallyFresh`,
`BuildEndsAtLast`, `ExportEnds` and `CreatesAreTakenUp`, which the provers cannot
reach (fairness and ENABLED).  Their safety halves are proved, as said above.

## 5. Plan

Done: the Patreon integration's outbox, delivery, sync, links and consent, the
timelapse studio with its export, and the creation of a character from the wizard
to RPCharacters, with every safety property of the runs proved.  In this order, next:

1. **Rest of the Patreon integration.**  `PatreonTokens` (refresh lease,
   compare-and-set, crash), `PatreonGrace` (`resolve`'s decline history against
   its definition over a sequence of observations), `PatreonLoop` (leadership).
2. **LuckPerms changes**: the second outbox, against the same abstract promise
   where it holds.
3. **Chronicle and map locks**: `MapLock` (threads and processes, re-entrance)
   and `Chronicle` (capture, wipe and restore with crashes between their steps,
   under the lock).  Abstract: a day is in exactly one of live and archive.
4. **Single-use codes**: `skins/codes.py`, `skins/discord_link.py` and
   `wars/declare_codes.py` against one abstract code.
5. **Submissions and drinks**: review, resubmission, revocation, notices.
6. **Characters**: names and slots between players, roster pushes and the realm wipe,
   wills and estates, entitlements spent on two sides.
7. **Patch note jobs**, **server control**, **tile cache**, **regeneration queue**,
   **site-deploy.sh**.

Not planned: rendering and image processing (`skins/review_sheet.py`,
`scripts/mapgen`, `editor/`), read-only queries (`coreprotect/`), request-local
permission checks (`auth/`), the pages of `frontend/` that fetch once and show what
they got, and its generated data (`app/wiki/data/generated`), vendored code
(`third_party/`): they keep no state that several actors share, or are I/O.
