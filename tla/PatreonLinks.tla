---------------------------- MODULE PatreonLinks ----------------------------
(***************************************************************************)
(* Who a Patreon account's perks go to (service.py _link, _resolved_link,  *)
(* unlink, and the links half of _compute).  A link names a Discord user,  *)
(* a Minecraft player or both; a half it does not name is filled in from   *)
(* discord_links whenever the links are recomputed.                        *)
(*                                                                         *)
(* Links change in transactions under PATREON_LOCK, and every one of them  *)
(* recomputes all links, but for one: a person may link an account that no *)
(* sync has brought a member row of.  That link is stored by itself, and   *)
(* is recomputed by the sync and the recompute that _confirm_link asks for *)
(* afterwards, which may fail or find another sync busy, or by whatever    *)
(* recomputes next.  discord_links belongs to another part of the site     *)
(* that does not take that lock, and transactions are READ COMMITTED: each *)
(* link of a recompute sees discord_links as it is when that link is       *)
(* resolved, so the loop over the links is a loop here too.                *)
(*                                                                         *)
(* How a link was made and when (method, linked_at) only serves messages   *)
(* and is left out.                                                        *)
(***************************************************************************)
EXTENDS Naturals, FiniteSets

CONSTANTS Patrons, DiscordUsers, Players,
          None,       \* an absent half of a link
          Cooldown    \* ticks before an account may move (cooldown_days)

ASSUME LinksAssumption ==
  /\ Cooldown \in Nat
  /\ DiscordUsers \cap Players = {}
  /\ None \notin DiscordUsers \cup Players

VARIABLES
  pairs,    \* discord_links: pairs of a Discord user and a player
  links,    \* patreon_links, per Patreon account
  members,  \* accounts with a row in patreon_members; none is ever removed
  control,  \* <<account, subject>>: whose tier each subject was last given
  tx        \* the transaction under PATREON_LOCK, if there is one

vars == <<pairs, links, members, control, tx>>

Half(S) == S \cup {None}
Link == [row : {"none", "active", "tombstone"}, discord : Half(DiscordUsers),
         player : Half(Players), cool : 0..Cooldown]
NoLink == [row |-> "none", discord |-> None, player |-> None, cool |-> 0]

Active(ls) == {u \in Patrons : ls[u].row = "active"}

\* What runs: "sync" stores the members it fetched and, while auto, may still
\* link them by itself, "person" is an OAuth confirmation or an unlink, "staff"
\* may be forced.  If it recomputes, todo are the links still to be resolved
\* and got the targets collected; stable is history: discord_links has not
\* changed since it began.
NoTx == [by |-> "nobody", links |-> <<>>, fetched |-> {}, auto |-> FALSE,
         computes |-> FALSE, todo |-> {}, got |-> {}, stable |-> TRUE]
OpenTx(by, ls, computes) ==
  [NoTx EXCEPT !.by = by, !.links = ls, !.computes = computes,
               !.todo = IF computes THEN Active(ls) ELSE {}]

TypeOK ==
  /\ pairs \subseteq DiscordUsers \X Players
  /\ links \in [Patrons -> Link]
  /\ members \subseteq Patrons
  /\ control \subseteq Patrons \X (DiscordUsers \cup Players)
  /\ tx # NoTx => /\ tx.links \in [Patrons -> Link]
                  /\ tx.fetched \subseteq Patrons
                  /\ tx.todo \subseteq Active(tx.links)
                  /\ tx.got \subseteq Patrons \X (DiscordUsers \cup Players)

Init ==
  /\ pairs = {}
  /\ links = [u \in Patrons |-> NoLink]
  /\ members = {}
  /\ control = {}
  /\ tx = NoTx

-----------------------------------------------------------------------------
(* _link                                                                   *)

\* The rows of discord_links that name either subject.
PairsOf(d, p) == {x \in pairs : x[1] = d \/ x[2] = p}

\* The subjects agree with discord_links, as far as it knows either.
PairAgrees(d, p) ==
  \A x \in PairsOf(d, p) : d \in {None, x[1]} /\ p \in {None, x[2]}

Differs(new, old) == new # None /\ old # None /\ new # old

\* The link moves: a half it names is replaced by another.
Changing(old, d, p) ==
  old.row # "none" /\ (Differs(d, old.discord) \/ Differs(p, old.player))

\* The row after the link is stored; one that does not move keeps the half
\* the caller did not name.
Linked(old, d, p) ==
  IF Changing(old, d, p) \/ old.row = "none"
    THEN [row |-> "active", discord |-> d, player |-> p, cool |-> Cooldown]
    ELSE [old EXCEPT !.row = "active",
                     !.discord = IF d = None THEN @ ELSE d,
                     !.player = IF p = None THEN @ ELSE p]

\* A subject the link would have, named or filled in, is named by another
\* active link.
Conflicts(ls, u, d, p) ==
  LET new == Linked(ls[u], d, p)
      x == IF PairsOf(d, p) = {} THEN <<None, None>>
           ELSE CHOOSE y \in PairsOf(d, p) : TRUE
      disc == IF new.discord = None THEN x[1] ELSE new.discord
      play == IF new.player = None THEN x[2] ELSE new.player
  IN \E v \in Active(ls) \ {u} : \/ disc # None /\ ls[v].discord = disc
                                 \/ play # None /\ ls[v].player = play

\* Faulty: trusts the pairing of the subjects it was given.
LinkableUnchecked(ls, u, d, p, force) ==
  /\ PairAgrees(d, p)
  /\ Changing(ls[u], d, p) => force \/ ls[u].cool = 0

\* Faulty: an unlink clears the cooldown.
LinkableAfterUnlink(ls, u, d, p, force) ==
  /\ PairAgrees(d, p)
  /\ Changing(ls[u], d, p) => force \/ ls[u].cool = 0 \/ ls[u].row = "tombstone"
  /\ ~Conflicts(ls, u, d, p)

\* _link answers ok.
Linkable(ls, u, d, p, force) ==
  /\ PairAgrees(d, p)
  /\ Changing(ls[u], d, p) => force \/ ls[u].cool = 0
  /\ ~Conflicts(ls, u, d, p)

Relinked(ls, u, d, p) == [ls EXCEPT ![u] = Linked(@, d, p)]

-----------------------------------------------------------------------------
(* Transactions                                                            *)

\* confirm_link and staff_link: a refused link changes nothing.  A person's
\* link is recomputed with it only if the account is a known member.
LinkAccount(u, d, p, by, force) ==
  /\ tx = NoTx
  /\ d # None \/ p # None
  /\ Linkable(links, u, d, p, force)
  /\ tx' = OpenTx(by, Relinked(links, u, d, p), by = "staff" \/ u \in members)
  /\ UNCHANGED <<pairs, links, members, control>>

\* unlink leaves a tombstone.
Unlink(u) ==
  /\ tx = NoTx
  /\ links[u].row = "active"
  /\ tx' = OpenTx("person", [links EXCEPT ![u].row = "tombstone"], TRUE)
  /\ UNCHANGED <<pairs, links, members, control>>

\* The transaction of a sync that fetched F, the refresh of one member included,
\* or, with none, a recompute that changes no link.
BeginSync(F) ==
  /\ tx = NoTx
  /\ tx' = [OpenTx("sync", links, TRUE) EXCEPT !.fetched = F, !.auto = TRUE, !.todo = {}]
  /\ UNCHANGED <<pairs, links, members, control>>

\* Faulty: links again what a person unlinked.
AutoLinkRevives(u, d) ==
  /\ tx.auto
  /\ u \in tx.fetched
  /\ tx.links[u].row # "active"
  /\ Linkable(tx.links, u, d, None, FALSE)
  /\ tx' = [tx EXCEPT !.links = Relinked(@, u, d, None)]
  /\ UNCHANGED <<pairs, links, members, control>>

\* A sync links an entitled member it fetched to the Discord user Patreon knows
\* it by, unless it has a link row, a tombstone included.
AutoLink(u, d) ==
  /\ tx.auto
  /\ u \in tx.fetched
  /\ tx.links[u].row = "none"
  /\ Linkable(tx.links, u, d, None, FALSE)
  /\ tx' = [tx EXCEPT !.links = Relinked(@, u, d, None)]
  /\ UNCHANGED <<pairs, links, members, control>>

\* The recompute of a sync reads the active links.
ScanLinks ==
  /\ tx.auto
  /\ tx' = [tx EXCEPT !.auto = FALSE, !.todo = Active(tx.links)]
  /\ UNCHANGED <<pairs, links, members, control>>

NamedByOther(u, s) ==
  \E v \in Active(tx.links) \ {u} : s \in {tx.links[v].discord, tx.links[v].player}

\* _resolved_link: the subjects of an active link, a missing half filled in
\* unless another active link names it.
SubjectsOf(u) ==
  LET l == tx.links[u]
      named == {l.discord, l.player} \ {None}
      known == UNION {{x[1], x[2]} : x \in PairsOf(l.discord, l.player)}
      implied == {s \in known : \/ l.discord = None /\ s \in DiscordUsers
                                \/ l.player = None /\ s \in Players}
  IN named \cup {s \in implied : ~NamedByOther(u, s)}

Taken(s) == \E g \in tx.got : g[2] = s

\* Faulty: the last link to claim a subject gets it as well.
ResolveAnyway(u) ==
  /\ u \in tx.todo
  /\ tx' = [tx EXCEPT !.todo = @ \ {u}, !.got = @ \cup ({u} \X SubjectsOf(u))]
  /\ UNCHANGED <<pairs, links, members, control>>

\* One link of _compute's loop: a subject two links claim rolls everything
\* back (patreon_subject_conflict).
Resolve(u) ==
  /\ u \in tx.todo
  /\ tx' = IF \E s \in SubjectsOf(u) : Taken(s) THEN NoTx
           ELSE [tx EXCEPT !.todo = @ \ {u},
                           !.got = @ \cup ({u} \X SubjectsOf(u))]
  /\ UNCHANGED <<pairs, links, members, control>>

\* Faulty: gives subjects to the links that claim them and takes none away.
CommitAdds ==
  /\ tx # NoTx /\ ~tx.auto /\ tx.todo = {}
  /\ links' = tx.links
  /\ members' = members \cup tx.fetched
  /\ control' = {c \in control : ~Taken(c[2])} \cup tx.got
  /\ tx' = NoTx
  /\ UNCHANGED pairs

\* A recompute gives every subject its tier from the link that claims it, or
\* takes it away; the rest of it and the outbox are PatreonOutbox's.
Commit ==
  /\ tx # NoTx /\ ~tx.auto /\ tx.todo = {}
  /\ links' = tx.links
  /\ members' = members \cup tx.fetched
  /\ control' = IF tx.computes THEN tx.got ELSE control
  /\ tx' = NoTx
  /\ UNCHANGED pairs

Rollback ==
  /\ tx # NoTx
  /\ tx' = NoTx
  /\ UNCHANGED <<pairs, links, members, control>>

\* A player and a Discord user are linked to each other, in place of any link
\* either had, or one is removed, while a transaction may be open.
PairChange ==
  /\ \/ \E d \in DiscordUsers, p \in Players :
          pairs' = {x \in pairs : x[1] # d /\ x[2] # p} \cup {<<d, p>>}
     \/ \E x \in pairs : pairs' = pairs \ {x}
  /\ tx' = IF tx = NoTx THEN NoTx ELSE [tx EXCEPT !.stable = FALSE]
  /\ UNCHANGED <<links, members, control>>

Tick ==
  /\ tx = NoTx
  /\ links' = [u \in Patrons |-> [links[u] EXCEPT !.cool = IF @ = 0 THEN 0 ELSE @ - 1]]
  /\ UNCHANGED <<pairs, members, control, tx>>

\* Staff may name both halves and force; a person confirms a link with one.
ByPerson(u) ==
  \/ \E d \in DiscordUsers : LinkAccount(u, d, None, "person", FALSE)
  \/ \E p \in Players : LinkAccount(u, None, p, "person", FALSE)
  \/ Unlink(u)

ByStaff(u) ==
  \E d \in Half(DiscordUsers), p \in Half(Players), force \in BOOLEAN :
     LinkAccount(u, d, p, "staff", force)

Next ==
  \/ \E u \in Patrons :
       \/ ByPerson(u) \/ ByStaff(u) \/ Resolve(u)
       \/ \E d \in DiscordUsers : AutoLink(u, d)
  \/ \E F \in SUBSET Patrons : BeginSync(F)
  \/ ScanLinks \/ Commit \/ Rollback
  \/ PairChange
  \/ Tick

Spec == Init /\ [][Next]_vars

-----------------------------------------------------------------------------
(* Properties                                                              *)

\* A subject is never given the tier of two Patreon accounts at once, even
\* when discord_links changes between the reads of one recompute ("An
\* implicit half must not give two patrons control of a subject").
OneController == \A x, y \in control : x[2] = y[2] => x[1] = y[1]

\* No link is accepted that would make a recompute fail: unless discord_links
\* changes while it runs, no two links claim one subject.  A conflict that was
\* stored would roll back every sync from then on (_link's check of the halves
\* it fills in, _resolved_link's of those it implies).
NeverStuck ==
  tx.stable => \A u \in tx.todo : \A s \in SubjectsOf(u) : ~Taken(s)

\* A link may name a subject: it names no other of its kind.
Fits(l, s) ==
  /\ s \in DiscordUsers => l.discord \in {None, s}
  /\ s \in Players => l.player \in {None, s}

\* A link that was stored without a recompute (_confirm_link, a patron without
\* a member row) is no loss: as soon as the patron is known, every subject its
\* link names is controlled by it, whoever it was filled in for before, and it
\* no longer controls a subject its link has moved away from.  Unlinked
\* accounts control nothing, known or not.
ControlFollowsLinks ==
  /\ \A u \in Active(links) \cap members :
       {u} \X ({links[u].discord, links[u].player} \ {None}) \subseteq control
  /\ \A c \in control : /\ c[1] \in Active(links)
                         /\ c[1] \in members => Fits(links[c[1]], c[2])

\* A sync never touches a link row that exists; what a person unlinked stays
\* unlinked however often it runs.
SyncKeepsLinks ==
  [][tx.by = "sync" => \A u \in Patrons :
       links'[u] # links[u] => links[u].row = "none"]_<<links, tx>>

\* A subject a link names is replaced by another only after the cooldown or
\* by staff, and unlinking in between does not shorten it.
MovesAreRare ==
  [][\A u \in Patrons :
       \/ Differs(links'[u].discord, links[u].discord)
       \/ Differs(links'[u].player, links[u].player)
       => links[u].cool = 0 \/ tx.by = "staff"]_links

\* A link starts to name a subject that discord_links pairs with someone else
\* than the subject the link keeps.
Joins(old, new) ==
  \E x \in pairs :
    \/ old.discord \notin {None, x[1]} /\ new = [old EXCEPT !.player = x[2]] /\ new # old
    \/ old.player \notin {None, x[2]} /\ new = [old EXCEPT !.discord = x[1]] /\ new # old

\* "Delay before a Patreon identity can move to another person" (patreon.md):
\* while the cooldown of a link runs, nobody but staff joins to it a subject of
\* another person.
PersonKept ==
  [][tx = NoTx /\ tx'.by = "person" =>
       \A u \in Active(links) :
         links[u].cool > 0 => ~Joins(links[u], tx'.links[u])]_tx
=============================================================================
