------------------------- MODULE PatreonLinksProofs -------------------------
(***************************************************************************)
(* Who a Patreon account's perks go to, for any number of accounts and     *)
(* subjects and any cooldown, and although discord_links changes at any    *)
(* time: one controller per subject, no stored conflict, and links that    *)
(* keep to their rules.                                                    *)
(***************************************************************************)
EXTENDS PatreonLinks, TLAPS

Subjects == DiscordUsers \cup Players
TxType == [by : {"nobody", "sync", "person", "staff"},
           links : {<<>>} \cup [Patrons -> Link], fetched : SUBSET Patrons,
           auto : BOOLEAN, computes : BOOLEAN,
           todo : SUBSET Patrons, got : SUBSET (Patrons \X Subjects),
           stable : BOOLEAN]
Types ==
  /\ pairs \subseteq DiscordUsers \X Players
  /\ links \in [Patrons -> Link]
  /\ members \subseteq Patrons
  /\ control \subseteq Patrons \X Subjects
  /\ tx \in TxType
  /\ tx # NoTx => tx.links \in [Patrons -> Link] /\ tx.todo \subseteq Active(tx.links)

\* discord_links links each subject to one other.
Paired == \A x, y \in pairs : x[1] = y[1] <=> x[2] = y[2]

\* No two active links name a subject, and a row that is not there names none.
Distinct(ls) ==
  \A u, v \in Active(ls) : u # v =>
    /\ ls[u].discord = None \/ ls[u].discord # ls[v].discord
    /\ ls[u].player = None \/ ls[u].player # ls[v].player
Blank(ls) ==
  \A u \in Patrons : ls[u].row = "none" => ls[u].discord = None /\ ls[u].player = None

\* What a transaction does to the links.
Moved(ls) ==
  \A u \in Patrons :
    Differs(ls[u].discord, links[u].discord) \/ Differs(ls[u].player, links[u].player)
      => links[u].cool = 0 \/ tx.by = "staff"
Kept(ls) ==
  tx.by = "sync" => \A u \in Patrons : links[u].row # "none" => ls[u] = links[u]

\* What a recompute has collected: the named subjects of every link it is done
\* with, nothing its links do not fit, no subject twice.
Named(l) == {l.discord, l.player} \ {None}
Collected ==
  /\ tx.auto => tx.by = "sync" /\ tx.computes /\ tx.got = {} /\ tx.todo = {}
  /\ tx.computes /\ ~tx.auto =>
       \A u \in Active(tx.links) \ tx.todo : {u} \X Named(tx.links[u]) \subseteq tx.got
  /\ \A c \in tx.got : c[1] \in Active(tx.links) \ tx.todo /\ Fits(tx.links[c[1]], c[2])
  /\ tx.stable => \A c \in tx.got : c[2] \in SubjectsOf(c[1])

\* Without a recompute a transaction ends no link and leaves alone those of the
\* accounts that are known.
Stored ==
  ~tx.computes => /\ tx.fetched = {} /\ tx.todo = {}
                  /\ Active(links) \subseteq Active(tx.links)
                  /\ \A u \in members : tx.links[u] = links[u]
OneEach(got) == \A x, y \in got : x[2] = y[2] => x[1] = y[1]

TxInv == /\ Distinct(tx.links) /\ Blank(tx.links)
         /\ Moved(tx.links) /\ Kept(tx.links) /\ Collected /\ Stored

LInv == /\ Types /\ Paired /\ Distinct(links) /\ Blank(links)
        /\ OneController /\ ControlFollowsLinks /\ OneEach(tx.got)
        /\ tx # NoTx => TxInv

-----------------------------------------------------------------------------
\* _link: the row it stores, whose names are free, and that moves with leave.
LEMMA LinkStored ==
  ASSUME NEW ls \in [Patrons -> Link], Distinct(ls), Blank(ls),
         NEW u \in Patrons, NEW d \in Half(DiscordUsers), NEW p \in Half(Players),
         NEW force \in BOOLEAN, Linkable(ls, u, d, p, force)
  PROVE  LET new == Relinked(ls, u, d, p)
         IN /\ new \in [Patrons -> Link] /\ Distinct(new) /\ Blank(new)
            /\ \A v \in Patrons : v # u => new[v] = ls[v]
            /\ \/ Differs(new[u].discord, ls[u].discord)
               \/ Differs(new[u].player, ls[u].player)
               => force \/ ls[u].cool = 0
<1> DEFINE row == Linked(ls[u], d, p)
           new == Relinked(ls, u, d, p)
<1>1. ls[u] \in Link
    OBVIOUS
<1>2. /\ row \in Link /\ row.row = "active"
      /\ \/ Changing(ls[u], d, p)
         \/ /\ row.discord \in {d, ls[u].discord} /\ row.player \in {p, ls[u].player}
            /\ ls[u].row # "none"
         \/ ls[u].row = "none"
  <2>1. CASE Changing(ls[u], d, p) \/ ls[u].row = "none"
    <3>1. row = [row |-> "active", discord |-> d, player |-> p, cool |-> Cooldown]
        BY <2>1 DEF Linked
    <3>2. Cooldown \in 0..Cooldown
        BY LinksAssumption
    <3> QED BY <2>1, <3>1, <3>2 DEF Link
  <2>2. CASE ~Changing(ls[u], d, p) /\ ls[u].row # "none"
    <3>1. row = [ls[u] EXCEPT !.row = "active",
                              !.discord = IF d = None THEN @ ELSE d,
                              !.player = IF p = None THEN @ ELSE p]
        BY <2>2 DEF Linked
    <3> QED BY <1>1, <2>2, <3>1 DEF Link
  <2> QED BY <2>1, <2>2
<1>3. new \in [Patrons -> Link] /\ new[u] = row /\ \A v \in Patrons : v # u => new[v] = ls[v]
    BY <1>2 DEF Relinked
<1>4. \A v \in Active(ls) \ {u} :
        /\ row.discord = None \/ row.discord # ls[v].discord
        /\ row.player = None \/ row.player # ls[v].player
    BY DEF Linkable, Conflicts
<1> HIDE DEF row, new
<1>5. \A v \in Patrons : v # u => (v \in Active(new) <=> v \in Active(ls))
    BY <1>3 DEF Active
<1>6. Distinct(new)
  <2> SUFFICES ASSUME NEW v \in Active(new), NEW w \in Active(new), v # w
               PROVE  /\ new[v].discord = None \/ new[v].discord # new[w].discord
                      /\ new[v].player = None \/ new[v].player # new[w].player
      BY DEF Distinct
  <2>1. v \in Patrons /\ w \in Patrons
      BY DEF Active
  <2>2. CASE v = u
      BY <2>1, <2>2, <1>3, <1>4, <1>5
  <2>3. CASE w = u
      BY <2>1, <2>3, <1>3, <1>4, <1>5
  <2>4. CASE v # u /\ w # u
      BY <2>1, <2>4, <1>3, <1>5 DEF Distinct
  <2> QED BY <2>2, <2>3, <2>4
<1>7. Blank(new)
    BY <1>2, <1>3 DEF Blank
<1>8. \/ Differs(row.discord, ls[u].discord)
      \/ Differs(row.player, ls[u].player)
      => force \/ ls[u].cool = 0
  <2>1. CASE Changing(ls[u], d, p)
      BY <2>1 DEF Linkable
  <2>2. CASE ls[u].row = "none"
      BY <2>2 DEF Blank, Differs
  <2>3. CASE ls[u].row # "none" /\ ~Changing(ls[u], d, p)
      BY <2>3, <1>2 DEF Changing, Differs
  <2> QED BY <2>1, <2>2, <2>3
<1> QED BY <1>3, <1>6, <1>7, <1>8 DEF row, new

\* Two active links claim no subject together, named or filled in.
LEMMA ClaimsDisjoint ==
  ASSUME pairs \subseteq DiscordUsers \X Players, Paired,
         tx.links \in [Patrons -> Link], Distinct(tx.links),
         NEW u \in Active(tx.links), NEW v \in Active(tx.links), u # v,
         NEW s, s \in SubjectsOf(u), s \in SubjectsOf(v)
  PROVE  FALSE
<1> DEFINE l == tx.links[u]
           k == tx.links[v]
<1>1. l \in Link /\ k \in Link
    BY DEF Active
<1>2. /\ l.discord = None \/ l.discord # k.discord
      /\ l.player = None \/ l.player # k.player
    BY DEF Distinct
<1>3. /\ l.discord \in Half(DiscordUsers) /\ l.player \in Half(Players)
      /\ k.discord \in Half(DiscordUsers) /\ k.player \in Half(Players)
    BY <1>1 DEF Link
<1>4. ASSUME NEW w \in Active(tx.links), s \in SubjectsOf(w), s \notin Named(tx.links[w])
      PROVE  /\ ~NamedByOther(w, s)
             /\ \E x \in pairs :
                  \/ /\ tx.links[w].discord = None /\ s = x[1]
                     /\ x[2] = tx.links[w].player
                  \/ /\ tx.links[w].player = None /\ s = x[2]
                     /\ x[1] = tx.links[w].discord
  <2>1. PICK x \in PairsOf(tx.links[w].discord, tx.links[w].player) :
          /\ s \in {x[1], x[2]}
          /\ \/ tx.links[w].discord = None /\ s \in DiscordUsers
             \/ tx.links[w].player = None /\ s \in Players
      BY <1>4 DEF SubjectsOf, Named
  <2>2. /\ x \in pairs /\ x[1] \in DiscordUsers /\ x[2] \in Players
        /\ x[1] = tx.links[w].discord \/ x[2] = tx.links[w].player
      BY DEF PairsOf
  <2>3. ~NamedByOther(w, s)
      BY <1>4 DEF SubjectsOf, Named
  <2> QED BY <2>1, <2>2, <2>3, LinksAssumption
<1>5. CASE s \in Named(l) /\ s \in Named(k)
    BY <1>2, <1>3, <1>5, LinksAssumption DEF Named, Half
<1>6. CASE s \in Named(l) /\ s \notin Named(k)
    BY <1>4, <1>6 DEF NamedByOther, Named
<1>7. CASE s \notin Named(l) /\ s \in Named(k)
    BY <1>4, <1>7 DEF NamedByOther, Named
<1>8. CASE s \notin Named(l) /\ s \notin Named(k)
  <2>1. PICK x \in pairs : \/ l.discord = None /\ s = x[1] /\ x[2] = l.player
                           \/ l.player = None /\ s = x[2] /\ x[1] = l.discord
      BY <1>4, <1>8
  <2>2. PICK y \in pairs : \/ k.discord = None /\ s = y[1] /\ y[2] = k.player
                           \/ k.player = None /\ s = y[2] /\ y[1] = k.discord
      BY <1>4, <1>8
  <2>3. /\ x[1] \in DiscordUsers /\ x[2] \in Players
        /\ y[1] \in DiscordUsers /\ y[2] \in Players
      OBVIOUS
  <2>4. x[1] = y[1] <=> x[2] = y[2]
      BY DEF Paired
  <2> QED BY <1>2, <2>1, <2>2, <2>3, <2>4, LinksAssumption
<1> QED BY <1>5, <1>6, <1>7, <1>8

-----------------------------------------------------------------------------
LEMMA InitInv == Init => LInv
<1> SUFFICES ASSUME Init
             PROVE  LInv
    OBVIOUS
<1>1. NoLink \in Link
    BY LinksAssumption DEF NoLink, Link, Half
<1>2. NoTx \in TxType /\ NoTx.got = {}
    BY DEF NoTx, TxType
<1>3. /\ \A u \in Patrons : links[u] = NoLink
      /\ NoLink.row = "none" /\ NoLink.discord = None /\ NoLink.player = None
    BY DEF Init, NoLink
<1>4. Types
    BY <1>1, <1>2 DEF Init, Types
<1>5. Distinct(links) /\ Blank(links) /\ Active(links) = {}
    BY <1>3 DEF Distinct, Blank, Active
<1> QED
    BY <1>2, <1>4, <1>5
       DEF Init, LInv, Paired, OneController, ControlFollowsLinks, OneEach

LEMMA AtRest ==
  /\ NoTx \in TxType
  /\ NoTx.auto = FALSE /\ NoTx.todo = {} /\ NoTx.got = {} /\ NoTx.by = "nobody"
  /\ NoTx.fetched = {}
BY DEF NoTx, TxType

\* A transaction opens on links that keep the rules.
LEMMA OpenInv ==
  ASSUME LInv, tx' \in TxType, tx'.by \in {"sync", "person", "staff"},
         NEW ls \in [Patrons -> Link], tx'.links = ls, Distinct(ls), Blank(ls),
         tx'.todo = (IF tx'.computes /\ ~tx'.auto THEN Active(ls) ELSE {}), tx'.got = {},
         \A u \in Patrons :
           Differs(ls[u].discord, links[u].discord) \/ Differs(ls[u].player, links[u].player)
             => links[u].cool = 0 \/ tx'.by = "staff",
         tx'.by = "sync" => ls = links,
         tx'.auto => tx'.by = "sync" /\ tx'.computes,
         ~tx'.computes => /\ tx'.fetched = {} /\ Active(links) \subseteq Active(ls)
                          /\ \A u \in members : ls[u] = links[u],
         UNCHANGED <<pairs, links, members, control>>
  PROVE  LInv'
<1>1. Types'
    BY DEF LInv, Types, Active
<1>2. Moved(tx.links)'
    BY DEF Moved
<1>3. Kept(tx.links)'
    BY DEF Kept
<1>4. Collected'
    BY DEF Collected, Active
<1>5. Stored'
    BY DEF Stored, Active
<1>6. TxInv'
    BY <1>2, <1>3, <1>4, <1>5 DEF TxInv, Distinct, Blank, Moved, Kept, Active
<1>7. OneEach(tx'.got)
    BY DEF OneEach
<1> QED
    BY <1>1, <1>6, <1>7
       DEF LInv, Paired, Distinct, Blank, Active, OneController, ControlFollowsLinks, Fits,
           OneEach

LEMMA LinkAccountInv ==
  ASSUME LInv, NEW u \in Patrons, NEW d \in Half(DiscordUsers),
         NEW p \in Half(Players), NEW by \in {"person", "staff"},
         NEW force \in BOOLEAN, by = "person" => force = FALSE,
         LinkAccount(u, d, p, by, force)
  PROVE  LInv'
<1> DEFINE ls == Relinked(links, u, d, p)
<1>1. links \in [Patrons -> Link] /\ Distinct(links) /\ Blank(links)
    BY DEF LInv, Types
<1>2. Linkable(links, u, d, p, force)
    BY DEF LinkAccount
<1>3. /\ ls \in [Patrons -> Link] /\ Distinct(ls) /\ Blank(ls)
      /\ \A v \in Patrons : v # u => ls[v] = links[v]
      /\ \/ Differs(ls[u].discord, links[u].discord)
         \/ Differs(ls[u].player, links[u].player)
         => force \/ links[u].cool = 0
    BY <1>1, <1>2, LinkStored
<1>4. /\ tx' = OpenTx(by, ls, by = "staff" \/ u \in members)
      /\ UNCHANGED <<pairs, links, members, control>>
    BY DEF LinkAccount
<1>6. ls[u].row = "active"
    BY <1>1 DEF Relinked, Linked, Link
<1> HIDE DEF ls
<1>5. \A v \in Patrons :
        Differs(ls[v].discord, links[v].discord) \/ Differs(ls[v].player, links[v].player)
          => links[v].cool = 0 \/ by = "staff"
    BY <1>3 DEF Differs
<1>7. /\ tx' \in TxType /\ tx'.by = by /\ tx'.links = ls /\ ~tx'.auto
      /\ tx'.computes = (by = "staff" \/ u \in members) /\ tx'.got = {} /\ tx'.fetched = {}
      /\ tx'.todo = IF tx'.computes THEN Active(ls) ELSE {}
  <2>1. tx' = [NoTx EXCEPT !.by = by, !.links = ls,
                           !.computes = (by = "staff" \/ u \in members),
                           !.todo = IF by = "staff" \/ u \in members
                                    THEN Active(ls) ELSE {}]
      BY <1>4 DEF OpenTx
  <2>2. Active(ls) \in SUBSET Patrons
      BY DEF Active
  <2> QED BY <1>3, <2>1, <2>2, AtRest DEF TxType
<1>8. /\ Active(links) \subseteq Active(ls)
      /\ u \notin members => \A v \in members : ls[v] = links[v]
    BY <1>3, <1>6 DEF Active, LInv, Types
<1> QED BY <1>3, <1>4, <1>5, <1>7, <1>8, OpenInv

LEMMA UnlinkInv ==
  ASSUME LInv, NEW u \in Patrons, Unlink(u)
  PROVE  LInv'
<1> DEFINE ls == [links EXCEPT ![u].row = "tombstone"]
<1>1. links \in [Patrons -> Link] /\ Distinct(links) /\ Blank(links)
    BY DEF LInv, Types
<1>2. /\ ls \in [Patrons -> Link]
      /\ \A v \in Patrons : ls[v].discord = links[v].discord
                             /\ ls[v].player = links[v].player
      /\ \A v \in Patrons : ls[v].row = IF v = u THEN "tombstone" ELSE links[v].row
    BY <1>1 DEF Link
<1>3. /\ tx' = OpenTx("person", ls, TRUE) /\ links[u].row = "active"
      /\ UNCHANGED <<pairs, links, members, control>>
    BY DEF Unlink
<1> HIDE DEF ls
<1>4. Active(ls) \subseteq Active(links)
    BY <1>2 DEF Active
<1>5. Distinct(ls)
  <2>1. Active(links) \subseteq Patrons
      BY DEF Active
  <2> QED BY <1>1, <1>2, <1>4, <2>1 DEF Distinct
<1>6. Blank(ls)
    BY <1>1, <1>2, <1>3 DEF Blank
<1>7. \A v \in Patrons : ~Differs(ls[v].discord, links[v].discord)
                         /\ ~Differs(ls[v].player, links[v].player)
    BY <1>2 DEF Differs
<1>8. /\ tx' \in TxType /\ tx'.by = "person" /\ tx'.links = ls /\ ~tx'.auto
      /\ tx'.computes /\ tx'.got = {} /\ tx'.todo = Active(ls)
  <2>1. tx' = [NoTx EXCEPT !.by = "person", !.links = ls, !.computes = TRUE,
                           !.todo = Active(ls)]
      BY <1>3 DEF OpenTx
  <2>2. Active(ls) \in SUBSET Patrons
      BY DEF Active
  <2> QED BY <1>2, <2>1, <2>2, AtRest DEF TxType
<1> QED BY <1>2, <1>3, <1>5, <1>6, <1>7, <1>8, OpenInv

LEMMA BeginSyncInv ==
  ASSUME LInv, NEW F \in SUBSET Patrons, BeginSync(F)
  PROVE  LInv'
<1>1. links \in [Patrons -> Link] /\ Distinct(links) /\ Blank(links)
    BY DEF LInv, Types
<1>2. /\ tx' = [OpenTx("sync", links, TRUE)
                   EXCEPT !.fetched = F, !.auto = TRUE, !.todo = {}]
      /\ UNCHANGED <<pairs, links, members, control>>
    BY DEF BeginSync
<1>3. \A v \in Patrons : ~Differs(links[v].discord, links[v].discord)
                         /\ ~Differs(links[v].player, links[v].player)
    BY DEF Differs
<1>4. /\ tx' \in TxType /\ tx'.by = "sync" /\ tx'.links = links /\ tx'.auto
      /\ tx'.computes /\ tx'.todo = {} /\ tx'.got = {}
  <2>1. tx' = [NoTx EXCEPT !.by = "sync", !.links = links, !.computes = TRUE,
                           !.fetched = F, !.auto = TRUE, !.todo = {}]
      BY <1>2, AtRest DEF OpenTx, TxType
  <2> QED BY <1>1, <2>1, AtRest DEF TxType
<1> QED BY <1>1, <1>2, <1>3, <1>4, OpenInv

-----------------------------------------------------------------------------
\* Steps of a transaction that is open leave what is stored alone.
LEMMA OpenGoesOn ==
  ASSUME LInv, Types', TxInv', OneEach(tx.got)', UNCHANGED <<pairs, links, members, control>>
  PROVE  LInv'
BY DEF LInv, Paired, Distinct, Blank, Active, OneController, ControlFollowsLinks, Fits

\* A sync only adds a link where there was no row.
LEMMA AutoLinkInv ==
  ASSUME LInv, NEW u \in Patrons, NEW d \in DiscordUsers, AutoLink(u, d)
  PROVE  LInv'
<1> DEFINE ls == Relinked(tx.links, u, d, None)
<1>1. /\ tx \in TxType /\ tx.auto /\ tx # NoTx /\ tx.links \in [Patrons -> Link]
      /\ tx.links[u].row = "none" /\ Linkable(tx.links, u, d, None, FALSE)
      /\ tx' = [tx EXCEPT !.links = ls] /\ UNCHANGED <<pairs, links, members, control>>
    BY AtRest DEF AutoLink, LInv, Types
<1>2. TxInv
    BY <1>1 DEF LInv
<1>3. d \in Half(DiscordUsers) /\ None \in Half(Players)
    BY DEF Half
<1>4. Distinct(tx.links) /\ Blank(tx.links)
    BY <1>2 DEF TxInv
<1>5. /\ ls \in [Patrons -> Link] /\ Distinct(ls) /\ Blank(ls)
      /\ \A v \in Patrons : v # u => ls[v] = tx.links[v]
    BY <1>1, <1>3, <1>4, LinkStored
<1> HIDE DEF ls
<1>6. /\ tx'.links = ls /\ tx'.todo = {} /\ tx'.got = {} /\ tx'.auto /\ tx' \in TxType
      /\ tx'.by = "sync" /\ tx.by = "sync" /\ tx'.computes
  <2>1. tx.todo = {} /\ tx.got = {} /\ tx.by = "sync" /\ tx.computes
      BY <1>1, <1>2 DEF TxInv, Collected
  <2>2. /\ tx' \in TxType /\ tx'.links = ls /\ tx'.todo = tx.todo /\ tx'.got = tx.got
        /\ tx'.auto = tx.auto /\ tx'.by = tx.by /\ tx'.computes = tx.computes
      BY <1>1, <1>5 DEF TxType
  <2> QED BY <1>1, <2>1, <2>2
<1>7. links[u].row = "none" /\ links[u].discord = None /\ links[u].player = None
    BY <1>1, <1>2, <1>6 DEF TxInv, Kept, LInv, Blank
<1>8. Types'
    BY <1>1, <1>5, <1>6 DEF LInv, Types
<1>9. Moved(tx.links)'
  <2> SUFFICES ASSUME NEW v \in Patrons,
                      \/ Differs(ls[v].discord, links[v].discord)
                      \/ Differs(ls[v].player, links[v].player)
               PROVE  links[v].cool = 0 \/ tx'.by = "staff"
      BY <1>1, <1>6 DEF Moved
  <2>1. v # u
      BY <1>7 DEF Differs
  <2> QED BY <2>1, <1>2, <1>5, <1>6 DEF TxInv, Moved
<1>10. Kept(tx.links)'
    BY <1>1, <1>2, <1>5, <1>6, <1>7 DEF TxInv, Kept
<1>11. Collected' /\ Stored'
    BY <1>6 DEF Collected, Stored
<1>12. TxInv'
  <2>1. Distinct(tx.links)' /\ Blank(tx.links)'
      BY <1>5, <1>6 DEF Distinct, Blank, Active
  <2> QED BY <2>1, <1>9, <1>10, <1>11 DEF TxInv
<1>13. OneEach(tx.got)'
    BY <1>6 DEF OneEach
<1> QED BY <1>1, <1>8, <1>12, <1>13, OpenGoesOn

\* Steps that leave the links of the transaction as they are.
LEMMA SameLinks ==
  ASSUME LInv, tx # NoTx, tx' \in TxType, tx'.links = tx.links, tx'.by = tx.by,
         tx'.todo \subseteq Active(tx.links), Collected', Stored', OneEach(tx.got)',
         UNCHANGED <<pairs, links, members, control>>
  PROVE  LInv'
<1>1. TxInv /\ tx.links \in [Patrons -> Link]
    BY DEF LInv, Types
<1>2. Types'
    BY <1>1 DEF LInv, Types
<1>3. Distinct(tx.links)' /\ Blank(tx.links)'
    BY <1>1 DEF TxInv, Distinct, Blank, Active
<1>4. Moved(tx.links)' /\ Kept(tx.links)'
    BY <1>1 DEF TxInv, Moved, Kept
<1>5. TxInv'
    BY <1>3, <1>4 DEF TxInv
<1> QED BY <1>2, <1>5, OpenGoesOn

LEMMA ScanLinksInv == ASSUME LInv, ScanLinks PROVE LInv'
<1>1. /\ tx \in TxType /\ tx.auto /\ tx # NoTx /\ tx.links \in [Patrons -> Link]
      /\ tx' = [tx EXCEPT !.auto = FALSE, !.todo = Active(tx.links)]
      /\ UNCHANGED <<pairs, links, members, control>>
    BY AtRest DEF ScanLinks, LInv, Types
<1>2. Active(tx.links) \in SUBSET Patrons
    BY DEF Active
<1>3. /\ tx' \in TxType /\ tx'.links = tx.links /\ tx'.by = tx.by /\ tx'.got = tx.got
      /\ tx'.todo = Active(tx.links) /\ tx'.auto = FALSE /\ tx'.computes = tx.computes
    BY <1>1, <1>2 DEF TxType
<1>4. tx.got = {} /\ tx.computes
    BY <1>1 DEF LInv, TxInv, Collected
<1>5. Collected' /\ Stored'
    BY <1>3, <1>4 DEF Collected, Stored
<1>6. OneEach(tx.got)'
    BY <1>3, <1>4 DEF OneEach
<1> QED BY <1>1, <1>3, <1>5, <1>6, SameLinks

\* The end of a transaction that is rolled back.
LEMMA RestInv ==
  ASSUME LInv, tx' = NoTx, UNCHANGED <<pairs, links, members, control>>
  PROVE  LInv'
BY AtRest
   DEF LInv, Types, Paired, Distinct, Blank, Active, OneController,
       ControlFollowsLinks, Fits, OneEach

LEMMA SubjectsTyped ==
  ASSUME Types, NEW u \in Active(tx.links), tx # NoTx
  PROVE  /\ SubjectsOf(u) \subseteq Subjects /\ Named(tx.links[u]) \subseteq SubjectsOf(u)
         /\ \A s \in SubjectsOf(u) : Fits(tx.links[u], s)
<1>1. tx.links[u] \in Link
    BY DEF Types, Active
<1>2. Named(tx.links[u]) \subseteq Subjects
    BY <1>1, LinksAssumption DEF Named, Link, Half, Subjects
<1>3. ASSUME NEW s \in SubjectsOf(u)
      PROVE  Fits(tx.links[u], s)
  <2>1. \/ s \in Named(tx.links[u])
        \/ tx.links[u].discord = None /\ s \in DiscordUsers
        \/ tx.links[u].player = None /\ s \in Players
      BY <1>3 DEF SubjectsOf, Named
  <2> QED BY <1>1, <2>1, LinksAssumption DEF Named, Link, Half, Fits
<1> QED BY <1>2, <1>3 DEF SubjectsOf, Named, Subjects

\* A link is resolved: its subjects are free, or everything is undone.
LEMMA ResolveInv ==
  ASSUME LInv, NEW u \in Patrons, Resolve(u)
  PROVE  LInv'
<1>1. /\ u \in tx.todo /\ tx \in TxType /\ tx # NoTx /\ Types
      /\ UNCHANGED <<pairs, links, members, control>>
    BY AtRest DEF Resolve, LInv, Types
<1>2. CASE \E s \in SubjectsOf(u) : Taken(s)
    BY <1>2, RestInv DEF Resolve
<1>3. CASE ~\E s \in SubjectsOf(u) : Taken(s)
  <2> DEFINE add == {u} \X SubjectsOf(u)
  <2>1. tx' = [tx EXCEPT !.todo = @ \ {u}, !.got = @ \cup add]
      BY <1>3 DEF Resolve
  <2>2. u \in Active(tx.links) /\ tx.todo \subseteq Active(tx.links)
      BY <1>1 DEF Types
  <2>3. add \in SUBSET (Patrons \X Subjects)
      BY <1>1, <2>2, SubjectsTyped
  <2>4. \A c \in add : c[1] = u /\ c[2] \in SubjectsOf(u) /\ Fits(tx.links[c[1]], c[2])
      BY <1>1, <2>2, SubjectsTyped
  <2>5. {u} \X Named(tx.links[u]) \subseteq add
      BY <1>1, <2>2, SubjectsTyped
  <2> HIDE DEF add
  <2>6. /\ tx' \in TxType /\ tx'.links = tx.links /\ tx'.by = tx.by
        /\ tx'.todo = tx.todo \ {u} /\ tx'.got = tx.got \cup add
        /\ tx'.auto = tx.auto /\ tx'.stable = tx.stable /\ tx'.computes = tx.computes
      BY <1>1, <2>1, <2>3 DEF TxType
  <2>7. Collected /\ ~tx.auto /\ tx.computes
      BY <1>1 DEF LInv, TxInv, Collected, Stored
  <2>8. \A v : SubjectsOf(v)' = SubjectsOf(v)
      BY <1>1, <2>6 DEF SubjectsOf, PairsOf, NamedByOther, Active
  <2>9. Active(tx.links)' = Active(tx.links)
      BY <2>6 DEF Active
  <2>10. Collected'
    <3>1. \A v \in Active(tx.links) \ tx'.todo :
             {v} \X Named(tx.links[v]) \subseteq tx'.got
        BY <2>5, <2>6, <2>7 DEF Collected
    <3>2. \A c \in tx'.got : /\ c[1] \in Active(tx.links) \ tx'.todo
                             /\ Fits(tx.links[c[1]], c[2])
        BY <1>1, <2>2, <2>4, <2>6, <2>7 DEF Collected
    <3>3. tx'.stable => \A c \in tx'.got : c[2] \in SubjectsOf(c[1])
        BY <2>4, <2>6, <2>7 DEF Collected
    <3> QED BY <2>6, <2>7, <2>8, <2>9, <3>1, <3>2, <3>3 DEF Collected, Fits
  <2>11. OneEach(tx.got)'
    <3> SUFFICES ASSUME NEW x \in tx.got \cup add, NEW y \in tx.got \cup add,
                        x[2] = y[2]
                 PROVE  x[1] = y[1]
        BY <2>6 DEF OneEach
    <3>1. \A g \in tx.got, c \in add : g[2] # c[2]
        BY <1>3, <2>4 DEF Taken
    <3> QED BY <3>1, <2>4 DEF LInv, OneEach
  <2>12. Stored'
      BY <2>6, <2>7 DEF Stored
  <2> QED BY <1>1, <2>2, <2>6, <2>10, <2>11, <2>12, SameLinks
<1> QED BY <1>2, <1>3

\* What was collected becomes what is controlled.
LEMMA CommitInv == ASSUME LInv, Commit PROVE LInv'
<1>1. /\ tx # NoTx /\ ~tx.auto /\ tx.todo = {} /\ links' = tx.links
      /\ members' = members \cup tx.fetched /\ tx' = NoTx /\ UNCHANGED pairs
      /\ control' = (IF tx.computes THEN tx.got ELSE control)
      /\ tx.links \in [Patrons -> Link] /\ tx \in TxType
    BY DEF Commit, LInv, Types
<1>2. TxInv
    BY <1>1 DEF LInv
<1>3. tx.got \subseteq Patrons \X Subjects
    BY <1>1 DEF TxType
<1>4. Types'
    BY <1>1, <1>3, AtRest DEF LInv, Types, TxType
<1>5. Distinct(links)' /\ Blank(links)'
    BY <1>1, <1>2 DEF TxInv, Distinct, Blank, Active
<1>6. OneController'
    BY <1>1 DEF LInv, OneEach, OneController
<1>7. ControlFollowsLinks'
  <2>1. CASE tx.computes
    <3>1. /\ \A u \in Active(tx.links) : {u} \X Named(tx.links[u]) \subseteq tx.got
          /\ \A c \in tx.got : c[1] \in Active(tx.links) /\ Fits(tx.links[c[1]], c[2])
        BY <1>1, <1>2, <2>1 DEF TxInv, Collected
    <3> QED BY <1>1, <2>1, <3>1 DEF ControlFollowsLinks, Active, Named, Fits
  <2>2. CASE ~tx.computes
    <3>1. /\ members' = members /\ control' = control /\ members \subseteq Patrons
          /\ Active(links) \subseteq Active(tx.links)
          /\ \A u \in members : tx.links[u] = links[u]
        BY <1>1, <1>2, <2>2 DEF TxInv, Stored, LInv, Types
    <3>2. /\ Active(links) \subseteq Active(links)'
          /\ Active(links)' \cap members = Active(links) \cap members
          /\ \A u \in members : links'[u] = links[u]
        BY <1>1, <3>1 DEF Active
    <3> QED BY <3>1, <3>2 DEF LInv, ControlFollowsLinks, Fits
  <2> QED BY <2>1, <2>2
<1>8. OneEach(tx.got)'
    BY <1>1, AtRest DEF OneEach
<1> QED BY <1>1, <1>4, <1>5, <1>6, <1>7, <1>8 DEF LInv, Paired

\* discord_links changes: what a recompute implied may be out of date.
LEMMA PairChangeInv == ASSUME LInv, PairChange PROVE LInv'
<1>1. /\ UNCHANGED <<links, members, control>> /\ tx \in TxType
      /\ tx' = IF tx = NoTx THEN NoTx ELSE [tx EXCEPT !.stable = FALSE]
    BY DEF PairChange, LInv, Types
<1>2. pairs' \subseteq DiscordUsers \X Players /\ Paired'
  <2>1. ASSUME NEW d \in DiscordUsers, NEW p \in Players,
               pairs' = {x \in pairs : x[1] # d /\ x[2] # p} \cup {<<d, p>>}
        PROVE  pairs' \subseteq DiscordUsers \X Players /\ Paired'
      BY <2>1 DEF LInv, Types, Paired
  <2>2. ASSUME NEW x \in pairs, pairs' = pairs \ {x}
        PROVE  pairs' \subseteq DiscordUsers \X Players /\ Paired'
      BY <2>2 DEF LInv, Types, Paired
  <2> QED BY <2>1, <2>2 DEF PairChange
<1>3. /\ tx' \in TxType /\ tx'.links = tx.links /\ tx'.by = tx.by /\ tx'.got = tx.got
      /\ tx'.todo = tx.todo /\ tx'.auto = tx.auto /\ tx'.computes = tx.computes
      /\ tx'.fetched = tx.fetched
      /\ tx # NoTx => tx'.stable = FALSE
      /\ tx' # NoTx => tx # NoTx
    BY <1>1 DEF TxType
<1>4. Types'
    BY <1>1, <1>2, <1>3 DEF LInv, Types, Active
<1>5. ASSUME tx' # NoTx
      PROVE  TxInv'
  <2>1. TxInv /\ tx'.stable = FALSE
      BY <1>3, <1>5 DEF LInv
  <2>2. Distinct(tx.links)' /\ Blank(tx.links)'
      BY <1>3, <2>1 DEF TxInv, Distinct, Blank, Active
  <2>3. Moved(tx.links)' /\ Kept(tx.links)'
      BY <1>1, <1>3, <2>1 DEF TxInv, Moved, Kept
  <2>4. Collected' /\ Stored'
      BY <1>1, <1>3, <2>1 DEF TxInv, Collected, Stored, Active, Fits
  <2> QED BY <2>2, <2>3, <2>4 DEF TxInv
<1> QED
    BY <1>1, <1>2, <1>3, <1>4, <1>5
       DEF LInv, Distinct, Blank, Active, OneController, ControlFollowsLinks, Fits, OneEach

\* A cooldown runs while no transaction does.
LEMMA TickInv == ASSUME LInv, Tick PROVE LInv'
<1> DEFINE older == [u \in Patrons |->
                      [links[u] EXCEPT !.cool = IF @ = 0 THEN 0 ELSE @ - 1]]
<1>1. /\ tx = NoTx /\ links' = older /\ UNCHANGED <<pairs, members, control, tx>>
      /\ links \in [Patrons -> Link]
    BY DEF Tick, LInv, Types
<1>2. /\ older \in [Patrons -> Link]
      /\ \A u \in Patrons : /\ older[u].row = links[u].row
                            /\ older[u].discord = links[u].discord
                            /\ older[u].player = links[u].player
  <2>1. ASSUME NEW l \in Link
        PROVE  LET o == [l EXCEPT !.cool = IF @ = 0 THEN 0 ELSE @ - 1]
               IN /\ o \in Link /\ o.row = l.row
                  /\ o.discord = l.discord /\ o.player = l.player
    <3>1. l.cool \in 0..Cooldown
        BY DEF Link
    <3>2. (IF l.cool = 0 THEN 0 ELSE l.cool - 1) \in 0..Cooldown
        BY <3>1, LinksAssumption
    <3> QED BY <3>2 DEF Link
  <2>2. ASSUME NEW u \in Patrons
        PROVE  /\ older[u] \in Link /\ older[u].row = links[u].row
               /\ older[u].discord = links[u].discord
               /\ older[u].player = links[u].player
    <3>1. links[u] \in Link
        BY <1>1
    <3> QED BY <3>1, <2>1
  <2> QED BY <2>2
<1> HIDE DEF older
<1>3. Active(links)' = Active(links)
    BY <1>1, <1>2 DEF Active
<1>4. Distinct(links)' /\ Blank(links)'
    BY <1>1, <1>2 DEF LInv, Distinct, Blank, Active
<1>5. ControlFollowsLinks'
  <2>1. \A u \in Active(links) : u \in Patrons
      BY DEF Active
  <2>2. control \subseteq Patrons \X Subjects
      BY DEF LInv, Types
  <2> QED BY <1>1, <1>2, <1>3, <2>1, <2>2 DEF LInv, ControlFollowsLinks, Fits
<1> QED BY <1>1, <1>2, <1>4, <1>5 DEF LInv, Types, Paired, OneController, OneEach

-----------------------------------------------------------------------------
LEMMA ByPersonInv ==
  ASSUME LInv, NEW u \in Patrons, ByPerson(u)
  PROVE  LInv'
<1>1. None \in Half(DiscordUsers) /\ None \in Half(Players)
      /\ DiscordUsers \subseteq Half(DiscordUsers) /\ Players \subseteq Half(Players)
    BY DEF Half
<1>2. ASSUME NEW d \in DiscordUsers, LinkAccount(u, d, None, "person", FALSE)
      PROVE  LInv'
    BY <1>1, <1>2, LinkAccountInv
<1>3. ASSUME NEW p \in Players, LinkAccount(u, None, p, "person", FALSE)
      PROVE  LInv'
    BY <1>1, <1>3, LinkAccountInv
<1> QED BY <1>2, <1>3, UnlinkInv DEF ByPerson

LEMMA NextInv == LInv /\ [Next]_vars => LInv'
<1> SUFFICES ASSUME LInv, [Next]_vars
             PROVE  LInv'
    OBVIOUS
<1>1. ASSUME NEW u \in Patrons, ByPerson(u) \/ Resolve(u)
      PROVE  LInv'
    BY <1>1, ByPersonInv, ResolveInv
<1>2. ASSUME NEW u \in Patrons, ByStaff(u)
      PROVE  LInv'
    BY <1>2, LinkAccountInv DEF ByStaff
<1>3. ASSUME NEW u \in Patrons, NEW d \in DiscordUsers, AutoLink(u, d)
      PROVE  LInv'
    BY <1>3, AutoLinkInv
<1>6. ASSUME NEW F \in SUBSET Patrons, BeginSync(F)
      PROVE  LInv'
    BY <1>6, BeginSyncInv
<1>4. CASE ScanLinks \/ Commit \/ Rollback \/ PairChange \/ Tick
    BY <1>4, ScanLinksInv, CommitInv, RestInv, PairChangeInv, TickInv
       DEF Rollback
<1>5. CASE UNCHANGED vars
  <2>1. \A u : SubjectsOf(u)' = SubjectsOf(u)
      BY <1>5 DEF vars, SubjectsOf, PairsOf, NamedByOther, Active
  <2> QED
    BY <1>5, <2>1
       DEF vars, LInv, Types, Paired, Distinct, Blank, Active, OneController,
           ControlFollowsLinks, Fits, OneEach, TxInv, Moved, Kept, Collected, Stored
<1> QED BY <1>1, <1>2, <1>3, <1>4, <1>5, <1>6 DEF Next

\* What links, transactions and control keep, whenever discord_links changes.
THEOREM Invariant == Spec => []LInv
BY InitInv, NextInv, PTL DEF Spec

\* A subject never has the tier of two accounts.
THEOREM ControlledOnce == Spec => []OneController
<1>1. LInv => OneController
    BY DEF LInv
<1> QED BY <1>1, Invariant, PTL

\* Control agrees with the links of the patrons that are known after every
\* transaction, although a link of an unknown one is stored without a recompute.
THEOREM ControlFollows == Spec => []ControlFollowsLinks
<1>1. LInv => ControlFollowsLinks
    BY DEF LInv
<1> QED BY <1>1, Invariant, PTL

\* Unless discord_links changes under it, no recompute meets a conflict: none
\* was stored.
THEOREM NoStoredConflict == Spec => []NeverStuck
<1>1. LInv => NeverStuck
  <2> SUFFICES ASSUME LInv, tx.stable, NEW u \in tx.todo, NEW s \in SubjectsOf(u),
                      Taken(s)
               PROVE  FALSE
      BY DEF NeverStuck
  <2>1. /\ tx # NoTx /\ tx.links \in [Patrons -> Link] /\ u \in Active(tx.links)
        /\ pairs \subseteq DiscordUsers \X Players /\ Paired
      BY AtRest DEF LInv, Types
  <2>2. Collected /\ Distinct(tx.links)
      BY <2>1 DEF LInv, TxInv
  <2>3. PICK g \in tx.got : g[2] = s
      BY DEF Taken
  <2>4. g[1] \in Active(tx.links) \ tx.todo /\ s \in SubjectsOf(g[1])
      BY <2>2, <2>3 DEF Collected
  <2> QED BY <2>1, <2>2, <2>4, ClaimsDisjoint
<1> QED BY <1>1, Invariant, PTL

\* Links are stored by commits, and fade by the clock.
LEMMA LinksChange ==
  ASSUME LInv, [Next]_vars, links' # links
  PROVE  \/ tx # NoTx /\ links' = tx.links /\ TxInv
         \/ /\ tx = NoTx
            /\ \A u \in Patrons : /\ links'[u].discord = links[u].discord
                                  /\ links'[u].player = links[u].player
<1>1. Commit \/ Tick
    BY DEF Next, vars, ByPerson, ByStaff, LinkAccount, Unlink, Resolve, AutoLink,
           BeginSync, ScanLinks, Rollback, PairChange
<1>2. CASE Commit
    BY <1>2 DEF Commit, LInv
<1>3. CASE Tick
  <2>1. links \in [Patrons -> Link] /\ tx = NoTx
      BY <1>3 DEF Tick, LInv, Types
  <2>2. \A u \in Patrons : /\ links'[u].discord = links[u].discord
                           /\ links'[u].player = links[u].player
      BY <1>3, <2>1 DEF Tick, Link
  <2> QED BY <2>1, <2>2
<1> QED BY <1>1, <1>2, <1>3

\* A sync leaves every link row that exists, tombstones included.
THEOREM SyncsKeep == Spec => SyncKeepsLinks
<1> DEFINE Keeps == tx.by = "sync" => \A u \in Patrons :
                      links'[u] # links[u] => links[u].row = "none"
<1>1. ASSUME LInv, [Next]_vars
      PROVE  Keeps
  <2> SUFFICES ASSUME tx.by = "sync", NEW u \in Patrons, links'[u] # links[u]
               PROVE  links[u].row = "none"
      OBVIOUS
  <2>1. tx # NoTx
      BY AtRest
  <2> QED BY <1>1, <2>1, LinksChange DEF TxInv, Kept
<1>2. LInv /\ [Next]_vars => [Keeps]_<<links, tx>>
    BY <1>1
<1> QED BY <1>2, Invariant, PTL DEF Spec, SyncKeepsLinks

\* A link moves to another subject after the cooldown or by staff.
THEOREM MovesWithLeave == Spec => MovesAreRare
<1> DEFINE Rare == \A u \in Patrons :
                     \/ Differs(links'[u].discord, links[u].discord)
                     \/ Differs(links'[u].player, links[u].player)
                     => links[u].cool = 0 \/ tx.by = "staff"
<1>1. ASSUME LInv, [Next]_vars
      PROVE  Rare \/ UNCHANGED links
  <2> SUFFICES ASSUME links' # links
               PROVE  Rare
      OBVIOUS
  <2>1. CASE links' = tx.links /\ TxInv
      BY <2>1 DEF TxInv, Moved
  <2>2. CASE \A u \in Patrons : /\ links'[u].discord = links[u].discord
                                /\ links'[u].player = links[u].player
      BY <2>2 DEF Differs
  <2> QED BY <1>1, <2>1, <2>2, LinksChange
<1>2. LInv /\ [Next]_vars => [Rare]_links
    BY <1>1
<1> QED BY <1>2, Invariant, PTL DEF Spec, MovesAreRare

\* A subject of another person can only join a link whose cooldown runs in a
\* half that names nobody yet.
JoinsFillBlanks ==
  [][tx = NoTx /\ tx'.by = "person" =>
       \A u \in Active(links) :
         links[u].cool > 0 /\ Joins(links[u], tx'.links[u])
           => None \in {links[u].discord, links[u].player}]_tx

\* So PersonKept fails through a link's empty half alone: a link with both its
\* halves keeps its person through the cooldown (_link's "changing").
THEOREM FullLinksKeepTheirPerson == Spec => JoinsFillBlanks
<1> DEFINE Fills == tx = NoTx /\ tx'.by = "person" =>
                      \A u \in Active(links) :
                        links[u].cool > 0 /\ Joins(links[u], tx'.links[u])
                          => None \in {links[u].discord, links[u].player}
<1>1. ASSUME LInv, LInv', [Next]_vars
      PROVE  Fills
  <2> SUFFICES ASSUME tx = NoTx, tx'.by = "person", NEW u \in Active(links),
                      links[u].cool > 0, Joins(links[u], tx'.links[u]),
                      links[u].discord # None, links[u].player # None
               PROVE  FALSE
      OBVIOUS
  <2> PICK old : old = links[u]
      OBVIOUS
  <2> PICK new : new = tx'.links[u]
      OBVIOUS
  <2>1. tx' # NoTx /\ TxInv'
    <3>1. tx' # NoTx
        BY AtRest
    <3> QED BY <1>1, <3>1 DEF LInv
  <2>2. links' = links
      BY <1>1, <2>1 DEF Next, vars, ByPerson, ByStaff, LinkAccount, Unlink, Resolve,
         AutoLink, BeginSync, ScanLinks, Rollback, PairChange, Commit, Tick
  <2>3. u \in Patrons /\ old \in Link /\ pairs \subseteq DiscordUsers \X Players
      BY <1>1 DEF LInv, Types, Active
  <2>4. Differs(new.discord, old.discord) \/ Differs(new.player, old.player)
    <3>1. PICK x \in pairs :
             \/ new = [old EXCEPT !.player = x[2]] /\ new # old
             \/ new = [old EXCEPT !.discord = x[1]] /\ new # old
        BY DEF Joins
    <3>2. x[1] # None /\ x[2] # None
        BY <2>3, LinksAssumption
    <3>3. CASE new = [old EXCEPT !.player = x[2]] /\ new # old
        BY <2>3, <3>2, <3>3 DEF Differs, Link
    <3>4. CASE new = [old EXCEPT !.discord = x[1]] /\ new # old
        BY <2>3, <3>2, <3>4 DEF Differs, Link
    <3> QED BY <3>1, <3>3, <3>4
  <2>5. links'[u].cool = 0 \/ tx'.by = "staff"
    <3>1. \A v \in Patrons :
             Differs(tx'.links[v].discord, links'[v].discord)
               \/ Differs(tx'.links[v].player, links'[v].player)
             => links'[v].cool = 0 \/ tx'.by = "staff"
        BY <2>1 DEF TxInv, Moved
    <3> QED BY <2>2, <2>3, <2>4, <3>1
  <2> QED BY <2>2, <2>5
<1>2. LInv /\ LInv' /\ [Next]_vars => [Fills]_tx
    BY <1>1
<1> QED BY <1>2, Invariant, PTL DEF Spec, JoinsFillBlanks
=============================================================================
