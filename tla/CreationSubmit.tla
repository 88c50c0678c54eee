--------------------------- MODULE CreationSubmit ---------------------------
(***************************************************************************)
(* The wizard together with what happens when it is sent: the create       *)
(* request, its skins and its release (onSubmit), the backend that checks  *)
(* and stores it (creates.py), and RPCharacters, which takes the stored    *)
(* create up once it is no longer held.                                    *)
(*                                                                         *)
(* A request may be handled after the page gave up on it, and a retry is   *)
(* sent with the same client_request_id. create_character looks for that   *)
(* id, validates and inserts in transactions of their own, so two requests *)
(* interleave between them. Of a request's body only hold and the account  *)
(* age its rules are met at are kept.                                      *)
(***************************************************************************)
EXTENDS CreationWizard

CONSTANTS
    MaxTries     \* bound: create requests sent on one visit

ASSUME SubmitAssumption == MaxTries \in Nat

VARIABLES
    withSkins,   \* the onSubmit in flight has skins to upload
    createId,    \* pendingCreateId: a set of at most one id
    refusal,     \* the refusal shown, {} when none or any other message is
    requests,    \* create requests not answered yet
    tries,       \* requests sent so far
    rows         \* character_creation_requests of this client_request_id

serverVars == <<requests, tries, rows>>
vars == <<wizardVars, withSkins, createId, refusal, serverVars>>

Row == [id : 1 .. MaxTries, status : {"pending", "applied", "rejected"},
        held : BOOLEAN]
Request == [id : 1 .. MaxTries, step : {"sent", "looked", "checked"},
            hold : BOOLEAN, lawful : SUBSET BOOLEAN]

-----------------------------------------------------------------------------
(* onSubmit                                                                *)

StillEditing == UNCHANGED <<draftVars, unlocked, old>>
StaysOpen == UNCHANGED page /\ StillEditing

\* The page is left, and its state goes with it.
Leaves(how) ==
    /\ page' = how /\ phase' = "idle"
    /\ draft' = EmptyDraft /\ skins' = FALSE /\ index' = 1
    /\ withSkins' = FALSE /\ createId' = {} /\ refusal' = {}
    /\ UNCHANGED <<unlocked, old>>

\* What is shown on the screen, if not only to try again.
Fails(why) == /\ phase' = "idle" /\ refusal' = why /\ withSkins' = FALSE
              /\ StaysOpen

\* toCreateBody, as the backend's rules see it
Body == [draft EXCEPT !.picks = Strip(@)]
NewRequest == [id |-> tries + 1, step |-> "sent", hold |-> skins,
               lawful |-> {a \in {old, TRUE} : RulesPass(Body, a)}]

\* With the create known, what is left is its skins, or nothing.
GoesOn(id, hasSkins) ==
    IF hasSkins
    THEN /\ phase' = "upload" /\ createId' = {id}
         /\ withSkins' = TRUE /\ refusal' = {} /\ StaysOpen
    ELSE Leaves("done")

Sends == /\ tries < MaxTries
         /\ tries' = tries + 1
         /\ requests' = requests \cup {NewRequest}
         /\ phase' = "create" /\ withSkins' = skins /\ refusal' = {}
         /\ UNCHANGED createId /\ StaysOpen

Submit ==
    /\ page = "open" /\ ~submitting /\ ShowSubmit
    /\ Incomplete = {}
    /\ \/ createId = {} /\ Sends
       \/ \E id \in createId : GoesOn(id, skins) /\ UNCHANGED <<requests, tries>>
    /\ UNCHANGED rows

\* The page stops waiting: the request, or its answer, may still be under way.
CreateTimesOut == /\ phase = "create"
                  /\ Fails({})
                  /\ UNCHANGED <<createId, serverVars>>

\* The skins go up one by one to a create that is still pending.
Upload ==
    /\ phase = "upload"
    /\ \/ /\ \E r \in rows : r.id \in createId /\ r.status = "pending"
          /\ phase' = "release"
          /\ UNCHANGED <<createId, refusal, withSkins>> /\ StaysOpen
       \/ Fails({}) /\ UNCHANGED createId
    /\ UNCHANGED serverVars

\* release_create, whose answer may be lost too
Release ==
    /\ phase = "release"
    /\ LET mine == {r \in rows : r.id \in createId /\ r.status = "pending"}
       IN \/ /\ rows' = (rows \ mine) \cup {[r EXCEPT !.held = FALSE] : r \in mine}
             /\ \/ mine # {} /\ Leaves("done")
                \/ Fails({}) /\ UNCHANGED createId
          \/ rows' = rows /\ Fails({}) /\ UNCHANGED createId
    /\ UNCHANGED <<requests, tries>>

CloseTab == /\ page = "open"
            /\ Leaves("closed")
            /\ UNCHANGED serverVars

-----------------------------------------------------------------------------
(* create_character                                                        *)

\* The page waits for the answer to the last one it sent.
Awaited(q) == phase = "create" /\ q.id = tries

Moves(q, step) == requests' = (requests \ {q}) \cup {[q EXCEPT !.step = step]}

PageUnaware == /\ UNCHANGED <<withSkins, createId, refusal, phase>>
               /\ StaysOpen

\* The request is answered with the id of its row.
Answered(q, id) ==
    /\ requests' = requests \ {q}
    /\ IF Awaited(q) THEN GoesOn(id, withSkins) ELSE PageUnaware
    /\ UNCHANGED tries

Refused(q, why) ==
    /\ requests' = requests \ {q}
    /\ IF Awaited(q) THEN Fails(why) /\ UNCHANGED createId ELSE PageUnaware
    /\ UNCHANGED <<tries, rows>>

Waits(q, step) == Moves(q, step) /\ PageUnaware /\ UNCHANGED <<tries, rows>>

Lookup(q) ==
    /\ q.step = "sent"
    /\ \/ \E r \in rows : Answered(q, r.id) /\ UNCHANGED rows
       \/ rows = {} /\ Waits(q, "looked")

\* Mutant: what the validation found is not looked at again.
ValidateOnce(q) ==
    /\ q.step = "looked"
    /\ \/ \E r \in rows : r.status # "rejected" /\ Refused(q, {"own"})
       \/ rows = {} /\ old \notin q.lawful /\ Refused(q, {"rules"})
       \/ rows = {} /\ Refused(q, {})
       \/ /\ \A r \in rows : r.status # "pending"
          /\ old \in q.lawful
          /\ Waits(q, "checked")

\* The name and the slot may be others', or this create's own by now: then the
\* row is looked up again before the request is refused.
Validate(q) ==
    /\ q.step = "looked"
    /\ \/ \E r \in rows : Answered(q, r.id) /\ UNCHANGED rows
       \/ rows = {} /\ old \notin q.lawful /\ Refused(q, {"rules"})
       \/ rows = {} /\ Refused(q, {})
       \/ /\ \A r \in rows : r.status # "pending"
          /\ old \in q.lawful
          /\ Waits(q, "checked")

NewRow(q) == [id |-> q.id, status |-> "pending", held |-> q.hold]

\* Mutant: no unique index.
InsertAlways(q) == /\ q.step = "checked"
                   /\ rows' = rows \cup {NewRow(q)}
                   /\ Answered(q, q.id)

Insert(q) ==
    /\ q.step = "checked"
    /\ \/ /\ rows = {}
          /\ rows' = {NewRow(q)}
          /\ Answered(q, q.id)
       \/ \E r \in rows : Answered(q, r.id) /\ UNCHANGED rows

\* A request nobody waits for is lost on the way.
Lost(q) == /\ q.step = "sent" /\ ~Awaited(q)
           /\ requests' = requests \ {q}
           /\ PageUnaware /\ UNCHANGED <<tries, rows>>

-----------------------------------------------------------------------------
(* The row                                                                 *)

RowsOnly == UNCHANGED <<wizardVars, withSkins, createId, refusal, requests, tries>>

\* Mutant: the page's own clock ends the hold.
LapseInBrowser(r) == /\ r.held /\ page = "open"
                     /\ rows' = (rows \ {r}) \cup {[r EXCEPT !.held = FALSE]}
                     /\ RowsOnly

\* held_until passes.
Lapse(r) == /\ r.held
            /\ rows' = (rows \ {r}) \cup {[r EXCEPT !.held = FALSE]}
            /\ RowsOnly

\* list_pending
ListPending == {r \in rows : r.status = "pending" /\ ~r.held}

\* RPCharacters takes a listed create up and reports, or rejects it.
TakeUp == /\ \E r \in ListPending, status \in {"applied", "rejected"} :
                rows' = (rows \ {r}) \cup {[r EXCEPT !.status = status]}
          /\ RowsOnly

\* delete_pending_create, from the profile in another tab
CancelCreate(r) == /\ r.status = "pending"
                   /\ rows' = rows \ {r}
                   /\ RowsOnly

-----------------------------------------------------------------------------
Init == /\ WizardInit
        /\ withSkins = FALSE /\ createId = {} /\ refusal = {}
        /\ requests = {} /\ tries = 0 /\ rows = {}

Backend == \E q \in requests : Lookup(q) \/ Validate(q) \/ Insert(q) \/ Lost(q)
Browser == Submit \/ CreateTimesOut \/ Upload \/ Release \/ CloseTab

Next == \/ WizardNext /\ UNCHANGED <<withSkins, createId, refusal, serverVars>>
        \/ Browser
        \/ Backend
        \/ TakeUp
        \/ \E r \in rows : Lapse(r) \/ CancelCreate(r)

\* The clock runs, and RPCharacters pulls the pending creates on a timer.
Spec == /\ Init /\ [][Next]_vars
        /\ WF_vars(TakeUp) /\ WF_vars(\E r \in rows : Lapse(r))

-----------------------------------------------------------------------------
(* Properties.                                                             *)

TypeOK ==
    /\ phase \in {"idle", "create", "upload", "release"}
    /\ page \in {"open", "done", "closed"}
    /\ createId \subseteq 1 .. tries
    /\ refusal \subseteq {"rules", "own"}
    /\ requests \subseteq Request /\ rows \subseteq Row /\ tries \in 0 .. MaxTries

\* One visit makes one character at most, however often its create is sent
\* again and in whatever order the requests are handled.
OneCharacter == Cardinality(rows) <= 1

\* What the wizard lets through the backend accepts: a create is refused for a
\* name or a slot that others hold, never for the rules, though the account may
\* have aged since, and never for being its own second attempt.
OnlyOthersRefuse == refusal = {}

\* A stored create reaches RPCharacters or is cancelled, though the page is
\* closed or fails before it releases it.
CreatesAreTakenUp ==
    \A id \in 1 .. MaxTries :
        (\E r \in rows : r.id = id /\ r.status = "pending") ~>
            ~(\E r \in rows : r.id = id /\ r.status = "pending")

\* When the wizard is done, its create waits for no skins any more.
DoneIsReleased == page = "done" => \A r \in rows : ~r.held
=============================================================================
