------------------------- MODULE ChronicleTimelapse -------------------------
(***************************************************************************)
(* What the timelapse studio promises the person who asked for a film of   *)
(* the map: the screen holds either no film at all or the whole film of    *)
(* what was asked for when the build began, never a part of it, and        *)
(* whatever is on the screen goes when something else is asked for.        *)
(*                                                                         *)
(* What is asked for may change while a film is made. The film then shown  *)
(* is the one that was begun.                                              *)
(***************************************************************************)
VARIABLES
    film,      \* the film of the choices as they stand: slot -> picture
    making,    \* the film that is being made, if any
    screen     \* the film that can be played, or the empty one

NoFilm == [s \in {} |-> s]

Init == screen = NoFilm /\ making = {}

\* The choices change: whatever was on the screen is gone in the same step.
Ask == /\ screen' = NoFilm
       /\ film' # film
       /\ UNCHANGED making

\* One film at a time is begun, of the choices as they stand.
Begin == /\ screen' = NoFilm
         /\ making = {} /\ making' = {film}
         /\ UNCHANGED film

\* The film is ready, all of it at once.
Show == /\ screen = NoFilm
        /\ screen' \in making /\ making' = {}
        /\ UNCHANGED film

\* The film on the screen goes, or the one that was begun is given up.
Drop == /\ screen' = NoFilm /\ making' \subseteq making
        /\ UNCHANGED film

Next == Drop \/ Ask \/ Begin \/ Show

Spec == Init /\ [][Next]_<<film, making, screen>>
=============================================================================
