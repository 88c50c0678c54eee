--------------------------- MODULE ChronicleExport ---------------------------
(***************************************************************************)
(* The studio with its GIF export: exportGif captures the frames on the    *)
(* screen and draws them one by one, giving the thread back between two    *)
(* days, then encodes. It shares the frames' bitmaps with the studio, and  *)
(* only leaving the page aborts it. An export that fails and one that is   *)
(* done or aborted end alike, for the button; what is shown then is left   *)
(* out.                                                                    *)
(***************************************************************************)
EXTENDS ChronicleStudio

VARIABLES
    gif          \* the export in flight

Idle == [phase |-> "idle", frames |-> Nothing, left |-> {}, drawn |-> Nothing,
         aborted |-> FALSE]

xvars == <<vars, gif>>

XInit == Init /\ gif = Idle

\* The day drawn next: days in order, look after look.
Before(s, t) == s[1] < t[1] \/ (s[1] = t[1] /\ s[2] <= t[2])
NextDay == CHOOSE s \in gif.left : \A t \in gif.left : Before(s, t)

\* The Export GIF button; exportingRef lets one through. One that is refused up
\* front, for its size or for want of a canvas, is over before it began.
ExportGif ==
    /\ mounted /\ stage = "play" /\ shown # Nothing
    /\ gif.phase = "idle"
    /\ gif' = [Idle EXCEPT !.phase = "render", !.frames = shown,
                           !.left = DOMAIN shown]
    /\ UNCHANGED vars

Drew(day, image) ==
    [gif EXCEPT !.drawn = [s \in DOMAIN gif.drawn \cup {day} |->
                             IF s = day THEN Shows(image) ELSE gif.drawn[s]],
                !.left = @ \ {day},
                !.phase = IF gif.left = {day} THEN "encode" ELSE @]

\* Mutant: a day is drawn from the frames now on the screen, where they are.
DrawDayShown ==
    LET image == IF NextDay \in DOMAIN shown THEN shown[NextDay]
                 ELSE gif.frames[NextDay]
    IN /\ gif.phase = "render"
       /\ \/ gif' = Idle
          \/ /\ ~gif.aborted /\ image \subseteq open
             /\ gif' = Drew(NextDay, image)
       /\ UNCHANGED vars

\* One turn of the render loop, the first after icons and fonts have settled;
\* it gives the thread back. The loop ends when it is aborted, when the bitmap
\* to draw is closed, and when a painter or the canvas throws.
DrawDay ==
    /\ gif.phase = "render"
    /\ \/ gif' = Idle
       \/ /\ ~gif.aborted /\ gif.frames[NextDay] \subseteq open
          /\ gif' = Drew(NextDay, gif.frames[NextDay])
    /\ UNCHANGED vars

\* Mutant: an encoder that is told to stop waits for a page that is gone.
EncodeOnScreen ==
    /\ gif.phase = "encode" /\ mounted
    /\ gif' = Idle
    /\ UNCHANGED vars

\* encodeGifSteps to its last step and the download, or an error or the abort.
Encode ==
    /\ gif.phase = "encode"
    /\ gif' = Idle
    /\ UNCHANGED vars

Exporter == ExportGif \/ DrawDay \/ Encode

\* A studio step leaves the export alone, but for leaving the page.
Alongside == gif' = IF mounted /\ ~mounted' /\ gif.phase # "idle"
                    THEN [gif EXCEPT !.aborted = TRUE] ELSE gif

XNext == \/ Next /\ Alongside
         \/ Exporter

ExportContinues == DrawDay \/ Encode

XSpec == XInit /\ [][XNext]_xvars /\ WF_xvars(Settles /\ Alongside)
               /\ WF_xvars(ExportContinues)

-----------------------------------------------------------------------------
\* What an export encodes is the whole film that was on the screen when it
\* began: a film built meanwhile never gets into it.
ExportIsOneFilm ==
    gif.phase = "encode" => gif.drawn = Pictures(gif.frames)

\* The bitmaps an export still has to draw are all open as long as its film is
\* the one on the screen, and all closed from the moment it is not: nothing
\* closes some of them, and no part of an old film can get into a file
\* (discardFrames, disposeChronicleFrames).
ExportKeepsOrLosesItsFilm ==
    gif.phase # "idle" =>
        IF shown = gif.frames THEN Images(gif.frames) \subseteq open
                              ELSE Images(gif.frames) \cap open = {}

\* However an export ends, the button comes back (the comment on exportGif's
\* finally).
ExportEnds == gif.phase # "idle" ~> gif.phase = "idle"
=============================================================================
