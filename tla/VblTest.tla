------------------------------ MODULE VblTest -------------------------------
(***************************************************************************)
(* drm/vbltest/vbltest.c: ask for an event at the next vertical blank, ask *)
(* again in its handler, and print the frequency every so many events.     *)
(***************************************************************************)
EXTENDS Program

CONSTANTS Batch,   \* events per report (60)
          MaxLate  \* bound on the blanks missed between two reports

ASSUME VblAssumption == Batch \in Nat \ {0} /\ MaxLate \in Nat

VARIABLES
  event,      \* the event asked for: "none", "queued" or "ready"
  vbl_count,  \* info->vbl_count
  fb_handle,  \* buf.fb_handle is that of a framebuffer
  frames      \* history: blanks since info->start

vblVars == <<event, vbl_count, fb_handle, frames>>

VblTypeOK ==
  /\ event \in {"none", "queued", "ready"}
  /\ vbl_count \in 0..Batch
  /\ fb_handle \in BOOLEAN
  /\ frames \in 0..(Batch + MaxLate + 1)

VblInit == event = "none" /\ vbl_count = 0 /\ fb_handle = FALSE /\ frames = 0

-----------------------------------------------------------------------------
\* From the options to the connector; its modes are used without a look, and a
\* connector with nothing attached has none.
VblOpen ==
  /\ At("vbltest", "start")
  /\ Go("create") \/ Go("fault") \/ Fail("exit")
  /\ UNCHANGED vblVars

\* modeset_create_fb(): what it returns is not looked at.
CreateFb ==
  /\ At("vbltest", "create")
  /\ \/ fb_handle' = TRUE /\ Go("setcrtc")
     \/ fb_handle' = FALSE /\ Fail("setcrtc")
  /\ UNCHANGED <<event, vbl_count, frames>>

\* drmModeSetCrtc(), which is not looked at either, the count to start from, and the
\* time to start from.
SetCrtc ==
  /\ At("vbltest", "setcrtc")
  /\ Go("queue") \/ Fail("queue") \/ Fail("exit")
  /\ vbl_count' = 0 /\ frames' = 0
  /\ UNCHANGED <<event, fb_handle>>

QueueEvent ==
  /\ At("vbltest", "queue")
  /\ \/ event' = "queued" /\ Go("loop")
     \/ Fail("exit") /\ UNCHANGED event
  /\ UNCHANGED <<vbl_count, fb_handle, frames>>

\* drmHandleEvent() takes the event and calls vblank_handler(), ...
TakeEvent ==
  /\ At("vbltest", "loop")
  /\ event = "ready"
  /\ event' = "none"
  /\ Go("again")
  /\ UNCHANGED <<vbl_count, fb_handle, frames>>

\* ... which first asks for the next one and does not look whether it may have it, ...
AskAgain ==
  /\ At("vbltest", "again")
  /\ \/ event' = "queued" /\ Go("count")
     \/ Fail("count") /\ UNCHANGED event
  /\ UNCHANGED <<vbl_count, fb_handle, frames>>

\* ... and then counts this one and, if the batch is full, reads the time, prints the
\* frequency and starts the next batch from there.
CountFrom(restart) ==
  /\ At("vbltest", "count")
  /\ LET full == vbl_count + 1 = Batch
     IN /\ vbl_count' = IF full THEN restart ELSE vbl_count + 1
        /\ frames' = IF full THEN 0 ELSE frames
        /\ said' = IF full THEN "pass" ELSE said
  /\ pc' = "loop"
  /\ UNCHANGED <<prog, broke, event, fb_handle>>

\* Mutant: the count starts again at one.
CountFromOne == CountFrom(1)

CountEvent == CountFrom(0)

\* drmHandleEvent() fails.
HandleFails ==
  /\ At("vbltest", "loop")
  /\ event = "ready"
  /\ Fail("exit")
  /\ UNCHANGED vblVars

VblProgram ==
  \/ VblOpen \/ CreateFb \/ SetCrtc \/ QueueEvent \/ TakeEvent \/ AskAgain \/ CountEvent
  \/ HandleFails

\* A key is pressed; standard input is looked at before the card.
VblKey ==
  /\ At("vbltest", "loop")
  /\ Go("exit")
  /\ UNCHANGED vblVars

\* The program points from the first time read on.
Timed == prog = "vbltest" /\ pc \in {"queue", "loop", "again", "count"}

\* A vertical blank, wherever the program is; one that comes while no event is queued is
\* missed.
Vblank ==
  /\ Timed
  /\ event = "queued" \/ frames < vbl_count + MaxLate
  /\ event' = IF event = "queued" THEN "ready" ELSE event
  /\ frames' = frames + 1
  /\ UNCHANGED <<progVars, vbl_count, fb_handle>>

-----------------------------------------------------------------------------
(* Properties.                                                             *)

\* Events of this batch that are counted, being handled, or ready.
Events ==
  vbl_count + (IF pc \in {"again", "count"} THEN 1 ELSE 0) + (IF event = "ready" THEN 1 ELSE 0)

\* The frequency printed is at most one event too high.  In the first batch no more
\* events are counted than blanks have passed since the time was taken.  In a later one
\* there may be one more: the handler asks for the next event before it reads the time,
\* and a blank between the two belongs to the next batch as an event and to this one as
\* time.  (That the time is taken in the middle of a frame adds less than a frame.)  It
\* may be too low, since the blanks before a late handler asks again are missed.  There
\* is never more than one event under way, and none only after asking again has failed.
FrequencyNearTrue ==
  Timed =>
    /\ Events <= frames + (IF said = "none" THEN 0 ELSE 1)
    /\ pc = "loop" /\ event = "none" => broke

=============================================================================
