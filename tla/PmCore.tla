------------------------------- MODULE PmCore -------------------------------
(***************************************************************************)
(* The kernel's wakeup-event accounting and autosleep, as the pm_ tests    *)
(* use them through /sys/power (not part of the repository): a count of    *)
(* finished wakeup events, the sources that are active, the check that     *)
(* aborts a suspend when an event has come since the count was written     *)
(* back, and the worker that suspends whenever no source is active.        *)
(***************************************************************************)
EXTENDS Naturals, FiniteSets

CONSTANTS Sources,    \* wakeup sources: devices and wake locks
          MaxEvents   \* bound on the events

ASSUME MaxEventsAssumption == MaxEvents \in Nat

VARIABLES
  cnt,        \* finished wakeup events
  active,     \* sources with an event in progress
  saved,      \* count last written back
  checking,   \* events_check_enabled
  asleep,     \* the system is suspended
  autosleep,  \* /sys/power/autosleep is "mem"
  worker      \* the autosleep worker: "wait", or "suspend" once it saved the count

eventVars == <<cnt, active, saved, checking, asleep>>
pmVars == <<eventVars, autosleep, worker>>

PmTypeOK ==
  /\ cnt \in 0..MaxEvents
  /\ active \subseteq Sources
  /\ saved \in 0..MaxEvents
  /\ checking \in BOOLEAN
  /\ asleep \in BOOLEAN
  /\ autosleep \in BOOLEAN
  /\ worker \in {"wait", "suspend"}

PmInit ==
  /\ cnt = 0
  /\ active = {}
  /\ saved = 0
  /\ checking = FALSE
  /\ asleep = FALSE
  /\ autosleep = FALSE
  /\ worker = "wait"

\* An event begins; it wakes a sleeping system.
Activate(s) ==
  /\ s \notin active
  /\ cnt + Cardinality(active) < MaxEvents
  /\ active' = active \cup {s}
  /\ asleep' = FALSE
  /\ checking' = (checking /\ ~asleep)
  /\ UNCHANGED <<cnt, saved>>

\* ... and ends.
Deactivate(s) ==
  /\ s \in active
  /\ active' = active \ {s}
  /\ cnt' = cnt + 1
  /\ UNCHANGED <<saved, checking, asleep>>

\* Writing n to wakeup_count is accepted only if nothing has happened since n
\* was read, and refused while autosleep is on.
Acceptable(n) == ~autosleep /\ n = cnt /\ active = {}

SaveCount(n) ==
  /\ saved' = n
  /\ checking' = TRUE
  /\ UNCHANGED <<cnt, active, asleep>>

\* A suspend is aborted by an event since the count was saved, if one was.
Pending == checking /\ (cnt # saved \/ active # {})

Suspend ==
  /\ asleep' = ~Pending
  /\ checking' = (checking /\ ~Pending)
  /\ UNCHANGED <<cnt, active, saved>>

\* Autosleep waits until no source is active, then saves the count ...
WorkerSave ==
  /\ autosleep /\ ~asleep
  /\ worker = "wait"
  /\ active = {}
  /\ SaveCount(cnt)
  /\ worker' = "suspend"
  /\ UNCHANGED autosleep

\* ... and suspends, unless an event has come meanwhile.
WorkerSuspend ==
  /\ worker = "suspend"
  /\ Suspend
  /\ worker' = "wait"
  /\ UNCHANGED autosleep

=============================================================================
