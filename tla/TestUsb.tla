------------------------------- MODULE TestUsb ------------------------------
(***************************************************************************)
(* usbh_vendor/testusb.c: main() scans the bus for test devices and tests  *)
(* one of them itself, or all of them with a thread each, while devices    *)
(* may be unplugged.  The kernel's usbtest driver decides what each ioctl  *)
(* answers.                                                                *)
(***************************************************************************)
EXTENDS Naturals, FiniteSets, Sequences, SequencesExt

CONSTANTS
  Known,       \* attached devices that is_testdev() recognises
  Unknown,     \* attached devices that it does not
  TEST_CASES,  \* 31 in the code
  UsbFaults    \* "calloc", "create": pthread_create() fails

ASSUME TestUsbAssumption ==
  /\ Known \cap Unknown = {}
  /\ IsFiniteSet(Known) /\ IsFiniteSet(Unknown)
  /\ TEST_CASES \in Nat \ {0}
  /\ UsbFaults \subseteq {"calloc", "create"}

Devices == Known \cup Unknown
All == "all"             \* no -D and no $DEVICE: every recognised device
Every == TEST_CASES + 1  \* no -t; TEST_CASES itself stands for a -t beyond the table

VARIABLES
  mpc,       \* where main() is
  device,    \* -D or $DEVICE, or All
  not,       \* -n
  test,      \* -t
  testdevs,  \* the list, newest first
  entry,     \* what is left of it in the loop that main() is in
  plugged,   \* devices on the bus
  thread,    \* state of each device's test: "none", "open", "test", "end", "failed"
  turn,      \* i: its case
  ran,       \* history: the cases it printed a line for
  skipped,   \* history: the cases it skipped as unsupported
  created,   \* history: devices whose pthread_create() succeeded
  status     \* exit status of the process, or "none", "crash"

usbVars == <<mpc, device, not, test, testdevs, entry, plugged, thread, turn, ran, skipped,
          created, status>>

UsbTypeOK ==
  /\ mpc \in {"opts", "scan", "decide", "create", "single", "join", "exit"}
  /\ device \in Devices \cup {All}
  /\ not \in BOOLEAN
  /\ test \in 0..Every
  /\ IsInjective(testdevs) /\ ToSet(testdevs) \subseteq Known
  /\ IsSuffix(entry, testdevs) \/ mpc = "scan"
  /\ plugged \subseteq Devices
  /\ thread \in [Devices -> {"none", "open", "test", "end", "failed"}]
  /\ turn \in [Devices -> 0..TEST_CASES]
  /\ ran \in [Devices -> SUBSET (0..(TEST_CASES - 1))]
  /\ skipped \in [Devices -> SUBSET (0..(TEST_CASES - 1))]
  /\ created \subseteq Known
  /\ status \in {"none", "0", "1", "-1", "crash"}

UsbInit ==
  /\ mpc = "opts"
  /\ device = All
  /\ not = FALSE
  /\ test = Every
  /\ testdevs = << >>
  /\ entry = << >>
  /\ plugged = Devices
  /\ thread = [d \in Devices |-> "none"]
  /\ turn = [d \in Devices |-> 0]
  /\ ran = [d \in Devices |-> {}]
  /\ skipped = [d \in Devices |-> {}]
  /\ created = {}
  /\ status = "none"

tests == <<thread, turn, ran, skipped>>
options == <<device, not, test>>

-----------------------------------------------------------------------------
(* main().                                                                 *)

Return(code) ==
  /\ mpc' = "exit"
  /\ status' = code

\* getopt(): the letter l is not in its string, so forever stays 0.  Bad options,
\* or neither -a nor a device, are usage errors.
ParseOpts ==
  /\ mpc = "opts"
  /\ \/ /\ device' \in Devices \cup {All}
        /\ not' \in BOOLEAN
        /\ test' \in 0..Every
        /\ mpc' = "scan"
        /\ entry' \in SetToSeqs(plugged)
        /\ UNCHANGED status
     \/ Return("1") /\ UNCHANGED <<options, entry>>
  /\ UNCHANGED <<testdevs, plugged, tests, created>>

\* is_testdev(): a table of vendor and product numbers.
IsTestdev(d) == d \in Known

\* find_testdev() on the next file of the walk: a device that has gone, that is
\* none of the table, or that no memory is left for, is passed over.
FindTestdev ==
  /\ mpc = "scan"
  /\ entry # << >>
  /\ entry' = Tail(entry)
  /\ \E found \in {Head(entry) \in plugged /\ IsTestdev(Head(entry))} \cup
                  (IF "calloc" \in UsbFaults THEN {FALSE} ELSE {}) :
       testdevs' = IF found THEN <<Head(entry)>> \o testdevs ELSE testdevs
  /\ UNCHANGED <<mpc, options, plugged, tests, created, status>>

\* Nothing found and no device named; -n; a single device is taken as named.
Decide ==
  /\ mpc = "scan"
  /\ entry = << >>
  /\ IF testdevs = << >> /\ device = All THEN Return("-1") /\ UNCHANGED <<device, entry>>
     ELSE IF not THEN Return("0") /\ UNCHANGED <<device, entry>>
     ELSE /\ device' = IF Len(testdevs) = 1 /\ device = All THEN testdevs[1] ELSE device
          /\ entry' = testdevs
          /\ mpc' = "create"
          /\ UNCHANGED status
  /\ UNCHANGED <<not, test, testdevs, plugged, tests, created>>

\* One turn of the loop over the list: the named device is tested by main()
\* itself, without a thread; otherwise each entry gets a thread, or not.
Create ==
  /\ mpc = "create"
  /\ entry # << >>
  /\ LET d == Head(entry) IN
       IF device # All
         THEN /\ mpc' = IF d = device THEN "single" ELSE mpc
              /\ thread' = IF d = device THEN [thread EXCEPT ![d] = "open"] ELSE thread
              /\ UNCHANGED created
         ELSE /\ \E ok \in (IF "create" \in UsbFaults THEN BOOLEAN ELSE {TRUE}) :
                   IF ok THEN thread' = [thread EXCEPT ![d] = "open"]
                              /\ created' = created \cup {d}
                         ELSE UNCHANGED <<thread, created>>
              /\ UNCHANGED mpc
  /\ entry' = Tail(entry)
  /\ UNCHANGED <<options, testdevs, plugged, turn, ran, skipped, status>>

\* End of the loop: a named device that was not recognised is tested too;
\* otherwise main() starts to join from the head of the list.
Created ==
  /\ mpc = "create"
  /\ entry = << >>
  /\ IF device # All
       THEN mpc' = "single" /\ thread' = [thread EXCEPT ![device] = "open"]
            /\ UNCHANGED entry
       ELSE mpc' = "join" /\ entry' = testdevs /\ UNCHANGED thread
  /\ UNCHANGED <<options, testdevs, plugged, turn, ran, skipped, created, status>>

\* return handle_testdev (entry) != entry: 1 exactly if the open failed.
Single ==
  /\ mpc = "single"
  /\ thread[device] \in {"end", "failed"}
  /\ Return(IF thread[device] = "end" THEN "0" ELSE "1")
  /\ UNCHANGED <<options, testdevs, entry, plugged, tests, created>>

\* pthread_join() of the next entry.  The thread of an entry whose creation failed
\* is an uninitialised id: an error, or a fault.
JoinWhen(states) ==
  /\ mpc = "join"
  /\ entry # << >>
  /\ entry' = Tail(entry)
  /\ \/ Head(entry) \in created /\ thread[Head(entry)] \in states /\ UNCHANGED <<mpc, status>>
     \/ Head(entry) \notin created /\ (UNCHANGED <<mpc, status>> \/ Return("crash"))
  /\ UNCHANGED <<options, testdevs, plugged, tests, created>>

\* Mutant: main() does not wait.
JoinNone == JoinWhen({"open", "test", "end", "failed"})

Join == JoinWhen({"end", "failed"})

Joined ==
  /\ mpc = "join"
  /\ entry = << >>
  /\ Return("0")
  /\ UNCHANGED <<options, testdevs, entry, plugged, tests, created>>

MainStep ==
  ParseOpts \/ FindTestdev \/ Decide \/ Create \/ Created \/ Single \/ Join \/ Joined

-----------------------------------------------------------------------------
(* handle_testdev(), in a thread or in main().  A process that has exited  *)
(* has no threads.                                                         *)

Live(d, at) == thread[d] = at /\ mpc # "exit"

OpenDev(d) ==
  /\ Live(d, "open")
  /\ thread' = [thread EXCEPT ![d] = IF d \in plugged THEN "test" ELSE "failed"]
  /\ turn' = [turn EXCEPT ![d] = 0]
  /\ UNCHANGED <<mpc, options, testdevs, entry, plugged, ran, skipped, created, status>>

\* One turn of the loop: cases not asked for are passed over, unsupported ones
\* skipped in silence, all others run and printed, failures too.
CaseUpTo(d, last) ==
  /\ Live(d, "test")
  /\ turn[d] <= last
  /\ turn' = [turn EXCEPT ![d] = @ + 1]
  /\ IF test # Every /\ test # turn[d] THEN UNCHANGED <<ran, skipped>>
     ELSE \/ /\ ran' = [ran EXCEPT ![d] = @ \cup {turn[d]}]
             /\ UNCHANGED skipped
          \/ /\ d \in plugged
             /\ skipped' = [skipped EXCEPT ![d] = @ \cup {turn[d]}]
             /\ UNCHANGED ran
  /\ UNCHANGED <<mpc, options, testdevs, entry, plugged, thread, created, status>>

\* Mutant: one turn too many.
CaseBeyond(d) == CaseUpTo(d, TEST_CASES)

Case(d) == CaseUpTo(d, TEST_CASES - 1)

FinishAt(d, last) ==
  /\ Live(d, "test")
  /\ turn[d] = last
  /\ thread' = [thread EXCEPT ![d] = "end"]
  /\ UNCHANGED <<mpc, options, testdevs, entry, plugged, turn, ran, skipped, created, status>>

\* Mutant: the loop never ends.
FinishNever(d) == FinishAt(d, TEST_CASES + 1)

FinishTest(d) == FinishAt(d, TEST_CASES)

Worker(d) == OpenDev(d) \/ Case(d) \/ FinishTest(d)

\* The user pulls a device out.
UnplugDev(d) ==
  /\ d \in plugged
  /\ plugged' = plugged \ {d}
  /\ UNCHANGED <<mpc, options, testdevs, entry, tests, created, status>>

UsbNext == MainStep \/ \E d \in Devices : Worker(d) \/ UnplugDev(d)

UsbSpec == UsbInit /\ [][UsbNext]_usbVars

\* Every thread is scheduled, and an ioctl returns.
UsbFairSpec == UsbSpec /\ WF_usbVars(MainStep) /\ \A d \in Devices : WF_usbVars(Worker(d))

-----------------------------------------------------------------------------
(* Properties.                                                             *)

Selected == {n \in 0..(TEST_CASES - 1) : test = Every \/ test = n}

\* When the process ends with status 0 no test is cut short: every device that a
\* thread took on has been tried with each selected case, or could not be opened;
\* a process that names a device says 0 only if it was tested.  (Failing cases do
\* not show: "testing errors discarded!".)  A crash is the join of a thread that
\* was never created.
ExitIsExplained ==
  /\ status = "0" /\ ~not =>
       /\ \A d \in created : \/ thread[d] = "failed"
                             \/ ran[d] \cup skipped[d] = Selected
       /\ device # All => ran[device] \cup skipped[device] = Selected
  /\ status = "crash" => ToSet(testdevs) # created

\* Every run that is begun ends, whatever is unplugged.
EveryRunEnds == (mpc # "opts") ~> (mpc = "exit")

=============================================================================
