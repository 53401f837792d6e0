------------------------------ MODULE DmacTest ------------------------------
(***************************************************************************)
(* dmac/dmac.c: the kernel thread that runs rtk_dma_test_cyclic() and the  *)
(* cyclic callback of the DMA engine share the static dma_cyclic_status.   *)
(* A buffer is abstracted to one stamp per DMA period: k is the pattern    *)
(* that rtk_prepare_test_buf() writes for round k, 0 is anything else.     *)
(***************************************************************************)
EXTENDS Naturals, FiniteSets

CONSTANTS Loop,       \* rounds of one probe (loop = 5 in the code)
          MaxProbes,  \* bound on bind/unbind/bind sequences of the driver
          Faults      \* which calls into the DMA framework may go wrong

FaultKinds == {"request", "config", "copy", "memory", "prep"}

ASSUME LoopAssumption == Loop \in Nat \ {0}
ASSUME MaxProbesAssumption == MaxProbes \in Nat
ASSUME FaultsAssumption == Faults \subseteq FaultKinds

\* The period is mem_size_src / 2, so one buffer is two periods.
Periods == {0, 1}
Stamps == 0..Loop

VARIABLES
  dma_cyclic_status, \* static: survives from one probe to the next
  pc,                \* where the probing thread is
  dma_test_times,    \* rounds started by this probe
  buf_src, buf_dst,  \* stamp of each period of the two buffers
  allocated,         \* this probe has allocated its two coherent buffers
  nulls,             \* pointers of this probe an unchecked call left NULL
  chan,              \* what the local variable chan holds
  engine,            \* the cyclic transfer: running, next period, irq raised
  cb,                \* the callback: idle, or about to store its verdict
  verdict,           \* what the last finished probe reported
  probes,            \* probes begun
  oks,               \* history: SUCCESS stores of this probe, up to Loop
  mismatch,          \* history: this probe has seen a wrong compare
  configFailed       \* history: dmaengine_slave_config() has failed

vars == <<dma_cyclic_status, pc, dma_test_times, buf_src, buf_dst, allocated,
          nulls, chan, engine, cb, verdict, probes, oks, mismatch,
          configFailed>>

threadVars == <<pc, dma_test_times, chan, allocated, nulls, verdict, probes,
                configFailed>>
bufVars == <<buf_src, buf_dst>>
history == <<oks, mismatch, configFailed>>

Pointers == {"buf_src", "buf_dst", "config", "txdesc"}
Status == {"FAIL", "SUCCESS", "WAIT"}
PCs == {"idle", "loop", "prepare0", "prepare1", "request", "config", "issue",
        "wait", "oops"}

EngineStates == [running : BOOLEAN, next : Periods, irq : BOOLEAN]

TypeOK ==
  /\ dma_cyclic_status \in Status
  /\ pc \in PCs
  /\ dma_test_times \in 0..Loop
  /\ buf_src \in [Periods -> Stamps]
  /\ buf_dst \in [Periods -> Stamps]
  /\ allocated \in BOOLEAN
  /\ nulls \in SUBSET Pointers
  /\ chan \in {"uninit", "held", "error"}
  /\ engine \in EngineStates
  /\ cb \in {"idle", "ok", "wrong"}
  /\ verdict \in {"none", "PASS", "FAIL"}
  /\ probes \in 0..MaxProbes
  /\ oks \in 0..Loop
  /\ mismatch \in BOOLEAN
  /\ configFailed \in BOOLEAN

Stopped == [running |-> FALSE, next |-> 0, irq |-> FALSE]
Garbage == [p \in Periods |-> 0]

Init ==
  /\ dma_cyclic_status = "SUCCESS"
  /\ pc = "idle"
  /\ dma_test_times = 0
  /\ buf_src = Garbage
  /\ buf_dst = Garbage
  /\ allocated = FALSE
  /\ nulls = {}
  /\ chan = "uninit"
  /\ engine = Stopped
  /\ cb = "idle"
  /\ verdict = "none"
  /\ probes = 0
  /\ oks = 0
  /\ mismatch = FALSE
  /\ configFailed = FALSE

-----------------------------------------------------------------------------
(* The probing thread.                                                     *)

\* rtk_dma_test_probe(): the stack frame is new, the static status is not.
Probe ==
  /\ pc = "idle"
  /\ probes < MaxProbes
  /\ pc' = "loop"
  /\ probes' = probes + 1
  /\ dma_test_times' = 0
  /\ chan' = "uninit"
  /\ nulls' = {}
  /\ verdict' = "none"
  /\ oks' = 0
  /\ mismatch' = FALSE
  /\ UNCHANGED <<dma_cyclic_status, buf_src, buf_dst, allocated, engine, cb,
                 configFailed>>

\* rtk_dmac_test_end(): releasing the channel stops the engine and waits for a
\* callback that is running; both buffers are freed.  On an uninitialised or
\* error pointer the kernel faults.
TestEndKeeping(keepChan, result) ==
  IF chan = "held" /\ allocated
    THEN /\ cb = "idle" \/ keepChan
         /\ pc' = "idle"
         /\ verdict' = result
         /\ chan' = "uninit"
         /\ allocated' = FALSE
         /\ engine' = IF keepChan THEN engine ELSE Stopped
    ELSE /\ pc' = "oops"
         /\ UNCHANGED <<verdict, chan, allocated, engine>>

\* Mutant: the channel is not released.
TestEndKeepsChannel(result) == TestEndKeeping(TRUE, result)

TestEnd(result) == TestEndKeeping(FALSE, result)

\* The branch of the loop taken on a failed status.
LoopFail ==
  /\ pc = "loop"
  /\ dma_cyclic_status = "FAIL"
  /\ TestEnd("FAIL")
  /\ UNCHANGED <<dma_cyclic_status, dma_test_times, bufVars, nulls, cb, probes,
                 history>>

\* ... and on a successful one: the static is reset before the buffer is
\* rewritten.
LoopStartOn(statuses) ==
  /\ pc = "loop"
  /\ dma_cyclic_status \in statuses
  /\ dma_cyclic_status' = "WAIT"
  /\ pc' = "prepare0"
  /\ UNCHANGED <<dma_test_times, bufVars, allocated, nulls, chan, engine, cb,
                 verdict, probes, history>>

\* Mutant: the round starts without waiting for a verdict.
LoopStartEager == LoopStartOn({"SUCCESS", "WAIT"})

LoopStart == LoopStartOn({"SUCCESS"})

\* What the unchecked calls for the pointers ps may leave NULL.
MayBeNull(ps, fault) == IF fault \in Faults THEN SUBSET ps ELSE {{}}

\* rtk_prepare_test_buf(), one half of the source buffer at a time.  Neither
\* dma_alloc_coherent() is checked: a NULL source is written here, a NULL
\* destination is noticed by nobody before the callback.
PrepareTestBuf(p) ==
  /\ pc = IF p = 0 THEN "prepare0" ELSE "prepare1"
  /\ LET fresh == p = 0 /\ dma_test_times = 0 IN
       /\ nulls' \in IF fresh THEN MayBeNull({"buf_src", "buf_dst"}, "memory")
                     ELSE {nulls}
       /\ allocated' = IF fresh THEN TRUE ELSE allocated
       /\ buf_src' = [(IF fresh THEN Garbage ELSE buf_src)
                        EXCEPT ![p] = dma_test_times + 1]
       /\ buf_dst' = IF fresh THEN Garbage ELSE buf_dst
  /\ pc' = IF "buf_src" \in nulls' THEN "oops"
           ELSE IF p = 0 THEN "prepare1" ELSE "request"
  /\ dma_test_times' = IF p = 0 THEN dma_test_times ELSE dma_test_times + 1
  /\ UNCHANGED <<dma_cyclic_status, chan, engine, cb, verdict, probes, history>>

\* dma_request_chan() and devm_kzalloc() on round 1; neither the error pointer of
\* the one nor the NULL of the other is checked.
RequestChanOn(round) ==
  /\ pc = "request"
  /\ pc' = "config"
  /\ IF dma_test_times = round
       THEN /\ chan' \in {"held"} \cup (IF "request" \in Faults THEN {"error"} ELSE {})
            /\ \E lost \in MayBeNull({"config"}, "memory") : nulls' = nulls \cup lost
       ELSE UNCHANGED <<chan, nulls>>
  /\ UNCHANGED <<dma_cyclic_status, dma_test_times, bufVars, allocated, engine,
                 cb, verdict, probes, history>>

\* Mutant: the channel is requested one round late.
RequestChanLate == RequestChanOn(2)

RequestChan == RequestChanOn(1)

\* The configuration is filled in and dmaengine_slave_config() accepts it (or a
\* NULL configuration or an error pointer is followed).
SlaveConfig ==
  /\ pc = "config"
  /\ pc' = IF chan = "held" /\ "config" \notin nulls THEN "issue" ELSE "oops"
  /\ UNCHANGED <<dma_cyclic_status, dma_test_times, bufVars, allocated, nulls,
                 chan, engine, cb, verdict, probes, history>>

\* ... or refuses it: return FAIL, with nothing released.
SlaveConfigFails ==
  /\ pc = "config"
  /\ chan = "held"
  /\ "config" \notin nulls
  /\ "config" \in Faults
  /\ pc' = "idle"
  /\ verdict' = "FAIL"
  /\ configFailed' = TRUE
  /\ UNCHANGED <<dma_cyclic_status, dma_test_times, bufVars, allocated, nulls,
                 chan, engine, cb, probes, oks, mismatch>>

\* prep_dma_cyclic, submit, issue_pending; the transfers of the earlier rounds
\* were never terminated, so from round 2 on the engine is already running.
\* Then while (dma_test_times < loop) is evaluated again.  A descriptor the
\* engine did not hand out is dereferenced.
IssueThen(issued, loop) ==
  /\ pc = "issue"
  /\ \E lost \in MayBeNull({"txdesc"}, "prep") :
       /\ nulls' = nulls \cup lost
       /\ pc' = IF lost # {} THEN "oops"
                ELSE IF dma_test_times < loop THEN "loop" ELSE "wait"
       /\ engine' = [engine EXCEPT !.running = (issued /\ lost = {}) \/ @]
  /\ UNCHANGED <<dma_cyclic_status, dma_test_times, bufVars, allocated, chan,
                 cb, verdict, probes, history>>

\* Mutants: dma_async_issue_pending() is forgotten; one round too many.
IssueForgotten == IssueThen(FALSE, Loop)
IssueOneMore == IssueThen(TRUE, Loop + 1)

Issue == IssueThen(TRUE, Loop)

\* The final wait ends on either verdict, and the function returns SUCCESS.
WaitEnd ==
  /\ pc = "wait"
  /\ dma_cyclic_status # "WAIT"
  /\ TestEnd("PASS")
  /\ UNCHANGED <<dma_cyclic_status, dma_test_times, bufVars, nulls, cb, probes,
                 history>>

-----------------------------------------------------------------------------
(* The DMA engine (outside the repository) and its callback.               *)

\* One period is copied; the completion interrupt schedules the callback.
CopyPeriod ==
  /\ engine.running
  /\ \E s \in {buf_src[engine.next]} \cup (IF "copy" \in Faults THEN {0} ELSE {}) :
       buf_dst' = [buf_dst EXCEPT ![engine.next] = s]
  /\ engine' = [engine EXCEPT !.next = 1 - @, !.irq = TRUE]
  /\ UNCHANGED <<dma_cyclic_status, buf_src, cb, oks, mismatch,
                 threadVars>>

\* buf_compare() over the whole buffer, whichever period has completed.
CallbackCompare ==
  /\ engine.running
  /\ engine.irq
  /\ cb = "idle"
  /\ "buf_dst" \notin nulls
  /\ cb' = IF buf_src = buf_dst THEN "ok" ELSE "wrong"
  /\ mismatch' = (mismatch \/ buf_src # buf_dst)
  /\ engine' = [engine EXCEPT !.irq = FALSE]
  /\ UNCHANGED <<dma_cyclic_status, bufVars, oks, threadVars>>

\* ... which reads a destination that could not be allocated: the fault is in an
\* interrupt and takes the machine down, the engine with it.
CallbackFaults ==
  /\ engine.running
  /\ engine.irq
  /\ cb = "idle"
  /\ "buf_dst" \in nulls
  /\ pc' = "oops"
  /\ engine' = Stopped
  /\ UNCHANGED <<dma_cyclic_status, dma_test_times, bufVars, allocated, nulls,
                 chan, cb, verdict, probes, history>>

\* The store to dma_cyclic_status, ordered with nothing the thread does.
CallbackStore ==
  /\ cb # "idle"
  /\ cb' = "idle"
  /\ dma_cyclic_status' = IF cb = "ok" THEN "SUCCESS" ELSE "FAIL"
  /\ oks' = IF cb = "ok" /\ oks < Loop THEN oks + 1 ELSE oks
  /\ UNCHANGED <<bufVars, engine, mismatch, threadVars>>

-----------------------------------------------------------------------------
Thread ==
  \/ Probe
  \/ LoopFail
  \/ LoopStart
  \/ \E p \in Periods : PrepareTestBuf(p)
  \/ RequestChan
  \/ SlaveConfig
  \/ SlaveConfigFails
  \/ Issue
  \/ WaitEnd

Engine == CopyPeriod \/ CallbackCompare \/ CallbackFaults \/ CallbackStore

Next == Thread \/ Engine

Spec == Init /\ [][Next]_vars

\* The kernel schedules the thread and the hardware makes progress.  Strong
\* fairness where rtk_dmac_test_end() waits for the callback: dma_release_channel
\* keeps it from being scheduled again while it waits.
FairSpec ==
  /\ Spec
  /\ WF_vars(LoopStart \/ (\E p \in Periods : PrepareTestBuf(p)) \/ RequestChan
               \/ SlaveConfig \/ Issue)
  /\ SF_vars(LoopFail)
  /\ SF_vars(WaitEnd)
  /\ WF_vars(CopyPeriod)
  /\ WF_vars(CallbackCompare \/ CallbackFaults)
  /\ WF_vars(CallbackStore)

-----------------------------------------------------------------------------
(* Properties.                                                             *)

\* A probe that prints "DMA test PASS" saw at least one successful compare for
\* every round but the last: each round start consumes one SUCCESS, and the
\* first one the SUCCESS the static starts with (or an earlier probe left).
PassNeedsGoodCompares == verdict = "PASS" => oks + 1 >= Loop

\* A probe prints "DMA test FAIL" only if one of its compares was wrong or the
\* channel was misconfigured, by this probe or by an earlier one.
FailHasCause == verdict = "FAIL" => mismatch \/ configFailed

\* While the cyclic transfer or its callback runs, the buffers and the channel of
\* the probe that began it are still its own and the probe has not returned
\* (the callback dereferences its frame); only the early return of a refused
\* configuration leaves the transfer running behind.
EngineTouchesLiveBuffers ==
  (engine.running \/ cb # "idle") /\ ~configFailed
    => allocated /\ chan = "held" /\ pc # "idle"

\* A probe that has returned holds neither buffers nor channel, refused
\* configurations aside.
ReturnReleasesAll == pc = "idle" /\ ~configFailed => ~allocated /\ chan = "uninit"

\* The kernel faults in this driver only by following what an unchecked call
\* returned, or through the FAIL that an earlier probe left in the static:
\* rtk_dmac_test_end() then releases an uninitialised channel.  What round 1
\* acquires is dead or good by the end of that round, a NULL destination too,
\* since no callback ever reports on it: in a later round only a descriptor that
\* dmaengine_prep_dma_cyclic() did not return is left to follow.
OopsHasCause ==
  pc = "oops" =>
    \/ chan = "error" /\ dma_test_times = 1
    \/ /\ nulls # {}
       /\ dma_test_times > 1 /\ ~configFailed => "txdesc" \in nulls
    \/ /\ chan = "uninit"
       /\ dma_test_times = 0
       /\ dma_cyclic_status = "FAIL" \/ configFailed
       /\ probes > 1

\* Every probe returns, unless a refused configuration has left the status at
\* WAIT with no transfer of its own to change it, or the kernel faulted.
EveryProbeEnds == (pc = "loop") ~> (pc \in {"idle", "oops"} \/ configFailed)

=============================================================================
