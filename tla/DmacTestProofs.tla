--------------------------- MODULE DmacTestProofs ---------------------------
(* The safety properties of DmacTest, for every number of rounds, of probes  *)
(* and every set of faults.                                                  *)
EXTENDS DmacTest, TLAPS

\* Rounds whose start has consumed a SUCCESS.
Started == dma_test_times + (IF pc \in {"prepare0", "prepare1"} THEN 1 ELSE 0)

\* No round is begun beyond the last.
Counted == pc \in {"loop", "prepare0", "prepare1"} => dma_test_times < Loop

\* Each start consumes one SUCCESS, and there was one to begin with.
Gated ==
  /\ pc \notin {"idle", "oops"} =>
       Started + (IF dma_cyclic_status = "SUCCESS" THEN 1 ELSE 0) <= oks + 1
  /\ pc = "wait" => dma_test_times = Loop

\* A FAIL seen by the thread comes from a compare of this probe, or was there
\* when the probe began.
Blame ==
  /\ cb = "wrong" => mismatch \/ configFailed
  /\ dma_cyclic_status = "FAIL" /\ pc # "idle" =>
       \/ mismatch \/ configFailed
       \/ pc \in {"loop", "oops"} /\ dma_test_times = 0 /\ chan = "uninit"

\* What the thread holds at each of its program points.
Holding ==
  /\ (pc \in {"loop", "prepare0", "prepare1"} /\ dma_test_times = 0) => chan = "uninit"
  /\ (pc \in {"loop", "prepare0", "prepare1"} /\ dma_test_times > 0)
       => chan = "held" /\ allocated
  /\ pc \in {"prepare1", "request", "config", "issue", "wait"} => allocated
  /\ pc \in {"request", "config", "issue", "wait"} => dma_test_times > 0
  /\ pc = "request" => chan = IF dma_test_times = 1 THEN "uninit" ELSE "held"
  /\ pc = "config" => chan \in {"held", "error"}
  /\ pc \in {"issue", "wait"} => chan = "held"
  /\ ~configFailed =>
       /\ engine.running \/ cb # "idle"
            => allocated /\ chan = "held" /\ pc # "idle"
       /\ pc = "idle" => ~allocated /\ chan = "uninit"

\* Before the first probe, and at its first iteration, the status is the one the
\* static was initialised with.
FirstProbe ==
  /\ probes = 0 => pc = "idle" /\ dma_cyclic_status = "SUCCESS" /\ ~configFailed
  /\ probes = 1 /\ pc \notin {"idle", "oops"} => ~configFailed
  /\ probes = 1 /\ pc = "loop" /\ dma_test_times = 0 => dma_cyclic_status = "SUCCESS"

\* Which pointer may still be NULL where.  Nobody reports on a NULL destination,
\* so the thread waits in round 1 until the callback faults.
Unchecked ==
  /\ pc \notin {"idle", "oops"} => "buf_src" \notin nulls /\ "txdesc" \notin nulls
  /\ pc \notin {"idle", "oops", "config"} => "config" \notin nulls
  /\ pc = "config" /\ dma_test_times # 1 => chan = "held" /\ "config" \notin nulls
  /\ ~configFailed /\ pc \in {"prepare0", "prepare1"} /\ dma_test_times = 0
       => dma_cyclic_status = "WAIT"
  /\ ~configFailed /\ "buf_dst" \in nulls /\ pc = "loop" => dma_test_times > 0
  /\ ~configFailed /\ "buf_dst" \in nulls /\ pc \in {"prepare0", "prepare1"}
       => pc = "prepare1" /\ dma_test_times = 0
  /\ ~configFailed /\ pc \notin {"idle", "oops"} /\ "buf_dst" \in nulls
       => dma_cyclic_status = "WAIT" /\ cb = "idle" /\ dma_test_times <= 1

\* The inductive invariant.
IInv ==
  /\ TypeOK
  /\ Counted
  /\ Gated
  /\ Blame
  /\ Holding
  /\ FirstProbe
  /\ Unchecked
  /\ PassNeedsGoodCompares
  /\ FailHasCause
  /\ OopsHasCause

USE LoopAssumption, MaxProbesAssumption, FaultsAssumption
USE DEF Periods, Stamps, Status, PCs, Pointers, MayBeNull

\* The stopped engine is a state of the engine.
LEMMA StoppedType == Stopped \in EngineStates /\ Garbage \in [Periods -> Stamps]
<1>1. Stopped \in EngineStates
  BY Zenon DEF Stopped, EngineStates, Periods
<1>2. Garbage \in [Periods -> Stamps]
  BY DEF Garbage, Stamps
<1> QED
  BY <1>1, <1>2

\* Every action of the thread, the engine and the callback keeps the types.
LEMMA TypeStep == TypeOK /\ Counted /\ [Next]_vars => TypeOK'
<1> SUFFICES ASSUME TypeOK, Counted, [Next]_vars
             PROVE  TypeOK'
  OBVIOUS
<1> USE DEF TypeOK
<1>1. CASE Probe
  <2>1. probes' \in 0..MaxProbes /\ dma_test_times' \in 0..Loop /\ oks' \in 0..Loop
    BY <1>1 DEF Probe
  <2> QED
    BY <1>1, <2>1 DEF Probe
<1>2. CASE LoopFail
  <2>1. engine' \in {engine, Stopped}
    BY <1>2 DEF LoopFail, TestEnd, TestEndKeeping
  <2> QED
    BY <1>2, <2>1, StoppedType
       DEF LoopFail, TestEnd, TestEndKeeping, bufVars, history
<1>3. CASE LoopStart
  BY <1>3 DEF LoopStart, LoopStartOn, bufVars, history
<1>4. ASSUME NEW p \in Periods, PrepareTestBuf(p)
      PROVE  TypeOK'
  <2>1. dma_test_times < Loop
    BY <1>4 DEF PrepareTestBuf, Counted
  <2>2. buf_src' \in [Periods -> Stamps] /\ buf_dst' \in [Periods -> Stamps]
    BY <1>4, <2>1, StoppedType DEF PrepareTestBuf
  <2>3. allocated' \in BOOLEAN /\ nulls' \in SUBSET Pointers
    BY <1>4 DEF PrepareTestBuf
  <2> QED
    BY <1>4, <2>1, <2>2, <2>3 DEF PrepareTestBuf, history
<1>5. CASE RequestChan
  BY <1>5 DEF RequestChan, RequestChanOn, bufVars, history
<1>6. CASE SlaveConfig
  BY <1>6 DEF SlaveConfig, bufVars, history
<1>7. CASE SlaveConfigFails
  BY <1>7 DEF SlaveConfigFails, bufVars
<1>8. CASE Issue
  BY <1>8 DEF Issue, IssueThen, EngineStates, bufVars, history
<1>9. CASE WaitEnd
  <2>1. engine' \in {engine, Stopped}
    BY <1>9 DEF WaitEnd, TestEnd, TestEndKeeping
  <2> QED
    BY <1>9, <2>1, StoppedType
       DEF WaitEnd, TestEnd, TestEndKeeping, bufVars, history
<1>10. CASE CopyPeriod
  <2>1. engine.next \in {0, 1} /\ buf_src[engine.next] \in Stamps
    BY DEF EngineStates
  <2>2. PICK s \in Stamps : buf_dst' = [buf_dst EXCEPT ![engine.next] = s]
    <3>1. PICK s \in {buf_src[engine.next]} \cup (IF "copy" \in Faults THEN {0} ELSE {}) :
            buf_dst' = [buf_dst EXCEPT ![engine.next] = s]
      BY <1>10 DEF CopyPeriod
    <3>2. s \in Stamps
      BY <2>1
    <3> QED
      BY <3>1, <3>2
  <2>3. engine' \in EngineStates
    <3>1. 1 - engine.next \in {0, 1}
      BY <2>1
    <3> QED
      BY <1>10, <3>1 DEF CopyPeriod, EngineStates
  <2> QED
    BY <1>10, <2>1, <2>2, <2>3 DEF CopyPeriod, threadVars
<1>11. CASE CallbackCompare
  BY <1>11 DEF CallbackCompare, EngineStates, bufVars, threadVars
<1>14. CASE CallbackFaults
  BY <1>14, StoppedType DEF CallbackFaults, bufVars, history
<1>12. CASE CallbackStore
  BY <1>12 DEF CallbackStore, bufVars, threadVars
<1>13. CASE UNCHANGED vars
  BY <1>13 DEF vars
<1> QED
  BY <1>1, <1>2, <1>3, <1>4, <1>5, <1>6, <1>7, <1>8, <1>9, <1>10, <1>11, <1>12,
     <1>13, <1>14 DEF Next, Thread, Engine

\* The status a step leaves, the resources it holds and the compares it has
\* counted fit together, whichever action is taken.
LEMMA IndStep == IInv /\ [Next]_vars => IInv'
<1> SUFFICES ASSUME IInv, [Next]_vars
             PROVE  IInv'
  OBVIOUS
<1>0. TypeOK'
  BY TypeStep DEF IInv
<1> DEFINE Rest == /\ Counted /\ Gated /\ Blame /\ Holding /\ FirstProbe /\ Unchecked
                   /\ PassNeedsGoodCompares /\ FailHasCause /\ OopsHasCause
<1> SUFFICES Rest'
  BY <1>0 DEF IInv
<1> USE <1>0 DEF IInv, TypeOK, Counted, Gated, Started, Blame, Holding, FirstProbe,
          Unchecked, PassNeedsGoodCompares, FailHasCause, OopsHasCause
<1>1. CASE Probe
  BY <1>1 DEF Probe
<1>2. CASE LoopFail
  BY <1>2 DEF LoopFail, TestEnd, TestEndKeeping, Stopped, history
<1>3. CASE LoopStart
  BY <1>3 DEF LoopStart, LoopStartOn, history
<1>4. ASSUME NEW p \in Periods, PrepareTestBuf(p)
      PROVE  Rest'
  <2>0. UNCHANGED <<dma_cyclic_status, chan, engine, cb, verdict, probes, oks,
                    mismatch, configFailed>>
    BY <1>4 DEF PrepareTestBuf, history
  <2>1. CASE p = 0
    <3>1. /\ pc = "prepare0"
          /\ pc' = IF "buf_src" \in nulls' THEN "oops" ELSE "prepare1"
          /\ dma_test_times' = dma_test_times
          /\ nulls' \subseteq {"buf_src", "buf_dst"} \/ nulls' = nulls
          /\ dma_test_times # 0 => nulls' = nulls
          /\ allocated' = IF dma_test_times = 0 THEN TRUE ELSE allocated
      BY <1>4, <2>1 DEF PrepareTestBuf
    <3> QED
      BY <2>0, <3>1
  <2>2. CASE p = 1
    <3>1. /\ pc = "prepare1" /\ nulls' = nulls
          /\ pc' = IF "buf_src" \in nulls' THEN "oops" ELSE "request"
          /\ dma_test_times' = dma_test_times + 1
          /\ allocated' = allocated
      BY <1>4, <2>2 DEF PrepareTestBuf
    <3> QED
      BY <2>0, <3>1
  <2> QED
    BY <2>1, <2>2
<1>5. CASE RequestChan
  BY <1>5 DEF RequestChan, RequestChanOn, history
<1>6. CASE SlaveConfig
  BY <1>6 DEF SlaveConfig, history
<1>7. CASE SlaveConfigFails
  BY <1>7 DEF SlaveConfigFails
<1>8. CASE Issue
  BY <1>8 DEF Issue, IssueThen, EngineStates, history
<1>9. CASE WaitEnd
  BY <1>9 DEF WaitEnd, TestEnd, TestEndKeeping, Stopped, history
<1>10. CASE CopyPeriod
  BY <1>10 DEF CopyPeriod, EngineStates, threadVars
<1>11. CASE CallbackCompare
  BY <1>11 DEF CallbackCompare, EngineStates, threadVars
<1>14. CASE CallbackFaults
  BY <1>14 DEF CallbackFaults, Stopped, history
<1>12. CASE CallbackStore
  BY <1>12 DEF CallbackStore, threadVars
<1>13. CASE UNCHANGED vars
  BY <1>13 DEF vars
<1> QED
  BY <1>1, <1>2, <1>3, <1>4, <1>5, <1>6, <1>7, <1>8, <1>9, <1>10, <1>11, <1>12,
     <1>13, <1>14 DEF Next, Thread, Engine

\* The static status always is one of the three enum values, and so on for the
\* rest of the state.
LEMMA IndInit == Init => IInv
<1>1. Init => TypeOK
  <2> SUFFICES ASSUME Init PROVE TypeOK
    OBVIOUS
  <2> USE DEF Init
  <2>1. dma_test_times \in 0..Loop OBVIOUS
  <2>2. buf_src \in [Periods -> Stamps] BY StoppedType
  <2>3. engine \in EngineStates BY StoppedType
  <2>4. probes \in 0..MaxProbes OBVIOUS
  <2>5. oks \in 0..Loop OBVIOUS
  <2>6. mismatch \in BOOLEAN OBVIOUS
  <2>7. dma_cyclic_status \in Status OBVIOUS
  <2> QED BY <2>1, <2>2, <2>3, <2>4, <2>5, <2>6, <2>7 DEF TypeOK
<1> QED
  BY <1>1, StoppedType DEF Init, IInv, Counted, Gated, Started, Blame, Holding, FirstProbe,
     Unchecked, PassNeedsGoodCompares, FailHasCause, OopsHasCause, Stopped

\* IInv is an invariant of the specification.
THEOREM Inductive == Spec => []IInv
BY IndInit, IndStep, PTL DEF Spec

\* Under every interleaving of thread, engine and callback the state keeps its
\* types; in particular dma_test_times never exceeds the number of rounds.
THEOREM TypeCorrect == Spec => []TypeOK
BY Inductive, PTL DEF IInv

\* "DMA test PASS" is printed only after a successful compare for every round
\* but the last.
THEOREM PassIsEarned == Spec => []PassNeedsGoodCompares
BY Inductive, PTL DEF IInv

\* "DMA test FAIL" is printed only after a wrong compare or a refused
\* configuration.
THEOREM FailIsExplained == Spec => []FailHasCause
BY Inductive, PTL DEF IInv

\* A kernel fault follows what an unchecked call returned or the FAIL of an earlier
\* probe, and from the second round on only a missing descriptor.
THEOREM OopsIsExplained == Spec => []OopsHasCause
BY Inductive, PTL DEF IInv

\* The DMA engine and the callback never outlive the buffers and the stack frame
\* they use, unless a configuration was refused.
THEOREM EngineIsContained == Spec => [](EngineTouchesLiveBuffers /\ ReturnReleasesAll)
<1>1. IInv => EngineTouchesLiveBuffers /\ ReturnReleasesAll
  BY DEF IInv, Holding, EngineTouchesLiveBuffers, ReturnReleasesAll
<1> QED
  BY <1>1, Inductive, PTL

=============================================================================
