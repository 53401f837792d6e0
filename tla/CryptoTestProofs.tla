-------------------------- MODULE CryptoTestProofs --------------------------
(* The safety properties of CryptoTest, for every number of threads and      *)
(* every set of faults.                                                      *)
EXTENDS CryptoTest, FiniteSetTheorems, TLAPS

\* The threads that have stored their increment.
Started == {t \in Threads : Counted(t)}

\* The unprotected counter may lose increments; it never runs ahead, neither in
\* memory nor in the register of a thread about to store.
CountNeverAhead ==
  /\ thread_num <= Cardinality(Started)
  /\ \A t \in Threads : pc[t] = "write" => tmp[t] <= Cardinality(Started)

\* Where ret and result stand with what the thread met, at each program point.
VerdictAt(t) ==
  /\ pc[t] \in {"unborn", "read", "write"} => ~result[t] /\ t \notin met
  /\ pc[t] = "tfm" \/ Reporting(t) => (result[t] <=> t \in met)
  /\ pc[t] \in {"req", "setkey", "op", "op2", "compare"}
       => ret[t] /\ (result[t] <=> t \in met)
  /\ pc[t] \in {"free", "verdict"} => ((result[t] \/ ~ret[t]) <=> t \in met)

\* What the thread holds at each program point.
HeldAt(t) ==
  /\ pc[t] \in {"unborn", "read", "write", "tfm", "verdict"} \/ Reporting(t)
       => ~tfm[t] /\ ~req[t]
  /\ pc[t] = "req" => ~req[t]

\* A thread that has returned saw the full count.
AllStarted == (\E t \in Threads : pc[t] = "exited") => Started = Threads

\* A thread is created once.
SpawnedOnce == \A t \in Threads : t \in spawning <=> pc[t] = "unborn"

\* The inductive invariant.
IInv ==
  /\ TypeOK
  /\ SpawnedOnce
  /\ CountNeverAhead
  /\ AllStarted
  /\ \A t \in Threads : VerdictAt(t) /\ HeldAt(t)

USE ThreadsAssumption, FaultsAssumption
USE DEF Tests, SHA256, HMAC, AES, Phases

\* NUM_TEST_THREADS is a number, and the set of started threads is within it.
LEMMA ThreadCount ==
  /\ NUM_TEST_THREADS \in Nat
  /\ IsFiniteSet(Started)
  /\ Cardinality(Started) \in Nat
  /\ Cardinality(Started) <= NUM_TEST_THREADS
  /\ Cardinality(Started) = NUM_TEST_THREADS => Started = Threads
<1>1. Started \in SUBSET Threads
  BY DEF Started
<1>2. NUM_TEST_THREADS \in Nat
  BY FS_CardinalityType DEF NUM_TEST_THREADS
<1>3. /\ IsFiniteSet(Started)
      /\ Cardinality(Started) <= Cardinality(Threads)
      /\ Cardinality(Threads) = Cardinality(Started) => Threads = Started
  BY <1>1, FS_Subset
<1>4. Cardinality(Started) \in Nat
  BY <1>3, FS_CardinalityType
<1> QED
  BY <1>2, <1>3, <1>4 DEF NUM_TEST_THREADS

\* What a call leaves: its status in ret, the next program point, and the fault
\* on record if there was one.
LEMMA CallEffect ==
  ASSUME TypeOK, NEW t \in Threads, NEW at, NEW fault,
         NEW next \in Phases, NEW fail \in Phases, Call(t, at, fault, next, fail)
  PROVE  /\ \E ok \in BOOLEAN :
              /\ ret' = [ret EXCEPT ![t] = ok]
              /\ pc' = [pc EXCEPT ![t] = IF ok THEN next ELSE fail]
              /\ pc[t] = at /\ pc'[t] = (IF ok THEN next ELSE fail) /\ ret'[t] = ok
              /\ met' = IF ok THEN met ELSE met \cup {t}
         /\ pc' \in [Threads -> Phases]
         /\ ret' \in [Threads -> BOOLEAN] /\ ret'[t] \in BOOLEAN
         /\ met' \subseteq Threads
<1>1. PICK ok \in BOOLEAN : ret' = [ret EXCEPT ![t] = ok]
  BY DEF Call
<1>2. ret'[t] = ok /\ ret' \in [Threads -> BOOLEAN]
  BY <1>1, Zenon DEF TypeOK
<1>3. pc' = [pc EXCEPT ![t] = IF ok THEN next ELSE fail]
  BY <1>2, Zenon DEF Call
<1>4. pc' \in [Threads -> Phases] /\ pc'[t] = (IF ok THEN next ELSE fail)
  BY <1>3 DEF TypeOK
<1>5. met' = IF ok THEN met ELSE met \cup {t}
  BY <1>2, Zenon DEF Call
<1>6. met' \subseteq Threads
  BY <1>5 DEF TypeOK
<1>7. pc[t] = at
  BY DEF Call
<1> QED
  BY <1>1, <1>2, <1>3, <1>4, <1>5, <1>6, <1>7, Zenon

\* Every action of a thread moves that thread alone: the other threads keep
\* their program point and what they hold.
LEMMA Frame ==
  ASSUME TypeOK, NEW t \in Threads, Spawn(t) \/ Thread(t)
  PROVE  /\ \A u \in Threads \ {t} :
              /\ pc'[u] = pc[u] /\ tmp'[u] = tmp[u]
              /\ tfm'[u] = tfm[u] /\ req'[u] = req[u]
              /\ ret'[u] = ret[u] /\ result'[u] = result[u]
              /\ u \in met' <=> u \in met
         /\ loaded' = loaded
<1> USE DEF TypeOK, Goto, shared, hardware
<1>1. CASE Spawn(t)
  BY <1>1 DEF Spawn
<1>2. CASE CountRead(t) \/ CountWrite(t)
  BY <1>2 DEF CountRead, CountWrite, CountWriteBy
<1>3. CASE AllocTfm(t)
  <2>1. Call(t, "tfm", "tfm", "req", "verdict")
    BY <1>3 DEF AllocTfm
  <2> QED
    BY <1>3, <2>1, CallEffect DEF AllocTfm
<1>4. CASE AllocReq(t)
  <2>1. PICK next \in Phases : Call(t, "req", "req", next, "free")
    BY <1>4 DEF AllocReq, AllocReqElse
  <2> QED
    BY <1>4, <2>1, CallEffect DEF AllocReq, AllocReqElse
<1>5. CASE SetKey(t)
  <2>1. Call(t, "setkey", "setkey", "op", "free")
    BY <1>5 DEF SetKey
  <2> QED
    BY <1>5, <2>1, CallEffect DEF SetKey
<1>6. CASE Operate(t)
  <2>1. PICK next \in Phases : Call(t, "op", "op", next, "free")
    BY <1>6 DEF Operate
  <2> QED
    BY <1>6, <2>1, CallEffect DEF Operate
<1>7. CASE OperateAsync(t)
  BY <1>7 DEF OperateAsync
<1>8. CASE Decrypt(t)
  <2>1. Call(t, "op2", "op", "compare", "free")
    BY <1>8 DEF Decrypt
  <2> QED
    BY <1>8, <2>1, CallEffect DEF Decrypt
<1>9. CASE Compare(t)
  <2>1. \A u \in Threads \ {t} : u \in met' <=> u \in met
    BY <1>9 DEF Compare
  <2>2. \A u \in Threads \ {t} : ret'[u] = ret[u]
    BY <1>9 DEF Compare
  <2> QED
    BY <1>9, <2>1, <2>2 DEF Compare
<1>10. CASE FreeAll(t)
  BY <1>10 DEF FreeAll
<1>11. CASE Verdict(t)
  <2>1. \A u \in Threads \ {t} : result'[u] = result[u]
    BY <1>11, Zenon DEF Verdict, VerdictOn
  <2>2. \A u \in Threads \ {t} : pc'[u] = pc[u]
    BY <1>11 DEF Verdict, VerdictOn
  <2> QED
    BY <1>11, <2>1, <2>2 DEF Verdict, VerdictOn
<1>12. CASE Report(t) \/ Wake(t)
  BY <1>12 DEF Report, ReportAt, Wake
<1> QED
  BY <1>1, <1>2, <1>3, <1>4, <1>5, <1>6, <1>7, <1>8, <1>9, <1>10, <1>11, <1>12
     DEF Thread

\* A thread's own step keeps its verdict in step with what it met, and what it
\* holds in step with its program point.
LEMMA OwnStep ==
  ASSUME TypeOK, SpawnedOnce, NEW t \in Threads, VerdictAt(t), HeldAt(t),
         Spawn(t) \/ Thread(t)
  PROVE  VerdictAt(t)' /\ HeldAt(t)'
<1> USE DEF VerdictAt, HeldAt, Reporting
<1>1. CASE Spawn(t)
  <2>1. pc[t] = "unborn" /\ pc'[t] \in {"read", "never"}
    BY <1>1 DEF Spawn, TypeOK, SpawnedOnce
  <2> QED
    BY <1>1, <2>1 DEF Spawn
<1>2. CASE CountRead(t) \/ CountWrite(t)
  <2>1. /\ \/ pc[t] = "read" /\ pc'[t] = "write"
           \/ pc[t] = "write" /\ pc'[t] = "tfm"
        /\ UNCHANGED <<tfm, req, ret, result, met>>
    BY <1>2 DEF CountRead, CountWrite, CountWriteBy, Goto, TypeOK, hardware
  <2> QED
    BY <2>1
<1>3. CASE AllocTfm(t)
  <2>1. Call(t, "tfm", "tfm", "req", "verdict")
    BY <1>3 DEF AllocTfm
  <2>2. PICK ok \in BOOLEAN :
          /\ pc[t] = "tfm" /\ pc'[t] = (IF ok THEN "req" ELSE "verdict") /\ ret'[t] = ok
          /\ met' = IF ok THEN met ELSE met \cup {t}
    BY <2>1, CallEffect
  <2>3. tfm'[t] = ok /\ req' = req /\ result' = result
    BY <1>3, <2>2, Zenon DEF AllocTfm, TypeOK
  <2> QED
    BY <2>2, <2>3
<1>4. CASE AllocReq(t)
  <2>1. PICK next \in {"setkey", "op"} : Call(t, "req", "req", next, "free")
    BY <1>4 DEF AllocReq, AllocReqElse
  <2>2. PICK ok \in BOOLEAN :
          /\ pc[t] = "req" /\ pc'[t] = (IF ok THEN next ELSE "free") /\ ret'[t] = ok
          /\ met' = IF ok THEN met ELSE met \cup {t}
    BY <2>1, CallEffect
  <2>3. result' = result
    BY <1>4 DEF AllocReq, AllocReqElse
  <2> QED
    BY <2>2, <2>3
<1>5. ASSUME NEW at \in {"setkey", "op", "op2"}, NEW fault,
             NEW next \in {"op", "op2", "compare"},
             Call(t, at, fault, next, "free"), result' = result
      PROVE  VerdictAt(t)' /\ HeldAt(t)'
  <2>1. PICK ok \in BOOLEAN :
          /\ pc[t] = at /\ pc'[t] = (IF ok THEN next ELSE "free") /\ ret'[t] = ok
          /\ met' = IF ok THEN met ELSE met \cup {t}
    BY <1>5, CallEffect
  <2> QED
    BY <1>5, <2>1
<1>6. CASE SetKey(t) \/ Operate(t) \/ Decrypt(t)
  <2>1. CASE SetKey(t)
    BY <2>1, <1>5 DEF SetKey
  <2>2. CASE Operate(t)
    BY <2>2, <1>5 DEF Operate
  <2>3. CASE Decrypt(t)
    BY <2>3, <1>5 DEF Decrypt
  <2> QED
    BY <1>6, <2>1, <2>2, <2>3
<1>7. CASE OperateAsync(t)
  <2>1. /\ pc'[t] = "free" /\ ~ret'[t] /\ t \in met'
    BY <1>7 DEF OperateAsync, TypeOK
  <2> QED
    BY <2>1
<1>8. CASE Compare(t)
  <2>1. pc[t] = "compare" /\ pc'[t] = "free" /\ result' = result
    BY <1>8 DEF Compare, Goto, TypeOK
  <2>2. met' = IF ret'[t] THEN met ELSE met \cup {t}
    BY <1>8, Zenon DEF Compare
  <2>3. PICK good \in BOOLEAN : ret' = [ret EXCEPT ![t] = good /\ iv[t]]
    BY <1>8 DEF Compare
  <2>4. ret'[t] \in BOOLEAN
    BY <2>3, Zenon DEF TypeOK
  <2> QED
    BY <2>1, <2>2, <2>4
<1>9. CASE FreeAll(t)
  <2>1. /\ pc[t] = "free" /\ pc'[t] = "verdict" /\ ~req'[t] /\ ~tfm'[t]
        /\ UNCHANGED <<ret, result, met>>
    BY <1>9, Zenon DEF FreeAll, Goto, TypeOK
  <2> QED
    BY <2>1
<1>10. CASE Verdict(t)
  <2>1. /\ pc[t] = "verdict" /\ pc'[t] \in {"report", "tfm"}
        /\ UNCHANGED <<tfm, req, ret, met>>
    BY <1>10 DEF Verdict, VerdictOn, TypeOK, hardware
  <2>2. result'[t] <=> result[t] \/ ~ret[t]
    BY <1>10, Zenon DEF Verdict, VerdictOn, TypeOK
  <2> QED
    BY <2>1, <2>2
<1>11. CASE Report(t) \/ Wake(t)
  <2>1. /\ pc[t] \in {"report", "sleep"} /\ pc'[t] \in {"report", "sleep", "exited"}
        /\ UNCHANGED <<tfm, req, ret, result, met>>
    BY <1>11 DEF Report, ReportAt, Wake, Goto, TypeOK, hardware
  <2> QED
    BY <2>1
<1> QED
  BY <1>1, <1>2, <1>3, <1>4, <1>6, <1>7, <1>8, <1>9, <1>10, <1>11 DEF Thread

\* How a thread's step touches the counter: it reads it, stores one more than it
\* read, or leaves it alone; and it never takes the thread out of Started.
LEMMA OwnCount ==
  ASSUME TypeOK, SpawnedOnce, NEW t \in Threads, Spawn(t) \/ Thread(t)
  PROVE  /\ Counted(t) => Counted(t)'
         /\ pc'[t] \in Phases /\ pc'[t] # "unborn"
         /\ \/ thread_num' = thread_num /\ tmp'[t] = tmp[t] /\ pc'[t] # "write"
            \/ thread_num' = thread_num /\ tmp'[t] = thread_num /\ pc'[t] = "write"
            \/ /\ thread_num' = tmp[t] + 1 /\ tmp'[t] = tmp[t]
               /\ pc[t] = "write" /\ ~Counted(t) /\ Counted(t)'
         /\ pc'[t] = "exited" => thread_num' = thread_num /\ thread_num = NUM_TEST_THREADS
<1> USE DEF Counted
<1>1. CASE Spawn(t)
  BY <1>1 DEF Spawn, SpawnedOnce, TypeOK
<1>2. CASE CountRead(t)
  BY <1>2 DEF CountRead, Goto, TypeOK
<1>3. CASE CountWrite(t)
  BY <1>3 DEF CountWrite, CountWriteBy, Goto, TypeOK
<1>4. ASSUME NEW at \in {"tfm", "req", "setkey", "op", "op2"}, NEW fault,
             NEW next \in {"req", "setkey", "op", "op2", "compare"},
             NEW fail \in {"free", "verdict"},
             Call(t, at, fault, next, fail), UNCHANGED <<thread_num, tmp>>
      PROVE  /\ Counted(t) /\ Counted(t)'
             /\ pc'[t] \in Phases \ {"unborn", "write", "exited"}
             /\ UNCHANGED <<thread_num, tmp>>
  BY <1>4, CallEffect
<1>5. CASE AllocTfm(t)
  BY <1>5, <1>4 DEF AllocTfm
<1>6. CASE AllocReq(t)
  <2>1. PICK next \in {"setkey", "op"} : Call(t, "req", "req", next, "free")
    BY <1>6 DEF AllocReq, AllocReqElse
  <2>2. UNCHANGED <<thread_num, tmp>>
    BY <1>6 DEF AllocReq, AllocReqElse
  <2> QED
    BY <2>1, <2>2, <1>4
<1>7. CASE SetKey(t)
  BY <1>7, <1>4 DEF SetKey
<1>8. CASE Operate(t)
  <2>1. PICK next \in {"op2", "compare"} : Call(t, "op", "op", next, "free")
    BY <1>8 DEF Operate
  <2>2. UNCHANGED <<thread_num, tmp>>
    BY <1>8 DEF Operate
  <2> QED
    BY <2>1, <2>2, <1>4
<1>9. CASE Decrypt(t)
  BY <1>9, <1>4 DEF Decrypt
<1>10. CASE OperateAsync(t)
  BY <1>10 DEF OperateAsync, TypeOK
<1>11. CASE Compare(t)
  BY <1>11 DEF Compare, Goto, TypeOK
<1>12. CASE FreeAll(t)
  BY <1>12 DEF FreeAll, Goto, TypeOK
<1>13. CASE Verdict(t)
  BY <1>13 DEF Verdict, VerdictOn, TypeOK
<1>14. CASE Report(t)
  BY <1>14 DEF Report, ReportAt, TypeOK
<1>15. CASE Wake(t)
  BY <1>15 DEF Wake, Goto, TypeOK
<1> QED
  BY <1>1, <1>2, <1>3, <1>5, <1>6, <1>7, <1>8, <1>9, <1>10, <1>11, <1>12,
     <1>13, <1>14, <1>15 DEF Thread

\* A thread's step keeps the counter behind the number of started threads.
LEMMA CountStep ==
  ASSUME IInv, NEW t \in Threads, Spawn(t) \/ Thread(t)
  PROVE  /\ CountNeverAhead' /\ AllStarted'
         /\ thread_num' \in 0..NUM_TEST_THREADS
<1> USE DEF IInv
<1>1. Started \subseteq Started' /\ Started' \subseteq Started \cup {t}
  BY Frame, OwnCount DEF Started, Counted
<1>2. /\ IsFiniteSet(Started) /\ IsFiniteSet(Started')
      /\ Cardinality(Started) \in Nat /\ Cardinality(Started') \in Nat
      /\ Cardinality(Started) <= Cardinality(Started')
      /\ NUM_TEST_THREADS \in Nat /\ Cardinality(Started') <= NUM_TEST_THREADS
  <2>1. Started' \in SUBSET Threads
    BY DEF Started
  <2>2. IsFiniteSet(Started') /\ Cardinality(Started') <= NUM_TEST_THREADS
    BY <2>1, FS_Subset DEF NUM_TEST_THREADS
  <2>3. Cardinality(Started') \in Nat
    BY <2>2, FS_CardinalityType
  <2>4. Cardinality(Started) <= Cardinality(Started')
    BY <1>1, <2>2, FS_Subset
  <2> QED
    BY <2>2, <2>3, <2>4, ThreadCount
<1>3. thread_num \in Nat /\ tmp[t] \in Nat
  BY ThreadCount DEF TypeOK
<1>4. ~Counted(t) /\ Counted(t)' => Cardinality(Started') = Cardinality(Started) + 1
  <2>1. ASSUME ~Counted(t), Counted(t)'
        PROVE  Started' = Started \cup {t} /\ t \notin Started
    BY <1>1, <2>1 DEF Started
  <2> QED
    BY <2>1, <1>2, FS_AddElement
<1>5. thread_num' \in Nat /\ thread_num' <= Cardinality(Started')
  BY <1>2, <1>3, <1>4, OwnCount DEF CountNeverAhead
<1>6. ASSUME NEW u \in Threads, pc'[u] = "write"
      PROVE  tmp'[u] <= Cardinality(Started')
  <2>1. CASE u = t
    <3>1. thread_num' = thread_num /\ tmp'[t] = thread_num
      BY <1>6, <2>1, OwnCount DEF Counted
    <3> QED
      BY <2>1, <3>1, <1>2, <1>3 DEF CountNeverAhead
  <2>2. CASE u # t
    <3>1. pc[u] = "write" /\ tmp'[u] = tmp[u]
      BY <1>6, <2>2, Frame
    <3>2. tmp[u] \in Nat
      BY ThreadCount DEF TypeOK
    <3> QED
      BY <3>1, <3>2, <1>2 DEF CountNeverAhead
  <2> QED
    BY <2>1, <2>2
<1>7. AllStarted'
  <2>1. ASSUME NEW u \in Threads, pc'[u] = "exited"
        PROVE  Started' = Threads
    <3>1. Started = Threads
      <4>1. CASE u = t
        <5>1. thread_num = NUM_TEST_THREADS
          BY <2>1, <4>1, OwnCount
        <5> QED
          BY <5>1, ThreadCount DEF CountNeverAhead
      <4>2. CASE u # t
        <5>1. pc[u] = "exited"
          BY <2>1, <4>2, Frame
        <5> QED
          BY <5>1 DEF AllStarted
      <4> QED
        BY <4>1, <4>2
    <3> QED
      BY <3>1, <1>1 DEF Started
  <2> QED
    BY <2>1 DEF AllStarted
<1>8. thread_num' \in 0..NUM_TEST_THREADS
  BY <1>2, <1>5
<1> QED
  BY <1>5, <1>6, <1>7, <1>8 DEF CountNeverAhead

\* A thread's step keeps the types.
LEMMA OwnTypes ==
  ASSUME IInv, NEW t \in Threads, Spawn(t) \/ Thread(t)
  PROVE  TypeOK'
<1>0. TypeOK
  BY DEF IInv
<1> DEFINE Rest == /\ spawning' \subseteq Threads
                   /\ loaded' \in BOOLEAN
                   /\ pc' \in [Threads -> Phases]
                   /\ tmp' \in [Threads -> 0..NUM_TEST_THREADS]
                   /\ test' \in [Threads -> Tests]
                   /\ tfm' \in [Threads -> BOOLEAN]
                   /\ req' \in [Threads -> BOOLEAN]
                   /\ iv' \in [Threads -> BOOLEAN]
                   /\ ret' \in [Threads -> BOOLEAN]
                   /\ result' \in [Threads -> BOOLEAN]
                   /\ met' \subseteq Threads
<1> SUFFICES Rest
  BY CountStep DEF TypeOK
<1>1. CASE Spawn(t)
  BY <1>0, <1>1 DEF Spawn, TypeOK
<1>2. CASE CountRead(t) \/ CountWrite(t)
  BY <1>0, <1>2 DEF CountRead, CountWrite, CountWriteBy, Goto, TypeOK, shared, hardware
<1>3. CASE AllocTfm(t)
  <2>1. /\ pc' \in [Threads -> Phases] /\ ret' \in [Threads -> BOOLEAN]
        /\ met' \subseteq Threads /\ ret'[t] \in BOOLEAN
    BY <1>0, <1>3, CallEffect DEF AllocTfm
  <2>2. tfm' \in [Threads -> BOOLEAN] /\ iv' \in [Threads -> BOOLEAN]
    BY <1>0, <1>3, <2>1, Zenon DEF AllocTfm, TypeOK
  <2> QED
    BY <1>0, <1>3, <2>1, <2>2 DEF AllocTfm, TypeOK, shared
<1>4. CASE AllocReq(t)
  <2>1. PICK next \in {"setkey", "op"} : Call(t, "req", "req", next, "free")
    BY <1>0, <1>4 DEF AllocReq, AllocReqElse
  <2>2. /\ pc' \in [Threads -> Phases] /\ ret' \in [Threads -> BOOLEAN]
        /\ met' \subseteq Threads /\ ret'[t] \in BOOLEAN
    BY <1>0, <2>1, CallEffect
  <2>3. req' \in [Threads -> BOOLEAN]
    BY <1>0, <1>4, <2>2, Zenon DEF AllocReq, AllocReqElse, TypeOK
  <2> QED
    BY <1>0, <1>4, <2>2, <2>3 DEF AllocReq, AllocReqElse, TypeOK, shared
<1>5. CASE SetKey(t)
  BY <1>0, <1>5, CallEffect DEF SetKey, TypeOK, shared, hardware
<1>6. CASE Operate(t)
  <2>1. PICK next \in {"op2", "compare"} : Call(t, "op", "op", next, "free")
    BY <1>0, <1>6 DEF Operate
  <2>2. /\ pc' \in [Threads -> Phases] /\ ret' \in [Threads -> BOOLEAN]
        /\ met' \subseteq Threads
    BY <1>0, <2>1, CallEffect
  <2>3. iv' = iv \/ iv' = [iv EXCEPT ![t] = FALSE]
    BY <1>0, <1>6, Zenon DEF Operate
  <2>4. iv' \in [Threads -> BOOLEAN]
    BY <1>0, <2>3, Zenon DEF TypeOK
  <2> QED
    BY <1>0, <1>6, <2>2, <2>4 DEF Operate, TypeOK, shared
<1>7. CASE Decrypt(t)
  BY <1>0, <1>7, CallEffect DEF Decrypt, TypeOK, shared, hardware
<1>8. CASE OperateAsync(t)
  BY <1>0, <1>8 DEF OperateAsync, TypeOK, shared
<1>9. CASE Compare(t)
  <2>1. PICK good \in BOOLEAN : ret' = [ret EXCEPT ![t] = good /\ iv[t]]
    BY <1>0, <1>9 DEF Compare
  <2>2. ret' \in [Threads -> BOOLEAN]
    BY <1>0, <2>1, Zenon DEF TypeOK
  <2>3. met' \subseteq Threads
    BY <1>0, <1>9, Zenon DEF Compare, TypeOK
  <2> QED
    BY <1>0, <1>9, <2>2, <2>3 DEF Compare, Goto, TypeOK, shared, hardware
<1>10. CASE FreeAll(t)
  BY <1>0, <1>10 DEF FreeAll, Goto, TypeOK, shared
<1>11. CASE Verdict(t)
  <2>1. result' \in [Threads -> BOOLEAN]
    BY <1>0, <1>11, Zenon DEF Verdict, VerdictOn, TypeOK
  <2>2. pc' \in [Threads -> Phases] /\ test' \in [Threads -> Tests]
    BY <1>0, <1>11 DEF Verdict, VerdictOn, TypeOK
  <2> QED
    BY <1>0, <1>11, <2>1, <2>2 DEF Verdict, VerdictOn, TypeOK, shared, hardware
<1>12. CASE Report(t) \/ Wake(t)
  BY <1>0, <1>12 DEF Report, ReportAt, Wake, Goto, TypeOK, shared, hardware
<1> QED
  BY <1>0, <1>1, <1>2, <1>3, <1>4, <1>5, <1>6, <1>7, <1>8, <1>9, <1>10, <1>11, <1>12
     DEF Thread

\* Only kthread_run() takes a thread out of those still to be created.
LEMMA SpawnStep ==
  ASSUME IInv, NEW t \in Threads, Spawn(t) \/ Thread(t)
  PROVE  SpawnedOnce'
<1> USE DEF IInv
<1>1. CASE Spawn(t)
  <2>1. spawning' = spawning \ {t}
    BY <1>1 DEF Spawn
  <2> QED
    BY <2>1, Frame, OwnCount DEF SpawnedOnce
<1>2. CASE Thread(t)
  <2>1. spawning' = spawning /\ pc[t] # "unborn"
    BY <1>2 DEF Thread, CountRead, CountWrite, CountWriteBy, AllocTfm, AllocReq,
       AllocReqElse, SetKey, Operate, OperateAsync, Decrypt, Compare, FreeAll, Verdict,
       VerdictOn, Report, ReportAt, Wake, Goto, Call, shared
  <2> QED
    BY <2>1, Frame, OwnCount DEF SpawnedOnce
<1> QED
  BY <1>1, <1>2

\* Unloading the module: whoever has not returned is lost, and nothing of what
\* the others have done changes.
LEMMA UnloadStep == IInv /\ Unload => IInv'
<1> SUFFICES ASSUME IInv, Unload
             PROVE  IInv'
  OBVIOUS
<1> USE DEF IInv
<1>1. \A t \in Threads : \/ pc'[t] = pc[t] /\ pc[t] \in {"never", "exited"}
                         \/ pc'[t] = "oops"
  BY DEF Unload
<1>2. TypeOK'
  BY DEF Unload, TypeOK
<1>3. SpawnedOnce'
  BY <1>1 DEF Unload, SpawnedOnce
<1>4. Started \subseteq Started'
  BY <1>1 DEF Started, Counted
<1>5. CountNeverAhead'
  <2>1. Started' \in SUBSET Threads
    BY DEF Started
  <2>2. IsFiniteSet(Started')
    BY <2>1, FS_Subset
  <2>3. Cardinality(Started') \in Nat
    BY <2>2, FS_CardinalityType
  <2>4. Cardinality(Started) <= Cardinality(Started')
    BY <1>4, <2>2, FS_Subset
  <2>5. thread_num' <= Cardinality(Started')
    BY <2>3, <2>4, ThreadCount DEF CountNeverAhead, Unload, TypeOK
  <2> QED
    BY <1>1, <2>5 DEF CountNeverAhead
<1>6. AllStarted'
  BY <1>1, <1>4 DEF AllStarted, Started
<1>7. \A t \in Threads : VerdictAt(t)' /\ HeldAt(t)'
  BY <1>1 DEF VerdictAt, HeldAt, Reporting, Unload
<1> QED
  BY <1>2, <1>3, <1>5, <1>6, <1>7

\* The invariant holds when insmod begins.
LEMMA InvInit == Init => IInv
<1> SUFFICES ASSUME Init
             PROVE  IInv
  OBVIOUS
<1>1. TypeOK
  BY ThreadCount DEF Init, TypeOK
<1>2. SpawnedOnce
  BY DEF Init, SpawnedOnce
<1>3. CountNeverAhead
  BY ThreadCount DEF Init, CountNeverAhead
<1>4. AllStarted
  BY DEF Init, AllStarted
<1>5. \A t \in Threads : VerdictAt(t) /\ HeldAt(t)
  BY DEF Init, VerdictAt, HeldAt, Reporting
<1> QED
  BY <1>1, <1>2, <1>3, <1>4, <1>5 DEF IInv

\* Every step of every thread, and unloading, keeps the invariant.
LEMMA InvStep == IInv /\ [Next]_vars => IInv'
<1> SUFFICES ASSUME IInv, [Next]_vars
             PROVE  IInv'
  OBVIOUS
<1>1. ASSUME NEW t \in Threads, Spawn(t) \/ Thread(t)
      PROVE  IInv'
  <2>1. TypeOK' /\ SpawnedOnce' /\ CountNeverAhead' /\ AllStarted'
    BY <1>1, OwnTypes, SpawnStep, CountStep
  <2>2. ASSUME NEW u \in Threads
        PROVE  VerdictAt(u)' /\ HeldAt(u)'
    <3>1. CASE u = t
      BY <1>1, <3>1, OwnStep DEF IInv
    <3>2. CASE u # t
      BY <1>1, <3>2, Frame DEF IInv, VerdictAt, HeldAt, Reporting
    <3> QED
      BY <3>1, <3>2
  <2> QED
    BY <2>1, <2>2 DEF IInv
<1>2. CASE Unload
  BY <1>2, UnloadStep
<1>3. CASE UNCHANGED vars
  BY <1>3 DEF vars, IInv, TypeOK, SpawnedOnce, CountNeverAhead, AllStarted, Started,
     Counted, VerdictAt, HeldAt, Reporting
<1> QED
  BY <1>1, <1>2, <1>3 DEF Next

LEMMA Invariance == Spec => []IInv
  BY InvInit, InvStep, PTL DEF Spec

\* The static counter, the threads' program points and what they hold keep their
\* types; in particular thread_num never exceeds NUM_TEST_THREADS.
THEOREM TypeCorrect == Spec => []TypeOK
<1>1. IInv => TypeOK
  BY DEF IInv
<1> QED
  BY <1>1, Invariance, PTL

\* However the unprotected increments interleave, a thread leaves the reporting
\* loop of rtk_crypto_test_inst_init() only when all have begun their tests.
THEOREM ExitIsEarned == Spec => []ExitMeansAllStarted
<1>1. IInv => ExitMeansAllStarted
  BY DEF IInv, AllStarted, Started, ExitMeansAllStarted
<1> QED
  BY <1>1, Invariance, PTL

\* The verdict rtk_crypto_test_inst_init() prints is the one its tests earned.
THEOREM VerdictIsExact == Spec => []VerdictExact
<1>1. IInv => VerdictExact
  BY DEF IInv, VerdictAt, VerdictExact
<1> QED
  BY <1>1, Invariance, PTL

\* Every path through the label fail gives back the request and the transform.
THEOREM NothingIsHeld == Spec => []NothingHeldBetweenTests
<1>1. IInv => NothingHeldBetweenTests
  BY DEF IInv, HeldAt, NothingHeldBetweenTests
<1> QED
  BY <1>1, Invariance, PTL

=============================================================================
