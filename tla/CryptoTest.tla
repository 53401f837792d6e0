----------------------------- MODULE CryptoTest -----------------------------
(***************************************************************************)
(* crypto/realtek-crypto-test.c: NUM_TEST_THREADS kernel threads count     *)
(* themselves in an unprotected static, run the five crypto tests and loop *)
(* until the static says that all of them have started.  A digest or a     *)
(* cipher text is abstracted to whether it is the expected one.            *)
(***************************************************************************)
EXTENDS Naturals, FiniteSets

CONSTANTS Threads,  \* the kernel threads
          Faults    \* what may go wrong in the kernel's crypto API

FaultKinds == {"kthread", "tfm", "req", "setkey", "op", "async", "result", "iv"}

ASSUME ThreadsAssumption == IsFiniteSet(Threads) /\ Threads # {}
ASSUME FaultsAssumption == Faults \subseteq FaultKinds

NUM_TEST_THREADS == Cardinality(Threads)

\* Order in which rtk_crypto_test_inst_init() calls the tests.
Tests == 1..5
SHA256 == 1
HMAC == 4
AES == 5

VARIABLES
  thread_num,  \* static int of rtk_crypto_test_inst_init()
  spawning,    \* threads rtk_crypto_test_init() has still to create
  loaded,      \* the module's text is in memory
  pc,          \* where each thread is
  tmp,         \* what each thread read of thread_num in ++thread_num
  test,        \* the test each thread is in
  tfm, req,    \* transform and request each thread holds
  iv,          \* the iv buffer of rtk_aes_test() still has its first value
  ret,         \* return value of the current test is 0
  result,      \* the thread's result is nonzero
  met          \* history: threads that met a fault in some test

vars == <<thread_num, spawning, loaded, pc, tmp, test, tfm, req, iv, ret, result,
          met>>

Phases == {"unborn", "never", "read", "write", "tfm", "req", "setkey", "op", "op2",
           "compare", "free", "verdict", "report", "sleep", "exited", "oops"}

TypeOK ==
  /\ thread_num \in 0..NUM_TEST_THREADS
  /\ spawning \subseteq Threads
  /\ loaded \in BOOLEAN
  /\ pc \in [Threads -> Phases]
  /\ tmp \in [Threads -> 0..NUM_TEST_THREADS]
  /\ test \in [Threads -> Tests]
  /\ tfm \in [Threads -> BOOLEAN]
  /\ req \in [Threads -> BOOLEAN]
  /\ iv \in [Threads -> BOOLEAN]
  /\ ret \in [Threads -> BOOLEAN]
  /\ result \in [Threads -> BOOLEAN]
  /\ met \subseteq Threads

Init ==
  /\ thread_num = 0
  /\ spawning = Threads
  /\ loaded = TRUE
  /\ pc = [t \in Threads |-> "unborn"]
  /\ tmp = [t \in Threads |-> 0]
  /\ test = [t \in Threads |-> SHA256]
  /\ tfm = [t \in Threads |-> FALSE]
  /\ req = [t \in Threads |-> FALSE]
  /\ iv = [t \in Threads |-> TRUE]
  /\ ret = [t \in Threads |-> TRUE]
  /\ result = [t \in Threads |-> FALSE]
  /\ met = {}

-----------------------------------------------------------------------------
(* Module init and exit.                                                   *)

\* rtk_crypto_test_init(): kthread_run(), whose result is not looked at.
Spawn(t) ==
  /\ t \in spawning
  /\ spawning' = spawning \ {t}
  /\ \E ok \in (IF "kthread" \in Faults THEN BOOLEAN ELSE {TRUE}) :
       pc' = [pc EXCEPT ![t] = IF ok THEN "read" ELSE "never"]
  /\ UNCHANGED <<thread_num, loaded, tmp, test, tfm, req, iv, ret, result, met>>

\* rtk_crypto_test_exit() stops nobody: a thread that has not returned goes on
\* in text that is no longer there.
Unload ==
  /\ loaded
  /\ spawning = {}
  /\ loaded' = FALSE
  /\ pc' = [t \in Threads |-> IF pc[t] \in {"never", "exited"} THEN pc[t] ELSE "oops"]
  /\ UNCHANGED <<thread_num, spawning, tmp, test, tfm, req, iv, ret, result, met>>

-----------------------------------------------------------------------------
(* The thread: rtk_crypto_test_inst_init().                                *)

Goto(t, from, to) ==
  /\ pc[t] = from
  /\ pc' = [pc EXCEPT ![t] = to]

shared == <<spawning, loaded>>
hardware == <<tfm, req, iv>>

\* ++thread_num, the load ...
CountRead(t) ==
  /\ Goto(t, "read", "write")
  /\ tmp' = [tmp EXCEPT ![t] = thread_num]
  /\ UNCHANGED <<shared, thread_num, test, hardware, ret, result, met>>

\* ... and the store; nothing keeps another thread's store from between them.
CountWriteBy(t, n) ==
  /\ Goto(t, "write", "tfm")
  /\ thread_num' = tmp[t] + n
  /\ UNCHANGED <<shared, tmp, test, hardware, ret, result, met>>

\* Mutant: the counter goes up by two.
CountWriteTwice(t) == CountWriteBy(t, 2)

CountWrite(t) == CountWriteBy(t, 1)

\* A call of a test that may fail: goto fail, or go on.
Call(t, at, fault, next, fail) ==
  /\ pc[t] = at
  /\ ret' \in {[ret EXCEPT ![t] = ok] :
                 ok \in IF fault \in Faults THEN BOOLEAN ELSE {TRUE}}
  /\ pc' = [pc EXCEPT ![t] = IF ret'[t] THEN next ELSE fail]
  /\ met' = IF ret'[t] THEN met ELSE met \cup {t}

\* crypto_alloc_ahash() or crypto_alloc_skcipher(): its failure returns at once.
AllocTfm(t) ==
  /\ Call(t, "tfm", "tfm", "req", "verdict")
  /\ tfm' = [tfm EXCEPT ![t] = ret'[t]]
  /\ iv' = [iv EXCEPT ![t] = TRUE]
  /\ UNCHANGED <<shared, thread_num, tmp, test, req, result>>

\* ahash_request_alloc() or skcipher_request_alloc().
AllocReqElse(t, fail) ==
  /\ Call(t, "req", "req", IF test[t] \in {HMAC, AES} THEN "setkey" ELSE "op", fail)
  /\ req' = [req EXCEPT ![t] = ret'[t]]
  /\ UNCHANGED <<shared, thread_num, tmp, test, tfm, iv, result>>

\* Mutant: a failed request allocation returns at once.
AllocReqReturns(t) == AllocReqElse(t, "verdict")

AllocReq(t) == AllocReqElse(t, "free")

\* crypto_ahash_setkey() or crypto_skcipher_setkey().
SetKey(t) ==
  /\ Call(t, "setkey", "setkey", "op", "free")
  /\ UNCHANGED <<shared, thread_num, tmp, test, hardware, result>>

\* crypto_ahash_digest() or crypto_skcipher_encrypt().  A cbc driver that follows
\* the API leaves the chaining value in the iv buffer.
Operate(t) ==
  /\ Call(t, "op", "op", IF test[t] = AES THEN "op2" ELSE "compare", "free")
  /\ iv' \in {iv} \cup (IF "iv" \in Faults /\ test[t] = AES
                          THEN {[iv EXCEPT ![t] = FALSE]} ELSE {})
  /\ UNCHANGED <<shared, thread_num, tmp, test, tfm, req, result>>

\* The driver queues the request and answers -EINPROGRESS: an error to the test,
\* which frees the request, its scatterlist and its buffers.
OperateAsync(t) ==
  /\ "async" \in Faults
  /\ pc[t] \in {"op", "op2"}
  /\ pc' = [pc EXCEPT ![t] = "free"]
  /\ ret' = [ret EXCEPT ![t] = FALSE]
  /\ met' = met \cup {t}
  /\ UNCHANGED <<shared, thread_num, tmp, test, tfm, req, iv, result>>

\* crypto_skcipher_decrypt(), with the iv buffer as encryption left it.
Decrypt(t) ==
  /\ Call(t, "op2", "op", "compare", "free")
  /\ UNCHANGED <<shared, thread_num, tmp, test, hardware, result>>

\* memcmp() with the expected digest, or of the decrypted with the plain text.
Compare(t) ==
  /\ Goto(t, "compare", "free")
  /\ \E good \in (IF "result" \in Faults THEN BOOLEAN ELSE {TRUE}) :
       ret' = [ret EXCEPT ![t] = good /\ iv[t]]
  /\ met' = IF ret'[t] THEN met ELSE met \cup {t}
  /\ UNCHANGED <<shared, thread_num, tmp, test, hardware, result>>

\* The label fail: request_free(), which accepts NULL, and free of the transform.
FreeAll(t) ==
  /\ Goto(t, "free", "verdict")
  /\ req' = [req EXCEPT ![t] = FALSE]
  /\ tfm' = [tfm EXCEPT ![t] = FALSE]
  /\ UNCHANGED <<shared, thread_num, tmp, test, iv, ret, result, met>>

\* if (ret) result = 1; then the next test, or the reporting loop.
VerdictOn(t, counted) ==
  /\ pc[t] = "verdict"
  /\ result' = [result EXCEPT ![t] = @ \/ (~ret[t] /\ counted)]
  /\ IF test[t] = AES
       THEN /\ pc' = [pc EXCEPT ![t] = "report"]
            /\ UNCHANGED test
       ELSE /\ pc' = [pc EXCEPT ![t] = "tfm"]
            /\ test' = [test EXCEPT ![t] = @ + 1]
  /\ UNCHANGED <<shared, thread_num, tmp, hardware, ret, met>>

\* Mutant: the AES test's failure is printed and forgotten.
VerdictForgetsAes(t) == VerdictOn(t, test[t] # AES)

Verdict(t) == VerdictOn(t, TRUE)

\* One iteration of the reporting loop; nobody ever calls kthread_stop().
ReportAt(t, n) ==
  /\ pc[t] = "report"
  /\ pc' = [pc EXCEPT ![t] = IF thread_num = n THEN "exited" ELSE "sleep"]
  /\ UNCHANGED <<shared, thread_num, tmp, test, hardware, ret, result, met>>

\* Mutants: the loop ends one thread early; it waits for one thread too many.
ReportEarly(t) == ReportAt(t, NUM_TEST_THREADS - 1)
ReportLate(t) == ReportAt(t, NUM_TEST_THREADS + 1)

Report(t) == ReportAt(t, NUM_TEST_THREADS)

\* schedule_timeout_interruptible(HZ) returns.
Wake(t) ==
  /\ Goto(t, "sleep", "report")
  /\ UNCHANGED <<shared, thread_num, tmp, test, hardware, ret, result, met>>

Thread(t) ==
  \/ CountRead(t) \/ CountWrite(t)
  \/ AllocTfm(t) \/ AllocReq(t) \/ SetKey(t) \/ Operate(t) \/ OperateAsync(t)
  \/ Decrypt(t) \/ Compare(t) \/ FreeAll(t)
  \/ Verdict(t) \/ Report(t) \/ Wake(t)

Next ==
  \/ \E t \in Threads : Spawn(t) \/ Thread(t)
  \/ Unload

Spec == Init /\ [][Next]_vars

\* insmod completes and the scheduler runs every thread.
FairSpec ==
  /\ Spec
  /\ \A t \in Threads : WF_vars(Spawn(t)) /\ WF_vars(Thread(t))

-----------------------------------------------------------------------------
(* Properties.                                                             *)

Counted(t) == pc[t] \notin {"unborn", "never", "read", "write"}
Reporting(t) == pc[t] \in {"report", "sleep", "exited"}

\* A thread returns only when every thread has begun its tests.
ExitMeansAllStarted ==
  loaded => \A t \in Threads : pc[t] = "exited" => \A u \in Threads : Counted(u)

\* A thread prints "Crypto test fail" exactly if one of its tests met a fault, an
\* asynchronous driver whose request it freed included: no failure of an earlier
\* test is overwritten by a later success.
VerdictExact ==
  \A t \in Threads : Reporting(t) => (result[t] <=> t \in met)

\* Between tests, and for ever after, a thread holds no transform and no request.
NothingHeldBetweenTests ==
  \A t \in Threads : pc[t] \in {"tfm", "verdict"} \/ Reporting(t) => ~tfm[t] /\ ~req[t]

\* Once the count is complete every thread returns.
CompleteCountEnds ==
  (thread_num = NUM_TEST_THREADS) ~> (~loaded \/ \A t \in Threads : pc[t] = "exited")

\* The comment at line 393 holds that the threads work without the sleep between
\* them: the threads return.
ThreadsReturn == <>(~loaded \/ \A t \in Threads : pc[t] \in {"exited", "never"})

=============================================================================
