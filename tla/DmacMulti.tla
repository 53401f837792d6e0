------------------------------ MODULE DmacMulti -----------------------------
(***************************************************************************)
(* dmac/dmac_multi.c: six rounds over one cyclic transfer, in each of      *)
(* which the thread overwrites the destination the engine is filling; in   *)
(* round 2 the channel is paused and resumed.  The destination is two      *)
(* words, each "old", "src" (as copied) or "ff" (as overwritten).          *)
(***************************************************************************)
EXTENDS Program

VARIABLES
  round,      \* i of rtk_dma_test_cyclic()
  cell,       \* next word the thread overwrites
  dst,        \* the destination
  engine,     \* "idle", "run" or "paused"
  next_word,  \* next word the engine copies
  cb,         \* callback: "none", "due", or the words that it has compared
  match,      \* what it has found so far
  holds,      \* "channel" and "buffers", while they are held
  outlives    \* history: a callback was due when the transfer was terminated

mulVars == <<round, cell, dst, engine, next_word, cb, match, holds, outlives>>

LAST_ROUND == 5
PAUSE_ROUND == 2
Words == {1, 2}

MulTypeOK ==
  /\ round \in 0..(LAST_ROUND + 1)
  /\ cell \in Words
  /\ dst \in [Words -> {"old", "src", "ff"}]
  /\ engine \in {"idle", "run", "paused"}
  /\ next_word \in Words
  /\ cb \in {"none", "due", "half"}
  /\ match \in BOOLEAN
  /\ holds \subseteq {"channel", "buffers"}
  /\ outlives \in BOOLEAN

MulInit ==
  /\ round = 0 /\ cell = 1 /\ dst = [w \in Words |-> "old"]
  /\ engine = "idle" /\ next_word = 1 /\ cb = "none" /\ match = FALSE
  /\ holds = {} /\ outlives = FALSE

-----------------------------------------------------------------------------
(* The probing thread.                                                     *)

\* Buffers and channel are used whether they were obtained or not: an allocation
\* or a channel that failed is dereferenced.
PrepareMulti ==
  /\ At("dmac_multi", "start")
  /\ \/ holds' = {"channel", "buffers"} /\ Go("config")
     \/ Fail("fault") /\ UNCHANGED holds
  /\ UNCHANGED <<round, cell, dst, engine, next_word, cb, match, outlives>>

\* A refused configuration returns with everything held; so does nobody check what
\* dmaengine_prep_dma_cyclic() returned.
ConfigMulti ==
  /\ At("dmac_multi", "config")
  /\ \/ engine' = "run" /\ Go("round")
     \/ Fail("exit") /\ UNCHANGED engine
     \/ Fail("fault") /\ UNCHANGED engine
  /\ UNCHANGED <<round, cell, dst, next_word, cb, match, holds, outlives>>

\* One word of the loops that write 0xFFFFFFFF over the destination.
Overwrite(l, next) ==
  /\ At("dmac_multi", l)
  /\ dst' = [dst EXCEPT ![cell] = "ff"]
  /\ cell' = IF cell = 2 THEN 1 ELSE 2
  /\ Go(IF cell = 2 THEN next ELSE l)
  /\ UNCHANGED <<round, engine, next_word, cb, match, holds, outlives>>

\* The end of a round; the paused round has four more steps.
EndRoundAt(last) ==
  /\ At("dmac_multi", "endround")
  /\ IF round = PAUSE_ROUND THEN Go("pause") /\ UNCHANGED round
     ELSE round' = round + 1 /\ Go(IF round = last THEN "end" ELSE "round")
  /\ UNCHANGED <<cell, dst, engine, next_word, cb, match, holds, outlives>>

\* Mutant: while (i <= 6).
EndRoundLate == EndRoundAt(LAST_ROUND + 1)

EndRound == EndRoundAt(LAST_ROUND)

PauseTo(next) ==
  /\ At("dmac_multi", "pause")
  /\ \/ engine' = "paused" /\ Go(next)
     \/ Fail(next) /\ UNCHANGED engine
  /\ UNCHANGED <<round, cell, dst, next_word, cb, match, holds, outlives>>

\* Mutant: the destination is not overwritten after the pause.
PauseOnly == PauseTo("show")

\* What dmaengine_pause() and dmaengine_resume() return is not looked at.
Pause == PauseTo("revert")

Resume ==
  /\ At("dmac_multi", "show")
  /\ \/ engine' = "run" /\ Go("round")
     \/ Fail("round") /\ UNCHANGED engine
  /\ round' = round + 1
  /\ UNCHANGED <<cell, dst, next_word, cb, match, holds, outlives>>

\* rtk_multi_dmac_test_end(): terminating does not wait for a callback that is due,
\* which then finds freed buffers and the stack of a probe() that has returned.
MultiEnd ==
  /\ At("dmac_multi", "end")
  /\ engine' = "idle"
  /\ outlives' = (cb # "none")
  /\ holds' = {}
  /\ Go("exit")
  /\ UNCHANGED <<round, cell, dst, next_word, cb, match>>

MulProgram ==
  \/ PrepareMulti \/ ConfigMulti
  \/ Overwrite("round", "endround") \/ EndRound
  \/ Pause \/ Overwrite("revert", "show") \/ Resume
  \/ MultiEnd

-----------------------------------------------------------------------------
(* The engine and the callback.                                            *)

\* The engine copies a word; the callback is due at the end of the period.
CopyWord ==
  /\ prog = "dmac_multi" /\ engine = "run"
  /\ dst' = [dst EXCEPT ![next_word] = "src"]
  /\ next_word' = IF next_word = 2 THEN 1 ELSE 2
  /\ cb' = IF next_word = 2 /\ cb = "none" THEN "due" ELSE cb
  /\ UNCHANGED <<progVars, round, cell, engine, match, holds, outlives>>

\* The callback compares word by word and prints what it found.
CompareFirst ==
  /\ prog = "dmac_multi" /\ cb = "due"
  /\ cb' = "half"
  /\ match' = (dst[1] = "src")
  /\ UNCHANGED <<progVars, round, cell, dst, engine, next_word, holds, outlives>>

CompareSecond ==
  /\ prog = "dmac_multi" /\ cb = "half"
  /\ cb' = "none"
  /\ match' = (match /\ dst[2] = "src")
  /\ said' = IF match' THEN "pass" ELSE "fail"
  /\ UNCHANGED <<prog, pc, broke, round, cell, dst, engine, next_word, holds, outlives>>

-----------------------------------------------------------------------------
(* Properties.                                                             *)

\* What the operator reads off the prints: between pause and resume nothing is
\* copied over the 0xFF written after the pause, if the driver can pause.  And the engine runs only while
\* channel and buffers are held: they are given back on every way out but that of a
\* refused configuration, and only a callback that was already due outlives them.
MultiContained ==
  prog = "dmac_multi" =>
    /\ pc = "show" /\ ~broke => \A w \in Words : dst[w] = "ff"
    /\ engine # "idle" => holds = {"channel", "buffers"}
    /\ pc = "exit" /\ ~broke => holds = {}
    /\ pc = "exit" /\ cb # "none" => outlives

=============================================================================
