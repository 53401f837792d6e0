------------------------------ MODULE Program -------------------------------
(***************************************************************************)
(* What the single-device tests have in common: one program is run on the  *)
(* board, prints a verdict, and ends.                                      *)
(***************************************************************************)
EXTENDS Integers, Sequences, FiniteSets

VARIABLES
  prog,   \* the program that is run
  pc,     \* where it is
  said,   \* the verdict it printed last: "none", "pass" or "fail"
  broke   \* history: a call of the program has failed or answered wrongly

progVars == <<prog, pc, said, broke>>

Ended == {"exit", "reset", "fault"}

At(p, l) == prog = p /\ pc = l

\* The call succeeded.
Go(l) == pc' = l /\ UNCHANGED <<prog, said, broke>>

\* The call failed or answered wrongly.
Fail(l) == pc' = l /\ broke' = TRUE /\ UNCHANGED <<prog, said>>

\* The program prints a verdict.
Say(v, l) == pc' = l /\ said' = v /\ UNCHANGED <<prog, broke>>

=============================================================================
