--------------------------------- MODULE Clk --------------------------------
(***************************************************************************)
(* clk/rtk_rcc_test.c: probe() gets and enables clocks, remove() disables  *)
(* and puts them.  probe() returns 0 also when it fails, so remove() runs  *)
(* in any case, and the pointers are static, so they outlive an unbinding. *)
(***************************************************************************)
EXTENDS Program

CONSTANTS Binds  \* bound on how often the device is bound to the driver

ASSUME ClkAssumption == Binds \in Nat

VARIABLES
  clk,       \* the five pointers: "null", "err", "live" or "freed"
  running,   \* clocks the driver has enabled
  settings,  \* settings that took effect: "parent", "rate"
  binds,     \* bindings so far
  warned,    \* history: remove() of this binding made the kernel warn
  asked      \* history: the clocks that this binding's probe() asked for

clkVars == <<clk, running, settings, binds, warned, asked>>

Clks == {"gate", "gate_fen", "mux", "mux_parent", "div"}
AfterGet == [gate |-> "enable_gate", gate_fen |-> "enable_gate_fen", mux |-> "mux_parent",
             mux_parent |-> "set_parent", div |-> "set_rate"]

ClkTypeOK ==
  /\ clk \in [Clks -> {"null", "err", "live", "freed"}]
  /\ running \subseteq {"gate", "gate_fen"}
  /\ settings \subseteq {"parent", "rate"}
  /\ binds \in 0..Binds
  /\ warned \in BOOLEAN
  /\ asked \subseteq Clks

ClkInit ==
  /\ clk = [c \in Clks |-> "null"]
  /\ running = {} /\ settings = {} /\ binds = 0 /\ warned = FALSE /\ asked = {}

-----------------------------------------------------------------------------
(* probe().                                                                *)

\* insmod, or a new binding through sysfs.
Bind ==
  /\ At("clk", "start") \/ At("clk", "exit")
  /\ binds < Binds
  /\ binds' = binds + 1
  /\ pc' = "gate" /\ said' = "none" /\ broke' = FALSE
  /\ warned' = FALSE /\ asked' = {} /\ settings' = {}
  /\ UNCHANGED <<prog, clk, running>>

\* goto fail.
ClkFail == pc' = "bound" /\ said' = "fail" /\ broke' = TRUE /\ UNCHANGED prog

\* devm_clk_get() of one clock; the gates are enabled next, the others are set.
ClkGet(c) ==
  /\ At("clk", c)
  /\ asked' = asked \cup {c}
  /\ \/ /\ clk' = [clk EXCEPT ![c] = "live"]
        /\ Go(AfterGet[c])
     \/ clk' = [clk EXCEPT ![c] = "err"] /\ ClkFail
  /\ UNCHANGED <<running, settings, binds, warned>>

ClkEnableElse(c, next, failed) ==
  /\ At("clk", AfterGet[c])
  /\ \/ running' = running \cup {c} /\ Go(next)
     \/ failed /\ UNCHANGED running
  /\ UNCHANGED <<clk, settings, binds, warned, asked>>

\* Mutant: an error of clk_prepare_enable() is not looked at.
ClkEnableIgnored(c, next) == ClkEnableElse(c, next, Go(next))

ClkEnable(c, next) == ClkEnableElse(c, next, ClkFail)

\* What clk_set_parent() returns is not looked at.
SetParent ==
  /\ At("clk", "set_parent")
  /\ settings' \in {settings, settings \cup {"parent"}}
  /\ Go("div")
  /\ UNCHANGED <<clk, running, binds, warned, asked>>

\* What clk_set_rate() returns goes to rate, the test is of ret: never an error.
SetRate ==
  /\ At("clk", "set_rate")
  /\ settings' \in {settings, settings \cup {"rate"}}
  /\ Say("pass", "bound")
  /\ UNCHANGED <<clk, running, binds, warned, asked>>

-----------------------------------------------------------------------------
\* remove(): a pointer that is NULL or an error is no clock to disable, a live one
\* that was never enabled, and one that was never got, make the kernel warn, and a
\* freed one is memory that belongs to somebody else.
RemoveClks ==
  /\ At("clk", "bound")
  /\ IF \E c \in {"gate", "gate_fen"} : clk[c] = "freed"
       THEN Go("fault") /\ UNCHANGED <<clk, running, warned>>
       ELSE /\ running' = {c \in running : clk[c] # "live"}
            /\ warned' = (\/ \E c \in {"gate", "gate_fen"} : clk[c] = "live" /\ c \notin running
                          \/ \E c \in Clks : clk[c] # "live")
            /\ clk' = [c \in Clks |-> IF clk[c] = "live" THEN "freed" ELSE clk[c]]
            /\ Go("exit")
  /\ UNCHANGED <<settings, binds, asked>>

ClkProgram ==
  \/ \E c \in Clks : ClkGet(c)
  \/ ClkEnable("gate", "gate_fen") \/ ClkEnable("gate_fen", "mux")
  \/ SetParent \/ SetRate

-----------------------------------------------------------------------------
(* Properties.                                                             *)

\* PASS means that both gates run; an unbound driver leaves no clock enabled, however
\* far probe() got; a warning or worse at removal needs a failed probe(), and a
\* fault needs an earlier binding whose pointers the failed probe() did not renew.
ClocksBalance ==
  prog = "clk" =>
    /\ said = "pass" /\ pc = "bound" => running = {"gate", "gate_fen"}
    /\ pc = "exit" => running = {}
    /\ warned => said = "fail"
    /\ pc = "fault" => said = "fail" /\ binds > 1 /\ "gate_fen" \notin asked

=============================================================================
