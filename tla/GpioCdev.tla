------------------------------ MODULE GpioCdev ------------------------------
(***************************************************************************)
(* gpio/user/cdev/gpio-cdev-test.c: take a line handle or an event handle  *)
(* of /dev/gpiochipN, use it and close it.  main() returns 0 whatever      *)
(* happened.                                                               *)
(***************************************************************************)
EXTENDS GpioLine

\* gpio_list() takes nothing.  The others ask for the line, which the kernel
\* refuses while somebody else has it.  An output is first driven to
\* default_values[0], which is never written (lines 85-99): any level.
Request(p) ==
  \E ok \in Outcomes("request") :
    /\ IF mode[p] = "list" THEN Goto(p, "request", "done") /\ UNCHANGED line
       ELSE IF ~ok \/ owner # "free" THEN Goto(p, "request", "failed") /\ UNCHANGED line
       ELSE /\ Goto(p, "request", CASE mode[p] = "event" -> "chread"
                                    [] mode[p] = "eventpoll" -> "chpoll"
                                    [] OTHER -> "chdata")
            /\ owner' = p
            /\ IF mode[p] = "set" THEN dir' = "out" /\ level' \in Levels
                                    ELSE dir' = "in" /\ UNCHANGED level
            /\ UNCHANGED edge
    /\ Met(p, ok /\ owner = "free")
    /\ pending' = [pending EXCEPT ![p] = 0]
    /\ UNCHANGED <<mode, val, reported, hung, crossed>>

\* GPIOHANDLE_SET_LINE_VALUES_IOCTL or GPIOHANDLE_GET_LINE_VALUES_IOCTL; its
\* failure is printed and the handle is closed all the same.  gpio_write() prints
\* the failure with %n, which stores into the text of strerror() (line 108): the
\* program goes on, or dies there and the kernel closes the handle.
Data(p) ==
  \E ok \in Outcomes("io"), dies \in BOOLEAN :
    /\ dies => ~ok /\ mode[p] = "set"
    /\ Goto(p, "chdata", IF dies THEN "failed" ELSE "chclose")
    /\ owner' = IF dies THEN "free" ELSE owner
    /\ Met(p, ok)
    /\ level' = IF ok /\ mode[p] = "set" THEN val[p] ELSE level
    /\ \E v \in (IF mode[p] = "set" THEN {val[p]} ELSE Levels) :
         reported' = IF ok THEN [reported EXCEPT ![p] = v] ELSE reported
    /\ UNCHANGED <<dir, edge, mode, val, pending, hung, crossed>>

\* close(rq.fd): the line is free, and keeps its direction and level.
CloseHandle(p) ==
  /\ Goto(p, "chclose", "done")
  /\ owner' = "free"
  /\ UNCHANGED <<dir, level, edge, mode, val, reported, pending, hung, history>>

\* gpio_int(): read() waits for an event, for ever.
ReadEvent(p) ==
  /\ pc[p] = "chread"
  /\ pending[p] > 0
  /\ pending' = [pending EXCEPT ![p] = @ - 1]
  /\ UNCHANGED <<line, pc, mode, val, reported, hung, history>>

\* gpio_int_poll(): poll() for POLLIN, then the same read.
PollEvent(p) ==
  /\ pc[p] = "chpoll"
  /\ pending[p] > 0
  /\ pending' = [pending EXCEPT ![p] = @ - 1]
  /\ UNCHANGED <<line, pc, mode, val, reported, hung, history>>

Cdev(p) == Request(p) \/ Data(p) \/ CloseHandle(p) \/ ReadEvent(p) \/ PollEvent(p)

=============================================================================
