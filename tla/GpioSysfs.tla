------------------------------ MODULE GpioSysfs -----------------------------
(***************************************************************************)
(* gpio/user/sysfs/gpio-sysfs-test.c: export the pin unless it is there,   *)
(* write its attributes one after the other, unexport it.                  *)
(***************************************************************************)
EXTENDS GpioLine

\* gpio_export(): access(), and only then the write to export ...
AccessThen(p, there) ==
  /\ Goto(p, "access", IF owner = "sysfs" THEN there ELSE "export")
  /\ UNCHANGED <<line, mode, val, reported, pending, hung, history>>

\* Mutant: the pin is exported even if it is.
AccessIgnored(p) == AccessThen(p, "export")

Access(p) == AccessThen(p, "direction")

\* ... which the kernel refuses if the line has been taken meanwhile: exit(-1).
ExportElse(p, refused) ==
  /\ \E ok \in Outcomes("export") :
       IF ok /\ owner = "free"
         THEN Goto(p, "export", "direction") /\ owner' = "sysfs" /\ UNCHANGED met
         ELSE Goto(p, "export", refused) /\ UNCHANGED owner
              /\ Met(p, ok /\ owner \notin Procs)
  /\ UNCHANGED <<dir, level, edge, mode, val, reported, pending, hung, crossed>>

\* Mutant: a refused export is tried again.
ExportRetries(p) == ExportElse(p, "access")

Export(p) == ExportElse(p, "failed")

\* gpio_config(): open and write one attribute; a failure is exit(-1), with the
\* pin still exported.  The node may have been unexported by another process.
ConfigMeets(p, attr, accepted, next, sound) ==
  \E ok \in Outcomes("config") :
    /\ Goto(p, attr, IF ok /\ owner = "sysfs" /\ accepted THEN next ELSE "failed")
    /\ Met(p, ok /\ sound)

Config(p, attr, accepted, next) == ConfigMeets(p, attr, accepted, next, TRUE)

Stored(p, attr) == pc[p] = attr /\ pc'[p] # "failed"

\* "out" drives the line low; gpiolib refuses it while the line is an interrupt.
Direction(p) ==
  /\ Config(p, "direction", mode[p] = "write" => ~edge,
            IF mode[p] = "int" THEN "edge" ELSE "active_low")
  /\ IF Stored(p, "direction")
       THEN IF mode[p] = "write" THEN dir' = "out" /\ level' = "low"
                                 ELSE dir' = "in" /\ UNCHANGED level
       ELSE UNCHANGED <<dir, level>>
  /\ UNCHANGED <<owner, edge, mode, val, reported, pending, hung, crossed>>

ActiveLow(p) ==
  /\ Config(p, "active_low", TRUE, "edge")
  /\ UNCHANGED <<line, mode, val, reported, pending, hung, crossed>>

\* "none", or the edge to wait for, which needs an input.
SetEdge(p) ==
  /\ Config(p, "edge", mode[p] = "int" => dir = "in",
            CASE mode[p] = "write" -> "value"
              [] mode[p] = "read" -> "get"
              [] OTHER -> "open")
  /\ edge' = IF Stored(p, "edge") THEN mode[p] = "int" ELSE edge
  /\ UNCHANGED <<owner, dir, level, mode, val, reported, pending, hung, crossed>>

\* Only an output takes a value.
SetValueTo(p, v) ==
  /\ Config(p, "value", dir = "out", "get")
  /\ level' = IF Stored(p, "value") THEN v ELSE level
  /\ UNCHANGED <<owner, dir, edge, mode, val, reported, pending, hung, crossed>>

\* Mutant: the value is written inverted.
SetValueInverted(p) == SetValueTo(p, IF val[p] = "low" THEN "high" ELSE "low")

SetValue(p) == SetValueTo(p, val[p])

\* gpio_get_value().
GetValue(p) ==
  /\ \E v \in Sensed :
       /\ ConfigMeets(p, "get", TRUE, "unexport", dir = "out" => v = level)
       /\ reported' = IF Stored(p, "get") THEN [reported EXCEPT ![p] = v] ELSE reported
  /\ UNCHANGED <<line, mode, val, pending, hung, crossed>>

\* gpio_unexport(): the node goes, with the interrupt and under the feet of every
\* process that has its value file open.
UnexportTo(p, freed) ==
  /\ Config(p, "unexport", TRUE, "done")
  /\ IF Stored(p, "unexport")
       THEN /\ owner' = freed
            /\ edge' = FALSE
            /\ hung' = hung \cup {q \in Procs : pc[q] \in {"poll", "reread"}}
       ELSE UNCHANGED <<owner, edge, hung>>
  /\ UNCHANGED <<dir, level, mode, val, reported, pending, crossed>>

\* Mutant: the pin stays exported.
UnexportNot(p) == UnexportTo(p, owner)

Unexport(p) == UnexportTo(p, "free")

\* gpio_edge_int(): open and read the value file once, ...
OpenValue(p) ==
  /\ Config(p, "open", TRUE, "poll")
  /\ pending' = [pending EXCEPT ![p] = 0]
  /\ hung' = hung \ {p}
  /\ UNCHANGED <<line, mode, val, reported, crossed>>

\* ... then poll() without a timeout; a removed node reports an event too.
Poll(p) ==
  /\ Goto(p, "poll", "reread")
  /\ pending[p] > 0 \/ p \in hung
  /\ UNCHANGED <<line, mode, val, reported, pending, hung, history>>

\* lseek() to the start and read(), which acknowledges the event.
RereadFrom(p, start) ==
  /\ IF p \in hung
       THEN Goto(p, "reread", "failed") /\ UNCHANGED pending
       ELSE /\ Goto(p, "reread", "poll")
            /\ pending' = IF start THEN [pending EXCEPT ![p] = 0] ELSE pending
  /\ UNCHANGED <<line, mode, val, reported, hung, history>>

\* Mutant: no lseek(): read() returns 0 and acknowledges nothing.
RereadAtEnd(p) == RereadFrom(p, FALSE)

Reread(p) == RereadFrom(p, TRUE)

Sysfs(p) ==
  \/ Access(p) \/ Export(p) \/ Direction(p) \/ ActiveLow(p) \/ SetEdge(p)
  \/ SetValue(p) \/ GetValue(p) \/ Unexport(p)
  \/ OpenValue(p) \/ Poll(p) \/ Reread(p)

=============================================================================
