--------------------------- MODULE GpioUserProofs ---------------------------
(***************************************************************************)
(* The proofs about the user-space gpio programs, for any number of        *)
(* processes, any of their calls failing, any depth of the event queue and *)
(* any number of interrupts.                                               *)
(***************************************************************************)
EXTENDS GpioUser, TLAPS

-----------------------------------------------------------------------------
(* The inductive invariant.                                                *)

\* Two sysfs processes that run at the same time are both recorded as crossed, and
\* only those lose their node while they have its value file open.
CrossInv ==
  /\ \A p, q \in Procs :
       p # q /\ pc[p] \in SysfsSteps /\ pc[q] \in SysfsSteps => p \in crossed
  /\ hung \subseteq crossed

\* A cdev process between its request and its close owns the line.
HandleInv(p) == pc[p] \in {"chdata", "chclose", "chread", "chpoll"} => owner = p

\* What a sysfs process that runs alone relies on: the pin stays exported, with the
\* direction it wrote, the value it wrote, and no edge but its own.
AloneInv(p) ==
  p \notin crossed =>
    /\ pc[p] \in SysfsSteps \ {"access", "export"} => owner = "sysfs"
    /\ pc[p] = "export" => owner # "sysfs"
    /\ pc[p] \in {"active_low", "edge", "value", "get", "unexport"} =>
         dir = IF mode[p] = "write" THEN "out" ELSE "in"
    /\ pc[p] = "value" => mode[p] = "write"
    /\ pc[p] \in {"get", "unexport"} /\ mode[p] = "write" => level = val[p]
    /\ p \notin met /\ pc[p] \in SysfsSteps /\ edge => mode[p] = "int"

\* Which program a process runs shows in its mode; what it has printed is what it
\* wrote, unless it met a fault or another sysfs process.
ReportInv(p) ==
  /\ pc[p] \in SysfsSteps => mode[p] \in SysfsModes
  /\ pc[p] \in CdevSteps => mode[p] \in CdevModes
  /\ pc[p] \in UioSteps => mode[p] \in UioModes
  /\ pc[p] \in {"chdata", "chclose"} => mode[p] # "list"
  /\ /\ p \notin crossed \cup met /\ mode[p] \in {"write", "set"}
     /\ pc[p] \in {"unexport", "chclose", "done"}
     => reported[p] = val[p]

\* The count of interrupts does not go back, and the loop of gpio_int() is bounded.
RoundInv(p) ==
  /\ seen[p] <= count
  /\ pc[p] # "done" => i[p] < Interrupts

IInv ==
  /\ TypeOK
  /\ CrossInv
  /\ \A p \in Procs : HandleInv(p) /\ AloneInv(p) /\ ReportInv(p) /\ RoundInv(p)
  /\ OutcomesExplained
  /\ UioNoLostInterrupt
-----------------------------------------------------------------------------
(* What the steps of each program have in common.                          *)

\* A step of sysfs process p.  Every other sysfs process is crossed already, so nothing
\* is promised to it; handles are safe because the step takes the line from none.
LEMMA SysfsFrame ==
  ASSUME IInv, NEW p \in Procs, pc[p] \in SysfsSteps,
         NEW x \in SysfsSteps \cup {"done", "failed"}, pc' = [pc EXCEPT ![p] = x],
         UNCHANGED <<mode, val, crossed, uioVars>>,
         \A q \in Procs \ {p} : reported'[q] = reported[q],
         owner' = owner \/ owner \in {"free", "sysfs"},
         x = "done" => owner' # "sysfs",
         hung' \subseteq crossed,
         met \subseteq met', x = "failed" => p \in met' \cup crossed,
         LineTypeOK', AloneInv(p)', ReportInv(p)'
  PROVE  IInv'
<1> USE DEF IInv, SysfsSteps, CdevSteps, UioSteps, uioVars
<1>0. /\ pc \in [Procs -> Ended \cup SysfsSteps \cup CdevSteps \cup UioSteps]
      /\ \A q \in Procs \ {p} : pc'[q] = pc[q]
      /\ pc'[p] = x
  BY DEF TypeOK, LineTypeOK
<1>1. TypeOK'
  BY DEF TypeOK, UioTypeOK
<1>2. CrossInv'
  BY <1>0 DEF CrossInv
<1>3. ASSUME NEW q \in Procs
      PROVE  HandleInv(q)' /\ RoundInv(q)'
  <2>1. q # "free" /\ q # "sysfs"
    BY ProcsAssumption
  <2>2. HandleInv(q)'
    BY <1>0, <2>1 DEF HandleInv
  <2>3. RoundInv(q)'
    BY <1>0 DEF RoundInv
  <2> QED
    BY <2>2, <2>3
<1>4. ASSUME NEW q \in Procs, q # p
      PROVE  AloneInv(q)' /\ ReportInv(q)'
  <2>1. pc[q] \in SysfsSteps => q \in crossed
    BY <1>4 DEF CrossInv
  <2>2. AloneInv(q)'
    BY <1>0, <1>4, <2>1 DEF AloneInv
  <2>3. ReportInv(q)'
    BY <1>0, <1>4 DEF ReportInv
  <2> QED
    BY <2>2, <2>3
<1>5. LeakExplained'
  BY <1>0 DEF LeakExplained, ReportInv
<1>6. FailureExplained'
  BY <1>0 DEF OutcomesExplained, FailureExplained
<1>7. UioNoLostInterrupt'
  BY <1>0 DEF UioNoLostInterrupt
<1> QED
  BY <1>1, <1>2, <1>3, <1>4, <1>5, <1>6, <1>7 DEF OutcomesExplained

\* gpio_config(): where it leads, and why it fails.
LEMMA ConfigLeads ==
  ASSUME IInv, NEW p \in Procs, NEW attr \in SysfsSteps \ {"access", "export"},
         NEW accepted \in BOOLEAN, NEW next \in SysfsSteps \cup {"done"}, NEW sound \in BOOLEAN,
         ConfigMeets(p, attr, accepted, next, sound)
  PROVE  /\ pc[p] = attr
         /\ met \subseteq met' /\ met' \subseteq Procs
         /\ ~sound => p \in met'
         /\ \/ /\ pc' = [pc EXCEPT ![p] = next] /\ pc'[p] = next
               /\ owner = "sysfs" /\ accepted /\ Stored(p, attr)
            \/ /\ pc' = [pc EXCEPT ![p] = "failed"] /\ pc'[p] = "failed"
               /\ ~Stored(p, attr)
               /\ accepted => p \in met' \cup crossed
<1>1. pc \in [Procs -> Ended \cup SysfsSteps \cup CdevSteps \cup UioSteps] /\ met \subseteq Procs
  BY DEF IInv, TypeOK, LineTypeOK
<1>2. PICK ok \in BOOLEAN :
        /\ Goto(p, attr, IF ok /\ owner = "sysfs" /\ accepted THEN next ELSE "failed")
        /\ Met(p, ok /\ sound)
  BY DEF ConfigMeets, Outcomes
<1>3. /\ pc[p] = attr /\ met \subseteq met' /\ met' \subseteq Procs
      /\ ~sound => p \in met'
  BY <1>1, <1>2 DEF Goto, Met
<1>4. p \notin crossed => owner = "sysfs"
  BY <1>3 DEF IInv, AloneInv
<1>5. CASE ok /\ owner = "sysfs" /\ accepted
  <2>1. pc' = [pc EXCEPT ![p] = next] /\ pc'[p] = next /\ next # "failed"
    BY <1>1, <1>2, <1>5 DEF Goto, SysfsSteps
  <2> QED
    BY <1>3, <1>5, <2>1 DEF Stored
<1>6. CASE ~(ok /\ owner = "sysfs" /\ accepted)
  <2>1. pc' = [pc EXCEPT ![p] = "failed"] /\ pc'[p] = "failed"
    BY <1>1, <1>2, <1>6 DEF Goto
  <2>2. accepted => p \in met' \cup crossed
    BY <1>2, <1>4, <1>6 DEF Met
  <2> QED
    BY <1>3, <2>1, <2>2 DEF Stored
<1> QED
  BY <1>5, <1>6

-----------------------------------------------------------------------------
(* The sysfs program.                                                      *)

\* access() and the export after it.
LEMMA ExportSteps ==
  ASSUME IInv, NEW p \in Procs, Access(p) \/ Export(p), UNCHANGED uioVars
  PROVE  IInv'
<1> USE DEF line, history
<1>0. /\ pc \in [Procs -> Ended \cup SysfsSteps \cup CdevSteps \cup UioSteps]
      /\ met \subseteq Procs /\ hung \subseteq crossed /\ AloneInv(p) /\ ReportInv(p)
      /\ p # "free" /\ p # "sysfs"
  BY ProcsAssumption DEF IInv, TypeOK, LineTypeOK, CrossInv
<1>1. CASE Access(p)
  <2> DEFINE x == IF owner = "sysfs" THEN "direction" ELSE "export"
  <2>1. /\ pc[p] = "access" /\ pc' = [pc EXCEPT ![p] = x] /\ pc'[p] = x
        /\ UNCHANGED <<owner, dir, level, edge, mode, val, reported, pending, hung, crossed, met>>
    BY <1>0, <1>1 DEF Access, AccessThen, Goto
  <2>2. x \in SysfsSteps /\ pc[p] \in SysfsSteps
    BY <2>1 DEF SysfsSteps
  <2>3. LineTypeOK'
    BY <2>1, <2>2 DEF IInv, TypeOK, LineTypeOK
  <2>4. AloneInv(p)'
    BY <1>0, <2>1 DEF AloneInv, SysfsSteps
  <2>5. ReportInv(p)'
    BY <1>0, <2>1 DEF ReportInv, SysfsSteps, CdevSteps, UioSteps
  <2>6. x # "done" /\ x # "failed"
    OBVIOUS
  <2> HIDE DEF x
  <2> QED
    BY <1>0, <2>1, <2>2, <2>3, <2>4, <2>5, <2>6, SysfsFrame
<1>2. CASE Export(p)
  <2>1. PICK ok \in BOOLEAN :
          IF ok /\ owner = "free"
            THEN Goto(p, "export", "direction") /\ owner' = "sysfs" /\ UNCHANGED met
            ELSE Goto(p, "export", "failed") /\ UNCHANGED owner /\ Met(p, ok /\ owner \notin Procs)
    BY <1>2 DEF Export, ExportElse, Outcomes
  <2>2. UNCHANGED <<dir, level, edge, mode, val, reported, pending, hung, crossed>>
    BY <1>2 DEF Export, ExportElse
  <2>3. CASE ok /\ owner = "free"
    <3>1. /\ pc[p] = "export" /\ pc' = [pc EXCEPT ![p] = "direction"] /\ pc'[p] = "direction"
          /\ owner' = "sysfs" /\ met' = met
      BY <1>0, <2>1, <2>3 DEF Goto
    <3>2. LineTypeOK'
      BY <2>2, <3>1 DEF IInv, TypeOK, LineTypeOK, SysfsSteps
    <3>3. AloneInv(p)'
      BY <1>0, <2>2, <3>1 DEF AloneInv, SysfsSteps
    <3>4. ReportInv(p)'
      BY <1>0, <2>2, <3>1 DEF ReportInv, SysfsSteps, CdevSteps, UioSteps
    <3>5. "direction" \in SysfsSteps /\ pc[p] \in SysfsSteps
      BY <3>1 DEF SysfsSteps
    <3> QED
      BY <1>0, <2>2, <2>3, <3>1, <3>2, <3>3, <3>4, <3>5, SysfsFrame
  <2>4. CASE ~(ok /\ owner = "free")
    <3>1. /\ pc[p] = "export" /\ pc' = [pc EXCEPT ![p] = "failed"] /\ pc'[p] = "failed"
          /\ owner' = owner /\ met \subseteq met' /\ met' \subseteq Procs
      BY <1>0, <2>1, <2>4 DEF Goto, Met
    <3>2. p \in met' \cup crossed
      <4>1. CASE ok /\ owner \notin Procs
        <5>1. owner = "sysfs"
          BY <2>4, <4>1 DEF IInv, TypeOK, LineTypeOK
        <5> QED
          BY <1>0, <3>1, <5>1 DEF AloneInv
      <4>2. CASE ~(ok /\ owner \notin Procs)
        BY <2>1, <2>4, <4>2 DEF Met
      <4> QED
        BY <4>1, <4>2
    <3>3. LineTypeOK'
      BY <2>2, <3>1 DEF IInv, TypeOK, LineTypeOK, Ended
    <3>4. AloneInv(p)' /\ ReportInv(p)'
      BY <1>0, <2>2, <3>1 DEF AloneInv, ReportInv, SysfsSteps, CdevSteps, UioSteps
    <3>5. pc[p] \in SysfsSteps
      BY <3>1 DEF SysfsSteps
    <3> QED
      BY <1>0, <2>2, <3>1, <3>2, <3>3, <3>4, <3>5, SysfsFrame
  <2> QED
    BY <2>3, <2>4
<1> QED
  BY <1>1, <1>2

\* The attribute files.  A process that runs alone is refused only for an edge that it
\* found armed.
LEMMA AttributeSteps ==
  ASSUME IInv, NEW p \in Procs,
         Direction(p) \/ ActiveLow(p) \/ SetEdge(p) \/ SetValue(p) \/ GetValue(p),
         UNCHANGED uioVars
  PROVE  IInv'
<1> USE DEF line, history
<1>0. /\ pc \in [Procs -> Ended \cup SysfsSteps \cup CdevSteps \cup UioSteps]
      /\ met \subseteq Procs /\ hung \subseteq crossed /\ AloneInv(p) /\ ReportInv(p)
      /\ reported \in [Procs -> Levels \cup {"none"}] /\ val[p] \in Levels
      /\ edge \in BOOLEAN
  BY DEF IInv, TypeOK, LineTypeOK, CrossInv
<1>1. CASE Direction(p)
  <2> DEFINE accepted == mode[p] = "write" => ~edge
             next == IF mode[p] = "int" THEN "edge" ELSE "active_low"
             attr == "direction"
  <2>1. /\ ConfigMeets(p, attr, accepted, next, TRUE) /\ accepted \in BOOLEAN /\ next \in SysfsSteps
        /\ next # "done" /\ next # "failed" /\ attr \in SysfsSteps \ {"access", "export"}
    BY <1>0, <1>1 DEF Direction, Config, SysfsSteps
  <2>2. /\ IF Stored(p, attr) THEN IF mode[p] = "write" THEN dir' = "out" /\ level' = "low"
                                                        ELSE dir' = "in" /\ UNCHANGED level
                              ELSE UNCHANGED <<dir, level>>
        /\ UNCHANGED <<owner, edge, mode, val, reported, pending, hung, crossed>>
    BY <1>1 DEF Direction
  <2>3. p \notin met \cup crossed => accepted
    BY <1>0, <2>1, ConfigLeads DEF AloneInv
  <2> HIDE DEF accepted
  <2>4. CASE pc'[p] = next
    <3>1. /\ pc[p] = attr /\ pc' = [pc EXCEPT ![p] = next] /\ owner = "sysfs"
          /\ met \subseteq met' /\ met' \subseteq Procs /\ Stored(p, attr)
      BY <2>1, <2>4, ConfigLeads
    <3>2. LineTypeOK'
      BY <2>1, <2>2, <3>1 DEF IInv, TypeOK, LineTypeOK, Levels
    <3>3. AloneInv(p)'
      BY <1>0, <2>2, <2>4, <3>1 DEF AloneInv, SysfsSteps
    <3>4. ReportInv(p)'
      BY <1>0, <2>2, <2>4, <3>1 DEF ReportInv, SysfsSteps, CdevSteps, UioSteps
    <3> QED
      BY <1>0, <2>1, <2>2, <3>1, <3>2, <3>3, <3>4, SysfsFrame
  <2>5. CASE pc'[p] = "failed"
    <3>1. /\ pc[p] = attr /\ pc' = [pc EXCEPT ![p] = "failed"]
          /\ met \subseteq met' /\ met' \subseteq Procs /\ ~Stored(p, attr)
          /\ p \in met' \cup crossed
      BY <2>1, <2>3, <2>5, ConfigLeads
    <3>2. LineTypeOK'
      BY <2>2, <3>1 DEF IInv, TypeOK, LineTypeOK, Ended
    <3>3. AloneInv(p)' /\ ReportInv(p)'
      BY <1>0, <2>2, <2>5 DEF AloneInv, ReportInv, SysfsSteps, CdevSteps, UioSteps
    <3> QED
      BY <1>0, <2>1, <2>2, <3>1, <3>2, <3>3, SysfsFrame
  <2> QED
    BY <2>1, <2>4, <2>5, ConfigLeads
<1>2. CASE ActiveLow(p)
  <2>1. ConfigMeets(p, "active_low", TRUE, "edge", TRUE)
    BY <1>2 DEF ActiveLow, Config
  <2>2. UNCHANGED <<owner, dir, level, edge, mode, val, reported, pending, hung, crossed>>
    BY <1>2 DEF ActiveLow
  <2>3. "active_low" \in SysfsSteps \ {"access", "export"} /\ "edge" \in SysfsSteps
    BY DEF SysfsSteps
  <2>4. /\ pc[p] = "active_low" /\ met \subseteq met' /\ met' \subseteq Procs
        /\ \/ pc' = [pc EXCEPT ![p] = "edge"] /\ pc'[p] = "edge" /\ owner = "sysfs"
           \/ /\ pc' = [pc EXCEPT ![p] = "failed"] /\ pc'[p] = "failed"
              /\ p \in met' \cup crossed
    BY <2>1, <2>3, ConfigLeads
  <2>5. LineTypeOK'
    BY <2>2, <2>3, <2>4 DEF IInv, TypeOK, LineTypeOK, Ended
  <2>6. AloneInv(p)'
    BY <1>0, <2>2, <2>4 DEF AloneInv, SysfsSteps
  <2>7. ReportInv(p)'
    BY <1>0, <2>2, <2>4 DEF ReportInv, SysfsSteps, CdevSteps, UioSteps
  <2>8. CASE pc'[p] = "edge"
    BY <1>0, <2>2, <2>3, <2>4, <2>5, <2>6, <2>7, <2>8, SysfsFrame
  <2>9. CASE pc'[p] = "failed"
    BY <1>0, <2>2, <2>3, <2>4, <2>5, <2>6, <2>7, <2>9, SysfsFrame
  <2> QED
    BY <2>4, <2>8, <2>9
<1>3. CASE SetEdge(p)
  <2> DEFINE accepted == mode[p] = "int" => dir = "in"
             next == CASE mode[p] = "write" -> "value"
                       [] mode[p] = "read" -> "get"
                       [] OTHER -> "open"
             attr == "edge"
  <2>0. /\ mode[p] = "write" => next = "value"
        /\ mode[p] = "read" => next = "get"
        /\ mode[p] # "write" /\ mode[p] # "read" => next = "open"
    OBVIOUS
  <2>1. ConfigMeets(p, attr, accepted, next, TRUE) /\ accepted \in BOOLEAN
    BY <1>3 DEF SetEdge, Config
  <2>2. /\ edge' = IF Stored(p, attr) THEN mode[p] = "int" ELSE edge
        /\ UNCHANGED <<owner, dir, level, mode, val, reported, pending, hung, crossed>>
    BY <1>3 DEF SetEdge
  <2> HIDE DEF next
  <2>3. /\ next \in SysfsSteps /\ next # "done" /\ next # "failed"
        /\ attr \in SysfsSteps \ {"access", "export"}
    BY <2>0 DEF SysfsSteps
  <2>4. p \notin crossed => accepted
    BY <1>0, <2>1, <2>3, ConfigLeads DEF AloneInv
  <2> HIDE DEF accepted
  <2>5. CASE pc'[p] = next
    <3>1. /\ pc[p] = attr /\ pc' = [pc EXCEPT ![p] = next] /\ owner = "sysfs"
          /\ met \subseteq met' /\ met' \subseteq Procs /\ Stored(p, attr)
      BY <2>1, <2>3, <2>5, ConfigLeads
    <3>2. edge' \in BOOLEAN /\ (edge' => mode[p] = "int")
      BY <2>2, <3>1
    <3>3. LineTypeOK'
      BY <2>2, <2>3, <3>1, <3>2 DEF IInv, TypeOK, LineTypeOK
    <3>4. AloneInv(p)'
      BY <1>0, <2>0, <2>2, <2>5, <3>1, <3>2 DEF AloneInv, SysfsSteps
    <3>5. ReportInv(p)'
      BY <1>0, <2>0, <2>2, <2>5, <3>1 DEF ReportInv, SysfsSteps, CdevSteps, UioSteps
    <3> QED
      BY <1>0, <2>2, <2>3, <3>1, <3>3, <3>4, <3>5, SysfsFrame
  <2>6. CASE pc'[p] = "failed"
    <3>1. /\ pc[p] = attr /\ pc' = [pc EXCEPT ![p] = "failed"]
          /\ met \subseteq met' /\ met' \subseteq Procs /\ ~Stored(p, attr)
          /\ p \in met' \cup crossed
      BY <2>1, <2>3, <2>4, <2>6, ConfigLeads
    <3>2. LineTypeOK'
      BY <2>2, <3>1 DEF IInv, TypeOK, LineTypeOK, Ended
    <3>3. AloneInv(p)' /\ ReportInv(p)'
      BY <1>0, <2>2, <2>6 DEF AloneInv, ReportInv, SysfsSteps, CdevSteps, UioSteps
    <3> QED
      BY <1>0, <2>2, <2>3, <3>1, <3>2, <3>3, SysfsFrame
  <2> QED
    BY <2>1, <2>3, <2>5, <2>6, ConfigLeads
<1>4. CASE SetValue(p)
  <2> DEFINE accepted == dir = "out"
             attr == "value"
  <2>1. ConfigMeets(p, attr, accepted, "get", TRUE) /\ accepted \in BOOLEAN
    BY <1>4 DEF SetValue, SetValueTo, Config
  <2>2. /\ level' = IF Stored(p, attr) THEN val[p] ELSE level
        /\ UNCHANGED <<owner, dir, edge, mode, val, reported, pending, hung, crossed>>
    BY <1>4 DEF SetValue, SetValueTo
  <2>3. attr \in SysfsSteps \ {"access", "export"} /\ "get" \in SysfsSteps
    BY DEF SysfsSteps
  <2>4. p \notin crossed => accepted
    BY <1>0, <2>1, <2>3, ConfigLeads DEF AloneInv
  <2> HIDE DEF accepted
  <2>5. CASE pc'[p] = "get"
    <3>1. /\ pc[p] = attr /\ pc' = [pc EXCEPT ![p] = "get"] /\ owner = "sysfs"
          /\ met \subseteq met' /\ met' \subseteq Procs /\ Stored(p, attr)
      BY <2>1, <2>3, <2>5, ConfigLeads
    <3>2. LineTypeOK'
      BY <1>0, <2>2, <2>3, <3>1 DEF IInv, TypeOK, LineTypeOK
    <3>3. AloneInv(p)'
      BY <1>0, <2>2, <2>5, <3>1 DEF AloneInv, SysfsSteps
    <3>4. ReportInv(p)'
      BY <1>0, <2>2, <2>5, <3>1 DEF ReportInv, SysfsSteps, CdevSteps, UioSteps
    <3> QED
      BY <1>0, <2>2, <2>3, <3>1, <3>2, <3>3, <3>4, SysfsFrame
  <2>6. CASE pc'[p] = "failed"
    <3>1. /\ pc[p] = attr /\ pc' = [pc EXCEPT ![p] = "failed"]
          /\ met \subseteq met' /\ met' \subseteq Procs /\ ~Stored(p, attr)
          /\ p \in met' \cup crossed
      BY <2>1, <2>3, <2>4, <2>6, ConfigLeads
    <3>2. LineTypeOK'
      BY <2>2, <3>1 DEF IInv, TypeOK, LineTypeOK, Ended
    <3>3. AloneInv(p)' /\ ReportInv(p)'
      BY <1>0, <2>2, <2>6 DEF AloneInv, ReportInv, SysfsSteps, CdevSteps, UioSteps
    <3> QED
      BY <1>0, <2>2, <2>3, <3>1, <3>2, <3>3, SysfsFrame
  <2> QED
    BY <2>1, <2>3, <2>5, <2>6, ConfigLeads
<1>5. CASE GetValue(p)
  <2>2. UNCHANGED <<owner, dir, level, edge, mode, val, pending, hung, crossed>>
    BY <1>5 DEF GetValue
  <2> DEFINE sound(v) == dir = "out" => v = level
  <2>3. PICK v \in Sensed :
          /\ ConfigMeets(p, "get", TRUE, "unexport", sound(v))
          /\ reported' = IF Stored(p, "get") THEN [reported EXCEPT ![p] = v] ELSE reported
    BY <1>5 DEF GetValue
  <2>4. v \in Levels /\ sound(v) \in BOOLEAN
    BY DEF Sensed, IInv, TypeOK, LineTypeOK
  <2>5. "get" \in SysfsSteps \ {"access", "export"} /\ "unexport" \in SysfsSteps
    BY DEF SysfsSteps
  <2>6. /\ pc[p] = "get" /\ met \subseteq met' /\ met' \subseteq Procs
        /\ ~sound(v) => p \in met'
        /\ \/ /\ pc' = [pc EXCEPT ![p] = "unexport"] /\ pc'[p] = "unexport"
              /\ owner = "sysfs" /\ Stored(p, "get")
           \/ /\ pc' = [pc EXCEPT ![p] = "failed"] /\ pc'[p] = "failed"
              /\ p \in met' \cup crossed
    BY <2>3, <2>4, <2>5, ConfigLeads
  <2>7. reported' \in [Procs -> Levels \cup {"none"}] /\ \A q \in Procs \ {p} : reported'[q] = reported[q]
    BY <1>0, <2>3, <2>4
  <2>8. LineTypeOK'
    BY <2>2, <2>5, <2>6, <2>7 DEF IInv, TypeOK, LineTypeOK, Ended
  <2>9. AloneInv(p)'
    BY <1>0, <2>2, <2>6 DEF AloneInv, SysfsSteps
  <2>10. CASE pc'[p] = "unexport"
    <3>1. reported'[p] = v /\ Stored(p, "get") /\ owner = "sysfs"
      BY <1>0, <2>3, <2>6, <2>10
    <3>2. p \notin crossed \cup met' /\ mode[p] = "write" => v = val[p]
      BY <1>0, <2>6 DEF AloneInv
    <3>3. ReportInv(p)'
      BY <1>0, <2>2, <2>6, <2>10, <3>1, <3>2
         DEF ReportInv, SysfsSteps, CdevSteps, UioSteps, SysfsModes
    <3> QED
      BY <1>0, <2>2, <2>5, <2>6, <2>7, <2>8, <2>9, <2>10, <3>3, SysfsFrame
  <2>11. CASE pc'[p] = "failed"
    <3>1. ReportInv(p)'
      BY <2>11 DEF ReportInv, SysfsSteps, CdevSteps, UioSteps
    <3> QED
      BY <1>0, <2>2, <2>5, <2>6, <2>7, <2>8, <2>9, <2>11, <3>1, SysfsFrame
  <2> QED
    BY <2>6, <2>10, <2>11
<1> QED
  BY <1>1, <1>2, <1>3, <1>4, <1>5

\* gpio_unexport(): a node that is removed with its value file open means two processes.
LEMMA UnexportStep ==
  ASSUME IInv, NEW p \in Procs, Unexport(p), UNCHANGED uioVars
  PROVE  IInv'
<1>0. /\ pc \in [Procs -> Ended \cup SysfsSteps \cup CdevSteps \cup UioSteps]
      /\ met \subseteq Procs /\ hung \subseteq crossed /\ AloneInv(p) /\ ReportInv(p)
      /\ hung \subseteq Procs
  BY DEF IInv, TypeOK, LineTypeOK, CrossInv
<1>1. ConfigMeets(p, "unexport", TRUE, "done", TRUE)
  BY DEF Unexport, UnexportTo, Config
<1>2. /\ IF Stored(p, "unexport")
           THEN /\ owner' = "free" /\ edge' = FALSE
                /\ hung' = hung \cup {q \in Procs : pc[q] \in {"poll", "reread"}}
           ELSE UNCHANGED <<owner, edge, hung>>
      /\ UNCHANGED <<dir, level, mode, val, reported, pending, crossed>>
  BY DEF Unexport, UnexportTo
<1>3. "unexport" \in SysfsSteps \ {"access", "export"}
  BY DEF SysfsSteps
<1>a. /\ pc[p] = "unexport" /\ met \subseteq met' /\ met' \subseteq Procs
      /\ \/ /\ pc' = [pc EXCEPT ![p] = "done"] /\ pc'[p] = "done"
            /\ owner = "sysfs" /\ Stored(p, "unexport")
         \/ /\ pc' = [pc EXCEPT ![p] = "failed"] /\ pc'[p] = "failed"
            /\ ~Stored(p, "unexport") /\ p \in met' \cup crossed
  BY <1>1, <1>3, ConfigLeads
<1>4. CASE pc'[p] = "done"
  <2>1. /\ pc[p] = "unexport" /\ pc' = [pc EXCEPT ![p] = "done"] /\ owner = "sysfs"
        /\ met \subseteq met' /\ met' \subseteq Procs /\ Stored(p, "unexport")
    BY <1>4, <1>a
  <2>2. ASSUME NEW q \in Procs, pc[q] \in {"poll", "reread"}
        PROVE  q \in crossed
    <3>1. q # p /\ pc[q] \in SysfsSteps /\ pc[p] \in SysfsSteps
      BY <2>1, <2>2 DEF SysfsSteps
    <3> QED
      BY <3>1 DEF IInv, CrossInv
  <2>3. hung' \subseteq crossed /\ hung' \subseteq Procs
    BY <1>0, <1>2, <2>1, <2>2
  <2>4. LineTypeOK'
    BY <1>2, <2>1, <2>3 DEF IInv, TypeOK, LineTypeOK, Ended
  <2>5. AloneInv(p)' /\ ReportInv(p)'
    BY <1>0, <1>2, <1>4, <2>1 DEF AloneInv, ReportInv, SysfsSteps, CdevSteps, UioSteps
  <2> QED
    BY <1>0, <1>2, <1>3, <2>1, <2>3, <2>4, <2>5, SysfsFrame
<1>5. CASE pc'[p] = "failed"
  <2>1. /\ pc[p] = "unexport" /\ pc' = [pc EXCEPT ![p] = "failed"]
        /\ met \subseteq met' /\ met' \subseteq Procs /\ ~Stored(p, "unexport")
        /\ p \in met' \cup crossed
    BY <1>5, <1>a
  <2>2. LineTypeOK'
    BY <1>2, <2>1 DEF IInv, TypeOK, LineTypeOK, Ended
  <2>3. AloneInv(p)' /\ ReportInv(p)'
    BY <1>0, <1>2, <1>5 DEF AloneInv, ReportInv, SysfsSteps, CdevSteps, UioSteps
  <2> QED
    BY <1>0, <1>2, <1>3, <2>1, <2>2, <2>3, SysfsFrame
<1> QED
  BY <1>4, <1>5, <1>a

\* gpio_edge_int(): its loop fails only on a node that was removed.
LEMMA EventSteps ==
  ASSUME IInv, NEW p \in Procs, OpenValue(p) \/ Poll(p) \/ Reread(p), UNCHANGED uioVars
  PROVE  IInv'
<1> USE DEF line, history
<1>0. /\ pc \in [Procs -> Ended \cup SysfsSteps \cup CdevSteps \cup UioSteps]
      /\ met \subseteq Procs /\ hung \subseteq crossed /\ AloneInv(p) /\ ReportInv(p)
      /\ pending \in [Procs -> 0..Fifo] /\ hung \subseteq Procs
      /\ 0 \in 0..Fifo
  BY FifoAssumption DEF IInv, TypeOK, LineTypeOK, CrossInv
<1>1. /\ pc[p] \in {"open", "poll", "reread"} /\ met \subseteq met' /\ met' \subseteq Procs
      /\ UNCHANGED <<owner, dir, level, edge, mode, val, reported, crossed>>
      /\ pending' \in [Procs -> 0..Fifo] /\ hung' \subseteq hung
      /\ \/ pc' = [pc EXCEPT ![p] = "poll"]
         \/ pc' = [pc EXCEPT ![p] = "reread"]
         \/ pc' = [pc EXCEPT ![p] = "failed"] /\ p \in met' \cup crossed
      /\ p \notin crossed => owner = "sysfs"
  <2>1. CASE OpenValue(p)
    <3>1. "open" \in SysfsSteps \ {"access", "export"} /\ "poll" \in SysfsSteps
      BY DEF SysfsSteps
    <3>2. /\ pc[p] = "open" /\ met \subseteq met' /\ met' \subseteq Procs
          /\ \/ pc' = [pc EXCEPT ![p] = "poll"] /\ owner = "sysfs"
             \/ pc' = [pc EXCEPT ![p] = "failed"] /\ p \in met' \cup crossed
      BY <2>1, <3>1, ConfigLeads DEF OpenValue, Config
    <3> QED
      BY <1>0, <2>1, <3>1, <3>2 DEF OpenValue, AloneInv
  <2>2. CASE Poll(p)
    BY <1>0, <2>2 DEF Poll, Goto, AloneInv, SysfsSteps
  <2>3. CASE Reread(p)
    <3>1. CASE p \in hung
      BY <1>0, <2>3, <3>1 DEF Reread, RereadFrom, Goto, AloneInv
    <3>2. CASE p \notin hung
      BY <1>0, <2>3, <3>2 DEF Reread, RereadFrom, Goto, AloneInv, SysfsSteps
    <3> QED
      BY <3>1, <3>2
  <2> QED
    BY <2>1, <2>2, <2>3
<1>2. PICK x \in {"poll", "reread", "failed"} :
        /\ pc' = [pc EXCEPT ![p] = x] /\ pc'[p] = x
        /\ x = "failed" => p \in met' \cup crossed
  BY <1>0, <1>1
<1>3. /\ pc[p] \in SysfsSteps /\ x \in SysfsSteps \cup {"done", "failed"} /\ x # "done"
      /\ hung' \subseteq crossed
  BY <1>0, <1>1 DEF SysfsSteps
<1>4. LineTypeOK'
  BY <1>0, <1>1, <1>2 DEF IInv, TypeOK, LineTypeOK, Ended, SysfsSteps
<1>5. AloneInv(p)'
  <2>1. p \notin met' /\ edge => p \in crossed \/ mode[p] = "int"
    BY <1>0, <1>1, <1>3 DEF AloneInv
  <2> QED
    BY <1>1, <1>2, <2>1 DEF AloneInv, SysfsSteps
<1>6. ReportInv(p)'
  BY <1>0, <1>1, <1>2, <1>3 DEF ReportInv, SysfsSteps, CdevSteps, UioSteps
<1> QED
  BY <1>1, <1>2, <1>3, <1>4, <1>5, <1>6, SysfsFrame

-----------------------------------------------------------------------------
(* The cdev program.                                                       *)

\* A step of cdev process p.  It changes the line only if it owns it or takes it while
\* it is free, so a sysfs process that runs alone does not notice.
LEMMA CdevFrame ==
  ASSUME IInv, NEW p \in Procs, pc[p] \in CdevSteps,
         NEW x \in CdevSteps \cup {"done", "failed"}, pc' = [pc EXCEPT ![p] = x],
         UNCHANGED <<mode, val, crossed, hung, edge, uioVars>>,
         \A q \in Procs \ {p} : reported'[q] = reported[q],
         \/ UNCHANGED <<owner, dir, level>>
         \/ owner \in {"free", p} /\ owner' \in {"free", p},
         met \subseteq met', x = "failed" => p \in met',
         LineTypeOK', HandleInv(p)', ReportInv(p)'
  PROVE  IInv'
<1> USE DEF IInv, SysfsSteps, CdevSteps, UioSteps, uioVars
<1>0. /\ pc \in [Procs -> Ended \cup SysfsSteps \cup CdevSteps \cup UioSteps]
      /\ \A q \in Procs \ {p} : pc'[q] = pc[q]
      /\ pc'[p] = x /\ p # "sysfs"
  BY ProcsAssumption DEF TypeOK, LineTypeOK
<1>1. TypeOK'
  BY DEF TypeOK, UioTypeOK
<1>2. CrossInv'
  BY <1>0 DEF CrossInv
<1>3. AloneInv(p)' /\ RoundInv(p)'
  BY <1>0 DEF AloneInv, RoundInv
<1>4. ASSUME NEW q \in Procs, q # p
      PROVE  HandleInv(q)' /\ AloneInv(q)' /\ ReportInv(q)' /\ RoundInv(q)'
  <2>1. q # "free"
    BY ProcsAssumption
  <2>2. HandleInv(q)'
    BY <1>0, <1>4, <2>1 DEF HandleInv
  <2>3. AloneInv(q)'
    BY <1>0, <1>4 DEF AloneInv
  <2>4. ReportInv(q)' /\ RoundInv(q)'
    BY <1>0, <1>4 DEF ReportInv, RoundInv
  <2> QED
    BY <2>2, <2>3, <2>4
<1>5. LeakExplained'
  BY <1>0 DEF OutcomesExplained, LeakExplained
<1>6. FailureExplained'
  BY <1>0 DEF OutcomesExplained, FailureExplained
<1>7. UioNoLostInterrupt'
  BY <1>0 DEF UioNoLostInterrupt
<1> QED
  BY <1>1, <1>2, <1>3, <1>4, <1>5, <1>6, <1>7 DEF OutcomesExplained

\* A request takes the line only when it is free.
LEMMA RequestStep ==
  ASSUME IInv, NEW p \in Procs, Request(p), UNCHANGED uioVars
  PROVE  IInv'
<1> USE DEF line
<1>0. /\ pc \in [Procs -> Ended \cup SysfsSteps \cup CdevSteps \cup UioSteps]
      /\ met \subseteq Procs /\ ReportInv(p)
      /\ pending \in [Procs -> 0..Fifo] /\ 0 \in 0..Fifo
  BY FifoAssumption DEF IInv, TypeOK, LineTypeOK
<1> DEFINE first == CASE mode[p] = "event" -> "chread"
                      [] mode[p] = "eventpoll" -> "chpoll"
                      [] OTHER -> "chdata"
<1>1. first \in {"chread", "chpoll", "chdata"}
  OBVIOUS
<1>2. PICK ok \in BOOLEAN :
        /\ IF mode[p] = "list" THEN Goto(p, "request", "done") /\ UNCHANGED line
           ELSE IF ~ok \/ owner # "free" THEN Goto(p, "request", "failed") /\ UNCHANGED line
           ELSE /\ Goto(p, "request", first)
                /\ owner' = p
                /\ IF mode[p] = "set" THEN dir' = "out" /\ level' \in Levels
                                        ELSE dir' = "in" /\ UNCHANGED level
                /\ UNCHANGED edge
        /\ Met(p, ok /\ owner = "free")
        /\ pending' = [pending EXCEPT ![p] = 0]
        /\ UNCHANGED <<mode, val, reported, hung, crossed>>
  BY DEF Request, Outcomes
<1> HIDE DEF first
<1>3. /\ pc[p] = "request" /\ met \subseteq met' /\ met' \subseteq Procs
      /\ pending' \in [Procs -> 0..Fifo] /\ edge' = edge
  <2>1. pc[p] = "request"
    BY <1>2 DEF Goto
  <2> QED
    BY <1>0, <1>2, <2>1 DEF Met, ReportInv
<1>4. PICK x \in {"done", "failed", "chread", "chpoll", "chdata"} :
        /\ pc' = [pc EXCEPT ![p] = x] /\ pc'[p] = x
        /\ x \in {"done", "failed"} => UNCHANGED <<owner, dir, level>>
        /\ x = "failed" => p \in met'
        /\ x = "done" <=> mode[p] = "list"
        /\ x \in {"chread", "chpoll", "chdata"} =>
             /\ owner = "free" /\ owner' = p
             /\ dir' \in {"in", "out"} /\ level' \in Levels
  <2>1. CASE mode[p] = "list"
    BY <1>0, <1>2, <2>1 DEF Goto
  <2>2. CASE mode[p] # "list" /\ (~ok \/ owner # "free")
    BY <1>0, <1>2, <2>2 DEF Goto, Met
  <2>3. CASE mode[p] # "list" /\ ok /\ owner = "free"
    <3>1. level \in Levels
      BY DEF IInv, TypeOK, LineTypeOK
    <3>2. /\ pc' = [pc EXCEPT ![p] = first] /\ owner' = p
          /\ dir' \in {"in", "out"} /\ level' \in Levels
      BY <1>2, <2>3, <3>1 DEF Goto
    <3> QED
      BY <1>0, <1>1, <2>3, <3>2
  <2> QED
    BY <2>1, <2>2, <2>3
<1>5. LineTypeOK'
  BY <1>2, <1>3, <1>4 DEF IInv, TypeOK, LineTypeOK, Ended, CdevSteps
<1>6. HandleInv(p)' /\ ReportInv(p)'
  BY <1>0, <1>2, <1>3, <1>4 DEF HandleInv, ReportInv, SysfsSteps, CdevSteps, UioSteps, CdevModes
<1>7. pc[p] \in CdevSteps /\ x \in CdevSteps \cup {"done", "failed"}
  BY <1>3 DEF CdevSteps
<1> QED
  BY <1>2, <1>3, <1>4, <1>5, <1>6, <1>7, CdevFrame

\* The handle in use and its close.
LEMMA HandleSteps ==
  ASSUME IInv, NEW p \in Procs, Data(p) \/ CloseHandle(p), UNCHANGED uioVars
  PROVE  IInv'
<1> USE DEF line, history
<1>0. /\ pc \in [Procs -> Ended \cup SysfsSteps \cup CdevSteps \cup UioSteps]
      /\ met \subseteq Procs /\ ReportInv(p) /\ HandleInv(p)
      /\ reported \in [Procs -> Levels \cup {"none"}] /\ val[p] \in Levels
  BY DEF IInv, TypeOK, LineTypeOK
<1>1. CASE Data(p)
  <2>1. PICK ok \in BOOLEAN, dies \in BOOLEAN :
          /\ dies => ~ok /\ mode[p] = "set"
          /\ Goto(p, "chdata", IF dies THEN "failed" ELSE "chclose")
          /\ owner' = IF dies THEN "free" ELSE owner
          /\ Met(p, ok)
          /\ level' = IF ok /\ mode[p] = "set" THEN val[p] ELSE level
          /\ \E s \in (IF mode[p] = "set" THEN {val[p]} ELSE Levels) :
               reported' = IF ok THEN [reported EXCEPT ![p] = s] ELSE reported
          /\ UNCHANGED <<dir, edge, mode, val, pending, hung, crossed>>
    BY <1>1 DEF Data, Outcomes
  <2>2. PICK s \in Levels :
          /\ mode[p] = "set" => s = val[p]
          /\ reported' = IF ok THEN [reported EXCEPT ![p] = s] ELSE reported
    BY <1>0, <2>1
  <2> DEFINE x == IF dies THEN "failed" ELSE "chclose"
  <2>3. /\ pc[p] = "chdata" /\ pc' = [pc EXCEPT ![p] = x] /\ pc'[p] = x
        /\ met \subseteq met' /\ met' \subseteq Procs /\ owner = p
        /\ ~ok => p \in met'
    BY <1>0, <2>1 DEF Goto, Met, HandleInv
  <2>4. /\ reported' \in [Procs -> Levels \cup {"none"}] /\ ok => reported'[p] = s
        /\ \A q \in Procs \ {p} : reported'[q] = reported[q]
    BY <1>0, <2>2, <2>3
  <2>5. LineTypeOK'
    BY <1>0, <2>1, <2>3, <2>4 DEF IInv, TypeOK, LineTypeOK, CdevSteps, Ended
  <2>6. HandleInv(p)'
    BY <2>1, <2>3 DEF HandleInv
  <2>7. ReportInv(p)'
    BY <1>0, <2>1, <2>2, <2>3, <2>4 DEF ReportInv, SysfsSteps, CdevSteps, UioSteps, CdevModes
  <2>8. /\ pc[p] \in CdevSteps /\ x \in CdevSteps \cup {"done", "failed"}
        /\ x = "failed" => p \in met'
        /\ owner' \in {"free", p}
    BY <2>1, <2>3 DEF CdevSteps
  <2> HIDE DEF x
  <2> QED
    BY <2>1, <2>3, <2>4, <2>5, <2>6, <2>7, <2>8, CdevFrame
<1>2. CASE CloseHandle(p)
  <2>1. /\ pc[p] = "chclose" /\ pc' = [pc EXCEPT ![p] = "done"] /\ pc'[p] = "done"
        /\ owner' = "free" /\ owner = p
        /\ UNCHANGED <<dir, level, edge, mode, val, reported, pending, hung, crossed, met>>
    BY <1>0, <1>2 DEF CloseHandle, Goto, HandleInv
  <2>2. LineTypeOK'
    BY <2>1 DEF IInv, TypeOK, LineTypeOK, Ended
  <2>3. HandleInv(p)' /\ ReportInv(p)'
    BY <1>0, <2>1 DEF HandleInv, ReportInv, SysfsSteps, CdevSteps, UioSteps, CdevModes
  <2>4. pc[p] \in CdevSteps
    BY <2>1 DEF CdevSteps
  <2> QED
    BY <2>1, <2>2, <2>3, <2>4, CdevFrame
<1> QED
  BY <1>1, <1>2

\* Events come into the queues and are read out of them: the queues stay within Fifo.
LEMMA QueueSteps ==
  ASSUME IInv,
         Edge \/ \E p \in Procs : ReadEvent(p) \/ PollEvent(p),
         UNCHANGED uioVars
  PROVE  IInv'
<1> USE FifoAssumption DEF line, history, uioVars
<1>0. pending \in [Procs -> 0..Fifo] /\ Fifo \in Nat /\ Fifo >= 1
  BY DEF IInv, TypeOK, LineTypeOK
<1>1. pending' \in [Procs -> 0..Fifo]
  <2>1. CASE Edge
    <3>1. ASSUME NEW p \in Procs, Notified(p)
          PROVE  pending[p] + 1 \in 0..Fifo
      BY <1>0, <3>1 DEF Notified
    <3> QED
      BY <1>0, <2>1, <3>1 DEF Edge
  <2>2. ASSUME NEW p \in Procs, ReadEvent(p) \/ PollEvent(p)
        PROVE  pending' \in [Procs -> 0..Fifo]
    <3>1. pending[p] - 1 \in 0..Fifo
      BY <1>0, <2>2 DEF ReadEvent, PollEvent
    <3> QED
      BY <1>0, <2>2, <3>1 DEF ReadEvent, PollEvent
  <2> QED
    BY <2>1, <2>2
<1>2. UNCHANGED <<owner, dir, level, edge, pc, mode, val, reported, hung, crossed, met,
                  unmasked, count, seen, i>>
  BY DEF Edge, ReadEvent, PollEvent
<1>3. TypeOK'
  BY <1>1, <1>2 DEF IInv, TypeOK, LineTypeOK, UioTypeOK
<1> QED
  BY <1>2, <1>3 DEF IInv, CrossInv, HandleInv, AloneInv, ReportInv, RoundInv, OutcomesExplained,
                    LeakExplained, FailureExplained, UioNoLostInterrupt

-----------------------------------------------------------------------------
(* The uio program and its interrupt.                                      *)

\* A step of uio process p, which leaves the line alone.
LEMMA UioFrame ==
  ASSUME IInv, NEW p \in Procs, pc[p] \in UioSteps,
         NEW x \in UioSteps \cup {"done", "failed"}, pc' = [pc EXCEPT ![p] = x],
         UNCHANGED <<others, count>>,
         met \subseteq met', met' \subseteq Procs, x = "failed" => p \in met',
         UioTypeOK', RoundInv(p)', UioNoLostInterrupt',
         \A q \in Procs \ {p} : seen'[q] = seen[q] /\ i'[q] = i[q]
  PROVE  IInv'
<1> USE DEF IInv, SysfsSteps, CdevSteps, UioSteps, others, line
<1>0. /\ pc \in [Procs -> Ended \cup SysfsSteps \cup CdevSteps \cup UioSteps]
      /\ \A q \in Procs \ {p} : pc'[q] = pc[q]
      /\ pc'[p] = x
  BY DEF TypeOK, LineTypeOK
<1>1. TypeOK'
  BY DEF TypeOK, LineTypeOK, Ended
<1>2. CrossInv'
  BY <1>0 DEF CrossInv
<1>3. HandleInv(p)' /\ AloneInv(p)' /\ ReportInv(p)'
  BY <1>0 DEF HandleInv, AloneInv, ReportInv, UioModes
<1>4. ASSUME NEW q \in Procs, q # p
      PROVE  HandleInv(q)' /\ AloneInv(q)' /\ ReportInv(q)' /\ RoundInv(q)'
  BY <1>0, <1>4 DEF HandleInv, AloneInv, ReportInv, RoundInv
<1>5. LeakExplained' /\ FailureExplained'
  BY <1>0 DEF OutcomesExplained, LeakExplained, FailureExplained
<1> QED
  BY <1>1, <1>2, <1>3, <1>4, <1>5 DEF OutcomesExplained

\* Each round unmasks before it waits, and takes the count only when it stops waiting.
LEMMA UioStep ==
  ASSUME IInv, NEW p \in Procs, Uio(p)
  PROVE  IInv'
<1> USE UioAssumption DEF uioVars
<1>0. /\ pc \in [Procs -> Ended \cup SysfsSteps \cup CdevSteps \cup UioSteps]
      /\ met \subseteq Procs /\ UioTypeOK /\ RoundInv(p) /\ UioNoLostInterrupt
      /\ count \in Nat /\ i[p] \in Nat /\ Interrupts \in Nat
  BY DEF IInv, TypeOK, LineTypeOK, UioTypeOK
<1>a. ASSUME TakeCount(p)
      PROVE  /\ seen' \in [Procs -> 0..MaxIrqs] /\ seen'[p] \in {seen[p], count}
             /\ \A q \in Procs \ {p} : seen'[q] = seen[q]
             /\ met \subseteq met' /\ met' \subseteq Procs
  <2>1. PICK ok \in BOOLEAN :
          /\ Met(p, ok)
          /\ seen' = IF ok THEN [seen EXCEPT ![p] = count] ELSE seen
    BY <1>a DEF TakeCount, Outcomes
  <2> QED
    BY <1>0, <2>1 DEF UioTypeOK, Met
<1>1. CASE Unmask(p)
  <2>1. PICK ok \in BOOLEAN :
          /\ Goto(p, "unmask", IF ~ok THEN "failed"
                               ELSE IF mode[p] = "irq" THEN "uiowait" ELSE "uiopoll")
          /\ Met(p, ok)
          /\ unmasked' = IF ok THEN TRUE ELSE unmasked
          /\ UNCHANGED <<others, count, seen, i>>
    BY <1>1 DEF Unmask, UnmaskWith, Outcomes
  <2>2. PICK x \in {"failed", "uiowait", "uiopoll"} :
          /\ pc[p] = "unmask" /\ pc' = [pc EXCEPT ![p] = x] /\ pc'[p] = x
          /\ x = "failed" <=> ~ok
    BY <1>0, <2>1 DEF Goto
  <2>3. met \subseteq met' /\ met' \subseteq Procs /\ (x = "failed" => p \in met')
    BY <1>0, <2>1, <2>2 DEF Met
  <2>4. UioTypeOK' /\ RoundInv(p)'
    BY <1>0, <2>1, <2>2 DEF UioTypeOK, RoundInv
  <2>5. UioNoLostInterrupt'
    BY <1>0, <2>1, <2>2 DEF UioNoLostInterrupt
  <2>6. pc[p] \in UioSteps /\ x \in UioSteps \cup {"done", "failed"}
    BY <2>2 DEF UioSteps
  <2> QED
    BY <2>1, <2>2, <2>3, <2>4, <2>5, <2>6, UioFrame
<1>2. CASE Wait(p)
  <2>1. /\ i' = [i EXCEPT ![p] = @ + 1]
        /\ Goto(p, "uiowait", IF i'[p] = Interrupts THEN "done" ELSE "unmask")
        /\ TakeCount(p)
        /\ UNCHANGED <<others, unmasked, count>>
    BY <1>2 DEF Wait, WaitUpTo
  <2>2. /\ i'[p] = i[p] + 1 /\ seen'[p] \in {seen[p], count}
        /\ seen' \in [Procs -> 0..MaxIrqs] /\ met \subseteq met' /\ met' \subseteq Procs
        /\ \A q \in Procs \ {p} : seen'[q] = seen[q] /\ i'[q] = i[q]
    BY <1>0, <1>a, <2>1 DEF UioTypeOK
  <2>3. PICK x \in {"done", "unmask"} :
          /\ pc[p] = "uiowait" /\ pc' = [pc EXCEPT ![p] = x] /\ pc'[p] = x
          /\ x # "done" => i'[p] # Interrupts
    BY <1>0, <2>1 DEF Goto
  <2>4. i[p] < Interrupts /\ i'[p] \in 0..Interrupts
    BY <1>0, <2>2, <2>3 DEF RoundInv
  <2>5. UioTypeOK'
    BY <1>0, <2>1, <2>2, <2>4 DEF UioTypeOK
  <2>6. RoundInv(p)'
    BY <1>0, <2>1, <2>2, <2>3, <2>4 DEF RoundInv
  <2>7. UioNoLostInterrupt'
    BY <1>0, <2>1, <2>2, <2>3 DEF UioNoLostInterrupt
  <2>8. pc[p] \in UioSteps /\ x \in UioSteps \cup {"done", "failed"} /\ x # "failed"
    BY <2>3 DEF UioSteps
  <2> QED
    BY <1>0, <2>1, <2>2, <2>3, <2>5, <2>6, <2>7, <2>8, UioFrame
<1>3. CASE PollUio(p)
  <2>1. PICK ok \in BOOLEAN :
          /\ Goto(p, "uiopoll", IF ok THEN "uioread" ELSE "failed")
          /\ Met(p, ok)
          /\ UNCHANGED <<others, unmasked, count, seen, i>>
    BY <1>3 DEF PollUio, Outcomes
  <2>2. PICK x \in {"failed", "uioread"} :
          /\ pc[p] = "uiopoll" /\ pc' = [pc EXCEPT ![p] = x] /\ pc'[p] = x
          /\ x = "failed" <=> ~ok
    BY <1>0, <2>1 DEF Goto
  <2>3. met \subseteq met' /\ met' \subseteq Procs /\ (x = "failed" => p \in met')
    BY <1>0, <2>1, <2>2 DEF Met
  <2>4. UioTypeOK' /\ RoundInv(p)'
    BY <1>0, <2>1, <2>2 DEF UioTypeOK, RoundInv
  <2>5. UioNoLostInterrupt'
    BY <1>0, <2>1, <2>2 DEF UioNoLostInterrupt
  <2>6. pc[p] \in UioSteps /\ x \in UioSteps \cup {"done", "failed"}
    BY <2>2 DEF UioSteps
  <2> QED
    BY <2>1, <2>2, <2>3, <2>4, <2>5, <2>6, UioFrame
<1>4. CASE ReadUio(p)
  <2>1. /\ pc[p] = "uioread" /\ pc' = [pc EXCEPT ![p] = "unmask"] /\ pc'[p] = "unmask"
        /\ UNCHANGED <<others, unmasked, count, i>>
    BY <1>0, <1>4 DEF ReadUio, Goto
  <2>2. /\ seen'[p] \in {seen[p], count} /\ seen' \in [Procs -> 0..MaxIrqs]
        /\ met \subseteq met' /\ met' \subseteq Procs
        /\ \A q \in Procs \ {p} : seen'[q] = seen[q]
    BY <1>4, <1>a DEF ReadUio
  <2>3. UioTypeOK'
    BY <1>0, <2>1, <2>2 DEF UioTypeOK
  <2>a. RoundInv(p)'
    BY <1>0, <2>1, <2>2 DEF RoundInv
  <2>4. UioNoLostInterrupt'
    BY <1>0, <2>1, <2>2 DEF UioNoLostInterrupt
  <2>5. pc[p] \in UioSteps /\ "unmask" \in UioSteps
    BY <2>1 DEF UioSteps
  <2> QED
    BY <1>0, <2>1, <2>2, <2>3, <2>a, <2>4, <2>5, UioFrame
<1> QED
  BY <1>1, <1>2, <1>3, <1>4 DEF Uio

\* An interrupt masks itself, and every process that waits has then something to read.
LEMMA IrqStep ==
  ASSUME IInv, Irq
  PROVE  IInv'
<1> USE DEF others, line
<1>1. /\ UNCHANGED <<owner, dir, level, edge, pc, mode, val, reported, pending, hung, crossed,
                     met, seen, i>>
      /\ count' = count + 1 /\ unmasked' = FALSE /\ count < MaxIrqs
  BY DEF Irq
<1>2. count \in Nat /\ MaxIrqs \in Nat /\ count' \in 0..MaxIrqs
  BY <1>1, UioAssumption DEF IInv, TypeOK, UioTypeOK
<1>3. TypeOK'
  BY <1>1, <1>2 DEF IInv, TypeOK, LineTypeOK, UioTypeOK
<1>4. \A p \in Procs : seen[p] \in Nat /\ seen[p] < count'
  BY <1>1, <1>2, UioAssumption DEF IInv, RoundInv, TypeOK, UioTypeOK
<1>5. UioNoLostInterrupt' /\ \A p \in Procs : RoundInv(p)'
  BY <1>1, <1>2, <1>4 DEF IInv, UioNoLostInterrupt, RoundInv
<1> QED
  BY <1>1, <1>3, <1>5 DEF IInv, CrossInv, HandleInv, AloneInv, ReportInv, OutcomesExplained,
                          LeakExplained, FailureExplained

-----------------------------------------------------------------------------
(* Starting and killing a program.                                         *)

\* A start sets the options, and records whom a sysfs process will run beside.
LEMMA StartSteps ==
  ASSUME IInv, NEW p \in Procs, StartSysfs(p) \/ StartCdev(p) \/ StartUio(p)
  PROVE  IInv'
<1> USE DEF line, uioVars
<1>0. /\ pc \in [Procs -> Ended \cup SysfsSteps \cup CdevSteps \cup UioSteps]
      /\ mode \in [Procs -> SysfsModes \cup CdevModes \cup UioModes]
      /\ val \in [Procs -> Levels] /\ seen \in [Procs -> 0..MaxIrqs]
      /\ met \subseteq Procs /\ crossed \subseteq Procs /\ count \in 0..MaxIrqs
      /\ count \in Nat
  BY UioAssumption DEF IInv, TypeOK, LineTypeOK, UioTypeOK
<1>1. PICK first \in {"access", "request", "unmask"},
           m \in SysfsModes \cup CdevModes \cup UioModes :
        /\ Start(p, first, m)
        /\ first = "access" => m \in SysfsModes
        /\ first = "request" => m \in CdevModes
        /\ first = "unmask" => m \in UioModes
  BY DEF StartSysfs, StartCdev, StartUio
<1>2. PICK v \in Levels : val' = [val EXCEPT ![p] = v]
  BY <1>1 DEF Start, Levels
<1>3. /\ pc[p] = "off" /\ pc' = [pc EXCEPT ![p] = first] /\ pc'[p] = first
      /\ mode' = [mode EXCEPT ![p] = m]
      /\ met' = IF edge THEN met \cup {p} ELSE met
      /\ UNCHANGED <<owner, dir, level, edge, reported, pending, hung>>
  BY <1>0, <1>1 DEF Start, Goto
<1>4. \A q \in Procs \ {p} : pc'[q] = pc[q] /\ mode'[q] = mode[q] /\ val'[q] = val[q]
  BY <1>0, <1>2, <1>3
<1>5. /\ crossed \subseteq crossed' /\ crossed' \subseteq Procs
      /\ first = "access" /\ SysfsRunning # {} => crossed' = crossed \cup SysfsRunning \cup {p}
  <2>1. CASE StartSysfs(p)
    BY <1>0, <2>1 DEF StartSysfs, SysfsRunning
  <2>2. CASE StartCdev(p) \/ StartUio(p)
    <3>1. first # "access"
      BY <1>0, <1>3, <2>2 DEF StartCdev, StartUio, Start, Goto
    <3> QED
      BY <1>0, <2>2, <3>1 DEF StartCdev, StartUio
  <2> QED
    BY <2>1, <2>2
<1>6. /\ UNCHANGED <<unmasked, count, i>> /\ seen' \in [Procs -> 0..MaxIrqs]
      /\ \A q \in Procs \ {p} : seen'[q] = seen[q]
      /\ seen'[p] \in {seen[p], count}
  BY <1>0 DEF StartSysfs, StartCdev, StartUio
<1>7. TypeOK'
  <2>1. LineTypeOK'
    BY <1>0, <1>2, <1>3, <1>5 DEF IInv, TypeOK, LineTypeOK, SysfsSteps, CdevSteps, UioSteps
  <2>2. UioTypeOK'
    BY <1>6 DEF IInv, TypeOK, UioTypeOK
  <2> QED
    BY <2>1, <2>2 DEF TypeOK
<1>8. CrossInv'
  <2>1. ASSUME NEW q \in Procs, NEW r \in Procs, q # r,
               pc'[q] \in SysfsSteps, pc'[r] \in SysfsSteps
        PROVE  q \in crossed'
    <3>1. CASE q # p /\ r # p
      BY <2>1, <3>1, <1>4, <1>5 DEF IInv, CrossInv
    <3>2. CASE q = p \/ r = p
      <4>1. first = "access"
        BY <2>1, <3>2, <1>3 DEF SysfsSteps
      <4>2. q \in SysfsRunning \cup {p} /\ SysfsRunning # {}
        BY <2>1, <3>2, <1>4 DEF SysfsRunning
      <4> QED
        BY <4>1, <4>2, <1>5
    <3> QED
      BY <3>1, <3>2
  <2> QED
    BY <2>1, <1>3, <1>5 DEF IInv, CrossInv
<1>9. HandleInv(p)' /\ AloneInv(p)' /\ ReportInv(p)' /\ RoundInv(p)'
  <2>1. HandleInv(p)' /\ AloneInv(p)'
    BY <1>3 DEF HandleInv, AloneInv, SysfsSteps
  <2>2. ReportInv(p)'
    BY <1>0, <1>1, <1>3 DEF IInv, ReportInv, SysfsSteps, CdevSteps, UioSteps
  <2>3. RoundInv(p)'
    BY <1>0, <1>3, <1>6 DEF IInv, RoundInv
  <2> QED
    BY <2>1, <2>2, <2>3
<1>10. ASSUME NEW q \in Procs, q # p
       PROVE  HandleInv(q)' /\ AloneInv(q)' /\ ReportInv(q)' /\ RoundInv(q)'
  <2>1. /\ pc'[q] = pc[q] /\ mode'[q] = mode[q] /\ val'[q] = val[q] /\ seen'[q] = seen[q]
        /\ (q \notin crossed' => q \notin crossed) /\ (q \notin met' => q \notin met)
    BY <1>3, <1>4, <1>5, <1>6, <1>10
  <2>2. HandleInv(q)' /\ AloneInv(q)'
    BY <1>3, <2>1 DEF IInv, HandleInv, AloneInv
  <2>3. ReportInv(q)' /\ RoundInv(q)'
    BY <1>3, <1>6, <2>1 DEF IInv, ReportInv, RoundInv
  <2> QED
    BY <2>2, <2>3
<1>11. LeakExplained'
  <2>1. owner = "sysfs" => \E q \in Procs \ {p} :
          mode[q] \in SysfsModes /\ pc[q] \in SysfsSteps \cup {"failed", "killed"}
    BY <1>3 DEF IInv, OutcomesExplained, LeakExplained, SysfsSteps
  <2> QED
    BY <1>3, <1>4, <2>1 DEF LeakExplained
<1>12. FailureExplained'
  <2>1. ASSUME NEW q \in Procs, pc'[q] = "failed"
        PROVE  q \in met' \cup crossed'
    <3>1. q # p
      BY <1>3, <2>1
    <3>2. q \in met \cup crossed
      BY <1>4, <2>1, <3>1 DEF IInv, OutcomesExplained, FailureExplained
    <3> QED
      BY <1>3, <1>5, <3>2
  <2> QED
    BY <2>1 DEF FailureExplained
<1>13. UioNoLostInterrupt'
  BY <1>3, <1>4, <1>6 DEF IInv, UioNoLostInterrupt
<1> QED
  BY <1>7, <1>8, <1>9, <1>10, <1>11, <1>12, <1>13 DEF IInv, OutcomesExplained

\* A killed process gives back a handle, and leaves an export behind.
LEMMA KillStep ==
  ASSUME IInv, NEW p \in Procs, Kill(p)
  PROVE  IInv'
<1> USE DEF line, history, uioVars
<1>0. pc \in [Procs -> Ended \cup SysfsSteps \cup CdevSteps \cup UioSteps] /\ p # "sysfs"
  BY ProcsAssumption DEF IInv, TypeOK, LineTypeOK
<1>1. /\ pc[p] \notin Ended /\ pc' = [pc EXCEPT ![p] = "killed"] /\ pc'[p] = "killed"
      /\ \A q \in Procs \ {p} : pc'[q] = pc[q]
      /\ owner' = IF owner = p THEN "free" ELSE owner
      /\ UNCHANGED <<dir, level, edge, mode, val, reported, pending, hung, crossed, met,
                     unmasked, count, seen, i>>
  BY <1>0 DEF Kill
<1>2. TypeOK'
  BY <1>1 DEF IInv, TypeOK, LineTypeOK, UioTypeOK, Ended
<1>3. CrossInv'
  BY <1>1 DEF IInv, CrossInv, SysfsSteps
<1>4. HandleInv(p)' /\ AloneInv(p)' /\ ReportInv(p)' /\ RoundInv(p)'
  BY <1>1 DEF IInv, HandleInv, AloneInv, ReportInv, RoundInv, SysfsSteps, CdevSteps, UioSteps, Ended
<1>5. ASSUME NEW q \in Procs, q # p
      PROVE  HandleInv(q)' /\ AloneInv(q)' /\ ReportInv(q)' /\ RoundInv(q)'
  <2>1. HandleInv(q)' /\ ReportInv(q)' /\ RoundInv(q)'
    BY <1>1, <1>5 DEF IInv, HandleInv, ReportInv, RoundInv
  <2>2. AloneInv(q)'
    BY <1>0, <1>1, <1>5 DEF IInv, AloneInv
  <2> QED
    BY <2>1, <2>2
<1>6. LeakExplained' /\ FailureExplained'
  BY <1>0, <1>1 DEF IInv, OutcomesExplained, LeakExplained, FailureExplained, ReportInv
<1>7. UioNoLostInterrupt'
  BY <1>1 DEF IInv, UioNoLostInterrupt
<1> QED
  BY <1>2, <1>3, <1>4, <1>5, <1>6, <1>7 DEF IInv, OutcomesExplained

-----------------------------------------------------------------------------
(* The theorems.                                                           *)

\* Before the first program the line is free and its interrupt is unmasked.
LEMMA InitInv == Init => IInv
<1> SUFFICES ASSUME Init
             PROVE  IInv
  OBVIOUS
<1> USE FifoAssumption, UioAssumption DEF Init, LineInit, UioInit
<1>1. LineTypeOK
  <2>1. 0 \in 0..Fifo
    OBVIOUS
  <2>2. pending \in [Procs -> 0..Fifo] /\ edge \in BOOLEAN
    BY <2>1, Zenon
  <2>3. /\ pc \in [Procs -> Ended \cup SysfsSteps \cup CdevSteps \cup UioSteps]
        /\ mode \in [Procs -> SysfsModes \cup CdevModes \cup UioModes]
        /\ val \in [Procs -> Levels] /\ reported \in [Procs -> Levels \cup {"none"}]
    BY Zenon DEF Levels, Ended, SysfsModes
  <2> QED
    BY <2>2, <2>3, Zenon DEF LineTypeOK, Levels
<1>2. UioTypeOK
  BY DEF UioTypeOK
<1>3. CrossInv
  BY DEF CrossInv, SysfsSteps
<1>4. ASSUME NEW p \in Procs
      PROVE  HandleInv(p) /\ AloneInv(p) /\ ReportInv(p) /\ RoundInv(p)
  BY DEF HandleInv, AloneInv, ReportInv, RoundInv, SysfsSteps, CdevSteps, UioSteps
<1>5. OutcomesExplained /\ UioNoLostInterrupt
  BY DEF OutcomesExplained, LeakExplained, FailureExplained, UioNoLostInterrupt
<1> QED
  BY <1>1, <1>2, <1>3, <1>4, <1>5 DEF IInv, TypeOK

\* The invariant holds in every state of the processes, the line and the interrupt.
LEMMA Invariance == Spec => []IInv
<1>1. IInv /\ [Next]_vars => IInv'
  <2> SUFFICES ASSUME IInv, [Next]_vars
               PROVE  IInv'
    OBVIOUS
  <2>1. ASSUME NEW p \in Procs, StartSysfs(p) \/ StartCdev(p) \/ StartUio(p)
        PROVE  IInv'
    BY <2>1, StartSteps
  <2>2. ASSUME NEW p \in Procs, Sysfs(p), UNCHANGED uioVars
        PROVE  IInv'
    BY <2>2, ExportSteps, AttributeSteps, UnexportStep, EventSteps DEF Sysfs
  <2>3. ASSUME NEW p \in Procs, Cdev(p), UNCHANGED uioVars
        PROVE  IInv'
    BY <2>3, RequestStep, HandleSteps, QueueSteps DEF Cdev
  <2>4. ASSUME NEW p \in Procs, Uio(p)
        PROVE  IInv'
    BY <2>4, UioStep
  <2>5. ASSUME NEW p \in Procs, Kill(p)
        PROVE  IInv'
    BY <2>5, KillStep
  <2>6. CASE (Edge /\ UNCHANGED uioVars) \/ Irq
    BY <2>6, QueueSteps, IrqStep
  <2>7. CASE UNCHANGED vars
    BY <2>7 DEF vars, line, history, uioVars, IInv, TypeOK, LineTypeOK, UioTypeOK, CrossInv,
                HandleInv, AloneInv, ReportInv, RoundInv, OutcomesExplained, LeakExplained,
                FailureExplained, UioNoLostInterrupt
  <2> QED
    BY <2>1, <2>2, <2>3, <2>4, <2>5, <2>6, <2>7 DEF Next, Program
<1> QED
  BY InitInv, <1>1, PTL DEF Spec

\* Type correctness, the bounds of the event queues and of the interrupt loop among it.
THEOREM TypeCorrect == Spec => []TypeOK
<1>1. IInv => TypeOK
  BY DEF IInv
<1> QED
  BY Invariance, <1>1, PTL

\* An export left behind and a failure have a cause: a fault, a line that a handle
\* holds, an edge left armed, or another sysfs process at the same time.
THEOREM OutcomesHaveCauses == Spec => []OutcomesExplained
<1>1. IInv => OutcomesExplained
  BY DEF IInv
<1> QED
  BY Invariance, <1>1, PTL

\* gpio_write() holds the line at its value until it unexports the pin, and prints that
\* value: only another sysfs process, or a pad that reads back another level than it is
\* driven at, makes it print another one.
THEOREM WrittenReported == Spec => []WrittenIsReported
<1>1. IInv => WrittenIsReported
  BY DEF IInv, AloneInv, ReportInv, WrittenIsReported, SysfsSteps
<1> QED
  BY Invariance, <1>1, PTL

\* No uio process waits for a masked interrupt with nothing to read, whoever else unmasks.
THEOREM NoLostInterrupt == Spec => []UioNoLostInterrupt
<1>1. IInv => UioNoLostInterrupt
  BY DEF IInv
<1> QED
  BY Invariance, <1>1, PTL

=============================================================================
