--------------------------- MODULE PmWakeupCount ---------------------------
(***************************************************************************)
(* pm_wakeup_count/pm_wakeup_count.c: read the wakeup count, write it back *)
(* until the kernel accepts it, then write "mem" to /sys/power/state.      *)
(* A suspended system runs no process, here and in PmWakelock.             *)
(***************************************************************************)
EXTENDS PmCore

CONSTANT CountFaults  \* "open", and "read": a read interrupted by a signal

ASSUME CountFaultsAssumption == CountFaults \subseteq {"open", "read"}

VARIABLES
  pc,      \* where main() is
  eof,     \* the file offset of wakeup_count is behind its one line
  buf,     \* the count in the buffer
  n_read,  \* the last read returned more than 0
  ret,     \* what ret holds
  refused  \* history: a write-back was refused

countVars == <<pc, eof, buf, n_read, ret, refused>>

CountTypeOK ==
  /\ pc \in {"open", "read", "test", "write", "while", "state", "exit"}
  /\ eof \in BOOLEAN
  /\ buf \in 0..MaxEvents
  /\ n_read \in BOOLEAN
  /\ ret \in {"uninit", "ok", "error"}
  /\ refused \in BOOLEAN

CountInit ==
  /\ pc = "open"
  /\ eof = FALSE
  /\ buf = 0
  /\ n_read = FALSE
  /\ ret = "uninit"
  /\ refused = FALSE

CountAt(p) == pc = p /\ ~asleep

Open ==
  /\ CountAt("open")
  /\ pc' \in {"read"} \cup (IF "open" \in CountFaults THEN {"exit"} ELSE {})
  /\ UNCHANGED <<pmVars, eof, buf, n_read, ret, refused>>

\* read(): at offset 0 it waits until no event is in progress and delivers the
\* count; behind the line it returns 0 at once and leaves the buffer alone.
ReadInto(count) ==
  /\ CountAt("read")
  /\ eof \/ active = {}
  /\ buf' = IF eof THEN buf ELSE count
  /\ n_read' = ~eof
  /\ eof' = TRUE
  /\ pc' = "test"
  /\ UNCHANGED <<pmVars, ret, refused>>

\* Mutant: a count the kernel never had.
ReadWild == ReadInto(MaxEvents + 1)

Read == ReadInto(cnt)

\* A signal ends the wait: -1, and the offset does not move.
ReadInterrupted ==
  /\ CountAt("read")
  /\ "read" \in CountFaults
  /\ ~eof
  /\ n_read' = FALSE
  /\ pc' = "test"
  /\ UNCHANGED <<pmVars, eof, buf, ret, refused>>

\* if (n_read > 0) write back, else continue: straight to the loop condition.
TestThen(next) ==
  /\ CountAt("test")
  /\ pc' = IF n_read THEN next ELSE "while"
  /\ UNCHANGED <<pmVars, eof, buf, n_read, refused>>

\* Mutant: the count is read and taken as accepted without being written back.
TestReadSkips == TestThen("state") /\ ret' = "ok"

TestRead == TestThen("write") /\ UNCHANGED ret

WriteBack ==
  /\ CountAt("write")
  /\ pc' = "while"
  /\ IF Acceptable(buf)
       THEN SaveCount(buf) /\ ret' = "ok" /\ UNCHANGED <<autosleep, worker, refused>>
       ELSE ret' = "error" /\ refused' = TRUE /\ UNCHANGED pmVars
  /\ UNCHANGED <<eof, buf, n_read>>

\* while (ret < 0): an uninitialised ret is any value.
While ==
  /\ CountAt("while")
  /\ pc' \in CASE ret = "ok" -> {"state"}
               [] ret = "error" -> {"read"}
               [] OTHER -> {"state", "read"}
  /\ UNCHANGED <<pmVars, eof, buf, n_read, ret, refused>>

\* write(fd_state, "mem"): EBUSY while autosleep is on; the result is not looked at.
EnterState ==
  /\ CountAt("state")
  /\ IF autosleep THEN UNCHANGED pmVars
                  ELSE Suspend /\ UNCHANGED <<autosleep, worker>>
  /\ pc' = "exit"
  /\ UNCHANGED <<eof, buf, n_read, ret, refused>>

CountProgram ==
  Open \/ Read \/ ReadInterrupted \/ TestRead \/ WriteBack \/ While \/ EnterState

============================================================================
