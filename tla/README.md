# Verification of the Ameba Linux tests

## The system

`src/` holds the tests Realtek ships for the peripherals of the Ameba SoC under
Linux. Each directory is one test: a kernel module, a user-space program or a shell
script that drives one device and says whether it works. The tests share no library
and do not call each other. What they share is their shape: a driver thread, a device
that works concurrently with it, and an interrupt handler, a DMA callback, a kernel
event or another process that carries the device's answer back through a variable, a
completion or a file descriptor. Two kinds of mistakes matter for such programs: a
verdict that was not earned (PASS without the check, FAIL without a cause, no verdict
at all), and something left behind on one of the many error paths (a pin, an
interrupt handler, a running transfer, a wake lock). Both need an unlucky order of
events or a failing call, so running the test on the board hardly ever shows them.

## Inventory

| component | state it keeps | operations | interacts with | what is hard | what makes it correct |
|---|---|---|---|---|---|
| `dmac/dmac.c` | static status, two coherent buffers, channel | probe, round loop, callback, `test_end` | DMA engine, through status and buffers | callback races the loop; status survives a probe; early return leaves a transfer running; four results used unchecked | PASS is earned, FAIL has a cause, the engine never writes freed buffers, probes end |
| `dmac/dmac_multi.c` | the same | probe, rounds with pause and resume, callback | DMA engine | the loop overwrites what the callback compares; the verdict is dropped | the printed verdict is about a transfer |
| `gpio/kernel` | test data, two pins, irq, completion, wake irq | probe with nine cases, handler, remove | GPIO and irq core | interrupts between request and wait, goto labels of nine cases | pins and irq given back, completions balance, PASS earned |
| `gpio/user/sysfs` | export of a pin, descriptor | read, write, interrupt loop | other processes, over sysfs | access-then-export race, unexport under another process, leak on `exit(-1)` | leaks and failures explained, written value reported, events acknowledged |
| `gpio/user/cdev` | line handle | list, read, write, event loops | gpiolib, over ioctl and read | event queue overflow | events drained, one-shot modes end |
| `gpio/user/uio` | mapped interrupt count | unmask, read or poll | uio core | interrupt between unmask and wait, several readers | no lost interrupt |
| `crypto` | static thread counter, transforms and requests | module init, five tests per thread | kernel crypto API | `++thread_num` race, asynchronous drivers, iv reuse | exit only when all started, exact verdict, nothing held |
| `i2c`, `i2c-slave` | message buffers; send and receive index | `-R`, `-W`; slave events, probe, remove | each other, over the bus | transfers cut short, lost STOP, removal during a transfer, a length cut to 16 bits | reads are incremental, listing complete, a reported transfer whole, program ends |
| `pm_wakeup_count`, `pm_wakelock` | count read; two wake locks, autosleep | read, write back, suspend; lock, autosleep, unlock | each other, through the kernel's wakeup accounting | event between read and suspend, locks left by a failed run | no event slept over, no sleep while locked, sleep after release |
| `pm_voltage` | voltage before and after | set voltage, sleep, compare, retry | misc driver, power management | retry without bound | PASS only after a change; ends |
| `usbh_vendor/testusb.c` | list of devices, a thread each | parse, scan, create, test, join | usbtest driver | unplugging, failed `pthread_create`, joins | exit status explained, every run ends |
| `usbh_uvc` | mapped buffers, one image file | set up, dequeue, save, requeue | uvc driver | buffer handed back while being read, more buffers than slots, unplugging | every buffer has one owner, frames are taken once and in order, images whole |
| `uart` | echo buffer on the stack | greet, read, terminate, echo, clear | tty driver, a PC that types | the terminator is put one byte too far, so only the `memset()` keeps an earlier read out of the echo; what is echoed is measured with `strlen()` | what is echoed was sent |
| `usbh_cdc_acm` | two strings | write, read back | ACM device over a tty | failed writes, unplugging, a read without time-out | no read without an answer under way |
| `spi` | options, three kinds of buffers, a file | parse, open, unescape, transfer, compare | a second process at the other end of the wire | who starts first; different lengths, noise on one wire; compares of buffers that were never received | a success message needs equal data on both sides |
| `rtc` | descriptor, time | read, write, alarm | rtc driver, the clock | alarm passes before it is set, three carries by hand | the alarm is ten seconds ahead; ends |
| `watchdog` | feed counter, time-out | feed loop, then reset | watchdog device | margin of three seconds, negative sleep, `clock_gettime()` into an `int` | fed in time, then reset |
| `timer_hw` | static times and timer index | init, interrupt callback, exit | gtimer driver | callback before the start time is stored, `int` overflow of the period | the interval printed is the interval that passed |
| `system_timer` | timerfd, expirations | arm, read loop | timerfd | several expirations in one read, interval 0 | expirations counted; ends |
| `pwm` | channel in sysfs | export, period, duty, enable, disable, unexport | pwm core | steps left half done, order of period and duty | a refusal has a cause; nothing left by a complete run |
| `clk` | five static clock pointers | bind, probe, remove | clock framework | pointers of an earlier binding used by a failed one | enables and disables balance |
| `adc`, `ir`, `sdioh`, `thermal`, `audio_pll`, `misc`, `captouch`, `drm/kmstest` | descriptors | a script of open, use, close | their drivers | calls whose result nobody looks at | the last message is earned; descriptors closed |
| `drm/kms` | arrays of screens, crtcs and planes; framebuffers | probe, three blocks, free, close | display driver | holes in the arrays, framebuffers that exist only with other options | no fault that the probe does not explain, nothing freed twice |
| `drm/vbltest` | event time, count | set up, event loop, handler | display driver | an ignored error ends the chain of events; a blank between the next request and the next start time | a frequency at most one event too high; goes on |
| `hello`, `hello_module` | none | print | | | |
| shell scripts (`cpu`, `ledc`, `spic`, `usb`, `pm_wakeup`) | none | command sequences | the programs above | left-over settings | |
| `benchmark/`, `drm/modetest`, `drm/modeprint`, `drm/proptest`, `drm/util` | | third-party programs | | | |

The hazards of each component, at the line where they bite, are in `PROJECT.json`
with the properties that would catch them. Where the code really goes wrong, the property
names the cause as its exception and the hazard has a note that says so: such a property
shows that nothing else leads there, and does not fail on the hazard itself.

## Modules

Every module models one source file unless stated otherwise; a variable has the name
of the C variable it stands for, or a comment that says what it is. `pc` variables
are program points between two calls that another actor can observe. Calls that may
fail do so nondeterministically when the constant `Faults` names them. Definitions
called `...On`, `...By`, `...From` and so on are parameterised so that a faulty variant can
be stated beside the real one; the variant is never part of `Next`.

| module | what it models |
|---|---|
| `DmacTest` | the probing thread (`Probe`, `LoopStart`, `PrepareTestBuf` per period, `RequestChan`, `SlaveConfig`, `Issue`, `LoopFail`, `WaitEnd`), the engine that copies one period at a time, and the callback in two steps, compare and store. A buffer is one stamp per period; `nulls` are the pointers that an unchecked call has left NULL. |
| `GpioKernelTest` | `probe()` with its nine cases and their goto labels, `remove()`, the line and the interrupt handler with its completion. |
| `CryptoTest` | module init and exit and the threads of `rtk_crypto_test_inst_init()`; `++thread_num` is a load and a store. Digests are right or wrong. |
| `I2cSlave` | the slave's event callback, probe and remove; bytes are numbers modulo `Byte` (256). |
| `I2cBus` | extends `I2cSlave` by the master program (`ParseOpts`, `Load`, `Report` and their failures; `i2c_msg.len` is a number modulo `U16`) and the bus: `AddressRead`, `ClockIn`, `Refill`, `ClockOut`, `Finish`, `Abort`. |
| `PmCore` | external: the kernel's count of wakeup events, active sources, the check before suspend, and the autosleep worker. |
| `PmWakeupCount`, `PmWakelock` | the two programs, each over the variables of `PmCore`. |
| `PmSystem` | composes both with the worker and a device that raises events. |
| `GpioLine` | external: one gpio line with its sysfs node and handle and a pad that may not follow what is driven, and the program points of the processes. |
| `GpioSysfs`, `GpioCdev`, `GpioUio` | the three user-space programs, over `GpioLine` and (uio) the interrupt count. |
| `GpioUser` | composes processes that may each run any of the three programs, be interrupted, and meet interrupts. |
| `TestUsb` | `main()` of testusb, a thread per device, and unplugging. |
| `UvcCapture` | `video_device_init()`, the capture loop, the driver's two queues, and a camera that fills buffers and may be unplugged. A frame is its number. |
| `BufferExchange` | abstract specification of streaming I/O: buffers with one owner each, no queues, no program. `UvcCapture` implements it. |
| `Program` | what the single-device programs share: which one runs, its program point, its verdict, and whether a call of it failed. |
| `Rtc`, `Watchdog`, `TimerHw`, `SystemTimer`, `VblTest` | programs about time, each with the clock or device that goes on beside them. The handler of `VblTest` is three steps (`TakeEvent`, `AskAgain`, `CountEvent`), and a blank may fall between any two. |
| `Voltage`, `Spi`, `OneShot` | programs that print a verdict. `Spi` has both processes, each with its own options and length, and the two wires, each with its own noise. `OneShot` holds eight programs as scripts of calls, each call checked or not, with the calls of its error path. |
| `Uart`, `CdcAcm` | programs that send and expect something back. |
| `Pwm`, `Clk`, `DmacMulti`, `Kms` | programs and modules that take something they must give back. `Kms` covers the library `libkms-test` and its two users. |
| `TestBench` | composes these: one of them is chosen at the start and runs with its device, its clock and its operator. |
| `DmacTestProofs`, `CryptoTestProofs`, `GpioKernelTestProofs`, `I2cBusProofs`, `PmSystemProofs`, `GpioUserProofs`, `UsbHostProofs`, `TestBenchProofs` | theorems, each about the module it extends; `UsbHostProofs` extends both USB programs. |
| `MC_I2cBus`, `MC_TestBench` | the constants of these runs that a configuration file cannot write. |
| `MC_UsbHost` | `TestUsb` and `UvcCapture` in one run: a behaviour is one of the one or of the other. |

Where the source leaves a value undefined the model takes every outcome: the channel
of a first probe that ends before `dma_request_chan()` (`chan = "uninit"`), `ret` of
`pm_wakeup_count` when the first read fails (`ret = "uninit"`), the buffer description
of a failed DQBUF, the byte behind the echo buffer of `uart`, the receive buffer that
`malloc()` returned in `spi`, the fifth slot that `usbh_uvc` writes behind its table (padding,
the descriptor, or the end of the program), the terminator `thermal` may put behind its array
and the `%n` that `gpio/user/cdev` prints when a write fails (each goes on or dies), and what
lies behind the `int` that `watchdog` hands to
`clock_gettime()` (`behind`: nothing of importance, the time-out, the loop counter or the
descriptor).

## Runs

| run | what it shows |
|---|---|
| `dmac` | Two probes of two rounds under refused channels, refused configurations, bad copies and a NULL from each of the four calls that nobody checks. PASS needs a good compare for every round but the last; engine and callback never outlive buffers, a refused configuration aside; the kernel faults only in the ways `OopsHasCause` lists; every probe ends. |
| `gpio_kernel` | All nine cases, and one value beyond the table, with every call failing at will. |
| `crypto` | Two threads, all faults. The lost update never lets a thread leave early, verdicts are exact, error paths give everything back. |
| `crypto_lost_count` | (violation) Two overlapping increments leave the count at 1 and both threads loop for ever, although the comment above the removed sleep says that it may be removed. |
| `i2c` | Master runs repeated at will, transfers aborted at any byte, STOP lost, slave inserted and removed at any time: reads still begin at 0 and are incremental, listings are what was sent, and a transfer reported as done moved the whole buffer if its length fits the message. |
| `i2c_readme` | (violation) The transcripts in both readmes show reads that begin with 0x23, the slave's address; the callback answers the first request with 0. |
| `pm` | Both programs with failing calls, one of them run twice: locks left by a failed run, autosleep left on, events at every point. |
| `gpio_user` | Two processes, each any program in any mode, killed anywhere, on a line whose pad may read back something else than is driven. |
| `usb_host` | `testusb` with two known and one unknown device, every combination of `-D`, `-n` and `-t`, unplugged anywhere; or `usbh_uvc` with one, three or five granted buffers (the table has four), failing calls, unplugging. `ImplementsExchange` is the refinement: mapped through `Owner`, every step is a step of `BufferExchange` or changes nothing in it. |
| `uvc_alias` | (violation) `buff_info.index` is never set in the QUERYBUF loop: every slot maps buffer 0, and a frame captured into another buffer is not the one saved. |
| `bench` | Any one of twenty-two programs, from its start in every state its device may be in, with failing calls, delayed programs, operators that type, press keys, unplug, kill and rebind. Four invariants collect what the modules promise (`TimeKept`, `EchoKept`, `VerdictsEarned`, `NothingLeftBehind`), and `ProgramsEnd` says that each program ends or comes to a place where it may rest, as listed in `AtRest`. |
| `uart_echo` | (violation) A read that fills the buffer is terminated behind it, and the echo holds bytes of the stack that nobody sent. |

`CHECK_DEADLOCK FALSE` in every configuration: these are programs that end, or that
wait for a device that may never answer.

### Bounds

`Loop = 2`, `MaxProbes = 2` (dmac): a stale callback needs a round before the one it
disturbs, and a stale status one probe before. `Waits = 2`, `Toggles = 3`, `MaxIrqs = 6`
(gpio/kernel): an interrupt too many and one too few around a wait both occur.
`Threads = 2` is the code's own number. `Byte = 4`, `U16 = 8`, `MsgLimit = 5`, `MaxLen = 9`
(i2c): a transfer of five bytes wraps the counter, lengths 6 and 7 are refused, and 8 and 9 are
cut to 0 and 1. (`i2c_readme` has `Byte = 64`, so that 0x23 is a byte.) `MaxEvents = 7`, `MaxRuns = 2` (pm): each run takes
two locks, and three events of the device remain. `Procs = 2`, `Fifo = 2`,
`Interrupts = 2`, `MaxIrqs = 3` (gpio/user): a second process for every race, a full
queue, an interrupt beyond the last wait. `TEST_CASES = 2` (testusb): a first and a
last case and a value beyond. `MaxFrames = 6`, `Granted` up to 5 (uvc): each buffer is
used at least once, and the table of four overflows. `uvc_alias` grants at most four: it
needs no overflow.

For `bench`: `RtcStarts` are the boundaries of minute, hour and day, and the second before
a carry; `RtcTicks = 12` lets the ten seconds pass before the alarm is set and before it
rings. `Timeouts` are below, at and above the margin of three seconds, `Unsigned = 8`
stands for the range of `unsigned int`, in which 2 - 3 is a sleep longer than any time-out.
`Word = 64` is the number of values of `int` of the timer module, chosen so that one of the parameters
overflows and the clock wraps while a timer runs. `Intervals` and `Repeats` include 0.
`BufferSize = 4`, `MaxSent = 4` (uart): reads of one and of two characters are terminated in the
buffer, so a long read is followed by a short one; reads of three and four are not (in
`uart_echo` the buffer has three). `SpiOptions` give `-l` two lengths, and each source another.
`TtyRoom = 2 * StringLen` (cdc): a second string before the first answer. `PwmRuns = 3`,
`Binds = 2`: what one run leaves meets the next. `KmsPipes = 2` and the two plane types
leave room for a hole before a live entry. `Batch = 3`, `MaxLate = 2` (vbltest): frames that
are missed between two events.

### Fairness

Weak fairness on the program's own steps (the kernel schedules runnable threads) and
on hardware that has accepted a transfer. Nothing is assumed of interrupts, users,
cameras or unplugging. Strong fairness in these places. `WaitEnd` and `LoopFail` of
`DmacTest`: the end of the test waits for the callback, which is interleaved with it
again and again while the cyclic transfer runs. `Read` of `pm_wakeup_count`: the kernel
wakes a blocked read each time the last active source ends, so events that come and go
do not keep it from returning for ever. In `PmSystem` a device's event ends, which is
the contract of `pm_relax()`. In `TestBench` the program, time and devices are weakly fair,
each of the two SPI processes for itself; operators act or not, and a call that waits need
not fail. No board is assumed to sleep: the retry of `pm_voltage` (line 129) may go on for ever,
and `ProgramsEnd` promises its end only from a round in which the board slept.

## Proofs

TLAPS proves the following for every value of the constants that satisfies the
module's named assumptions: bounds are natural numbers, faults any set of the ones listed,
threads any finite nonempty set, usb devices any finite set, a byte at least two values, the programs on a gpio line any
set whose members are not the words `"free"` and `"sysfs"` that name its other owners.

**`DmacTestProofs`**: `TypeCorrect`, `PassIsEarned`, `FailIsExplained`,
`OopsIsExplained`, `EngineIsContained`. The properties are not inductive: nothing in
`PassNeedsGoodCompares` links the round counter to the compares. `IInv` adds `Gated`
(each start of a round consumes one SUCCESS, so starts plus a pending SUCCESS are at
most one more than the SUCCESS stores), `Blame` (a FAIL in the status comes from a
compare of this probe, or was there when it began), `Holding` (what the thread holds
at each program point), `Unchecked` (which pointers may be NULL there: without it nothing
keeps an old NULL from being met in a later round), `Counted` and `FirstProbe`.

**`CryptoTestProofs`**: `TypeCorrect`, `ExitIsEarned`, `VerdictIsExact`,
`NothingIsHeld`. The key part of `IInv` is `CountNeverAhead`: the counter, and the copy
in the register of a thread about to store, are at most the number of threads that
have stored. Increments may be lost but never invented, so the full count implies that
all have started, by cardinality. `VerdictAt` and `HeldAt` say for each program point
how `ret`, `result` and the held resources relate. `Frame` shows that a step moves one
thread only, `OwnStep` and `OwnCount` treat that thread.

**`GpioKernelTestProofs`**: `TypeCorrect`, `CompletionsAreBalanced`, `PassHasCause`,
`EverythingIsReleased`, for any number of waits, toggles and interrupts and any set of
faults. `IInv` adds to the types `CaseAt` (which program points belong to which case),
`Holding` (which pins, handler and data each program point has), `Counting` (where the loop
counters are fresh and below their bounds, with the balance of completions) and `Progress`
(what a case that has not failed so far has seen: without it a PASS says nothing about the
steps before it).

**`I2cBusProofs`**: `TypeCorrect`, `TransfersAreExact`. `IInv` adds `MessageInv` (nothing is
transferred before the slave answers, and it stays registered while a transfer goes on) and
`CounterInv`: during a read the slave's counter, and the byte in the shift register modulo
`Byte`, keep step with the length of what the master has received. Without it nothing is known
of the next byte, for the counter is the only memory of the transfer that the callback has.
`OverInv` says that a program which has got to its report has the whole message.

**`PmSystemProofs`**: `TypeCorrect`, `LocksKept`, `NoEventLost`. `LocksHold` needs
`LocksAtCalls` (the locks held before each call of `pm_wakelock`; the first calls promise
nothing, for an earlier run may have left some) and `WorkerChecked` (between its save and its
suspend the autosleep worker is protected by the check). `NoEventSleptOver` is an action
property and needs `CountChecked`: while autosleep is off, the check before suspend compares
with the count that `pm_wakeup_count` read. `CountFits` bounds finished and active events
together, which `TypeOK` alone does not.

**`GpioUserProofs`**: `TypeCorrect`, `OutcomesHaveCauses`, `WrittenReported`,
`NoLostInterrupt`, for any number of processes. `IInv` adds `CrossInv` (two sysfs processes at
work at once have both been crossed), `HandleInv` (a cdev process between request and close
owns the line), `AloneInv` (what a sysfs process that was not crossed relies on: the pin stays
exported, with its direction, value and edge), `ReportInv` (what it is about to print) and
`RoundInv` (the rounds of the wait loops, and counts never ahead of the device's). A frame
lemma per program shows that a step disturbs no other process, so that each action is looked
at once.

**`UsbHostProofs`**, first half: `TypeCorrect`, `BufferZeroSaved`, and `Refinement`, the proof that
`UvcCapture` implements `BufferExchange`. The mapping reads a buffer's owner from the driver's
queues, so `IInv` says that it is unique: `PlaceInv` (the two queues without duplicates,
disjoint, and the buffer being filled in neither), `TakenInv` (the buffer the program holds is
in none of them and holds the frame last dequeued), `FrameInv` (the filled buffers hold
consecutive frames) and `SetupInv` (how far the initialisation has come). `Begin`, `Finish`, `Take` and `Give` are
each shown to be the step of the same name of `BufferExchange`, all other steps to be stutters.

**`UsbHostProofs`**, second half: `TestUsbTypeCorrect` and `ExitHasCause`. The walk over the bus
meets a device once, so the list has no duplicates and no entry gets two threads (`ListInv`).
`ThreadInv` says who tests which device, and that the threads `main()` has passed in its loop of
joins are done; `CaseInv` that the cases run or skipped are the selected ones below the
counter, so that a test at its end has dealt with all of them.

**`TestBenchProofs`**: `TypeCorrect`, `TimeIsKept`, `EchoIsKept`, `VerdictsAreEarned`,
`NothingIsLeftBehind`, and `AlarmIsTenAhead`, the arithmetic behind the `rtc` part. `BenchInv`
is the conjunction of one invariant per program. `WhoMoves` shows once that a step belongs to
the program that was chosen and leaves the variables of the others alone; after that each
program is treated by itself, one step per action. What each invariant adds to its property:

- `RtcInv`: between the read of the clock and the alarm ioctl, `tm` is the time read plus ten
  seconds, carried, and less than a day has passed. `AlarmIsTenAhead` does the rest, for every
  time of day and every delay (the run starts the clock at five times).
- `WdgInv`: of the device's count, what was not delay was slept, and what is left of the sleep
  ends at the margin before the time-out.
- `TimInv`: the timer is due one period after it was started, the period taken modulo `Word`,
  and `start_time` is the time of the store as an `int`.
- `StInv`: reads have returned no expiration before its time, and all that they returned is
  counted. `VblInv`: no event is under way before the first request nor
  between taking one and asking again, and the blanks exceed the events of a batch, the ready one
  and the one being handled included, by no more than the bound.
- `UartInv`: before each read the buffer is all zero, because the `memset()` of `strlen()` bytes
  has cleared all that was read; while echoing, it holds the last characters typed.
  `CdcInv` adds nothing but the types.
- `VolInv`: the voltage changes only while the board sleeps. `OneInv`: in a strict script
  nothing has failed so far, and nothing follows the message but a close. `SpiInv`: what each
  process has heard over its own wire, and that the slave has its message only after the master
  clocked.
- `PwmInv`: what the run has set so far. `ClkInv`: the clocks that are got, running or freed at
  each label. `MulInv`: the engine is paused while the thread overwrites the destination, unless
  a call failed. `KmsInv`: the framebuffers that exist at each block, and the chosen plane.

The assumptions on the constants of these programs say that `unsigned` and `int` have some
values, that the options of `spi` and the arguments of `rtc` are ones that `getopt()` can
return, and that `rtc` is not kept from running for a whole day (an alarm has no date).

Every invariant that a passing run checks is proved. Only model-checked are the liveness
properties (the prover does not handle fairness or `ENABLED`) and the four violations.

## Observations without a run

- `dmac.c`: the compare of the last round is printed but does not change the verdict:
  the loop has ended when it arrives. `PassNeedsGoodCompares` therefore says "but the
  last".
- `gpio/kernel/readme.txt` describes cases 2 and 3 with the edges swapped against
  `rtk_test_case[]`.
- `gpio/user/sysfs/readme.txt:30-34` shows `-w 1` followed by `gpio_write value: 0`. In the code
  the line is driven at the value written until the unexport (the first half of
  `WrittenIsReported`), so for a single run the transcript needs a pad that does not read back
  what is driven; the model has such pads, and the property excepts them from what is printed.
- `misc.c:57` switches auto gating off and on for ever, so the `Misc test PASS` of
  `misc/readme.txt:22` is never printed; `MiscScript` has no such message, and `AtRest` lists
  the loop.
- `i2c.c:126`: a length of 65536 and more is cut to the `__u16` of the message, and the dump and
  the output file still have the full length.
- `spi.c:302`: the string and the file are compared also for a send-only run, with a receive buffer
  as `malloc()` left it. Two duplex processes may disagree: noise on one wire, or a longer `-l`
  on the side that reports the error.
- `realtek-timer-test.c:61`: `set_timer_ms * 1000000` is an `int` product; from 2148 ms on it
  overflows, and `IntervalTrue` excepts such periods.
- `vbltest.c:153-163`: a blank between the request for the next event and the new start time makes
  the next frequency up to one event too high.
- `pm_wakeup_count.c`: when the first `read` fails, `ret` is used uninitialised and the
  program may suspend without the check.

- `dmac.c`: the cyclic transfer of a round is never terminated, so a callback of the
  previous round may store the verdict of the next one before its data moved. A PASS counts
  compares, not rounds.
- `pm_wakeup_count.c`: a refused write-back is not retried. The second `read` starts behind
  the line, returns 0, `ret` stays negative and the loop spins; `BothProgress` excepts this.
- `watchdog.c`: `clock_gettime()` is given an `int`.
- `i2c-slave.c`: the result of `i2c_slave_register()` is ignored, and `remove()` unregisters a
  slave that never was one.
- `gpio/user/uio`: a failed `read()` is counted like an interrupt.
- `thermal`: `type[ret]` is behind the array if the attribute fills it.
- `kms-universal-planes -o` dereferences `root`, which only the later primary block creates.
- `kms-steal-crtc` asks for a format that `kms_framebuffer_create()` refuses: it ends there,
  and the code behind it is not reached.
- `clk`: `probe()` returns 0 when it fails, so `remove()` runs on pointers of an earlier
  binding.
- `pwm`: an error return leaves the channel exported, and every later run fails at its
  export.
- `gpio/kernel`: `test_case` indexes its table unchecked (the model goes to `oops`);
  `crypto`: the exit function does not stop the threads; `gpio/user/cdev` drives a line to an
  undefined level before the requested one.

## Plan

1. **Abstract specification** of the completion in `GpioKernelTest` as a counting semaphore.

## Not modelled

`benchmark/`, and of `drm/` the tools `modetest`, `modeprint`, `proptest` and the helpers in
`util`, are third-party programs kept unchanged: tables of formats, pixel arithmetic,
listings, and one large program whose behaviour is the atomic commit of the display driver.
`hello` and `hello_module` print a line. The shell scripts are command sequences for an
operator who reads their output; they test no result. `transfer_escaped_string()` of `i2c.c`
cannot be reached. Printed text, option wording and data patterns are left out everywhere.
