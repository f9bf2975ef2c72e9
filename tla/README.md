# Verification of the stepper motor board firmware

TLA+ models of the firmware of Jeroen Lodder's stepper motor board (LPC11U24,
mbed library), TLC runs on small instances, and proofs checked by TLAPS.
`PROJECT.json` lists components, runs, mutants, the source lines behind every
definition, findings, hazards and theorems.

## The system

| Part | State | Operations | Talks to |
|---|---|---|---|
| Stepper motor control, `SMC.cpp`, `smc.h` | seven statics, four high-side FET pins, Ticker `smc` | `SMC_init/deinit/step/idle/brake/free/pause/continue/getState/egg`, interrupt `SMC_routine` | called by main; calls CT32B0; preempted by its ticker |
| Low-side PWM, `CT32B0_PWM.cpp` | `stage`, `mat[4]`, `period`, timer and pin registers | `initpwm, start, deinit, stage, set, reload_mat, wait_refresh` | called by SMC in main and in the interrupt |
| AUX PWM, `CT16B1_PWM.cpp` | `period`, `prescaler`, `mat`, timer and pin registers | `initpwm, start, deinit, set, reload_mat, wait_refresh, isStarted` | called by the dispatcher |
| Ring buffer, `xIFO_SizeType.c` | pool, read and write pointer, count, full flag | `init, clear, write, pop_lr, pop_mr, read_lr, read_mr` | UART interrupt and aging ticker write, main reads |
| Serial input, `main.cpp:98-130` | ring buffer, `serialPacketReady`, `bufferAge` | `serialHandler` (interrupt), `serialBufferAgingHandler` (ticker) | main |
| Main loop and dispatcher, `main.cpp`, `USB_SwitchCase.c` | reports, `button_history` | one pass: button, UART packet, USB report; 17 commands | everything |
| Byte operations, `ByteOperations.cpp` | none | little-endian packing and unpacking | dispatcher |
| Watchdog, `watchdog.cpp` | external reset | started by command 0xEE, never fed | resets the board |
| USB HID, `USBDevice/USBHID/USBHID.cpp` | endpoints | `send, sendNB, read, readNB`, control requests | main, USB interrupt |
| USB device, `USBDevice/USBDevice/USBDevice.cpp` | device state, control transfer | chapter 9 requests, endpoint calls | USBHID, HAL |
| USB HAL, `USBDevice/USBDevice/USBHAL_LPC11U.cpp` | endpoint command/status list, buffers | endpoint read/write, interrupt | USB controller |

Nothing is an operating system thread: main is preempted by interrupt handlers
(SMC ticker, serial, aging ticker, button and LED tickers, USB) that share
plain variables with it, mostly without masking.  What is hard follows from
that, and from the hardware that obeys each register write at once:

* the last interrupt of a move may come between any two statements of a command;
* commands in any order meet a motor that is idle, moving, paused or locked, at
  any of the 32 rows of its lookup tables and with either stage of the PWM timer;
* the ring buffer says its operations are atomic and main does not make them so;
* counts and durations wrap, and a wait for something may never end.

What makes each part correct: the motor control takes the steps asked for, ends
every move, never shorts a bridge leg, and never leaves a move nobody can finish;
the ring buffer is a bounded queue that forgets its oldest element; serial input
hands complete packets to the dispatcher; the dispatcher answers each command
once, on the link it came from; the AUX output follows the commands; the
USB stack answers each command at most once and in order, ends every control
transfer with the data asked for, and keeps its buffers in the USB RAM and apart.

## Modules

| Module | Models |
|---|---|
| `CT32B0_PWM` | the PWM driver: its statics and registers are a record, each C function is an operator on it; `Gate` says what the hardware makes of it |
| `SMC` | the motor control: main's calls statement by statement, `SMC_routine` preempting them statement by statement |
| `Motion` | what the motor control promises: one move at a time of the number of steps asked for, pause, continue, abort; whether the field moves once more as a move ends is left open |
| `MoveLength` | `SMC` with a count of the steps of a move |
| `SMC_invariants` | the inductive invariants of `SMC`, in layers |
| `SMC_proofs` | the theorems about `SMC` |
| `HighSideLatency` | `SMC` with high-side FETs that take up to a microstep to switch off |
| `HighSideLatency_proofs` | the theorem about the dead time of the handler |
| `XIFO` | the ring buffer: its structure is a record, each C function is an operator on it |
| `RingBuffer` | the operators of `XIFO` called in any order by a single caller |
| `BoundedQueue` | what the buffer promises: a queue that forgets its oldest element when full, answers from the end a call is named for, and answers 0 only where there is nothing |
| `RingBuffer_proofs` | the theorems about `RingBuffer` |
| `SerialInput` | the UART interrupt, the aging ticker and main's drain of the buffer they share |
| `SerialInput_proofs` | the theorems about `SerialInput` |
| `SerialLink` | what the serial input promises a host that waits for replies |
| `MainLoop` | a pass of the loop in main with the button, both links and all commands, `SMC_egg` and the watchdog it starts |
| `CommandService` | what the board promises the hosts on its two links: one command at a time, each answered on its own link, in full on USB and by its first byte on the UART |
| `CT16B1_PWM` | the driver of the AUX channel: its statics and registers are a record, each C function is an operator |
| `ByteOperations` | words in a report, over bytes of any width |
| `MainLoop_proofs` | the theorems about the main loop, the AUX channel and the byte operations |
| `HidReports` | `readNB` and `send` statement by statement, against the USB interrupt, the controller, halts and bus resets |
| `HidReports_proofs` | the theorems about `HidReports` |
| `ReportPipe` | what the USB link promises: no command answered twice or out of order; answers may go missing, and an answer may be for the bytes of a command before it that went without one |
| `ControlTransfer` | endpoint 0: chapter 9 requests, `SET_REPORT`, the search for the HID descriptor, the stages of a transfer, the part of `usbisr` that serves them |
| `ControlTransfer_proofs` | the theorems about `ControlTransfer` |
| `EndpointRam` | `realiseEndpoint` and the USB RAM it divides, through resets and configurations |
| `EndpointRam_proofs` | the theorems about `EndpointRam` |
| `MCSMC`, `MCMoveLength`, `MCHighSideLatency`, `MCRingBuffer`, `MCSerialInput`, `MCMainLoop`, `MCHidReports`, `MCControlTransfer`, `MCEndpointRam` | values of the constants for TLC |

`SMC` is built on `CT32B0_PWM`, `HighSideLatency` and `MoveLength` on `SMC`; `RingBuffer` and `SerialInput` on `XIFO`;
`MainLoop` on `CT16B1_PWM` and `ByteOperations`.  `SMC`, `RingBuffer`,
`SerialInput`, `MainLoop` and `HidReports` each name the abstract specification
they implement by an INSTANCE with a refinement mapping.

The composition is by those abstract specifications.  `MainLoop` does not hold the
detailed motor control: its motor is an instance of `Motion`, which `SMC` implements
(proved), and its links are reduced to what `SerialLink` and `ReportPipe` promise,
that a command arrives and an answer can be read or fetched.  All five refinements are proved.  The
serial input and the USB
link share no variable with the motor or each other but through main.

### How SMC corresponds to the code

`walker, dir, steps, free, abort, steptime, isPaused` are the statics `smc_*`;
`attached` says whether Ticker `smc` calls `SMC_routine`; `hi` is the set of
high-side FETs that are on; `pwm` is the driver's record.  `call` and `pc` are
the function main executes and its next statement, `isr` is the next statement
of the handler.  A handler starts between any two statements of main while the
ticker is attached, and main waits until it returns.

A function whose statements matter one by one is a sequence of actions:
`SMC_init` is `InitHi, InitPwm, InitStart`, `SMC_deinit` is `Detach, DeinitPwm,
DeinitHi, DeinitVars`, `SMC_pause` is `SMC_pause` (its test)`, PauseDetach,
Paused`, and so on.  `SMC_step` stores its arguments in one action: no interrupt
can come there, which `TickerOnlyWhileMoving` says and `SMC_proofs` proves.
`SMC_getState` is three actions, since it reads `smc_steps` twice.  A refused
call changes nothing and is no step.  `SMC_egg`, which only calls `SMC_step` and
waits, is part of `MainLoop`.

The handler is eight actions: per phase the high side, then the low side; the
stage swap in rows 9 and 24, latches before pin functions; then the walk with the
countdown and the end of the move.  Its wait for the timer is part of the entry.

Data are abstracted to what the properties tell apart.  A match value is
"full" (0, output always high), "chop" (within the period) or "off" (beyond it);
a lookup table is the set of rows at which it is not zero.  The hardware rules in
`Gate` are those of the LPC11U24: a PWM output with match value 0 is high, one
beyond the period stays low, a GPIO pin that is no output is driven by nobody.
That the outputs of the timer follow a new match value at once is optimistic.

`HighSideLatency` adds the one delay the code speaks of, in the comments on
`MIN_STEPTIME_US` and in `SMC_init`: `lag` are the high-side FETs that the interrupt has
switched off and that still conduct while it runs.  By the next one, a step time later,
they are off; one that stops sooner overlaps with less.

### How XIFO and RingBuffer correspond to the code

The fields of the record are those of `xIFO_SizeType`, with the pointers as offsets
into the pool and the pool as a function on `Slot`.  `xifo_write`, `xifo_pop_lr`
and `xifo_pop_mr` are what a whole call does to the record; `RingBuffer` adds the
value a call returns (`out`), the call itself (`call`, a history variable), and both
outcomes of each test for an empty buffer.

An index is a `uint32_t`, `IndexWord` being 2^32.  `index+1` is 0 for the largest one,
which passes the test: `xifo_read_lr` then reads `elementcount` elements behind the
newest, and `xifo_read_mr` one slot past it, which may lie behind the pool.  The code
documents "0 if failed"; `BoundedQueue` promises nothing for this index.  For every
other index it is strict: a pop answers 0 only when the queue is empty, a read only
when there is no element at the index, and otherwise each answers its element.

### How SerialInput corresponds to the code

`uartbuf`, `ready` (`serialPacketReady`) and `age` (`bufferAge`) are the shared
variables.  `ptemp` and `temp` are the two members of the union inside the buffer
through which `xifo_pop_lr` and `xifo_clear` work: they are shared as well, and the
aging handler, which clears the buffer, leaves them changed under a pop.

Main's pass is one action per statement that reads or writes shared state:
`Check, Take, Taken` are the test and the decrement of `serialPacketReady`, a load
and a store; `Drain` is the loop's test; `PopTest ... PopReturn` are the
statements of `xifo_pop_lr`.  In the one that computes the pointer, `PopBase` and
`PopCount` load `read` and the count, in either order and the count perhaps once more, and
`PopFind` subtracts.  `InitBuffer` is `xifo_init`, a store at a time, and
`ClearStart, ClearSlot, ClearEnd` its `xifo_clear`.  `Parse` is the dispatcher,
abstracted to the report it was given, and the reply.  `Stored` is `*p++ = ...`: of the
report the bytes of one packet are told apart, and `stored` is how far `p` has come; one
place behind the `Room` of 64 bytes stands for all.

A handler is one action, since the interrupts have equal priority and do not
preempt each other.  `Receive` is the host putting one or two bytes on the line
and `serialHandler` taking them: two when the loop of the handler finds a second
byte in the FIFO.  `serialBufferAgingHandler` is one tick.

The host is the environment.  One kind starts a packet, sends its bytes, may abandon it,
starts again when the board has had time to notice, and otherwise waits for the reply.
The other (`host.streams`, chosen at the start) sends the next packet without waiting.

Two assumptions of time are guards.  A host that has begun a packet and not given
up sends its next byte before the buffer is too old, and the drain, once begun, is over
before that.  The buffer becomes too old after a million ticks of 5 ms, 5000 s, so
both hold of any host and any main loop that run at all.  Main may be held for longer than
that before it comes to a packet, by a command, or by a button pressed over a paused
motor: the ticker then discards what was counted, the host starts again, and
`PacketDispatched` speaks of what is counted and not too old.

Bounds: `Streamed` are the packets of a host that streams; `MaxAge` stops the counter where its value makes no difference any more;
`MaxReady` holds the host back before `serialPacketReady` wraps.
`ReadyWord` and `CountWord` stand for 2^8 and 2^32.

### How MainLoop corresponds to the code

`pc` is main's next statement: the pass is `Top` (idle time and the button),
`ButtonMoved` (its wait), `Uart` and `Usb` (a test, and the dispatcher if there is a
command), `ReplyUart`, `Send` and `Sent`.  A command of the dispatcher is one operator
per `case`, with everything the case calls; only `CMD_AUX_PWM` on a running timer,
which waits (`Refreshed`), and 0xEE (`BeginEgg, EggMove, EggMoved, WatchDog_us`) take
more steps.  `Switch` is the `switch`; it is included twice in the source and used
twice here.

`aux` is the record of `CT16B1_PWM`; `reply` is `send_report`, the echo of the
command and its results; `fetchable` is what the IN endpoint holds; `parsed` is
`UART_PacketParsed`.  Arguments and results go through the operators of
`ByteOperations`, so that a negative state of the motor is the word on the link.
`wanted` is a history variable: what the last command asked of the AUX output.

The interrupts are actions between main's statements: `Tick` (the motor),
`Ticker_button_handler`, which samples a button that is up or down, and `Restart`, the
watchdog.  `Ask`, `Fetch` and `Hear` are the hosts.

`ReplyUart` is the code's: `p` is not incremented, so that the first byte of the answer
goes out, as often as the UART is writable (`Copies`), and nothing of its results; and
`send_report.length` stays 32 (`length`), so that each later report on USB is that
short.  The largest answer has five bytes and fits.  `SMC_step` refuses a move that
would be too fast; which moves are is left open where a command gives the time.

Left out: what lies behind the answer in a report, 0xFF or 0 (the first report after the
start is not filled); the prescaler of the AUX timer; the brightness of the LED.

Assumptions: a host asks the next command when the last is answered or cannot be
answered any more; what a command is gets decided when main takes it, since nothing
before that depends on it; the wait for the AUX timer may find it at 0 or never.

### How HidReports corresponds to the code

`out` and `in` are the two entries each of `ep[1]` in the endpoint list, with their
A, S and D bits; `outUse` and `inUse` are the bits of EPINUSE; `ctOut` is `ct->out`,
where every OUT packet goes; `intOut` is INTSTAT, `complete` is `epComplete`.  A
report is the number of its command, and whether its data were copied.

`ReadEP_NB, ReadResult, ReadComplete, ReadWhich, ReadCopy` are `readEP_NB` and
`endpointReadResult`: the test of `epComplete` and the read-modify-write that clears its
bit are two actions, and a completion between them is lost.  `ReadStart, EndpointRead`
are `readStart`; `Write, EndpointWrite, WriteResult` are `USBDevice::write`.  Main's
actions are disabled while an interrupt is pending, as the handler runs first.
`OutToken` and `InToken` are the controller serving the host; `Halt` and `Unhalt` are the
requests of ENDPOINT_HALT, `BusReset` and `SetConfiguration` the events of an enumeration.

`parsed` is `UART_PacketParsed`: a pass that served a UART command reads the report and
drops it (`Dropping`, `main.cpp:233`), the host sees no reply and gives the command up
(`GiveUp`).  What was in `recv_report` stays there until the next report is copied, so
that an empty read can dispatch the bytes of a dropped one; `ReportPipe` admits it.

Assumptions: the host asks one command at a time and waits for the reply; a reset
and an enumeration take many milliseconds, so that main has left a call it was in, and
a host configures the device once after a reset (`SetConfiguration`); the host takes
its time to open the device again, so that main has come round (`settled`).  Without them
a report from before the reset can be answered as if it came after it, and a second
SET_CONFIGURATION, or one of configuration 0, changes the endpoint list under a call.
`MaxLosses` bounds bus resets and dropped reports together.

### How ControlTransfer corresponds to the code

`transfer` is the device's `transfer` record; `epIn` and `epOut` are the
entries of endpoint 0; `setup` and `flag` the SETUP packet and its bit in DEVCMDSTAT.
`requestSetup` and the operators it chooses among return the record the request
leaves; `controlSetup, controlIn, controlOut` are the stages.  `usbisr` is a
statement at a time in its branch of EP0OUT, because the controller accepts a SETUP
packet at any moment: `IsrOut` clears the interrupt, `IsrSetup` finds the flag and
clears it and the interrupts, `EP0setupCallback` reads the packet.

The model starts as the constructor leaves the device, powered and not yet reset.
`wValue` is cut to a byte (`Chosen`) before the configuration is looked at: 0x101 selects
configuration 1.  SET_FEATURE and CLEAR_FEATURE check no endpoint number: those of
endpoint 1 are `Halt` and `Unhalt` of `HidReports`; 2 to 4 mark entries no
endpoint uses, 5 to 7 the padding behind the list, and 8 to 15 the bytes of `ct->out` and
`ct->in`, which this module does not tell apart.

Data are numbered bytes, a descriptor is its length.  The configuration descriptor is
there byte by byte, as `findDescriptor` walks it by its lengths and types: the response
to a request for the HID descriptor starts where the walk stopped, and `DataStageExact`
asks for the bytes after the descriptor of the interface.  `SET_INTERFACE` always fails,
since the class leaves `USBCallback_setInterface` to `USBDevice`.  The endpoints a configuration
adds are in `EndpointRam`, their traffic in `HidReports`.

### How EndpointRam corresponds to the code

`epRamPtr` is the end of the RAM taken so far, `Reserved` where the constructor leaves
`usbRamPtr`; `endpointState` are the addresses and sizes, `adding` what `USBCallback_setConfiguration` still has to add.
`realiseEndpoint` has the four outcomes of the code: no room for the first buffer,
one buffer, room for the first and not for the second, and both.  In the third the
address of the first is stored, and `addEndpoint` goes on: nobody looks at the
result.  The model begins after the first bus reset.

## Runs

SMC runs use the 32 rows of the tables and moves of 1 and 3 steps (and -1
and 0, which are refused).  The walker stays where a move ended and the next one
continues there, so the short moves reach each row, in either direction, as a
first, middle and last row, from a locked and from a free motor.  `Word` stands
for 2^32, which TLC cannot represent.

| Run | Question | Answer |
|---|---|---|
| `all` | any commands, preempted anywhere, with a slow high side: types, ticker, pause flag, bridge legs, idle current, rows of the tables, dead time, refinement of `Motion`; does every accepted move end or pause? | all hold, the dead time but for the swap at row 24, the last under fairness |
| `path` | does a high side always find the low side of the other leg? | no, after a stop in rows 10 to 24 |
| `illegal` | is no leg ever shorted, also inside the handler? | no, in the first interrupt of a move that starts off row 0 |
| `length` | does a move that finds the motor locked move the field as often as it was asked? | no, a move of n steps moves it n + 1 times |
| `ring` | four slots, any calls: pointers, full flag, cleared slots, refinement of `BoundedQueue` | hold |
| `serial` | a host that waits for replies and one that does not, a main that may be held: is each packet dispatched, whole and in order, does what was abandoned go away, does main stay in the pool and the report, is a complete packet never forgotten? | all hold, dispatch under fairness and unless a packet grows too old |
| `takes` | is what main takes always a packet? | no, a drain also takes the first bytes of the next packet, and the count of ready packets goes on |
| `loop` | main with both links, the button, every command and 0xEE: is each command answered once on its link, what does AUX show after any commands, does main come round? | all hold: an answer is complete on USB and its first byte on the UART; AUX keeps the period of the first `CMD_AUX_PWM` and the low time of the last; main comes round unless the button is pressed again and again or a wait never ends |
| `hid` | `readNB` and `send` against the interrupt, the controller, halts, resets and reports main drops: no answer twice, out of order or left over; is each command answered? | all hold, the last under fairness and unless main drops the report |
| `data` | does every dispatched report hold the data of a packet? | no, one that completes between the two halves of `readNB` is empty, or holds what was dropped before |
| `control` | control transfers with SETUP packets at any time: exact data, no stall of what is supported, does each transfer end? | all hold; a stall only in the race of `usbisr` |
| `ram` | resets and any number of configurations: are the buffers in the RAM and apart, are all endpoints enabled? | all hold |

Why these bounds are enough.  Four slots let the ring wrap at every slot with every number
of elements, and 0 is among the values because the pool is cleared with it. The largest
index is among those read.  In `serial` a packet of two bytes arrives in bursts of one and
two; two values show an exchanged or repeated byte.  A host that streams fills the four
slots with two packets, all of one byte since no property looks at its bytes, and further
ones wrap and drop the oldest; `ReadyWord` 3 with `MaxReady` 2 reaches the highest count
that does not wrap, and a report with `Room` for four bytes is written full and beyond.
In `loop` bytes have 2 bits, so that half words wrap at 16; a duty cycle above the period
is among the values (`<<3, 1>>`), and a second period meets a running timer; two rows tell
row 0 from the others; moves of one step end while main waits and while it does not, and
0xEE makes its two moves; one sample of the button is enough, since main only compares the
history with all ones; two copies of a byte stand for more than one.  USB sends every
command, the UART one with results and 0xEE, which fills every pair of a command on one
link and a state left by the other.  In `hid` three losses, bus resets or dropped reports,
can take the command before, the one being answered and the one after, and `Command` has
more numbers than commands can be unanswered.  In `control` packets of 2 bytes and
descriptors of 1, 2, 4 and 5 bytes give a short, a full, two full, and two and a half
packets, asked for in part, exactly and with room to spare; `Byte` 4 makes a configuration
of 5 select 1; reports are half a packet, and the host asks to send one of the right and
one of a wrong length; two aborts let a SETUP packet or a bus reset meet what the last one
left. `ram` has the true size of the RAM, 2 KiB, the true reservation and alignment, and
the packet sizes of the HID class, besides others that do not fill their alignment; it can
select the configuration until the RAM is full and go on.  The runs that look for a
violation need no bound to be large: the counterexample is short.

Fairness of `SMC` (`FairSpec`, `FairLatencySpec`): weak fairness of the handler, since a requested
interrupt is taken and the handler has no loop but the wait for a running timer,
and of main's statements, since main does nothing else inside a call.  Main need
not call again.  Weak fairness of main suffices although interrupts disable it,
because a move has finitely many of them.

Fairness of `SerialInput`: weak fairness of main, whose loop goes on, and of the
aging ticker, a hardware timer.  The host owes nothing: it may stop at any byte.

Fairness of `MainLoop`: weak fairness of main, of the motor's ticker, and of the watchdog
once it runs.  The hosts owe nothing - an answer may stay unfetched or unread - nor does
the user, and the wait for the AUX timer is not fair: main polls for TC = 0 and may
miss it.  That is why `ComesRound` lists what may hold main.

Fairness of `HidReports`: weak fairness of main inside a call of `readNB` or `send`, of
the pending interrupt, and of the host's tokens, which a host repeats until they are
served. That main comes to its next `readNB`, and that the dispatcher ends, is not
assumed: both have the waits that `ComesRound` lists, and `CommandAnswered` excepts a main
that stays there.  Fairness of `ControlTransfer`: the interrupt, and a host that goes on
with the transfer it began or gives it up.

Seen while modelling, without a run of their own (each is among the hazards or
follows from a mapped definition):

* `SMC_getState` reads the count twice; the last interrupt between the reads makes it
  return -1 though nothing is paused (`SMC.cpp:282`).
* `SMC_brake` at row 0 aborts a move under way (`SMC.cpp:231`).
* A byte that comes inside the decrement of a pop is lost from the count.
* The buffer of the serial input is cleared after 5000 s and not after one
  (`main.cpp:39`): the constant multiplies ticks by microseconds.
* After a UART packet the USB report of the same pass is taken and dropped; at most
  one, as `Drop` of `CommandService` says (`main.cpp:233`).  Its bytes stay in
  `recv_report`, and can be dispatched later for a report that is read empty.
* "Return command + optional new args" (`main.cpp:217`) is true of USB only: the UART reply
  repeats the first byte, since its pointer is not moved (`main.cpp:223`), and
  `send_report.length` stays 32 for USB afterwards.  `CommandService` promises the
  first byte and the short reports, and no more.
* The comments on `CMD_LED_OFF` and `CMD_LED_ON` (`USBHIDProtocol.h:11-12`: "led on", "led
  off") and on `CMD_AUX_OFF` and `CMD_AUX_ON` (`:35-36`: "channel ON", "channel OFF") are
  exchanged: the code does what the names say, and so does the model.
* The comments of the ring buffer give the last element the index `elementcount`
  (`xIFO_SizeType.c:58`, `:94`); it is `elementcount - 1`, and `elementcount` answers 0.
* The LED keeps blinking after `CMD_SYS_RESET`.
* `CMD_AUX_PWM` on a running timer keeps the period and the prescaler of the command
  before (`USB_SwitchCase.c:82`), though "Args: duty cycle, period, timer prescaler"
  (`USBHIDProtocol.h:37`) has no such condition, and a duty cycle above its period wraps
  (`:79`).  `AuxFollowsCommands` states what comes out: the low time of the last
  command in the period of the first.
* The configuration is stored, cut to a byte, before it is known to be valid, and the device state
  changes before the sizes are checked: a request that is stalled can take effect
  (`USBDevice.cpp`, `StateAfter`).
* A SETUP packet between the two statements of `usbisr` that clear the interrupt and
  the flag is served and interrupts once more, which stalls its transfer
  (`USBHAL_LPC11U.cpp:645`); `SupportedNotStalled` excepts this race by `raced`.
* A host that selects the configuration eight times without a bus reset in between gets
  first buffers of both endpoints at one address, as the address is stored before the
  second is known to fit (`USBHAL_LPC11U.cpp:535`).  With the HID class nothing comes of
  it: OUT packets go to `ct->out` and not to the buffer of their endpoint.
* `SET_REPORT` over endpoint 0 and a report of endpoint 1 share `ct->out`.
* At row 24 `CT32B0_stage` sets the pin of L4 as GPIO, for a few instructions, in the
  interrupt that switched H4 off; the swap at row 9 comes a row behind the last one of
  H3.  `HandlerLeavesDeadTime` excepts it (`SMC.cpp:123`, `CT32B0_PWM.cpp:139`).
* "Wait minimum" in `SMC_init` is a comment without code: the low side of a motor that
  was locked, or of a move that just ended, is driven while its high side may still
  conduct (`SMC.cpp:42`).
* `SMC_init` loads match value 0, which turns the low side on until the first row
  is applied; it does not pull the unused output down before a first `SMC_deinit`.
* What a move of n steps that starts from a free motor shows is another matter than run
  `length`: its first interrupt sets the row the motor may already stand on.
* `SMC_brake` and `SMC_free` are refused off row 0, also when the motor is idle.
* `time_ms*1000` wraps: a long move is accepted and runs for a shorter time.
* `serialPacketReady` has 8 bits and wraps when the host streams 256 bytes into a
  main loop that is held up; the packets behind it then wait for one more byte.
* Were a tick of an aged buffer to come inside a pop, the decrement would take the
  count below 0, and the drain would not end for 2^32 elements.

## Proofs

`SMC_proofs` shows, for every set of step counts, times and commands and every
width of the unsigned word:

* `TypeCorrect`: the ranges of the statics; `smc_abort` is never set.
* `TickerSafe`, `NeverStuck`: the ticker is attached only while steps remain, and
  an unfinished move runs or can be continued.  Neither is inductive: `ControlInv`
  adds for each of main's statements whether the ticker can be attached there and
  how the flag relates to it.
* `NoShootThrough`, `IdleWithoutCurrent`: `BridgeInv` adds for each statement of
  the handler which part of the current row of the tables is applied, and that the
  driver is `Configured` - the outputs chop with the values last set and the pin of
  the sacrificed output is not driven high - whenever a move can be driven.  The
  lemmas on the driver's operators say what keeps it configured; `TablesExclude`
  says that no row of the tables switches both FETs of a leg on.
* `MotionImplemented`: each step of `SMC` is a step of `Motion` or a stutter.  A
  move is paused from the statement that sets the flag to the statement that
  attaches the ticker again; the steps left are `smc_steps`, and the interrupt that
  makes them -1 moves the field and ends the move at once.
* `RowFollowed`: between two interrupts the bridge shows the row of the tables the
  motor stands on.  It needs to know what the low side does while the high side is
  already a row ahead: `RowInv` adds which stage the PWM timer is in at each row and
  each statement of the handler (`StageOK`: rows 9 and 24 swap, `smc_dir` decides
  which way), when the timer runs (`ClockOK`), and which row the high side and the
  match values show (`RowOK`).  `Swapped` relates the row before and behind a swap.

`HighSideLatency_proofs` builds on these:

* `DeadTimeLeft`: no step of the handler but the swap of row 24 switches a low side on
  under a high side that is on or still conducts.  `LagInv` says that the FETs which do
  are those of the row the handler applies and of the row before, which is where `RowOK`
  is needed; `TablesLeaveRow`, that the tables leave a row free between the sides of a
  leg.  What is left is what each statement makes of the registers: an output that is
  not set shows what it showed (`SetElsewhere`), and the swap to stage 1 turns nothing on
  but L3 (`SwapConducts`), whose H3 has been off for a row then.

The assumption of both is `SMCAssumption`, the types of the constants.

`RingBuffer_proofs` shows, for every size of the pool and every set of values:

* `TypeCorrect`, `PointersCorrect`: the pointers stay in the pool, the count between
  0 and the size; the full flag and the write pointer agree with them.
* `NothingStaysBehind`: a slot without an element holds 0.
* `QueueImplemented`: every call is a step of `BoundedQueue` or a stutter, with the index
  of each read below `elementcount` or not.

The three invariants together are inductive, and the first two without the third.
The argument is arithmetic modulo the size: the slots of the elements are distinct
(`SlotOf` is injective on `1..Size`), a write shifts the index of each element by
one or, in a full buffer, replaces the slot of the oldest; a pop removes the
first or the last index.  The assumptions are `XIFOAssumption` and `IndexAssumption`: a
pool is smaller than what an index can count.

`SerialInput_proofs` shows, for every size of the buffer, length of a packet and set of
bytes:

* `TypeCorrect`, `DrainStaysInPool`: the drain reads and clears slots of the pool only,
  although bytes arrive between any two statements of `xifo_pop_lr` and `xifo_init`, and
  the report of a host that waits is not left (`StoredFits`).
  `PopOK` says for each statement what was loaded: it stays good, because a byte
  only adds to the count and no handler takes from the buffer while main is at it.
* `NotForgotten`: a buffer that holds a packet is counted as ready or being drained,
  although `serialPacketReady--` is a load and a store.
* `LinkImplemented`: every step is a step of `SerialLink` or a stutter, where a host that
  streams offers nothing: what is dispatched for one that waits is the packet it has under
  way, whole and in order, and no packet twice.  `PoliteOK` is the invariant.  It follows
  the bytes of the packet: while the host sends, all are in the buffer (`Gathering`); while
  main drains, those not yet taken are in the buffer, the others in the report, and the
  one on its way is in a statement of the pop (`Taking, Moving, Ending`); then the report
  is the packet (`Serving`).

The assumptions are `XIFOAssumption` and `SerialAssumption`: types, a packet that fits
the buffer, and a host that holds back before `serialPacketReady` wraps.

`EndpointRam_proofs` shows, for every size of the RAM, reservation, alignment and
class:

* `TypeCorrect`: the pointer never leaves the RAM.
* `RamSafe`, `NeverOverlap`: the buffers of enabled endpoints lie behind the
  reservation, in the RAM, and the two of an endpoint are apart.  Neither is inductive:
  a failed second buffer leaves a new first one beside an old second one, and what
  keeps them apart is that an old one ends before the pointer.  `Placed` says so;
  `StateOfLayout` that an endpoint is realised again with the same packet size.
* `ClassEnabled`: a device that was configured after a bus reset has all endpoints of its
  class enabled.  `Filling` says how much of the RAM the endpoints added so far may have
  taken: each at most its share, two rounded buffers (`ShareTaken`), so that what is left
  is enough for the rest.

The assumptions are `RamAssumption`, types, `LayoutAssumption`: a class adds an
endpoint once, and, for `ClassEnabled`, `RoomAssumption`: the shares of all endpoints fit the RAM
behind the reservation, as two endpoints with packets of 64 bytes fit 2 KiB.  Buffers of different endpoints are not claimed to
be apart: see above what a host can do to them.

`MainLoop_proofs` shows, for all arguments of the commands, all widths of words and all
lengths of the moves:

* `HalfWordSurvives`, `WordSurvives`: a half word and a word put into a report are read
  back unchanged, for every width of a byte.  `DivisionUnique` and `ShiftTwice` are the
  arithmetic.
* `StepsAsSent`: so is an `int`, whose sign comes back with `AsInt`: the length that
  `SMC_step` gets or refuses is the one the host sent.
* `TypeCorrect`: the ranges, and that main serves a command exactly from the statement
  that takes it to its answer.  `MotorOK` follows from `NextMoves`: every step of the
  loop is a step of `Motion` with a positive length, or leaves the motor alone;
  `ArgumentIsInt` says that the bytes of any argument are a number.
* `AuxObeys`: the AUX output after any commands (`AuxFollowsCommands`): the period of the
  first `CMD_AUX_PWM` since it was off or on, the low time of the last one, modulo the
  half word.  The property does not speak of the statement that waits for the timer;
  `AuxInv` adds that there the local match value is the inverted duty cycle and the timer
  runs.  `PwmArguments` uses `HalfWordSurvives`.
* `ServiceImplemented`: every step is a step of `CommandService` or a stutter.  `ServeOK` is
  the invariant: a command that is served does not wait on its link any more, unless the host
  has fetched the answer and asked the next before main saw it; a report in the endpoint
  that is not the answer main waits for is the echo of 0xEE, and then the board is
  going to restart; what is in `send_report` answers the command; what the UART has sent
  are copies of the first byte of an answer.  For `CMD_SMC_STATE` the
  last needs `MoveOK`, the length of the move under way, which needs `StepsAsSent`.

The assumptions are `MainAssumption`, `ByteAssumption` and `HalfWordAssumption`: types
of the constants (`steps` is a signed word), and that a half word is two bytes.

`HidReports_proofs` shows, for every set of commands and number of bus resets and dropped
reports:

* `TypeCorrect`: the endpoint calls index the entries of their endpoint only.
* `NothingLeft`, `PipeImplemented`: no report stays behind, and every step is a step of
  `ReportPipe` or a stutter.  The inductive invariant says where a command is on its
  way: in the interrupt, the completion, main or the IN endpoint, at one of them at a
  time (`OnePlace`), and it is the command asked last (`IsLast`); the host asks only when
  none is on its way (`AsksInTurn`), and those before the last were lost (`LostBefore`).
  `DataUnanswered` says that the bytes in `recv_report` and in the IN endpoint are those of
  a command without an answer, dropped ones included; `DroppedWaits`, that nothing of a
  dropped report is left on its way.

The assumption is `HidAssumption`, types.

`ControlTransfer_proofs` shows, for every packet size and all descriptors, requests,
aborted transfers and races:

* `TypeCorrect`: the ranges of the transfer record and of the two entries of endpoint 0.
* `DataExact`: a transfer that ends well brought exactly the bytes of the response, or
  handed the report to the class once.
* `NotStalled`: a request the device supports is stalled only after a SETUP packet came
  between the two statements of `usbisr` that look for it.

None is inductive.  The invariant says for each stage what is in the transfer record, in the
endpoint and with the host: `ReadOK`, that the bytes with the host, those in the endpoint
and those still to be sent are the response, and whether a ZLP is to come; `ReportOK`
and `NoDataOK` the same for the other directions; `OverOK`, what a transfer that is over has
left; `WaitingOK` what waits for the interrupt; `RefusedOK`, that a refused request can move
no data; `RaceOK`, what the race of `usbisr` can have left.  `HidDescriptorFound`
evaluates the walk of `findDescriptor` over the descriptors of the configuration;
`ChosenIs` is what cutting `wValue` to a byte leaves.

The assumptions are types, and `ReportAssumption`: the output report is shorter than
a packet, as 63 bytes and 64 are.  It is needed: with a report of several packets, a
`SET_REPORT` of a wrong length that meets the race is refused and served again, and its data
stage ends before the length is complete.  TLC shows this with packets of 2 bytes and a
report of 3.

Only model-checked: all liveness (`EveryMoveEnds`, `PacketDispatched`,
`RestIsDiscarded`, `ComesRound`, `CommandAnswered`, `TransferEnds`), which is out of
the prover's reach.  Every invariant, every refinement and the action property of the
passing runs is proved.

## Plan

Done: the motor control with its driver, the ring buffer, the serial input, the
main loop with the AUX channel and the byte operations, the USB link from the
reports of the class to the endpoint list, control transfers, the USB RAM; proofs of
all their safety properties and refinements.  To do:

1. The safety facts that the liveness properties rest on, as theorems: that main leaves the
   drain of the serial input after finitely many bytes, that a move has finitely
   many interrupts left.
2. A property for `SMC_getState`, whose answer may mix two moments.

## Not modelled

* `UART_SwitchCase.c` is included by no file.
* The USB classes the firmware does not use (audio, MIDI, storage, serial, keyboard,
  mouse), and the HALs of the KL25Z, LPC17xx and LPC40xx, which an `#if` for another chip
  makes empty here.
* `CT32B0_reinitpwm`, `CT16B1_reinitpwm`, `WatchDog`, the blocking `read` of the HID
  class, isochronous endpoints, suspend and remote wakeup: nobody calls or enables them.
* The mbed library: headers of a library that is precompiled, and CMSIS headers with the
  register layouts of four ARM cores; there is no code of the program to translate in
  them.  `Ticker`, `Serial`, `DigitalIn` and `DigitalOut` are modelled from their use.
* The contents of the descriptors but the configuration's, the layout of the board, the Python scripts on the
  host: data, or manual tests.

By lines the larger part of the repository is of these kinds: the mbed and CMSIS headers
and the unused classes and HALs are about four fifths of the C and C++ text.  Of the code
that runs on the board the maps name most lines.
