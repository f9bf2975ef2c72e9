------------------------------- MODULE MainLoop -------------------------------
(***************************************************************************)
(* The main loop (src/main.cpp) and the command dispatcher it includes     *)
(* twice (src/USB_SwitchCase.c), with what the commands work on: the motor *)
(* control as Motion promises it, the AUX channel, the LED, the button.    *)
(* The links are those of SerialInput and HidReports, reduced to whether a *)
(* command has arrived; a link's next command is named when main takes it, *)
(* since nothing before that depends on it.                                *)
(***************************************************************************)
EXTENDS CT16B1_PWM, ByteOperations

CONSTANTS UartOps, UsbOps,   \* the commands the host on each link asks
          Steps,             \* values of the argument `steps'
          Dirs,              \* values of the argument `dir', 1 or -1
          Pwms,              \* duty cycles and periods that CMD_AUX_PWM is given
          ButtonSteps,       \* length of the move of the button: 1600
          Egg,               \* rr of SMC_egg: the lengths of its moves
          HistoryWord,       \* range of button_history: 2^32
          Rows,              \* rows of the motor's lookup tables: 32
          Version,
          Copies             \* how often the UART can be written before it is full

Word == HalfWord * HalfWord

\* `steps' is an int on the hosts as well.
ASSUME MainAssumption ==
    /\ HalfWord = Byte * Byte /\ HistoryWord \in Nat \ {0} /\ Rows \in Nat \ {0}
    /\ Steps \subseteq -(Word \div 2)..(Word \div 2 - 1) /\ ButtonSteps \in Nat \ {0}
    /\ Egg \in Seq(Nat \ {0})
    /\ Dirs \subseteq {-1, 1} /\ Pwms \subseteq uint16 \X uint16 /\ Version \in 0..(Byte - 1)
    /\ Copies \subseteq Nat \ {0}

VARIABLES mode, left, dir, pos,   \* the motor, as in Motion
          aux, led,               \* the outputs; the LED is "on", "off" or "blink"
          history,                \* button_history
          in,                     \* of each link: a command has arrived
          fetchable,              \* the report in the IN endpoint, << >> if none
          heard,                  \* what the UART has sent and its host not read
          pc,                     \* main's next statement
          link, op,               \* the command main serves and its link
          reply, length,          \* send_report: what is written in data, and length
          parsed,                 \* UART_PacketParsed
          match,                  \* dutycycle, inverted, while main waits for the timer
          moves,                  \* moves SMC_egg has begun
          watchdog,               \* it runs
          wanted                  \* what the last command wanted of AUX (history)

motor == <<mode, left, dir, pos>>
outputs == <<aux, led, wanted>>
served == <<link, op, reply>>
answers == <<fetchable, heard, length>>
vars == <<motor, outputs, history, in, answers, pc, served, parsed, match,
          moves, watchdog>>

Motor == INSTANCE Motion WITH Counts <- {n \in Steps : n >= 1}, Cycle <- Rows

Links == {"uart", "usb"}
Released == HistoryWord - 1

\* The numbers of the command, and the period of the first CMD_AUX_PWM since
\* the channel was last switched off or on.
WantPwm(d, p, s) == [as |-> "pwm", duty |-> d, period |-> p, start |-> s]
WantLevel(v) == [as |-> v, duty |-> 0, period |-> 0, start |-> 0]

\* What main finds when it enters the loop: led = 0 is lit.
Init ==
    /\ Motor!MotionInit
    /\ aux = AuxOff /\ led = "on" /\ wanted = WantLevel("low")
    /\ history = Released
    /\ in = [l \in Links |-> FALSE] /\ fetchable = <<>> /\ heard = <<>> /\ length = 64
    /\ pc = "top" /\ link = "none" /\ op = "none" /\ reply = <<>>
    /\ parsed = FALSE /\ match = 0 /\ moves = 0 /\ watchdog = FALSE

-----------------------------------------------------------------------------
(* The dispatcher.  Each command leaves its answer in send_report.         *)

\* The command is echoed; its results follow.
Reply(results) == reply' = <<op'>> \o results
Failure == <<"0xFF">>

\* What is sent on USB: the first length bytes, which hold any answer.
Report(data) == [size |-> length, data |-> data]

Keeps == UNCHANGED <<history, answers, parsed, watchdog>>
Done == pc' = "reply" /\ UNCHANGED <<match, moves>> /\ Keeps

SysCheck == Reply(<<Version>>) /\ UNCHANGED <<motor, outputs>> /\ Done

\* The ticker of a blinking LED goes on.
\* Mutant: the AUX channel is only cleared as a pin.
ResetAuxPin(a) == Level(a, "low")
ResetAux(a) == Level(CT16B1_deinit(a), "low")

SysReset ==
    /\ Motor!Abort
    /\ aux' = ResetAux(aux) /\ wanted' = WantLevel("low")
    /\ led' = IF led = "blink" THEN "blink" ELSE "off"
    /\ Reply(<<>>) /\ Done

Led(s) == led' = s /\ Reply(<<>>) /\ UNCHANGED <<motor, aux, wanted>> /\ Done

LedState == [c \in {"LED_OFF", "LED_ON", "LED_BLINK"} |->
                CASE c = "LED_OFF" -> "off" [] c = "LED_ON" -> "on" [] c = "LED_BLINK" -> "blink"]

LedBreath == Reply(<<>>) /\ UNCHANGED <<motor, outputs>> /\ Done

GetButton == /\ Reply(write_32_to_8(history))
             /\ UNCHANGED <<motor, outputs>> /\ Done

\* SMC_step takes an int.  It refuses a busy motor, less than one step and a
\* step time below 100 us; how long the move may take is not told apart.
AsInt(n) == IF n < Word \div 2 THEN n ELSE n - Word

SMC_step(n, d, tooFast) ==
    IF mode = "idle" /\ n >= 1 /\ ~tooFast THEN Motor!Start(n, d) ELSE UNCHANGED motor

SmcStep ==
    /\ \E n \in Steps, d \in Dirs, tooFast \in BOOLEAN :
          SMC_step(AsInt(read_8_to_32(write_32_to_8(n), 0)), d, tooFast)
    /\ Reply(<<>>) /\ UNCHANGED outputs /\ Done

\* What is left of the move, negative if paused.
SMC_getState == IF mode = "paused" THEN -left ELSE left

SmcState == /\ Reply(write_32_to_8(SMC_getState))
            /\ UNCHANGED <<motor, outputs>> /\ Done

SmcStop == Motor!Abort /\ Reply(<<>>) /\ UNCHANGED outputs /\ Done

SmcPause ==
    /\ IF mode = "running" THEN Motor!Pause ELSE UNCHANGED motor
    /\ Reply(<<>>) /\ UNCHANGED outputs /\ Done

SmcContinue ==
    /\ IF mode = "paused" THEN Motor!Continue ELSE UNCHANGED motor
    /\ Reply(<<>>) /\ UNCHANGED outputs /\ Done

\* SMC_free and SMC_brake do nothing off row 0.
SmcFree ==
    /\ IF pos > 0 THEN UNCHANGED motor ELSE Motor!Abort
    /\ Reply(<<>>) /\ UNCHANGED outputs /\ Done

AuxSet(s) ==
    /\ aux' = Level(CT16B1_deinit(aux), s) /\ wanted' = WantLevel(s)
    /\ Reply(<<>>) /\ UNCHANGED <<motor, led>> /\ Done

\* "Invert PWM, since timer is inverted", in 16 bits.
\* Mutant: it does not wrap.
UnwrappedDuty(d, p) == p - d
InvertedDuty(d, p) == (p - d) % HalfWord

\* A timer that runs keeps its period and gets its match value when it is 0.
AuxPwm ==
    \E a \in Pwms :
       LET args == write_16_to_8(a[1]) \o write_16_to_8(a[2])
           duty == read_8_to_16(args, 0)
           period == read_8_to_16(args, 2)
           m == InvertedDuty(duty, period)
       IN /\ wanted' = WantPwm(duty, period, IF wanted.as = "pwm" THEN wanted.start ELSE period)
          /\ IF aux.run
             THEN pc' = "refresh" /\ match' = m /\ UNCHANGED aux
             ELSE /\ aux' = CT16B1_start(CT16B1_initpwm(aux, period, m))
                  /\ pc' = "reply" /\ UNCHANGED match
          /\ Reply(<<>>) /\ UNCHANGED <<motor, led, moves>> /\ Keeps

\* 0xEE: sendNB puts the answer in the endpoint if that is free.
BeginEgg ==
    /\ Reply(<<>>)
    /\ fetchable' = IF fetchable = <<>> THEN Report(<<"EGG">>) ELSE fetchable
    /\ pc' = "egg" /\ moves' = 0
    /\ UNCHANGED <<motor, outputs, history, heard, length, parsed, match, watchdog>>

Unknown == reply' = Failure /\ UNCHANGED <<motor, outputs>> /\ Done

Ops == {"SYS_CHECK", "SYS_RESET", "LED_OFF", "LED_ON", "LED_BLINK", "LED_BREATH",
        "GET_BUTTON", "SMC_STEP", "SMC_STATE", "SMC_STOP", "SMC_PAUSE", "SMC_CONTINUE",
        "SMC_FREE", "SMC_BRAKE", "AUX_OFF", "AUX_ON", "AUX_PWM", "EGG", "UNKNOWN"}

Switch(c) ==
    \/ c = "SYS_CHECK" /\ SysCheck
    \/ c = "SYS_RESET" /\ SysReset
    \/ c \in DOMAIN LedState /\ Led(LedState[c])
    \/ c = "LED_BREATH" /\ LedBreath
    \/ c = "GET_BUTTON" /\ GetButton
    \/ c = "SMC_STEP" /\ SmcStep
    \/ c = "SMC_STATE" /\ SmcState
    \/ c = "SMC_STOP" /\ SmcStop
    \/ c = "SMC_PAUSE" /\ SmcPause
    \/ c = "SMC_CONTINUE" /\ SmcContinue
    \/ c \in {"SMC_FREE", "SMC_BRAKE"} /\ SmcFree
    \/ c = "AUX_OFF" /\ AuxSet("low")
    \/ c = "AUX_ON" /\ AuxSet("high")
    \/ c = "AUX_PWM" /\ AuxPwm
    \/ c = "EGG" /\ BeginEgg
    \/ c = "UNKNOWN" /\ Unknown
-----------------------------------------------------------------------------
(* A pass of the loop.                                                     *)

\* "Insert idle time"; a button that was down in the last samples starts a move,
\* if none is under way, and main waits for its end.
Top ==
    /\ pc = "top" /\ parsed' = FALSE
    /\ IF history < Released
       THEN /\ pc' = "button"
            /\ SMC_step(ButtonSteps, 1, FALSE)
       ELSE pc' = "uart" /\ UNCHANGED motor
    /\ UNCHANGED <<outputs, history, in, answers, served, match, moves, watchdog>>

ButtonMoved ==
    /\ pc = "button" /\ mode = "idle" /\ pc' = "top"
    /\ UNCHANGED <<motor, outputs, history, in, answers, served, parsed, match,
                   moves, watchdog>>

\* Main takes what has arrived.  Mutant: it finds it again in the next pass.
TakenNot(l) == in
Taken(l) == [in EXCEPT ![l] = FALSE]

Serve(l, ops) ==
    /\ in' = Taken(l) /\ link' = l
    /\ \E c \in ops : op' = c /\ Switch(c)

Skip(to) ==
    /\ pc' = to
    /\ UNCHANGED <<motor, outputs, history, answers, served, parsed, match,
                   moves, watchdog>>

\* if( serialPacketReady )
Uart ==
    /\ pc = "uart"
    /\ IF in["uart"] THEN Serve("uart", UartOps) ELSE Skip("usb") /\ UNCHANGED in

\* if( hid->readNB(&recv_report) && !UART_PacketParsed ): a report is taken
\* from its endpoint before the flag is looked at.
Usb ==
    /\ pc = "usb"
    /\ IF in["usb"] /\ ~parsed THEN Serve("usb", UsbOps) ELSE Skip("top") /\ in' = Taken("usb")

\* CT16B1_wait_refresh is over.
Refreshed ==
    /\ pc = "refresh"
    /\ aux' = CT16B1_set(aux, match) /\ match' = 0 /\ pc' = "reply"
    /\ UNCHANGED <<motor, led, wanted, history, in, answers, served, parsed,
                   moves, watchdog>>

\* SMC_egg: twice the moves of rr, each waited for; then the watchdog starts.
EggMoves == 2 * Len(Egg)

EggMove ==
    /\ pc = "egg" /\ moves < EggMoves
    /\ SMC_step(Egg[(moves % Len(Egg)) + 1], 1, FALSE)
    /\ moves' = moves + 1 /\ pc' = "moving"
    /\ UNCHANGED <<outputs, history, in, answers, served, parsed, match, watchdog>>

EggMoved ==
    /\ pc = "moving" /\ mode = "idle" /\ pc' = "egg"
    /\ UNCHANGED <<motor, outputs, history, in, answers, served, parsed, match,
                   moves, watchdog>>

WatchDog_us ==
    /\ pc = "egg" /\ moves = EggMoves
    /\ watchdog' = TRUE /\ moves' = 0 /\ pc' = "reply"
    /\ UNCHANGED <<motor, outputs, history, in, answers, served, parsed, match>>

NoneServed == link' = "none" /\ op' = "none" /\ reply' = <<>>

\* "Return command + optional new args": p is not incremented, so that the first
\* byte goes out as long as the UART is writable; the length of 32 stays.
ReplyUart ==
    /\ pc = "reply" /\ link = "uart"
    /\ \E k \in Copies : heard' = [i \in 1..k |-> reply[1]]
    /\ length' = 32 /\ parsed' = TRUE /\ pc' = "usb" /\ NoneServed
    /\ UNCHANGED <<motor, outputs, history, in, fetchable, match, moves, watchdog>>

\* hid->send fails if the echo of 0xEE is still there, and waits otherwise.
Send ==
    /\ pc = "reply" /\ link = "usb"
    /\ IF fetchable = <<>>
       THEN fetchable' = Report(reply) /\ pc' = "sending" /\ UNCHANGED served
       ELSE pc' = "top" /\ NoneServed /\ UNCHANGED fetchable
    /\ UNCHANGED <<motor, outputs, history, in, heard, length, parsed, match, moves, watchdog>>

\* Mutant: it waits for a report of 64 bytes.
FetchedFull == fetchable = <<>> /\ length = 64
Fetched == fetchable = <<>>

Sent ==
    /\ pc = "sending" /\ Fetched
    /\ pc' = "top" /\ NoneServed
    /\ UNCHANGED <<motor, outputs, history, in, answers, parsed, match, moves,
                   watchdog>>

Main == \/ Top \/ ButtonMoved \/ Uart \/ Usb \/ EggMove \/ EggMoved \/ WatchDog_us
        \/ ReplyUart \/ Send \/ Sent

-----------------------------------------------------------------------------
(* The interrupts, the user, the hosts and the watchdog.                   *)

Tick ==
    /\ Motor!Tick \/ Motor!End
    /\ UNCHANGED <<outputs, history, in, answers, pc, served, parsed, match,
                   moves, watchdog>>

\* The button is down, 0, or up when it is sampled.
Ticker_button_handler ==
    /\ \E button \in {0, 1} : history' = (history * 2 + button) % HistoryWord
    /\ UNCHANGED <<motor, outputs, in, answers, pc, served, parsed, match, moves, watchdog>>

\* Where the command of a link is: see CommandService.
Phase(l) == CASE in[l] -> "asked"
              [] ~in[l] /\ link = l /\ pc # "sending" -> op
              [] ~in[l] /\ link = l /\ pc = "sending" /\ fetchable # <<>> -> "answered"
              [] ~in[l] /\ link # l /\ l = "uart" /\ heard # <<>> -> "answered"
              [] OTHER -> "none"

\* A host waits for the answer, or until it is clear that there is none.
Ask(l) ==
    /\ Phase(l) = "none" /\ in' = [in EXCEPT ![l] = TRUE]
    /\ UNCHANGED <<motor, outputs, history, answers, pc, served, parsed, match,
                   moves, watchdog>>

Fetch ==
    /\ fetchable # <<>>
    /\ fetchable' = <<>>
    /\ UNCHANGED <<motor, outputs, history, in, heard, length, pc, served, parsed, match,
                   moves, watchdog>>

Hear ==
    /\ heard # <<>>
    /\ heard' = <<>>
    /\ UNCHANGED <<motor, outputs, history, in, fetchable, length, pc, served, parsed, match,
                   moves, watchdog>>

Restart ==
    /\ watchdog /\ Motor!Abort
    /\ aux' = AuxOff /\ led' = "on" /\ wanted' = WantLevel("low") /\ history' = Released
    /\ in' = [l \in Links |-> FALSE] /\ fetchable' = <<>> /\ heard' = <<>> /\ length' = 64
    /\ pc' = "top" /\ NoneServed
    /\ parsed' = FALSE /\ match' = 0 /\ moves' = 0 /\ watchdog' = FALSE

Next ==
    \/ Main \/ Refreshed
    \/ Tick \/ Ticker_button_handler
    \/ (\E l \in Links : Ask(l)) \/ Fetch \/ Hear \/ Restart

Spec == Init /\ [][Next]_vars

(* Main goes on, the motor's ticker runs.  Nothing makes a host fetch its  *)
(* answer or the user let go of the button, and main need not ever see the *)
(* timer of the AUX channel at 0.                                          *)
FairSpec == Spec /\ WF_vars(Main) /\ WF_vars(Tick) /\ WF_vars(Restart)

-----------------------------------------------------------------------------
(* Properties.                                                             *)

Labels == {"top", "button", "uart", "usb", "refresh", "egg", "moving", "reply", "sending"}

\* The registers of the AUX timer stay in 16 bits, the counts in their ranges,
\* and main serves a command exactly from where it is taken to its answer.
TypeOK ==
    /\ mode \in {"idle", "running", "paused"} /\ left \in Nat /\ dir \in {-1, 1}
    /\ pos \in 0..(Rows - 1)
    /\ aux \in Aux /\ led \in {"on", "off", "blink"} /\ match \in uint16
    /\ history \in 0..Released
    /\ in \in [Links -> BOOLEAN] /\ parsed \in BOOLEAN /\ watchdog \in BOOLEAN
    /\ pc \in Labels /\ link \in Links \cup {"none"} /\ op \in Ops \cup {"none"}
    /\ (pc \in {"refresh", "egg", "moving", "reply", "sending"}) <=> (link # "none")
    /\ moves \in 0..EggMoves /\ length \in {32, 64}

\* The AUX output after any sequence of commands, resets and restarts.  Off, on,
\* reset and restart discard the PWM.  From then on the first CMD_AUX_PWM sets the
\* period and each one the ticks of a period that are low, in 16 bits: a command
\* with another period while the timer runs is not high for its duty cycle, and
\* one with a duty cycle above its period is low for nearly 2^16 ticks.
LowTicks(w) == IF w.duty <= w.period THEN w.period - w.duty
                                     ELSE HalfWord - (w.duty - w.period)
AuxFollowsCommands ==
    pc # "refresh" =>
        IF wanted.as = "pwm"
        THEN /\ aux.run /\ aux.pin = "mat" /\ aux.MR3 = wanted.start
             /\ HighTicks(aux) = IF LowTicks(wanted) > wanted.start THEN 0
                                 ELSE wanted.start + 1 - LowTicks(wanted)
        ELSE ~aux.run /\ aux.pin = "gpio" /\ aux.level = wanted.as

\* What is in send_report when a command is done is an answer to that command,
\* on either link: nothing of an earlier one is left in it.
Lengths == ({n \in Steps : n >= 1}) \cup {ButtonSteps} \cup {Egg[i] : i \in DOMAIN Egg}
Results(c) ==
    CASE c = "SYS_CHECK" -> {<<Version>>}
      [] c = "GET_BUTTON" -> {write_32_to_8(h) : h \in 0..Released}
      [] c = "SMC_STATE" -> {write_32_to_8(v) : v \in UNION {-n..n : n \in Lengths}}
      [] OTHER -> {<<>>}
Answers == [c \in Ops |-> IF c = "UNKNOWN" THEN {Failure} ELSE {<<c>> \o r : r \in Results(c)}]

\* The promise to the hosts (CommandService.tla): one command at a time, each
\* served once and answered on its own link - in full on USB, in a report that
\* is shorter once the UART was answered, and by its first byte on the UART -
\* through button moves, 0xEE and the restart it ends in.
Service == INSTANCE CommandService WITH
    Echo   <- <<"EGG">>,
    box    <- fetchable,
    short  <- length = 32,
    phase  <- [l \in Links |-> Phase(l)],
    doomed <- watchdog \/ op = "EGG",
    mayDrop <- parsed /\ pc = "usb"
ImplementsService == Service!ServiceSpec

\* Main comes round to its links again and again, unless the last samples of the
\* button hold a press again and again, it waits for a move that is paused (src/main.cpp:185,
\* src/SMC.cpp:302), the host does not fetch an answer, or the timer of the AUX
\* channel is never seen at 0 (src/CT16B1_PWM.cpp:113).
ComesRound ==
    \/ []<>(pc = "uart")
    \/ []<>(history < Released)
    \/ <>[](pc \in {"button", "moving"} /\ mode = "paused")
    \/ <>[](pc = "sending" /\ fetchable # <<>>)
    \/ <>[](pc = "refresh" /\ aux.run)
=============================================================================
