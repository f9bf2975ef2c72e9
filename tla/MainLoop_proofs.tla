--------------------------- MODULE MainLoop_proofs ---------------------------
(***************************************************************************)
(* Theorems about the main loop, for all arguments of the commands, all    *)
(* widths of bytes and words and all lengths of the moves it makes.        *)
(***************************************************************************)
EXTENDS MainLoop, TLAPS

-----------------------------------------------------------------------------
(* Words survive their way through a report, for bytes of any width.       *)

\* Quotient and remainder are unique.
LEMMA DivisionUnique ==
    ASSUME NEW d \in Nat \ {0}, NEW q \in Int, NEW r \in 0..(d - 1)
    PROVE  (d * q + r) \div d = q /\ (d * q + r) % d = r
<1> DEFINE n == d * q + r
           p == n \div d
           s == n % d
<1>1. n \in Int /\ p \in Int /\ s \in 0..(d - 1) /\ n = d * p + s
  BY SMT
<1>2. d * (q - p) = s - r
  BY <1>1, SMT
<1>3. q - p = 0
  <2>1. CASE q - p >= 1
    <3>1. d * (q - p) >= d
      BY <1>1, <2>1, SMT
    <3>2. QED
      BY <1>1, <1>2, <3>1, SMT
  <2>2. CASE p - q >= 1
    <3>1. d * (p - q) >= d
      BY <1>1, <2>2, SMT
    <3>2. d * (p - q) = r - s
      BY <1>1, <1>2, SMT
    <3>3. QED
      BY <1>1, <3>1, <3>2, SMT
  <2>3. QED
    BY <1>1, <2>1, <2>2, SMT
<1>4. QED
  BY <1>1, <1>2, <1>3, SMT

\* Shifting right twice is shifting right by the sum.
LEMMA ShiftTwice ==
    ASSUME NEW v \in Int, NEW a \in Nat \ {0}, NEW b \in Nat \ {0}
    PROVE  (v \div a) \div b = v \div (a * b)
<1> DEFINE q == v \div a
           r == v % a
           p == q \div b
           s == q % b
<1>1. /\ q \in Int /\ r \in 0..(a - 1) /\ v = a * q + r
      /\ p \in Int /\ s \in 0..(b - 1) /\ q = b * p + s
  BY SMT
<1>2. a * b \in Nat \ {0}
  BY SMT
<1>3. a * s + r \in 0..(a * b - 1)
  <2>1. a * s >= 0 /\ a * s \in Int
    BY <1>1, SMT
  <2>2. a * s <= a * (b - 1)
    BY <1>1, SMT
  <2>3. a * (b - 1) = a * b - a
    BY SMT
  <2>4. QED
    BY <1>1, <1>2, <2>1, <2>2, <2>3, SMT
<1>4. v = (a * b) * p + (a * s + r)
  <2>1. a * (b * p + s) = a * (b * p) + a * s
    <3>1. \A x \in Int : a * (x + s) = a * x + a * s
      BY <1>1, SMT
    <3>2. QED
      BY <1>1, <3>1, SMT
  <2>2. a * (b * p) = (a * b) * p
    BY <1>1, SMT
  <2>3. a * q = (a * b) * p + a * s
    BY <1>1, <2>1, <2>2
  <2>4. a * q \in Int /\ (a * b) * p \in Int /\ a * s \in Int
    BY <1>1, SMT
  <2>5. \A x, y, z \in Int : z = x + y => z + r = x + (y + r)
    BY <1>1, SMT
  <2>6. v = a * q + r
    BY <1>1
  <2>7. a * q + r = (a * b) * p + (a * s + r)
    BY <2>3, <2>4, <2>5
  <2>8. QED
    BY <2>6, <2>7
<1>5. ((a * b) * p + (a * s + r)) \div (a * b) = p
  BY <1>1, <1>2, <1>3, DivisionUnique
<1>6. QED
  BY <1>4, <1>5

LEMMA ByteInRange ==
    ASSUME NEW v \in Int, NEW s \in Nat \ {0}
    PROVE  ByteOf(v, s) \in 0..(Byte - 1)
BY ByteAssumption, SMT DEF ByteOf

\* A half word written to a report reads back unchanged.
THEOREM HalfWordSurvives ==
    ASSUME NEW v \in 0..(Byte * Byte - 1)
    PROVE  read_8_to_16(write_16_to_8(v), 0) = v
<1>1. Byte \in Nat /\ Byte > 1 /\ v \in Nat
  BY ByteAssumption, SMT
<1>2. v \div 1 = v
  BY <1>1, SMT
<1> DEFINE q == v \div Byte
<1>3. q \in Nat /\ v = Byte * q + (v % Byte) /\ v % Byte \in 0..(Byte - 1)
  BY <1>1, SMT
<1>4. q < Byte
  <2>1. Byte * q < Byte * Byte
    BY <1>1, <1>3, SMT
  <2>2. CASE q >= Byte
    <3>1. Byte * q >= Byte * Byte
      BY <1>1, <1>3, <2>2, SMT
    <3>2. QED
      BY <1>1, <1>3, <2>1, <3>1, SMT
  <2>3. QED
    BY <1>1, <1>3, <2>2, SMT
<1>5. q % Byte = q
  BY <1>1, <1>3, <1>4, SMT
<1>6. QED
  BY <1>1, <1>2, <1>3, <1>5, SMT DEF read_8_to_16, write_16_to_8, ByteOf

\* A word written to a report reads back unchanged.
THEOREM WordSurvives ==
    ASSUME NEW v \in 0..((Byte * Byte) * (Byte * Byte) - 1)
    PROVE  read_8_to_32(write_32_to_8(v), 0) = v
<1> DEFINE H == Byte * Byte
           lo == v % H
           hi == v \div H
<1>1. Byte \in Nat \ {0} /\ v \in Nat /\ H \in Nat \ {0}
  BY ByteAssumption, SMT
<1>2. lo \in 0..(H - 1) /\ hi \in Nat /\ v = H * hi + lo
  BY <1>1, SMT
<1>3. hi \in 0..(H - 1)
  <2>1. H * hi < H * H
    BY <1>1, <1>2, SMT
  <2>2. CASE hi >= H
    <3>1. H * hi >= H * H
      BY <1>1, <1>2, <2>2, SMT
    <3>2. H * hi \in Int /\ H * H \in Int
      BY <1>1, <1>2, SMT
    <3>3. QED
      BY <2>1, <3>1, <3>2, SMT
  <2>3. QED
    BY <1>1, <1>2, <2>2, SMT
<1> DEFINE q == lo \div Byte
           r == lo % Byte
<1>4. q \in 0..(Byte - 1) /\ r \in 0..(Byte - 1) /\ lo = Byte * q + r
  <2>1. q \in Nat /\ r \in 0..(Byte - 1) /\ lo = Byte * q + r
    BY <1>1, <1>2, SMT
  <2>2. CASE q >= Byte
    <3>1. Byte * q >= H
      BY <1>1, <2>1, <2>2, SMT
    <3>2. Byte * q \in Int /\ H \in Int
      BY <1>1, <2>1, SMT
    <3>3. QED
      BY <1>2, <2>1, <3>1, <3>2, SMT
  <2>3. QED
    BY <1>1, <2>1, <2>2, SMT
<1>5. v = Byte * (Byte * hi + q) + r
  <2>1. \A x \in Int : Byte * (x + q) = Byte * x + Byte * q
    BY <1>1, <1>4, SMT
  <2>2. Byte * (Byte * hi + q) = Byte * (Byte * hi) + Byte * q
    <3>1. Byte * hi \in Int
      BY <1>1, <1>2, SMT
    <3>2. QED
      BY <2>1, <3>1, Zenon
  <2>3. Byte * (Byte * hi) = H * hi
    BY <1>1, <1>2, SMT
  <2>4. H * hi \in Int /\ Byte * q \in Int /\ r \in Int
    BY <1>1, <1>2, <1>4, SMT
  <2>5. \A x, y, z \in Int : x + (y + z) = (x + y) + z
    BY SMT
  <2>6. v = H * hi + (Byte * q + r)
    BY <1>2, <1>4
  <2>7. v = (H * hi + Byte * q) + r
    BY <2>4, <2>5, <2>6
  <2>8. QED
    BY <2>2, <2>3, <2>7
<1>6. v \div Byte = Byte * hi + q /\ v % Byte = r
  <2>1. Byte * hi + q \in Int
    BY <1>1, <1>2, <1>4, SMT
  <2>2. /\ (Byte * (Byte * hi + q) + r) \div Byte = Byte * hi + q
        /\ (Byte * (Byte * hi + q) + r) % Byte = r
    BY <1>1, <1>4, <2>1, DivisionUnique
  <2>3. QED
    BY <1>5, <2>2
<1>7. (Byte * hi + q) % Byte = q
  <2>1. \A x \in Int, y \in 0..(Byte - 1) : (Byte * x + y) % Byte = y
    BY <1>1, DivisionUnique
  <2>2. hi \in Int
    BY <1>2
  <2>3. QED
    BY <1>4, <2>1, <2>2, Zenon
<1>8. ByteOf(v, 1) = ByteOf(lo, 1) /\ ByteOf(v, Byte) = ByteOf(lo, Byte)
  <2>1. \A w \in Int : w \div 1 = w
    BY SMT
  <2>2. v \div 1 = v /\ lo \div 1 = lo
    BY <1>1, <1>2, <2>1
  <2>3. \A y \in 0..(Byte - 1) : y % Byte = y
    BY <1>1, SMT
  <2>4. q % Byte = q
    BY <1>4, <2>3, Zenon
  <2>5. ByteOf(v, 1) = r /\ ByteOf(lo, 1) = r
    BY <1>6, <2>2 DEF ByteOf
  <2>6. ByteOf(v, Byte) = q /\ ByteOf(lo, Byte) = q
    BY <1>6, <1>7, <2>4 DEF ByteOf
  <2>7. QED
    BY <2>5, <2>6
<1>9. ByteOf(v, H) = ByteOf(hi, 1) /\ ByteOf(v, H * Byte) = ByteOf(hi, Byte)
  <2>1. hi \div 1 = hi
    BY <1>2, <1>3, SMT
  <2>2. \A x \in Int, h, b \in Nat \ {0} : (x \div h) \div b = x \div (h * b)
    BY ShiftTwice, Zenon
  <2>3. (v \div H) \div Byte = v \div (H * Byte)
    <3>1. v \in Int
      BY <1>1
    <3> HIDE DEF H
    <3>2. QED
      BY <1>1, <2>2, <3>1, Zenon
  <2>4. QED
    BY <2>1, <2>3 DEF ByteOf
<1>10. ASSUME NEW w \in 0..(H - 1)
       PROVE  ByteOf(w, 1) + ByteOf(w, Byte) * Byte = w
  BY HalfWordSurvives DEF read_8_to_16, write_16_to_8
<1>11. lo + hi * Byte * Byte = v
  <2>1. hi * Byte * Byte = H * hi
    BY <1>1, <1>3, SMT
  <2>2. H * hi \in Int /\ lo \in Int
    BY <1>1, <1>2, SMT
  <2>3. \A x, y \in Int : x + y = y + x
    BY SMT
  <2>4. QED
    BY <1>2, <2>1, <2>2, <2>3
<1> DEFINE s == write_32_to_8(v)
<1>12. /\ s[0 + 1] = ByteOf(v, 1) /\ s[0 + 2] = ByteOf(v, Byte)
       /\ s[0 + 2 + 1] = ByteOf(v, H) /\ s[0 + 2 + 2] = ByteOf(v, H * Byte)
  BY DEF write_32_to_8
<1>13. read_8_to_16(s, 0) = lo /\ read_8_to_16(s, 0 + 2) = hi
  BY <1>2, <1>3, <1>8, <1>9, <1>10, <1>12 DEF read_8_to_16
<1>14. QED
  BY <1>11, <1>13 DEF read_8_to_32

-----------------------------------------------------------------------------
(* The motor: each step of the loop is a step of Motion, with an accepted  *)
(* length, or leaves the motor alone.                                      *)

MotorOK ==
    /\ mode \in {"idle", "running", "paused"} /\ left \in Nat
    /\ mode = "idle" => left = 0
    /\ dir \in {-1, 1} /\ pos \in 0..(Rows - 1)

MotorStep ==
    \/ \E n \in Nat \ {0}, d \in {-1, 1} : Motor!Start(n, d)
    \/ Motor!Tick \/ Motor!End \/ Motor!Pause \/ Motor!Continue \/ Motor!Abort
    \/ UNCHANGED motor

LEMMA MotorKept == MotorOK /\ MotorStep => MotorOK'
<1> SUFFICES ASSUME MotorOK, MotorStep PROVE MotorOK'
  OBVIOUS
<1>1. Rows \in Nat \ {0}
  BY MainAssumption
<1>2. CASE \E n \in Nat \ {0}, d \in {-1, 1} : Motor!Start(n, d)
  BY <1>2 DEF MotorOK, Motor!Start
<1>3. CASE Motor!Tick \/ Motor!End
  <2>1. (pos + 1) % Rows \in 0..(Rows - 1)
    BY <1>1 DEF MotorOK
  <2>2. QED
    BY <1>1, <1>3, <2>1 DEF MotorOK, Motor!Tick, Motor!End
<1>4. CASE Motor!Pause
  BY <1>4 DEF MotorOK, Motor!Pause
<1>5. CASE Motor!Continue
  BY <1>5 DEF MotorOK, Motor!Continue
<1>6. CASE Motor!Abort
  BY <1>1, <1>6 DEF MotorOK, Motor!Abort
<1>7. CASE UNCHANGED motor
  BY <1>7 DEF MotorOK, motor
<1>8. QED
  BY <1>2, <1>3, <1>4, <1>5, <1>6, <1>7 DEF MotorStep

\* The argument of CMD_SMC_STEP is a number, whatever was sent.
LEMMA ArgumentIsInt ==
    ASSUME NEW n \in Int
    PROVE  AsInt(read_8_to_32(write_32_to_8(n), 0)) \in Int
<1>1. Byte \in Nat \ {0} /\ HalfWord \in Nat \ {0}
  BY ByteAssumption, HalfWordAssumption
<1>2. Byte * Byte \in Nat \ {0} /\ Word \in Nat
  BY <1>1 DEF Word
<1>3. Byte * Byte * Byte \in Nat \ {0}
  BY <1>1, <1>2
<1> DEFINE s == write_32_to_8(n)
<1>4. /\ s[0 + 1] \in Int /\ s[0 + 2] \in Int
      /\ s[0 + 2 + 1] \in Int /\ s[0 + 2 + 2] \in Int
  BY <1>1, <1>2, <1>3, ByteInRange DEF write_32_to_8
<1> HIDE DEF s
<1>5. read_8_to_16(s, 0) \in Int /\ read_8_to_16(s, 0 + 2) \in Int
  BY <1>1, <1>4 DEF read_8_to_16
<1>6. read_8_to_32(s, 0) \in Int
  BY <1>1, <1>5 DEF read_8_to_32
<1>7. QED
  BY <1>2, <1>6 DEF s, AsInt

\* SMC_step begins a move or leaves the motor alone.
LEMMA StepStarts ==
    ASSUME NEW n, NEW d, NEW f, SMC_step(n, d, f)
    PROVE  (n >= 1 /\ Motor!Start(n, d)) \/ UNCHANGED motor
BY DEF SMC_step

LEMMA EggIs ==
    /\ EggMoves \in Nat /\ Len(Egg) \in Nat
    /\ \A i \in 1..Len(Egg) : Egg[i] \in Nat \ {0}
BY MainAssumption DEF EggMoves

\* SMC_egg looks up no length outside rr.
LEMMA EggInside ==
    ASSUME moves \in Nat, moves < EggMoves
    PROVE  (moves % Len(Egg)) + 1 \in 1..Len(Egg)
<1>1. Len(Egg) \in Nat \ {0}
  BY EggIs DEF EggMoves
<1>2. moves % Len(Egg) \in 0..(Len(Egg) - 1)
  BY <1>1
<1>3. QED
  BY <1>1, <1>2

LEMMA LedStates == \A c \in DOMAIN LedState : LedState[c] \in {"on", "off", "blink"}
BY DEF LedState

LEMMA SwitchMoves == ASSUME NEW c, Switch(c) PROVE MotorStep
<1>1. CASE SmcStep
  <2>1. PICK n \in Steps, d \in Dirs :
           LET steps == AsInt(read_8_to_32(write_32_to_8(n), 0)) IN
           (steps >= 1 /\ Motor!Start(steps, d)) \/ UNCHANGED motor
    BY <1>1, StepStarts DEF SmcStep
  <2>2. AsInt(read_8_to_32(write_32_to_8(n), 0)) \in Int /\ d \in {-1, 1}
    BY MainAssumption, ArgumentIsInt
  <2>3. QED
    BY <2>1, <2>2 DEF MotorStep
<1>2. CASE SysCheck \/ SysReset \/ LedBreath \/ GetButton \/ SmcState \/ SmcStop
  BY <1>2 DEF SysCheck, SysReset, LedBreath, GetButton, SmcState, SmcStop, MotorStep
<1>3. CASE SmcPause \/ SmcContinue \/ SmcFree
  BY <1>3 DEF SmcPause, SmcContinue, SmcFree, MotorStep
<1>4. CASE (\E s \in {"off", "on", "blink"} : Led(s)) \/ (\E s \in {"low", "high"} : AuxSet(s))
           \/ AuxPwm \/ BeginEgg \/ Unknown
  BY <1>4 DEF Led, AuxSet, AuxPwm, BeginEgg, Unknown, MotorStep
<1>5. QED
  BY <1>1, <1>2, <1>3, <1>4, LedStates DEF Switch

LEMMA NextMoves == MotorOK /\ moves \in Nat /\ [Next]_vars => MotorStep
<1> SUFFICES ASSUME MotorOK, moves \in Nat, [Next]_vars PROVE MotorStep
  OBVIOUS
<1>1. CASE Top
  BY <1>1, MainAssumption, StepStarts DEF Top, MotorStep
<1>2. CASE Uart \/ Usb
  BY <1>2, SwitchMoves DEF Uart, Usb, Serve, Skip, MotorStep
<1>3. CASE EggMove
  <2>1. Egg[(moves % Len(Egg)) + 1] \in Nat \ {0}
    BY <1>3, EggInside, EggIs DEF EggMove
  <2>2. QED
    BY <1>3, <2>1, StepStarts DEF EggMove, MotorStep
<1>4. CASE ButtonMoved \/ EggMoved \/ WatchDog_us \/ ReplyUart \/ Send \/ Sent \/ Refreshed
  BY <1>4 DEF ButtonMoved, EggMoved, WatchDog_us, ReplyUart, Send, Sent, Refreshed, MotorStep
<1>5. CASE Tick \/ Ticker_button_handler
  BY <1>5 DEF Tick, Ticker_button_handler, MotorStep
<1>6. CASE (\E l \in Links : Ask(l)) \/ Fetch \/ Hear \/ Restart
  BY <1>6 DEF Ask, Fetch, Hear, Restart, MotorStep
<1>7. CASE UNCHANGED vars
  BY <1>7 DEF vars, MotorStep
<1>8. QED
  BY <1>1, <1>2, <1>3, <1>4, <1>5, <1>6, <1>7 DEF Next, Main

-----------------------------------------------------------------------------
(* The statements of main, the links, the button, the LED.                 *)

Serving == {"refresh", "egg", "moving", "reply", "sending"}

ControlOK ==
    /\ led \in {"on", "off", "blink"} /\ match \in uint16
    /\ history \in 0..Released
    /\ in \in [Links -> BOOLEAN] /\ parsed \in BOOLEAN /\ watchdog \in BOOLEAN
    /\ pc \in Labels /\ link \in Links \cup {"none"} /\ op \in Ops \cup {"none"}
    /\ pc \in Serving <=> link # "none"
    /\ moves \in 0..EggMoves /\ length \in {32, 64}

LEMMA InvertedIsHalfWord ==
    ASSUME NEW d \in Int, NEW p \in Int
    PROVE  InvertedDuty(d, p) \in uint16
BY HalfWordAssumption DEF InvertedDuty, uint16

\* The arguments of CMD_AUX_PWM arrive as they were sent.
LEMMA PwmArguments ==
    ASSUME NEW a \in Pwms
    PROVE  LET args == write_16_to_8(a[1]) \o write_16_to_8(a[2]) IN
           read_8_to_16(args, 0) = a[1] /\ read_8_to_16(args, 2) = a[2]
<1> DEFINE x == write_16_to_8(a[1])
           y == write_16_to_8(a[2])
           args == x \o y
<1>1. a[1] \in uint16 /\ a[2] \in uint16 /\ uint16 = 0..(Byte * Byte - 1)
  BY MainAssumption DEF uint16
<1>2. /\ args[0 + 1] = x[0 + 1] /\ args[0 + 2] = x[0 + 2]
      /\ args[2 + 1] = y[0 + 1] /\ args[2 + 2] = y[0 + 2]
  BY DEF write_16_to_8
<1>3. read_8_to_16(x, 0) = a[1] /\ read_8_to_16(y, 0) = a[2]
  BY <1>1, HalfWordSurvives
<1> HIDE DEF x, y, args
<1>4. read_8_to_16(args, 0) = a[1] /\ read_8_to_16(args, 2) = a[2]
  BY <1>2, <1>3 DEF read_8_to_16
<1>5. QED
  BY <1>4 DEF args, x, y

\* What CMD_AUX_PWM does, in terms of the arguments sent.
LEMMA AuxPwmIs ==
    ASSUME AuxPwm
    PROVE  \E d \in uint16, p \in uint16 :
              /\ wanted' = WantPwm(d, p, IF wanted.as = "pwm" THEN wanted.start ELSE p)
              /\ \/ /\ aux.run /\ pc' = "refresh" /\ match' = InvertedDuty(d, p)
                    /\ UNCHANGED aux
                 \/ /\ ~aux.run /\ pc' = "reply" /\ UNCHANGED match
                    /\ aux' = CT16B1_start(CT16B1_initpwm(aux, p, InvertedDuty(d, p)))
              /\ UNCHANGED <<led, moves>> /\ Keeps
<1>1. PICK a \in Pwms :
         LET args == write_16_to_8(a[1]) \o write_16_to_8(a[2])
             d == read_8_to_16(args, 0)
             p == read_8_to_16(args, 2)
         IN /\ wanted' = WantPwm(d, p, IF wanted.as = "pwm" THEN wanted.start ELSE p)
            /\ IF aux.run
               THEN pc' = "refresh" /\ match' = InvertedDuty(d, p) /\ UNCHANGED aux
               ELSE /\ aux' = CT16B1_start(CT16B1_initpwm(aux, p, InvertedDuty(d, p)))
                    /\ pc' = "reply" /\ UNCHANGED match
            /\ UNCHANGED <<led, moves>> /\ Keeps
  BY DEF AuxPwm
<1>2. a[1] \in uint16 /\ a[2] \in uint16
  BY MainAssumption
<1>3. QED
  BY <1>1, <1>2, PwmArguments

LEMMA SwitchControl ==
    ASSUME ControlOK, NEW c, Switch(c), op' = c, link' \in Links, in' \in [Links -> BOOLEAN]
    PROVE  ControlOK'
<1>1. c \in Ops
  BY DEF Switch, Ops, LedState
<1>2. UNCHANGED <<history, parsed, watchdog, length>>
  BY DEF Switch, SysCheck, SysReset, Led, LedBreath, GetButton, SmcStep, SmcState, SmcStop,
     SmcPause, SmcContinue, SmcFree, AuxSet, AuxPwm, BeginEgg, Unknown, Done, Keeps,
     answers
<1>3. led' \in {"on", "off", "blink"}
  <2>1. CASE \E s \in {"off", "on", "blink"} : Led(s)
    BY <2>1 DEF Led
  <2>2. CASE UNCHANGED led \/ SysReset
    BY <2>2 DEF SysReset, ControlOK
  <2>3. QED
    BY <2>1, <2>2, LedStates DEF Switch, SysCheck, LedBreath, GetButton, SmcStep, SmcState,
       SmcStop, SmcPause, SmcContinue, SmcFree, AuxSet, AuxPwm, BeginEgg, Unknown, outputs
<1>4. pc' \in Serving /\ match' \in uint16 /\ moves' \in 0..EggMoves
  <2>1. CASE AuxPwm
    <3>1. \A d, p \in uint16 : InvertedDuty(d, p) \in uint16
      BY InvertedIsHalfWord, HalfWordAssumption DEF uint16
    <3>2. QED
      BY <2>1, <3>1, AuxPwmIs DEF ControlOK, Serving, answers
  <2>2. CASE BeginEgg
    BY <2>2, EggIs DEF BeginEgg, ControlOK, Serving, answers
  <2>3. CASE Done
    BY <2>3 DEF Done, ControlOK, Serving, answers
  <2>4. QED
    BY <2>1, <2>2, <2>3 DEF Switch, SysCheck, SysReset, Led, LedBreath, GetButton, SmcStep,
       SmcState, SmcStop, SmcPause, SmcContinue, SmcFree, AuxSet, Unknown
<1>5. QED
  BY <1>1, <1>2, <1>3, <1>4 DEF ControlOK, Serving, Labels, Links, answers

LEMMA ServeControl ==
    ASSUME ControlOK, NEW l \in Links, NEW ops, Serve(l, ops)
    PROVE  ControlOK'
<1>1. PICK c \in ops : op' = c /\ Switch(c)
  BY DEF Serve
<1>2. link' \in Links /\ in' \in [Links -> BOOLEAN]
  BY DEF Serve, Taken, ControlOK
<1>3. QED
  BY <1>1, <1>2, SwitchControl

LEMMA ControlKept == ControlOK /\ [Next]_vars => ControlOK'
<1> SUFFICES ASSUME ControlOK, [Next]_vars PROVE ControlOK'
  OBVIOUS
<1>1. CASE Top
  BY <1>1 DEF Top, ControlOK, Serving, Labels, outputs, served, answers
<1>2. CASE ButtonMoved
  BY <1>2 DEF ButtonMoved, ControlOK, Serving, Labels, outputs, served, answers
<1>3. CASE Uart
  <2>1. CASE in["uart"]
    BY <1>3, <2>1, ServeControl DEF Uart, Links
  <2>2. CASE ~in["uart"]
    BY <1>3, <2>2 DEF Uart, Skip, ControlOK, Serving, Labels, outputs, served, answers
  <2>3. QED
    BY <2>1, <2>2
<1>4. CASE Usb
  <2>1. CASE in["usb"] /\ ~parsed
    BY <1>4, <2>1, ServeControl DEF Usb, Links
  <2>2. CASE ~(in["usb"] /\ ~parsed)
    BY <1>4, <2>2 DEF Usb, Skip, Taken, ControlOK, Serving, Labels, outputs, served, answers
  <2>3. QED
    BY <2>1, <2>2
<1>5. CASE EggMove
  BY <1>5, EggIs DEF EggMove, ControlOK, Serving, Labels, outputs, served, answers
<1>6. CASE EggMoved
  BY <1>6 DEF EggMoved, ControlOK, Serving, Labels, outputs, served, answers
<1>7. CASE WatchDog_us
  BY <1>7, EggIs DEF WatchDog_us, ControlOK, Serving, Labels, outputs, served, answers
<1>8. CASE ReplyUart
  BY <1>8 DEF ReplyUart, NoneServed, ControlOK, Serving, Labels, outputs, answers
<1>9. CASE Send
  BY <1>9 DEF Send, NoneServed, ControlOK, Serving, Labels, outputs, served, answers
<1>10. CASE Sent
  BY <1>10 DEF Sent, NoneServed, ControlOK, Serving, Labels, outputs, answers
<1>11. CASE Refreshed
  <2>1. 0 \in uint16
    BY HalfWordAssumption DEF uint16
  <2>2. QED
    BY <1>11, <2>1 DEF Refreshed, ControlOK, Serving, Labels, served, answers
<1>12. CASE Tick
  BY <1>12 DEF Tick, ControlOK, outputs, served, answers
<1>13. CASE Ticker_button_handler
  <2>1. HistoryWord \in Nat \ {0}
    BY MainAssumption
  <2>2. \A b \in {0, 1} : history * 2 + b \in Int
    BY <2>1 DEF ControlOK, Released, answers
  <2>3. history' \in 0..Released
    BY <1>13, <2>1, <2>2 DEF Ticker_button_handler, Released
  <2>4. QED
    BY <1>13, <2>3 DEF Ticker_button_handler, ControlOK, outputs, served, answers
<1>14. CASE Hear
  BY <1>14 DEF Hear, ControlOK, outputs, served, answers
<1>15. CASE \E l \in Links : Ask(l)
  BY <1>15 DEF Ask, ControlOK, Links, outputs, served, answers
<1>16. CASE Fetch
  BY <1>16 DEF Fetch, ControlOK, outputs, served, answers
<1>17. CASE Restart
  <2>1. 0 \in uint16 /\ Released \in 0..Released
    BY HalfWordAssumption, MainAssumption DEF uint16, Released
  <2>2. in' \in [Links -> BOOLEAN]
    BY <1>17 DEF Restart
  <2>3. /\ led' = "on" /\ match' = 0 /\ history' = Released /\ moves' = 0 /\ pc' = "top"
        /\ parsed' = FALSE /\ watchdog' = FALSE
        /\ link' = "none" /\ op' = "none"
    BY <1>17 DEF Restart, NoneServed
  <2>4. 0 \in 0..EggMoves /\ history' \in 0..Released
    BY <2>1, <2>3, EggIs
  <2>5. QED
    BY <1>17, <2>1, <2>2, <2>3, <2>4 DEF Restart, ControlOK, Serving, Labels
<1>18. CASE UNCHANGED vars
  BY <1>18 DEF vars, ControlOK, outputs, served, answers
<1>19. QED
  BY <1>1, <1>2, <1>3, <1>4, <1>5, <1>6, <1>7, <1>8, <1>9, <1>10, <1>11, <1>12, <1>13, <1>14,
     <1>15, <1>16, <1>17, <1>18 DEF Next, Main

-----------------------------------------------------------------------------
(* The AUX channel: the record and what the last command wanted of it.     *)

WantedOK ==
    wanted \in [as : {"low", "high", "pwm"}, duty : uint16, period : uint16, start : uint16]

\* The timer that runs keeps the period it was started with.
Runs == /\ aux.run /\ aux.pin = "mat"
        /\ aux.MR3 = wanted.start /\ aux.period = wanted.start

\* Between the arguments of CMD_AUX_PWM and the refresh of a running timer the
\* match value waits in a local variable.
AuxAgrees ==
    IF wanted.as = "pwm"
    THEN /\ Runs
         /\ (IF pc = "refresh" THEN match ELSE aux.MR1)
              = InvertedDuty(wanted.duty, wanted.period)
    ELSE ~aux.run /\ aux.pin = "gpio" /\ aux.level = wanted.as /\ pc # "refresh"

AuxInv == aux \in Aux /\ WantedOK /\ AuxAgrees

\* The inverted duty cycle is the number of low ticks, wrapped.
LEMMA InvertedIsLow ==
    ASSUME NEW w, w.duty \in uint16, w.period \in uint16
    PROVE  InvertedDuty(w.duty, w.period) = LowTicks(w)
<1>1. HalfWord \in Nat \ {0} /\ w.duty \in 0..(HalfWord - 1) /\ w.period \in 0..(HalfWord - 1)
  BY HalfWordAssumption DEF uint16
<1> DEFINE d == w.duty
           p == w.period
<1> HIDE DEF d, p
<1>2. d \in 0..(HalfWord - 1) /\ p \in 0..(HalfWord - 1)
  BY <1>1 DEF d, p
<1>3. CASE d <= p
  <2>1. (p - d) % HalfWord = p - d
    BY <1>1, <1>2, <1>3
  <2>2. QED
    BY <1>3, <2>1 DEF d, p, InvertedDuty, LowTicks
<1>4. CASE ~(d <= p)
  <2>1. (p - d) % HalfWord = HalfWord - (d - p)
    BY <1>1, <1>2, <1>4
  <2>2. QED
    BY <1>4, <2>1 DEF d, p, InvertedDuty, LowTicks
<1>5. QED
  BY <1>3, <1>4

LEMMA AgreeingFollows == AuxInv => AuxFollowsCommands
<1> SUFFICES ASSUME AuxInv, pc # "refresh", wanted.as = "pwm"
             PROVE  /\ Runs
                    /\ HighTicks(aux) = IF LowTicks(wanted) > wanted.start THEN 0
                                        ELSE wanted.start + 1 - LowTicks(wanted)
  BY DEF AuxInv, AuxAgrees, AuxFollowsCommands, Runs
<1>1. Runs /\ aux.MR1 = InvertedDuty(wanted.duty, wanted.period)
  BY DEF AuxInv, AuxAgrees
<1>2. wanted.duty \in uint16 /\ wanted.period \in uint16
  BY DEF AuxInv, WantedOK
<1>3. aux.MR1 = LowTicks(wanted)
  BY <1>1, <1>2, InvertedIsLow
<1>4. QED
  BY <1>1, <1>3 DEF HighTicks, Runs

\* A record that agrees keeps agreeing while nothing of it changes and main is
\* not about to refresh the timer.
LEMMA AuxSame ==
    ASSUME AuxInv, UNCHANGED <<aux, wanted>>, pc # "refresh", pc' # "refresh"
    PROVE  AuxInv'
BY DEF AuxInv, WantedOK, AuxAgrees, Runs

\* Off, on, reset and restart.
LEMMA AuxSwitched ==
    ASSUME AuxInv, NEW s \in {"low", "high"}, pc' # "refresh", wanted' = WantLevel(s),
           aux' \in Aux, ~aux'.run, aux'.pin = "gpio", aux'.level = s
    PROVE  AuxInv'
<1>1. 0 \in uint16
  BY HalfWordAssumption DEF uint16
<1>2. QED
  BY <1>1 DEF AuxInv, WantedOK, AuxAgrees, WantLevel

\* The timer that runs has the match value of the command.
LEMMA AuxPwmSet ==
    ASSUME NEW d \in uint16, NEW p \in uint16, NEW t \in uint16, pc' # "refresh",
           wanted' = WantPwm(d, p, t), aux' \in Aux, Runs', aux'.MR1 = InvertedDuty(d, p)
    PROVE  AuxInv'
<1>1. /\ wanted'.as = "pwm" /\ wanted'.duty = d /\ wanted'.period = p /\ WantedOK'
  BY DEF WantPwm, WantedOK
<1>2. QED
  BY <1>1 DEF AuxInv, AuxAgrees

LEMMA SwitchAux ==
    ASSUME AuxInv, pc # "refresh", NEW c, Switch(c)
    PROVE  AuxInv'
<1>1. CASE AuxPwm
  <2>1. PICK d \in uint16, p \in uint16 :
           /\ wanted' = WantPwm(d, p, IF wanted.as = "pwm" THEN wanted.start ELSE p)
           /\ \/ aux.run /\ pc' = "refresh" /\ match' = InvertedDuty(d, p) /\ UNCHANGED aux
              \/ /\ ~aux.run /\ pc' = "reply"
                 /\ aux' = CT16B1_start(CT16B1_initpwm(aux, p, InvertedDuty(d, p)))
    BY <1>1, AuxPwmIs
  <2>2. CASE aux.run /\ pc' = "refresh" /\ match' = InvertedDuty(d, p) /\ UNCHANGED aux
    <3>1. wanted.as = "pwm" /\ Runs /\ wanted.start \in uint16
      BY <2>2 DEF AuxInv, AuxAgrees, WantedOK
    <3>2. wanted' = WantPwm(d, p, wanted.start)
      BY <2>1, <3>1
    <3>3. /\ wanted'.as = "pwm" /\ wanted'.duty = d /\ wanted'.period = p
          /\ wanted'.start = wanted.start /\ WantedOK'
      BY <3>1, <3>2 DEF WantPwm, WantedOK
    <3>4. QED
      BY <2>2, <3>1, <3>3 DEF AuxInv, AuxAgrees, Runs
  <2>3. CASE /\ ~aux.run /\ pc' = "reply"
             /\ aux' = CT16B1_start(CT16B1_initpwm(aux, p, InvertedDuty(d, p)))
    <3>1. InvertedDuty(d, p) \in uint16
      BY InvertedIsHalfWord, HalfWordAssumption DEF uint16
    <3>2. wanted' = WantPwm(d, p, p) /\ wanted'.start = p
      <4>1. wanted.as # "pwm"
        BY <2>3 DEF AuxInv, AuxAgrees, Runs
      <4>2. QED
        BY <2>1, <4>1 DEF WantPwm
    <3>3. /\ aux' \in Aux /\ aux'.run /\ aux'.pin = "mat" /\ aux'.MR3 = p /\ aux'.period = p
          /\ aux'.MR1 = InvertedDuty(d, p)
      BY <2>3, <3>1 DEF AuxInv, Aux, CT16B1_start, CT16B1_initpwm
    <3>4. Runs'
      BY <3>2, <3>3 DEF Runs
    <3>5. QED
      BY <2>3, <3>2, <3>3, <3>4, AuxPwmSet
  <2>4. QED
    BY <2>1, <2>2, <2>3
<1>2. CASE SysReset \/ \E s \in {"low", "high"} : AuxSet(s)
  <2>1. PICK s \in {"low", "high"} :
           /\ aux' = Level(CT16B1_deinit(aux), s) /\ wanted' = WantLevel(s) /\ pc' = "reply"
    BY <1>2 DEF SysReset, AuxSet, ResetAux, Done
  <2>2. aux' \in Aux /\ ~aux'.run /\ aux'.pin = "gpio" /\ aux'.level = s
    BY <2>1 DEF AuxInv, Aux, Level, CT16B1_deinit
  <2>3. QED
    BY <2>1, <2>2, AuxSwitched
<1>3. CASE UNCHANGED <<aux, wanted>> /\ pc' # "refresh"
  BY <1>3, AuxSame
<1>4. QED
  BY <1>1, <1>2, <1>3 DEF Switch, SysCheck, Led, LedBreath, GetButton, SmcStep, SmcState,
     SmcStop, SmcPause, SmcContinue, SmcFree, BeginEgg, Unknown, Done, outputs

LEMMA AuxKept == AuxInv /\ ControlOK /\ [Next]_vars => AuxInv'
<1> SUFFICES ASSUME AuxInv, ControlOK, [Next]_vars PROVE AuxInv'
  OBVIOUS
<1>1. CASE Uart \/ Usb
  <2>1. CASE \E c : Switch(c)
    BY <1>1, <2>1, SwitchAux DEF Uart, Usb
  <2>2. CASE Skip("usb") \/ Skip("top")
    BY <1>1, <2>2, AuxSame DEF Uart, Usb, Skip, outputs
  <2>3. QED
    BY <1>1, <2>1, <2>2 DEF Uart, Usb, Serve
<1>2. CASE Refreshed
  <2>1. /\ wanted.as = "pwm" /\ Runs
        /\ match = InvertedDuty(wanted.duty, wanted.period)
        /\ aux' = CT16B1_set(aux, match) /\ pc' = "reply" /\ wanted' = wanted
    BY <1>2 DEF Refreshed, AuxInv, AuxAgrees
  <2>2. /\ wanted.duty \in uint16 /\ wanted.period \in uint16 /\ wanted.start \in uint16
        /\ wanted' = WantPwm(wanted.duty, wanted.period, wanted.start)
    BY <2>1 DEF AuxInv, WantedOK, WantPwm
  <2>3. aux' \in Aux /\ Runs' /\ aux'.MR1 = match
    BY <2>1, <2>2 DEF AuxInv, Aux, Runs, CT16B1_set, CT16B1_reload_mat, ControlOK
  <2>4. QED
    BY <2>1, <2>2, <2>3, AuxPwmSet
<1>3. CASE Restart
  <2>1. aux' = AuxOff /\ wanted' = WantLevel("low") /\ pc' = "top"
    BY <1>3 DEF Restart
  <2>2. AuxOff \in Aux
    BY HalfWordAssumption DEF AuxOff, Aux, uint16
  <2>3. QED
    BY <2>1, <2>2, AuxSwitched DEF AuxOff
<1>4. CASE /\ UNCHANGED <<aux, wanted>>
           /\ (pc # "refresh" /\ pc' # "refresh") \/ UNCHANGED <<pc, match>>
  BY <1>4, AuxSame DEF AuxInv, WantedOK, AuxAgrees, Runs
<1>5. CASE Top \/ ButtonMoved \/ EggMove \/ EggMoved \/ WatchDog_us
  BY <1>4, <1>5 DEF Top, ButtonMoved, EggMove, EggMoved, WatchDog_us, outputs
<1>6. CASE ReplyUart \/ Send \/ Sent
  BY <1>4, <1>6 DEF ReplyUart, Send, Sent, outputs
<1>7. CASE Tick \/ Ticker_button_handler
  BY <1>4, <1>7 DEF Tick, Ticker_button_handler, outputs
<1>8. CASE (\E l \in Links : Ask(l)) \/ Fetch \/ Hear \/ UNCHANGED vars
  BY <1>4, <1>8 DEF Ask, Fetch, Hear, vars, outputs
<1>9. QED
  BY <1>1, <1>2, <1>3, <1>5, <1>6, <1>7, <1>8 DEF Next, Main

-----------------------------------------------------------------------------
(* The theorems.                                                           *)

IInv == MotorOK /\ ControlOK /\ AuxInv

LEMMA InitEstablishes == Init => IInv
<1> SUFFICES ASSUME Init PROVE IInv
  OBVIOUS
<1>1. 0 \in uint16 /\ Released \in 0..Released /\ 0 \in 0..EggMoves /\ 0 \in 0..(Rows - 1)
  BY HalfWordAssumption, MainAssumption, EggIs DEF uint16, Released
<1>2. MotorOK
  BY <1>1 DEF Init, Motor!MotionInit, MotorOK
<1>3. in \in [Links -> BOOLEAN]
  BY DEF Init
<1>4. ControlOK
  BY <1>1, <1>3 DEF Init, ControlOK, Serving, Labels
<1>5. aux = AuxOff /\ AuxOff \in Aux /\ wanted = WantLevel("low") /\ pc = "top"
  BY <1>1 DEF Init, AuxOff, Aux
<1>6. AuxInv
  BY <1>1, <1>5 DEF AuxInv, WantedOK, AuxAgrees, AuxOff, WantLevel
<1>7. QED
  BY <1>2, <1>4, <1>6 DEF IInv

LEMMA Inductive == Spec => []IInv
<1>1. IInv /\ [Next]_vars => IInv'
  <2> SUFFICES ASSUME IInv, [Next]_vars PROVE IInv'
    OBVIOUS
  <2>1. moves \in Nat
    BY EggIs DEF IInv, ControlOK
  <2>2. QED
    BY <2>1, NextMoves, MotorKept, ControlKept, AuxKept DEF IInv
<1>2. QED
  BY InitEstablishes, <1>1, PTL DEF Spec

\* The motor, the registers of the AUX timer and the counts keep their ranges,
\* and main serves a command exactly from where it is taken to its answer.
THEOREM TypeCorrect == Spec => []TypeOK
<1>1. IInv => TypeOK
  BY DEF IInv, MotorOK, ControlOK, AuxInv, TypeOK, Serving
<1>2. QED
  BY Inductive, <1>1, PTL

\* After any sequence of commands, resets and restarts the AUX output is off or
\* on and the timer stopped, or the timer runs with the period of the first
\* CMD_AUX_PWM since then and is low for the ticks the last one asks for, wrapped
\* in 16 bits: for every duty cycle and period.
THEOREM AuxObeys == Spec => []AuxFollowsCommands
<1>1. QED
  BY Inductive, AgreeingFollows, PTL DEF IInv

-----------------------------------------------------------------------------
(* The promise to the hosts.  A command lasts from where it is taken to    *)
(* its answer, which main makes before it waits for anything.              *)

\* A negative number and its two's complement have the same bytes.
LEMMA ByteRepeats ==
    ASSUME NEW v \in Int, NEW s \in Nat \ {0}, NEW k \in Int
    PROVE  ByteOf(v + (s * Byte) * k, s) = ByteOf(v, s)
<1> DEFINE q == v \div s
           r == v % s
           p == q \div Byte
           t == q % Byte
<1>1. Byte \in Nat \ {0}
  BY ByteAssumption
<1>2. /\ q \in Int /\ r \in 0..(s - 1) /\ v = s * q + r
      /\ p \in Int /\ t \in 0..(Byte - 1) /\ q = Byte * p + t
  BY <1>1, SMT
<1>3. Byte * k \in Int /\ q + Byte * k \in Int /\ p + k \in Int
  BY <1>1, <1>2, SMT
<1>4. v + (s * Byte) * k = s * (q + Byte * k) + r
  <2>1. \A x \in Int : s * (q + x) = s * q + s * x
    BY <1>2, SMT
  <2>2. (s * Byte) * k = s * (Byte * k)
    BY <1>1, SMT
  <2>3. s * (q + Byte * k) = s * q + s * (Byte * k)
    BY <1>3, <2>1, Zenon
  <2>4. \A x, y, z \in Int : (x + y) + z = (x + z) + y
    BY SMT
  <2>5. s * q \in Int /\ s * (Byte * k) \in Int /\ r \in Int
    BY <1>2, <1>3, SMT
  <2>6. (s * q + r) + s * (Byte * k) = (s * q + s * (Byte * k)) + r
    BY <2>4, <2>5
  <2>7. QED
    BY <1>2, <2>2, <2>3, <2>6
<1>5. (s * (q + Byte * k) + r) \div s = q + Byte * k
  BY <1>2, <1>3, DivisionUnique
<1>6. q + Byte * k = Byte * (p + k) + t
  <2>1. Byte * (p + k) = Byte * p + Byte * k
    BY <1>1, <1>2, SMT
  <2>2. Byte * p \in Int /\ Byte * k \in Int /\ t \in Int
    BY <1>1, <1>2, SMT
  <2>3. QED
    BY <1>2, <2>1, <2>2, SMT
<1>7. (Byte * (p + k) + t) % Byte = t
  BY <1>1, <1>2, <1>3, DivisionUnique
<1>8. QED
  BY <1>4, <1>5, <1>6, <1>7 DEF ByteOf

\* What CMD_SMC_STEP takes for the number of steps is what was sent: a length
\* that SMC_step accepts is the length the host asked for.
THEOREM StepsAsSent ==
    ASSUME NEW n \in -(Word \div 2)..(Word \div 2 - 1)
    PROVE  AsInt(read_8_to_32(write_32_to_8(n), 0)) = n
<1>1. Byte \in Nat \ {0} /\ HalfWord = Byte * Byte
  BY ByteAssumption, MainAssumption
<1> DEFINE H == Byte * Byte
<1>2. Word = H * H /\ H \in Nat \ {0} /\ H * H \in Nat \ {0}
  <2>1. H \in Nat \ {0}
    BY <1>1, SMT
  <2>2. QED
    BY <1>1, <2>1, SMT DEF Word
<1>3. Word \in Nat \ {0} /\ n \in Int
  BY <1>2
<1>4. CASE n >= 0
  <2>1. n \in 0..((Byte * Byte) * (Byte * Byte) - 1) /\ n < Word \div 2
    BY <1>2, <1>3, <1>4
  <2>2. QED
    BY <2>1, WordSurvives DEF AsInt
<1>5. CASE n < 0
  <2> DEFINE m == n + Word
  <2>1. m \in 0..(H * H - 1) /\ ~(m < Word \div 2) /\ m - Word = n
    BY <1>2, <1>3, <1>5
  <2>2. read_8_to_32(write_32_to_8(m), 0) = m
    BY <2>1, WordSurvives
  <2>3. /\ (1 * Byte) * (Byte * H) = Word /\ (Byte * Byte) * H = Word
        /\ (H * Byte) * Byte = Word /\ ((H * Byte) * Byte) * 1 = Word
    <3>1. \A x, y, z \in Nat : (x * y) * z = x * (y * z)
      BY SMT
    <3>2. H \in Nat /\ Byte \in Nat
      BY <1>1, <1>2
    <3>3. (H * Byte) * Byte = H * (Byte * Byte) /\ (1 * Byte) * (Byte * H) = Byte * (Byte * H)
      BY <3>1, <3>2, SMT
    <3>4. Byte * (Byte * H) = (Byte * Byte) * H
      BY <3>1, <3>2, Zenon
    <3>5. QED
      BY <1>2, <3>3, <3>4, SMT
  <2>4. 1 \in Nat \ {0} /\ H * Byte \in Nat \ {0} /\ Byte * H \in Int /\ H \in Int /\ Byte \in Int
    BY <1>1, <1>2, SMT
  <2>5. \A s \in Nat \ {0}, k \in Int : ByteOf(n + (s * Byte) * k, s) = ByteOf(n, s)
    BY <1>3, ByteRepeats, Zenon
  <2>6. ByteOf(m, 1) = ByteOf(n, 1)
    <3>1. ByteOf(n + (1 * Byte) * (Byte * H), 1) = ByteOf(n, 1)
      BY <2>4, <2>5, Zenon
    <3>2. QED
      BY <2>3, <3>1, Zenon
  <2>7. ByteOf(m, Byte) = ByteOf(n, Byte) /\ ByteOf(m, H) = ByteOf(n, H)
    <3>1. /\ ByteOf(n + (Byte * Byte) * H, Byte) = ByteOf(n, Byte)
          /\ ByteOf(n + (H * Byte) * Byte, H) = ByteOf(n, H)
      BY <1>1, <1>2, <2>4, <2>5, Zenon
    <3>2. QED
      BY <2>3, <3>1, Zenon
  <2>8. ByteOf(m, H * Byte) = ByteOf(n, H * Byte)
    <3>1. ByteOf(n + ((H * Byte) * Byte) * 1, H * Byte) = ByteOf(n, H * Byte)
      <4>1. 1 \in Int
        BY SMT
      <4>2. QED
        BY <2>4, <2>5, <4>1, Zenon
    <3>2. QED
      BY <2>3, <3>1, Zenon
  <2>9. write_32_to_8(m) = write_32_to_8(n)
    BY <2>6, <2>7, <2>8 DEF write_32_to_8
  <2>10. QED
    BY <2>1, <2>2, <2>9 DEF AsInt
<1>6. QED
  BY <1>3, <1>4, <1>5

\* What is left of a move is at most the length that was asked for.
MoveOK == mode # "idle" => \E n \in Lengths : left \in 0..n

\* Steps of the motor with the lengths that the commands, the button and
\* SMC_egg ask for.
LengthStep ==
    \/ \E n \in Lengths, d \in {-1, 1} : Motor!Start(n, d)
    \/ Motor!Tick \/ Motor!End \/ Motor!Pause \/ Motor!Continue \/ Motor!Abort
    \/ UNCHANGED motor

LEMMA LengthsArePositive == Lengths \subseteq Nat \ {0}
<1>1. \A n \in Steps : n \in Int
  BY MainAssumption, ByteAssumption, EggIs DEF Word
<1>2. \A i \in DOMAIN Egg : Egg[i] \in Nat \ {0}
  BY MainAssumption
<1>3. ButtonSteps \in Nat \ {0}
  BY MainAssumption
<1>4. {n \in Steps : n >= 1} \subseteq Nat \ {0}
  BY <1>1
<1>5. {Egg[i] : i \in DOMAIN Egg} \subseteq Nat \ {0}
  BY <1>2
<1>6. QED
  BY <1>3, <1>4, <1>5, Zenon DEF Lengths

LEMMA MoveKept == MotorOK /\ MoveOK /\ LengthStep => MoveOK'
<1> SUFFICES ASSUME MotorOK, MoveOK, LengthStep PROVE MoveOK'
  OBVIOUS
<1>1. CASE \E n \in Lengths, d \in {-1, 1} : Motor!Start(n, d)
  <2>1. PICK n \in Lengths : left' = n
    BY <1>1 DEF Motor!Start
  <2>2. left' \in 0..n
    BY <2>1, LengthsArePositive
  <2>3. QED
    BY <2>2 DEF MoveOK
<1>2. CASE Motor!Tick \/ Motor!End
  <2>1. CASE Motor!Tick
    <3>1. PICK n \in Lengths : left \in 0..n
      BY <2>1 DEF MoveOK, Motor!Tick
    <3>2. left' \in 0..n
      BY <2>1, <3>1, LengthsArePositive DEF Motor!Tick
    <3>3. QED
      BY <3>2 DEF MoveOK
  <2>2. CASE Motor!End
    BY <2>2 DEF MoveOK, Motor!End
  <2>3. QED
    BY <1>2, <2>1, <2>2
<1>3. CASE Motor!Pause \/ Motor!Continue
  BY <1>3 DEF MoveOK, Motor!Pause, Motor!Continue
<1>4. CASE Motor!Abort
  BY <1>4 DEF MoveOK, Motor!Abort
<1>5. CASE UNCHANGED motor
  BY <1>5 DEF MoveOK, motor
<1>6. QED
  BY <1>1, <1>2, <1>3, <1>4, <1>5 DEF LengthStep

LEMMA SwitchLengths == ASSUME NEW c, Switch(c) PROVE LengthStep
<1>1. CASE SmcStep
  <2>1. PICK n \in Steps, d \in Dirs :
           LET steps == AsInt(read_8_to_32(write_32_to_8(n), 0)) IN
           (steps >= 1 /\ Motor!Start(steps, d)) \/ UNCHANGED motor
    BY <1>1, StepStarts DEF SmcStep
  <2>2. AsInt(read_8_to_32(write_32_to_8(n), 0)) = n
    BY MainAssumption, StepsAsSent
  <2>3. (n >= 1 /\ Motor!Start(n, d)) \/ UNCHANGED motor
    BY <2>1, <2>2
  <2>4. (n >= 1 => n \in Lengths) /\ d \in {-1, 1}
    BY MainAssumption DEF Lengths
  <2>5. QED
    BY <2>3, <2>4 DEF LengthStep
<1>2. CASE SysCheck \/ SysReset \/ LedBreath \/ GetButton \/ SmcState \/ SmcStop
  BY <1>2 DEF SysCheck, SysReset, LedBreath, GetButton, SmcState, SmcStop, LengthStep
<1>3. CASE SmcPause \/ SmcContinue \/ SmcFree
  BY <1>3 DEF SmcPause, SmcContinue, SmcFree, LengthStep
<1>4. CASE (\E s \in {"off", "on", "blink"} : Led(s)) \/ (\E s \in {"low", "high"} : AuxSet(s))
           \/ AuxPwm \/ BeginEgg \/ Unknown
  BY <1>4 DEF Led, AuxSet, AuxPwm, BeginEgg, Unknown, LengthStep
<1>5. QED
  BY <1>1, <1>2, <1>3, <1>4, LedStates DEF Switch

LEMMA NextLengths == moves \in Nat /\ [Next]_vars => LengthStep
<1> SUFFICES ASSUME moves \in Nat, [Next]_vars PROVE LengthStep
  OBVIOUS
<1>1. CASE Top
  <2>1. ButtonSteps \in Lengths
    BY DEF Lengths
  <2>2. QED
    BY <1>1, <2>1, StepStarts DEF Top, LengthStep
<1>2. CASE Uart \/ Usb
  BY <1>2, SwitchLengths DEF Uart, Usb, Serve, Skip, LengthStep
<1>3. CASE EggMove
  <2>1. (moves % Len(Egg)) + 1 \in DOMAIN Egg
    BY <1>3, EggInside, MainAssumption DEF EggMove
  <2>2. Egg[(moves % Len(Egg)) + 1] \in Lengths
    BY <2>1 DEF Lengths
  <2>3. QED
    BY <1>3, <2>2, StepStarts DEF EggMove, LengthStep
<1>4. CASE ButtonMoved \/ EggMoved \/ WatchDog_us \/ ReplyUart \/ Send \/ Sent \/ Refreshed
  BY <1>4 DEF ButtonMoved, EggMoved, WatchDog_us, ReplyUart, Send, Sent, Refreshed, LengthStep
<1>5. CASE Tick \/ Ticker_button_handler
  BY <1>5 DEF Tick, Ticker_button_handler, LengthStep
<1>6. CASE (\E l \in Links : Ask(l)) \/ Fetch \/ Hear \/ Restart
  BY <1>6 DEF Ask, Fetch, Hear, Restart, LengthStep
<1>7. CASE UNCHANGED vars
  BY <1>7 DEF vars, LengthStep
<1>8. QED
  BY <1>1, <1>2, <1>3, <1>4, <1>5, <1>6, <1>7 DEF Next, Main

\* What SMC_getState returns is an answer to CMD_SMC_STATE.
LEMMA StateInRange ==
    ASSUME MotorOK, MoveOK
    PROVE  \E n \in Lengths : SMC_getState \in -n..n
<1>1. CASE mode = "idle"
  <2>1. ButtonSteps \in Lengths
    BY DEF Lengths
  <2>2. SMC_getState \in -ButtonSteps..ButtonSteps
    BY <1>1, <2>1, LengthsArePositive DEF SMC_getState, MotorOK
  <2>3. QED
    BY <2>1, <2>2
<1>2. CASE mode # "idle"
  <2>1. PICK n \in Lengths : left \in 0..n
    BY <1>2 DEF MoveOK
  <2>2. SMC_getState \in -n..n
    BY <1>2, <2>1, LengthsArePositive DEF SMC_getState
  <2>3. QED
    BY <2>2
<1>3. QED
  BY <1>1, <1>2

-----------------------------------------------------------------------------
(* Where a command is.                                                     *)

\* A command that is served is no longer waiting on its link, unless the host
\* has fetched the answer and asked the next; a report that is not an answer
\* is the echo of 0xEE, after which the board restarts; and what main has put
\* into send_report answers the command.
ServeOK ==
    /\ op = "none" <=> link = "none"
    /\ parsed => pc \in {"usb", "top"}
    /\ pc \in {"egg", "moving"} => op = "EGG"
    /\ pc = "refresh" => op # "EGG"
    /\ pc \in {"reply", "sending"} /\ op = "EGG" => watchdog
    /\ link # "none" /\ pc # "sending" => ~in[link]
    /\ pc = "sending" => link = "usb"
    /\ pc = "sending" /\ fetchable # <<>> => ~in["usb"]
    /\ pc # "sending" /\ fetchable # <<>> => watchdog \/ op = "EGG"
    /\ link # "none" /\ pc # "sending" => reply \in Answers[op]
    /\ in["uart"] \/ link = "uart" => heard = <<>>

\* The answer is in send_report when the dispatcher is left, and 0xEE is the
\* only command that does more before main sends it.
LEMMA SwitchAnswers ==
    ASSUME ControlOK, MotorOK, MoveOK, NEW c, Switch(c), op' = c
    PROVE  /\ c \in Ops /\ reply' \in Answers[c]
           /\ UNCHANGED <<parsed, watchdog, heard, length>>
           /\ \/ /\ c = "EGG" /\ pc' = "egg"
                 /\ fetchable' = IF fetchable = <<>> THEN Report(<<"EGG">>) ELSE fetchable
              \/ c # "EGG" /\ pc' \in {"reply", "refresh"} /\ UNCHANGED fetchable
<1>1. c \in Ops
  BY DEF Switch, Ops, LedState
<1>2. /\ UNCHANGED <<parsed, watchdog, heard, length>>
      /\ \/ /\ c = "EGG" /\ pc' = "egg"
            /\ fetchable' = IF fetchable = <<>> THEN Report(<<"EGG">>) ELSE fetchable
         \/ c # "EGG" /\ pc' \in {"reply", "refresh"} /\ UNCHANGED fetchable
  <2>1. CASE c = "EGG" /\ BeginEgg
    BY <2>1 DEF BeginEgg
  <2>2. CASE c # "EGG" /\ (Done \/ AuxPwm)
    BY <2>2, AuxPwmIs DEF Done, Keeps, answers
  <2>3. QED
    BY <2>1, <2>2 DEF Switch, LedState, SysCheck, SysReset, Led, LedBreath, GetButton, SmcStep,
       SmcState, SmcStop, SmcPause, SmcContinue, SmcFree, AuxSet, Unknown
<1>3. reply' \in Answers[c]
  <2>1. \A r \in Results(c) : c # "UNKNOWN" => <<c>> \o r \in Answers[c]
    BY <1>1 DEF Answers
  <2>2. CASE c = "UNKNOWN"
    BY <1>1, <2>2 DEF Switch, LedState, Unknown, Answers
  <2>3. CASE c = "SYS_CHECK"
    BY <2>1, <2>3 DEF Switch, LedState, SysCheck, Reply, Results
  <2>4. CASE c = "GET_BUTTON"
    <3>1. reply' = <<c>> \o write_32_to_8(history) /\ history \in 0..Released
      BY <2>4 DEF Switch, LedState, GetButton, Reply, ControlOK
    <3>2. write_32_to_8(history) \in Results(c)
      BY <2>4, <3>1 DEF Results
    <3>3. QED
      BY <2>1, <2>4, <3>1, <3>2
  <2>5. CASE c = "SMC_STATE"
    <3>1. reply' = <<c>> \o write_32_to_8(SMC_getState)
      BY <2>5 DEF Switch, LedState, SmcState, Reply
    <3>2. SMC_getState \in UNION {-n..n : n \in Lengths}
      BY StateInRange
    <3>3. Results(c) = {write_32_to_8(v) : v \in UNION {-n..n : n \in Lengths}}
      BY <2>5 DEF Results
    <3>4. write_32_to_8(SMC_getState) \in Results(c)
      BY <3>2, <3>3
    <3>5. QED
      BY <2>1, <2>5, <3>1, <3>4
  <2>6. CASE c \notin {"UNKNOWN", "SYS_CHECK", "GET_BUTTON", "SMC_STATE"}
    <3>1. Results(c) = {<<>>}
      BY <2>6 DEF Results
    <3>2. Reply(<<>>)
      BY <2>6 DEF Switch, LedState, SysReset, Led, LedBreath, SmcStep, SmcStop, SmcPause, SmcContinue,
         SmcFree, AuxSet, AuxPwm, BeginEgg
    <3>3. QED
      BY <2>1, <2>6, <3>1, <3>2 DEF Reply
  <2>7. QED
    BY <2>2, <2>3, <2>4, <2>5, <2>6
<1>4. QED
  BY <1>1, <1>2, <1>3

ServiceInv == MotorOK /\ ControlOK /\ MoveOK /\ ServeOK

\* Main takes a command from a link while it serves none.
LEMMA Takes ==
    ASSUME ServiceInv, link = "none", pc # "sending", ~parsed,
           NEW l \in Links, in[l], NEW ops, Serve(l, ops)
    PROVE  ServeOK'
<1>1. PICK c \in ops : op' = c /\ Switch(c)
  BY DEF Serve
<1>2. /\ c \in Ops /\ reply' \in Answers[c] /\ UNCHANGED <<parsed, watchdog, heard>>
      /\ \/ /\ c = "EGG" /\ pc' = "egg"
            /\ fetchable' = IF fetchable = <<>> THEN Report(<<"EGG">>) ELSE fetchable
         \/ c # "EGG" /\ pc' \in {"reply", "refresh"} /\ UNCHANGED fetchable
  BY <1>1, SwitchAnswers DEF ServiceInv
<1>3. /\ link' = l /\ l # "none" /\ c # "none" /\ op' = c
  BY <1>1, <1>2 DEF Serve, Ops, Links
<1>4. ~in'[l]
  BY DEF Serve, Taken, ServiceInv, ControlOK
<1>5. op = "none" /\ (fetchable # <<>> => watchdog)
  BY DEF ServiceInv, ServeOK
<1>6. in'["uart"] \/ l = "uart" => in["uart"]
  BY <1>4 DEF Serve, Taken, ServiceInv, ControlOK, Links
<1>7. heard' # <<>> => ~in'["uart"] /\ l # "uart"
  BY <1>2, <1>6 DEF ServiceInv, ServeOK
<1>8. QED
  BY <1>2, <1>3, <1>4, <1>5, <1>7 DEF ServeOK

\* Main goes on with the command it serves, or serves none.
LEMMA GoesOn ==
    ASSUME ServeOK, UNCHANGED <<in, fetchable, heard, link, op, reply, watchdog>>,
           parsed' => pc' \in {"usb", "top"},
           pc' \in {"egg", "moving"} => op = "EGG", pc' # "refresh" \/ pc = "refresh",
           pc' \in {"reply", "sending"} => pc = pc' \/ op # "EGG",
           pc' = "sending" <=> pc = "sending"
    PROVE  ServeOK'
BY DEF ServeOK

LEMMA ServeKept == ServiceInv /\ [Next]_vars => ServeOK'
<1> SUFFICES ASSUME ServiceInv, [Next]_vars PROVE ServeOK'
  OBVIOUS
<1>1. ServeOK /\ ControlOK
  BY DEF ServiceInv
<1>2. pc \notin Serving => link = "none"
  BY <1>1 DEF ControlOK
<1>3. CASE Top
  BY <1>1, <1>3, GoesOn DEF Top, served, answers
<1>4. CASE ButtonMoved
  BY <1>1, <1>4, GoesOn DEF ButtonMoved, ServeOK, served, answers
<1>5. CASE Uart
  <2>1. CASE in["uart"]
    BY <1>1, <1>2, <1>5, <2>1, Takes DEF Uart, ServeOK, Links, Serving, answers
  <2>2. CASE ~in["uart"]
    BY <1>1, <1>5, <2>2, GoesOn DEF Uart, Skip, served, answers
  <2>3. QED
    BY <2>1, <2>2
<1>6. CASE Usb
  <2>1. CASE in["usb"] /\ ~parsed
    BY <1>1, <1>2, <1>6, <2>1, Takes DEF Usb, Links, Serving
  <2>2. CASE ~(in["usb"] /\ ~parsed)
    <3>1. /\ pc = "usb" /\ pc' = "top" /\ link = "none"
          /\ UNCHANGED <<fetchable, heard, link, op, reply, parsed, watchdog>>
          /\ (in'["uart"] <=> in["uart"])
      BY <1>1, <1>2, <1>6, <2>2 DEF Usb, Skip, Taken, ControlOK, Links, Serving, served, answers
    <3>2. QED
      BY <1>1, <3>1 DEF ServeOK, answers
  <2>3. QED
    BY <2>1, <2>2
<1>7. CASE EggMove \/ EggMoved
  <2>1. /\ UNCHANGED <<in, fetchable, heard, link, op, reply, watchdog, parsed>>
        /\ pc \in {"egg", "moving"} /\ pc' \in {"egg", "moving"}
    BY <1>7 DEF EggMove, EggMoved, served, answers
  <2>2. op = "EGG"
    BY <1>1, <2>1 DEF ServeOK
  <2>3. QED
    BY <1>1, <2>1, <2>2 DEF ServeOK
<1>8. CASE WatchDog_us
  BY <1>1, <1>8 DEF WatchDog_us, ServeOK, served, answers
<1>9. CASE ReplyUart
  BY <1>1, <1>2, <1>9 DEF ReplyUart, NoneServed, ServeOK, answers
<1>10. CASE Send
  <2>1. CASE fetchable = <<>>
    BY <1>1, <1>10, <2>1 DEF Send, ServeOK, served, answers
  <2>2. CASE fetchable # <<>>
    BY <1>1, <1>10, <2>2 DEF Send, NoneServed, ServeOK, answers
  <2>3. QED
    BY <2>1, <2>2
<1>11. CASE Sent
  BY <1>1, <1>11 DEF Sent, Fetched, NoneServed, ServeOK, answers
<1>12. CASE Refreshed
  BY <1>1, <1>12 DEF Refreshed, ServeOK, served, answers
<1>13. CASE Tick \/ Ticker_button_handler \/ UNCHANGED vars
  BY <1>1, <1>13 DEF Tick, Ticker_button_handler, vars, ServeOK, served, answers
<1>14. CASE \E l \in Links : Ask(l)
  <2>1. PICK l \in Links : Ask(l)
    BY <1>14
  <2>2. ~in[l] /\ in' = [in EXCEPT ![l] = TRUE]
    BY <2>1 DEF Ask, Phase
  <2>3. link = l => pc = "sending" /\ fetchable = <<>>
    <3>1. CASE link = l /\ pc # "sending"
      <4>1. Phase(l) = op
        BY <2>2, <3>1 DEF Phase
      <4>2. QED
        BY <1>1, <2>1, <3>1, <4>1 DEF Ask, ServeOK, Links, answers
    <3>2. CASE link = l /\ pc = "sending" /\ fetchable # <<>>
      <4>1. Phase(l) = "answered"
        BY <2>2, <3>2 DEF Phase
      <4>2. QED
        BY <2>1, <4>1 DEF Ask
    <3>3. QED
      BY <3>1, <3>2
  <2>4. \A k \in Links : k # l => in'[k] = in[k]
    BY <1>1, <2>2 DEF ControlOK
  <2>5. l = "uart" => heard = <<>>
    <3>1. SUFFICES ASSUME l = "uart", heard # <<>> PROVE FALSE
      OBVIOUS
    <3>2. CASE link = "uart"
      BY <1>1, <3>1, <3>2 DEF ServeOK
    <3>3. CASE link # "uart"
      <4>1. Phase(l) = "answered"
        BY <2>2, <3>1, <3>3 DEF Phase
      <4>2. QED
        BY <2>1, <4>1 DEF Ask
    <3>4. QED
      BY <3>2, <3>3
  <2>6. QED
    BY <1>1, <2>1, <2>3, <2>4, <2>5 DEF Ask, ServeOK, ControlOK, Links, served, answers
<1>15. CASE Fetch \/ Hear
  BY <1>1, <1>15 DEF Fetch, Hear, ServeOK, served, answers
<1>16. CASE Restart
  BY <1>16 DEF Restart, NoneServed, ServeOK, answers
<1>17. QED
  BY <1>3, <1>4, <1>5, <1>6, <1>7, <1>8, <1>9, <1>10, <1>11, <1>12, <1>13, <1>14, <1>15,
     <1>16 DEF Next, Main

-----------------------------------------------------------------------------
(* Each step of the program is a step of the service, or leaves it alone.  *)

\* Phase without its CASE.
Where(l) ==
    IF in[l] THEN "asked"
    ELSE IF link # l THEN IF l = "uart" /\ heard # <<>> THEN "answered" ELSE "none"
    ELSE IF pc # "sending" THEN op
    ELSE IF fetchable # <<>> THEN "answered" ELSE "none"

Doomed == watchdog \/ op = "EGG"
MayDrop == parsed /\ pc = "usb"

LEMMA PhaseIs ==
    ASSUME in \in [Links -> BOOLEAN], NEW l \in Links
    PROVE  Phase(l) = Where(l)
<1>1. in[l] \in BOOLEAN
  OBVIOUS
<1>2. QED
  BY <1>1, Zenon DEF Phase, Where

LEMMA PhaseWillBe ==
    ASSUME in' \in [Links -> BOOLEAN], NEW l \in Links
    PROVE  Phase(l)' = Where(l)'
<1>1. in'[l] \in BOOLEAN
  OBVIOUS
<1>2. QED
  BY <1>1, Zenon DEF Phase, Where

LEMMA PhasesKept ==
    ASSUME in \in [Links -> BOOLEAN], in' \in [Links -> BOOLEAN],
           \A l \in Links : Where(l)' = Where(l)
    PROVE  [l \in Links |-> Phase(l)]' = [l \in Links |-> Phase(l)]
<1>1. \A l \in Links : Phase(l)' = Phase(l)
  BY PhaseIs, PhaseWillBe
<1>2. QED
  BY <1>1

LEMMA PhaseBecomes ==
    ASSUME in \in [Links -> BOOLEAN], in' \in [Links -> BOOLEAN], NEW l \in Links, NEW p,
           Where(l)' = p, \A k \in Links : k # l => Where(k)' = Where(k)
    PROVE  Service!Becomes(l, p)
<1>1. Phase(l)' = p /\ \A k \in Links : k # l => Phase(k)' = Phase(k)
  BY PhaseIs, PhaseWillBe
<1>2. [k \in Links |-> Phase(k)]' = [[k \in Links |-> Phase(k)] EXCEPT ![l] = p]
  BY <1>1
<1>3. QED
  BY <1>2 DEF Service!Becomes

\* Nothing a host can tell has changed.
LEMMA Unnoticed ==
    ASSUME in \in [Links -> BOOLEAN], in' \in [Links -> BOOLEAN],
           \A l \in Links : Where(l)' = Where(l), UNCHANGED answers,
           Doomed' = Doomed, MayDrop' = MayDrop
    PROVE  UNCHANGED Service!serviceVars
<1>1. [l \in Links |-> Phase(l)]' = [l \in Links |-> Phase(l)]
  BY PhasesKept
<1>2. QED
  BY <1>1 DEF Service!serviceVars, Doomed, MayDrop, answers

\* Main goes on without a word to the hosts.
LEMMA Works ==
    ASSUME ServiceInv, ControlOK', UNCHANGED <<in, answers, link, op>>,
           pc' = "sending" <=> pc = "sending",
           watchdog' = watchdog \/ op = "EGG",
           MayDrop' = MayDrop
    PROVE  UNCHANGED Service!serviceVars
<1>1. in \in [Links -> BOOLEAN] /\ in' \in [Links -> BOOLEAN]
  BY DEF ServiceInv, ControlOK
<1>2. \A l \in Links : Where(l)' = Where(l)
  BY DEF Where, answers
<1>3. Doomed' = Doomed
  <2>1. watchdog \in BOOLEAN /\ watchdog' \in BOOLEAN
    BY DEF ServiceInv, ControlOK
  <2>2. Doomed' <=> Doomed
    BY <2>1 DEF Doomed
  <2>3. QED
    BY <2>2 DEF Doomed
<1>4. QED
  BY <1>1, <1>2, <1>3, Unnoticed

\* The reports of the program and of the service.
LEMMA ReportIs ==
    ASSUME ServiceInv, NEW d
    PROVE  Report(d) = Service!Report(d) /\ Report(d) # <<>>
<1>1. length \in {32, 64}
  BY DEF ServiceInv, ControlOK
<1>2. Report(d) = Service!Report(d)
  BY <1>1 DEF Report, Service!Report
<1>3. DOMAIN Report(d) = {"size", "data"} /\ DOMAIN <<>> = {}
  BY DEF Report
<1>4. QED
  BY <1>2, <1>3

LEMMA TakesServes ==
    ASSUME ServiceInv, ControlOK', link = "none", pc \in {"uart", "usb"}, ~parsed,
           NEW l \in Links, in[l], NEW ops, Serve(l, ops)
    PROVE  \E c \in Ops : Service!Serve(l, c)
<1>1. PICK c \in ops : op' = c /\ Switch(c)
  BY DEF Serve
<1>2. /\ c \in Ops /\ UNCHANGED <<parsed, watchdog, heard, length>>
      /\ \/ /\ c = "EGG" /\ pc' = "egg"
            /\ fetchable' = IF fetchable = <<>> THEN Report(<<"EGG">>) ELSE fetchable
         \/ c # "EGG" /\ pc' \in {"reply", "refresh"} /\ UNCHANGED fetchable
  BY <1>1, SwitchAnswers DEF ServiceInv
<1>3. in \in [Links -> BOOLEAN] /\ in' \in [Links -> BOOLEAN] /\ op = "none"
  BY DEF ServiceInv, ControlOK, ServeOK
<1>4. link' = l /\ op' = c /\ ~in'[l] /\ \A k \in Links : k # l => in'[k] = in[k]
  BY <1>1, <1>3 DEF Serve, Taken
<1>5. /\ Where(l) = "asked" /\ Where("usb") # "answered"
      /\ \A k \in Links : Where(k) \in {"asked", "none", "answered"}
  BY DEF Where, Links
<1>6. Where(l)' = c /\ \A k \in Links : k # l => Where(k)' = Where(k)
  BY <1>2, <1>4 DEF Where, Links
<1>7. Service!Becomes(l, c)
  BY <1>3, <1>6, PhaseBecomes
<1>8. /\ Phase(l) = "asked" /\ Phase("usb") # "answered"
      /\ \A k \in Links : Phase(k) \in {"asked", "none", "answered"}
  BY <1>3, <1>5, PhaseIs DEF Links
<1>9. "usb" \in Links /\ \A k \in Links : Phase(k) \notin Ops
  BY <1>8 DEF Ops, Links
<1>10. (parsed /\ pc = "usb") = FALSE /\ (parsed' /\ pc' = "usb") = FALSE
  BY <1>2
<1>11. CASE c = "EGG"
  <2>1. (watchdog' \/ op' = "EGG") = TRUE
    BY <1>4, <1>11
  <2>2. fetchable' = IF fetchable = <<>> THEN Report(<<"EGG">>) ELSE fetchable
    BY <1>2, <1>11
  <2>3. Service!Serve(l, c)
    BY <1>2, <1>7, <1>8, <1>9, <1>10, <1>11, <2>1, <2>2, ReportIs DEF Service!Serve
  <2>4. QED
    BY <1>2, <2>3
<1>12. CASE c # "EGG"
  <2>1. (watchdog' \/ op' = "EGG") = (watchdog \/ op = "EGG") /\ UNCHANGED fetchable
    BY <1>2, <1>3, <1>4, <1>12
  <2>2. Service!Serve(l, c)
    BY <1>2, <1>7, <1>8, <1>9, <1>10, <1>12, <2>1 DEF Service!Serve
  <2>3. QED
    BY <1>2, <2>2
<1>13. QED
  BY <1>11, <1>12

\* A report that comes while a command of the UART was answered is dropped.
LEMMA SkipDrops ==
    ASSUME ServiceInv, ControlOK', Usb, ~(in["usb"] /\ ~parsed)
    PROVE  Service!Drop \/ Service!Expire \/ UNCHANGED Service!serviceVars
<1>1. /\ pc = "usb" /\ pc' = "top" /\ in' = [in EXCEPT !["usb"] = FALSE]
      /\ UNCHANGED <<fetchable, heard, length, link, op, parsed, watchdog>>
  BY DEF Usb, Skip, Taken, served, answers
<1>2. /\ in \in [Links -> BOOLEAN] /\ in' \in [Links -> BOOLEAN] /\ link = "none"
      /\ "usb" \in Links /\ parsed \in BOOLEAN
  BY <1>1 DEF ServiceInv, ControlOK, Serving, Links
<1>3. ~in'["usb"] /\ \A k \in Links : k # "usb" => in'[k] = in[k]
  BY <1>1, <1>2
<1>4. \A k \in Links : k # "usb" => Where(k)' = Where(k)
  BY <1>1, <1>3 DEF Where
<1>5. Where("usb")' = "none"
  BY <1>1, <1>2, <1>3 DEF Where, Links
<1>6. UNCHANGED (watchdog \/ op = "EGG") /\ (parsed' /\ pc' = "usb") = FALSE
  BY <1>1
<1>7. CASE in["usb"]
  <2>1. parsed
    BY <1>7
  <2>2. Phase("usb") = "asked"
    BY <1>2, <1>7, PhaseIs DEF Where
  <2>3. Service!Becomes("usb", "none")
    BY <1>2, <1>4, <1>5, PhaseBecomes
  <2>4. Service!Drop
    BY <1>1, <1>2, <1>6, <2>1, <2>2, <2>3 DEF Service!Drop
  <2>5. QED
    BY <2>4
<1>8. CASE ~in["usb"]
  <2>1. Where("usb") = "none"
    BY <1>2, <1>8 DEF Where, Links
  <2>2. \A l \in Links : Where(l)' = Where(l)
    BY <1>4, <1>5, <2>1
  <2>3. [l \in Links |-> Phase(l)]' = [l \in Links |-> Phase(l)]
    BY <1>2, <2>2, PhasesKept
  <2>4. CASE parsed
    BY <1>1, <1>6, <2>3, <2>4 DEF Service!Expire
  <2>5. CASE ~parsed
    <3>1. (parsed /\ pc = "usb") = FALSE
      BY <2>5
    <3>2. QED
      BY <1>1, <1>6, <2>3, <3>1 DEF Service!serviceVars
  <2>6. QED
    BY <2>4, <2>5
<1>9. QED
  BY <1>7, <1>8

LEMMA ReplyAnswersUart ==
    ASSUME ServiceInv, ControlOK', ReplyUart
    PROVE  Service!AnswerUart
<1>1. /\ pc = "reply" /\ link = "uart" /\ parsed' = TRUE /\ pc' = "usb" /\ length' = 32
      /\ link' = "none" /\ op' = "none" /\ UNCHANGED <<in, fetchable, watchdog>>
  BY DEF ReplyUart, NoneServed
<1>2. /\ in \in [Links -> BOOLEAN] /\ in' \in [Links -> BOOLEAN] /\ "uart" \in Links
      /\ watchdog \in BOOLEAN /\ op \in Ops /\ ~in["uart"] /\ (op = "EGG" => watchdog)
      /\ reply \in Answers[op]
  BY <1>1 DEF ServiceInv, ControlOK, ServeOK, Links
<1>3. PICK k \in Copies : heard' = [i \in 1..k |-> reply[1]]
  BY DEF ReplyUart
<1>4. /\ DOMAIN heard' = 1..k /\ 1 \in 1..k /\ heard' # <<>>
      /\ \A i \in DOMAIN heard' : heard'[i] = reply[1]
  <2>1. k \in Nat \ {0}
    BY MainAssumption
  <2>2. DOMAIN heard' = 1..k /\ 1 \in 1..k /\ DOMAIN <<>> = {}
    BY <1>3, <2>1
  <2>3. QED
    BY <1>3, <2>2
<1>5. Where("uart") = op /\ Where("uart")' = "answered"
  BY <1>1, <1>2, <1>4 DEF Where
<1>6. \A k1 \in Links : k1 # "uart" => Where(k1)' = Where(k1)
  BY <1>1 DEF Where, Links
<1>7. Service!Becomes("uart", "answered")
  BY <1>2, <1>5, <1>6, PhaseBecomes
<1>8. Phase("uart") = op
  BY <1>2, <1>5, PhaseIs
<1>9. (parsed' /\ pc' = "usb") = TRUE /\ UNCHANGED (watchdog \/ op = "EGG") /\ (length' = 32) = TRUE
  BY <1>1, <1>2
<1>10. QED
  BY <1>1, <1>2, <1>4, <1>7, <1>8, <1>9 DEF Service!AnswerUart

LEMMA HearHears ==
    ASSUME ServiceInv, ControlOK', Hear
    PROVE  Service!Hear
<1>1. /\ heard # <<>> /\ heard' = <<>>
      /\ UNCHANGED <<in, fetchable, length, pc, link, op, parsed, watchdog>>
  BY DEF Hear, served
<1>2. /\ in \in [Links -> BOOLEAN] /\ in' \in [Links -> BOOLEAN] /\ "uart" \in Links
      /\ ~in["uart"] /\ link # "uart"
  BY <1>1 DEF ServiceInv, ControlOK, ServeOK, Links
<1>3. Where("uart") = "answered" /\ Where("uart")' = "none"
  BY <1>1, <1>2 DEF Where
<1>4. \A k \in Links : k # "uart" => Where(k)' = Where(k)
  BY <1>1 DEF Where
<1>5. Service!Becomes("uart", "none") /\ Phase("uart") = "answered"
  BY <1>2, <1>3, <1>4, PhaseBecomes, PhaseIs
<1>6. UNCHANGED (watchdog \/ op = "EGG") /\ UNCHANGED (parsed /\ pc = "usb")
  BY <1>1
<1>7. QED
  BY <1>1, <1>2, <1>5, <1>6 DEF Service!Hear

LEMMA SendAnswersUsb ==
    ASSUME ServiceInv, ControlOK', Send
    PROVE  Service!AnswerUsb \/ Service!Unanswered
<1>1. /\ pc = "reply" /\ link = "usb" /\ pc' \in {"sending", "top"}
      /\ UNCHANGED <<in, watchdog, heard, length>>
  BY DEF Send
<1>2. /\ in \in [Links -> BOOLEAN] /\ in' \in [Links -> BOOLEAN] /\ "usb" \in Links
      /\ watchdog \in BOOLEAN /\ op \in Ops /\ ~in["usb"] /\ (op = "EGG" => watchdog)
      /\ reply \in Answers[op] /\ (fetchable # <<>> => watchdog)
  BY <1>1 DEF ServiceInv, ControlOK, ServeOK, Links
<1>3. Where("usb") = op /\ Phase("usb") = op
  BY <1>1, <1>2, PhaseIs DEF Where
<1>4. (parsed /\ pc = "usb") = FALSE /\ (parsed' /\ pc' = "usb") = FALSE
  BY <1>1
<1>5. CASE fetchable = <<>>
  <2>1. fetchable' = Report(reply) /\ pc' = "sending" /\ UNCHANGED <<link, op>>
    BY <1>5 DEF Send, served
  <2>2. fetchable' # <<>> /\ fetchable' = Service!Report(reply)
    BY <2>1, ReportIs
  <2>3. Where("usb")' = "answered"
    BY <1>1, <1>2, <2>1, <2>2 DEF Where
  <2>4. \A k \in Links : k # "usb" => Where(k)' = Where(k)
    BY <1>1, <2>1 DEF Where
  <2>5. Service!Becomes("usb", "answered")
    BY <1>2, <2>3, <2>4, PhaseBecomes
  <2>6. UNCHANGED (watchdog \/ op = "EGG")
    BY <1>1, <2>1
  <2>7. Service!AnswerUsb
    BY <1>1, <1>2, <1>3, <1>4, <1>5, <2>2, <2>5, <2>6 DEF Service!AnswerUsb
  <2>8. QED
    BY <2>7
<1>6. CASE fetchable # <<>>
  <2>1. pc' = "top" /\ link' = "none" /\ op' = "none" /\ UNCHANGED fetchable
    BY <1>6 DEF Send, NoneServed
  <2>2. Where("usb")' = "none"
    BY <1>1, <1>2, <2>1 DEF Where, Links
  <2>3. \A k \in Links : k # "usb" => Where(k)' = Where(k)
    BY <1>1, <2>1 DEF Where, Links
  <2>4. Service!Becomes("usb", "none")
    BY <1>2, <2>2, <2>3, PhaseBecomes
  <2>5. (watchdog \/ op = "EGG") = TRUE /\ UNCHANGED (watchdog \/ op = "EGG")
    BY <1>1, <1>2, <1>6, <2>1
  <2>6. Service!Unanswered
    BY <1>1, <1>2, <1>3, <1>4, <1>6, <2>1, <2>4, <2>5 DEF Service!Unanswered
  <2>7. QED
    BY <2>6
<1>7. QED
  BY <1>5, <1>6

\* The answer is fetched: main was told so, the host knew.
LEMMA SentIsUnnoticed ==
    ASSUME ServiceInv, ControlOK', Sent
    PROVE  UNCHANGED Service!serviceVars
<1>1. /\ pc = "sending" /\ pc' = "top" /\ fetchable = <<>> /\ link' = "none" /\ op' = "none"
      /\ UNCHANGED <<in, answers, watchdog>>
  BY DEF Sent, Fetched, NoneServed, answers
<1>2. /\ in \in [Links -> BOOLEAN] /\ in' \in [Links -> BOOLEAN] /\ link = "usb"
      /\ watchdog \in BOOLEAN /\ (op = "EGG" => watchdog)
  BY <1>1 DEF ServiceInv, ControlOK, ServeOK
<1>3. \A l \in Links : Where(l)' = Where(l)
  BY <1>1, <1>2 DEF Where, Links, answers
<1>4. Doomed' = Doomed /\ MayDrop' = MayDrop
  <2>1. (Doomed' <=> Doomed) /\ (MayDrop' <=> MayDrop)
    BY <1>1, <1>2 DEF Doomed, MayDrop
  <2>2. QED
    BY <2>1 DEF Doomed, MayDrop
<1>5. QED
  BY <1>1, <1>2, <1>3, <1>4, Unnoticed

LEMMA AskAsks ==
    ASSUME ServiceInv, ControlOK', NEW l \in Links, Ask(l)
    PROVE  Service!Ask(l)
<1>1. /\ Phase(l) = "none" /\ in' = [in EXCEPT ![l] = TRUE]
      /\ UNCHANGED <<answers, pc, link, op, parsed, watchdog>>
  BY DEF Ask, served, answers
<1>2. in \in [Links -> BOOLEAN] /\ in' \in [Links -> BOOLEAN]
  BY DEF ServiceInv, ControlOK
<1>3. Where(l)' = "asked" /\ \A k \in Links : k # l => Where(k)' = Where(k)
  BY <1>1, <1>2 DEF Where, answers
<1>4. Service!Becomes(l, "asked")
  BY <1>2, <1>3, PhaseBecomes
<1>5. QED
  BY <1>1, <1>4 DEF Service!Ask, answers

LEMMA FetchFetches ==
    ASSUME ServiceInv, ControlOK', Fetch
    PROVE  Service!Fetch
<1>1. /\ fetchable # <<>> /\ fetchable' = <<>>
      /\ UNCHANGED <<in, heard, length, pc, link, op, parsed, watchdog>>
  BY DEF Fetch, served
<1>2. in \in [Links -> BOOLEAN] /\ in' \in [Links -> BOOLEAN] /\ "usb" \in Links
  BY DEF ServiceInv, ControlOK, Links
<1>3. UNCHANGED (watchdog \/ op = "EGG") /\ UNCHANGED (parsed /\ pc = "usb")
  BY <1>1
<1>4. CASE pc = "sending"
  <2>1. link = "usb" /\ ~in["usb"]
    BY <1>1, <1>4 DEF ServiceInv, ServeOK
  <2>2. Where("usb") = "answered" /\ Where("usb")' = "none"
    BY <1>1, <1>4, <2>1 DEF Where
  <2>3. \A k \in Links : k # "usb" => Where(k)' = Where(k)
    BY <1>1, <2>1 DEF Where
  <2>4. Service!Becomes("usb", "none") /\ Phase("usb") = "answered"
    BY <1>2, <2>2, <2>3, PhaseBecomes, PhaseIs
  <2>5. QED
    BY <1>1, <1>2, <1>3, <2>4 DEF Service!Fetch
<1>5. CASE pc # "sending"
  <2>1. watchdog \/ op = "EGG"
    BY <1>1, <1>5 DEF ServiceInv, ServeOK
  <2>2. \A l \in Links : Where(l)' = Where(l)
    BY <1>1, <1>5 DEF Where
  <2>3. [l \in Links |-> Phase(l)]' = [l \in Links |-> Phase(l)]
    BY <1>2, <2>2, PhasesKept
  <2>4. Phase("usb") # "answered"
    <3>1. op # "answered"
      BY DEF ServiceInv, ControlOK, Ops
    <3>2. QED
      BY <1>2, <1>5, <3>1, PhaseIs DEF Where
  <2>5. QED
    BY <1>1, <1>2, <1>3, <2>1, <2>3, <2>4 DEF Service!Fetch
<1>6. QED
  BY <1>4, <1>5

LEMMA RestartRestarts ==
    ASSUME ServiceInv, ControlOK', Restart
    PROVE  Service!Restart
<1>1. /\ watchdog /\ watchdog' = FALSE /\ op' = "none" /\ link' = "none" /\ pc' = "top"
      /\ parsed' = FALSE /\ in' = [l \in Links |-> FALSE] /\ fetchable' = <<>>
      /\ heard' = <<>> /\ length' = 64
  BY DEF Restart, NoneServed
<1>2. in' \in [Links -> BOOLEAN] /\ \A l \in Links : Where(l)' = "none"
  BY <1>1 DEF Where, Links
<1>3. [l \in Links |-> Phase(l)]' = [l \in Links |-> "none"]
  BY <1>2, PhaseWillBe
<1>4. /\ (watchdog' \/ op' = "EGG") = FALSE /\ (parsed' /\ pc' = "usb") = FALSE
      /\ (length' = 32) = FALSE
  BY <1>1
<1>5. QED
  BY <1>1, <1>3, <1>4 DEF Service!Restart

LEMMA ServiceStep ==
    ASSUME ServiceInv, ControlOK', [Next]_vars
    PROVE  [Service!ServiceNext]_(Service!serviceVars)
<1>1. /\ parsed => pc \in {"usb", "top"}
      /\ pc \in {"egg", "moving"} => op = "EGG"
      /\ pc = "refresh" => op # "EGG"
      /\ parsed \in BOOLEAN /\ watchdog \in BOOLEAN
  BY DEF ServiceInv, ServeOK, ControlOK
<1>2. pc \notin Serving => link = "none" /\ op = "none"
  BY DEF ServiceInv, ServeOK, ControlOK
<1>3. CASE Top
  <2>1. /\ UNCHANGED <<in, answers, link, op>> /\ watchdog' = watchdog
        /\ op = "none" /\ pc = "top" /\ pc' \in {"button", "uart"}
    BY <1>2, <1>3 DEF Top, served, Serving
  <2>2. MayDrop' = MayDrop
    BY <2>1 DEF MayDrop
  <2>3. QED
    BY <1>1, <2>1, <2>2, Works
<1>4. CASE ButtonMoved \/ EggMove \/ EggMoved \/ WatchDog_us \/ Refreshed
  <2>1. /\ UNCHANGED <<in, answers, link, op, parsed>> /\ pc # "usb" /\ pc' # "usb"
        /\ pc # "sending" /\ pc' # "sending"
    BY <1>4 DEF ButtonMoved, EggMove, EggMoved, WatchDog_us, Refreshed, served
  <2>2. MayDrop' = MayDrop
    BY <2>1 DEF MayDrop
  <2>3. watchdog' = watchdog \/ op = "EGG"
    BY <1>1, <1>4 DEF ButtonMoved, EggMove, EggMoved, WatchDog_us, Refreshed
  <2>4. QED
    BY <2>1, <2>2, <2>3, Works
<1>5. CASE Uart
  <2>1. CASE in["uart"]
    <3>1. \E c \in Ops : Service!Serve("uart", c)
      BY <1>1, <1>2, <1>5, <2>1, TakesServes DEF Uart, Links, Serving
    <3>2. QED
      BY <3>1 DEF Service!ServiceNext, Links
  <2>2. CASE ~in["uart"]
    <3>1. /\ UNCHANGED <<in, answers, link, op, parsed, watchdog>> /\ op = "none"
          /\ pc = "uart" /\ pc' = "usb" /\ ~parsed
      BY <1>1, <1>2, <1>5, <2>2 DEF Uart, Skip, served, Serving
    <3>2. MayDrop' = MayDrop
      BY <3>1 DEF MayDrop
    <3>3. QED
      BY <1>1, <3>1, <3>2, Works
  <2>3. QED
    BY <2>1, <2>2
<1>6. CASE Usb
  <2>1. CASE in["usb"] /\ ~parsed
    <3>1. \E c \in Ops : Service!Serve("usb", c)
      BY <1>2, <1>6, <2>1, TakesServes DEF Usb, Links, Serving
    <3>2. QED
      BY <3>1 DEF Service!ServiceNext, Links
  <2>2. CASE ~(in["usb"] /\ ~parsed)
    BY <1>6, <2>2, SkipDrops DEF Service!ServiceNext
  <2>3. QED
    BY <2>1, <2>2
<1>7. CASE ReplyUart
  BY <1>7, ReplyAnswersUart DEF Service!ServiceNext
<1>8. CASE Send
  BY <1>8, SendAnswersUsb DEF Service!ServiceNext
<1>9. CASE Sent
  BY <1>9, SentIsUnnoticed
<1>10. CASE Tick \/ Ticker_button_handler \/ UNCHANGED vars
  <2>1. UNCHANGED <<in, answers, pc, link, op, parsed, watchdog>>
    BY <1>10 DEF Tick, Ticker_button_handler, vars, served, answers
  <2>2. MayDrop' = MayDrop
    BY <2>1 DEF MayDrop
  <2>3. QED
    BY <2>1, <2>2, Works
<1>11. CASE \E l \in Links : Ask(l)
  BY <1>11, AskAsks DEF Service!ServiceNext
<1>12. CASE Fetch
  BY <1>12, FetchFetches DEF Service!ServiceNext
<1>13. CASE Restart
  BY <1>13, RestartRestarts DEF Service!ServiceNext
<1>14. CASE Hear
  BY <1>14, HearHears DEF Service!ServiceNext
<1>15. QED
  BY <1>3, <1>4, <1>5, <1>6, <1>7, <1>8, <1>9, <1>10, <1>11, <1>12, <1>13, <1>14 DEF Next, Main

LEMMA ServiceInvHolds == Spec => []ServiceInv
<1>1. Init => ServiceInv
  <2> SUFFICES ASSUME Init PROVE ServiceInv
    OBVIOUS
  <2>1. MotorOK /\ ControlOK
    BY InitEstablishes DEF IInv
  <2>2. MoveOK
    BY DEF Init, Motor!MotionInit, MoveOK
  <2>3. ServeOK
    BY DEF Init, ServeOK
  <2>4. QED
    BY <2>1, <2>2, <2>3 DEF ServiceInv
<1>2. ServiceInv /\ [Next]_vars => ServiceInv'
  <2> SUFFICES ASSUME ServiceInv, [Next]_vars PROVE ServiceInv'
    OBVIOUS
  <2>1. moves \in Nat
    BY EggIs DEF ServiceInv, ControlOK
  <2>2. MotorOK' /\ MoveOK'
    BY <2>1, NextMoves, NextLengths, MotorKept, MoveKept DEF ServiceInv
  <2>3. ControlOK' /\ ServeOK'
    BY ControlKept, ServeKept DEF ServiceInv
  <2>4. QED
    BY <2>2, <2>3 DEF ServiceInv
<1>3. QED
  BY <1>1, <1>2, PTL DEF Spec

\* The main loop keeps the promise of CommandService to the hosts on the two
\* links: one command at a time, none served twice, each answered on its own
\* link with an answer to it, and at most one report dropped for each command
\* on the UART; for all commands and arguments, all states of the motor and the
\* button, and any moment of the interrupts, the fetches and the restart.
THEOREM ServiceImplemented == Spec => ImplementsService
<1>1. Init => Service!ServiceInit
  <2> SUFFICES ASSUME Init PROVE Service!ServiceInit
    OBVIOUS
  <2>1. in \in [Links -> BOOLEAN] /\ \A l \in Links : Where(l) = "none"
    BY DEF Init, Where, Links
  <2>2. [l \in Links |-> Phase(l)] = [l \in Links |-> "none"]
    BY <2>1, PhaseIs
  <2>3. /\ (watchdog \/ op = "EGG") = FALSE /\ (parsed /\ pc = "usb") = FALSE
        /\ fetchable = <<>> /\ heard = <<>> /\ (length = 32) = FALSE
    BY DEF Init
  <2>4. QED
    BY <2>2, <2>3 DEF Service!ServiceInit
<1>2. ServiceInv /\ ServiceInv' /\ [Next]_vars => [Service!ServiceNext]_(Service!serviceVars)
  BY ServiceStep DEF ServiceInv
<1>3. Spec => Service!ServiceSpec
  BY <1>1, <1>2, ServiceInvHolds, PTL DEF Spec, Service!ServiceSpec
<1>4. QED
  BY <1>3 DEF ImplementsService
=============================================================================
