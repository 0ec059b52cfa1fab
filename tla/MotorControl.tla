---------------------------- MODULE MotorControl ----------------------------
(***************************************************************************)
(* From a call of the robot program to the power of a motor and the pulse  *)
(* of a servo: the library publishes topic by topic, and in each           *)
(* transaction the daemon reads topics at three moments: the pulse widths  *)
(* when it starts (SendInitial), the scale of the encoder when the bulk    *)
(* answer comes (SetEncoder), and everything else when the commands are    *)
(* sent (SendCommands, ComputeMotorPower, PidConstants::Compute).          *)
(*                                                                         *)
(* Which answers a transaction waits for, and what happens when they fail, *)
(* is in HubDaemon; here a transaction sends its commands or does not.     *)
(* Numbers are exact: setpoints, kS and voltages in thousandths, the other *)
(* gains and distances per count whole.  The PIDController is in wpilib:   *)
(* what it remembers from one computation to the next, the sum of the      *)
(* errors and the last one, may be anything.                               *)
(***************************************************************************)
EXTENDS HubClient, FiniteSetsExt

CONSTANT Setups        \* robots and their programs, one of which is running

\* The battery voltage is an int16_t.
MinBattery == -32768
MaxBattery == 32767

\* What the gains kI and kD of a controller multiply: its sum of the errors,
\* and the change of the error per period.
Terms == [total : Int, slope : Int]

\* A setup has the channels in use, the calls that the program may make, the
\* battery readings in mV, the encoder readings in counts and the terms of the
\* controllers; and two bounds: how often the program calls, and how many
\* transactions send no commands.
IsSetup(s) ==
    /\ s.motors \subseteq MotorNumbers /\ s.servos \subseteq ServoNumbers
    /\ s.batteries \subseteq MinBattery .. MaxBattery
    /\ s.positions \subseteq Int /\ s.terms \subseteq Terms
    /\ \A c \in s.calls : IsCall(c)
    /\ s.maxCalls \in Nat /\ s.maxFailures \in Nat

ASSUME SetupsAssumption == \A s \in Setups : IsSetup(s)

VARIABLES
    setup,             \* the robot; never changes
    library,           \* the library the program uses
    nt,                \* the topics that were published, and their values
    todo,              \* what is left to publish of the call in progress
    called,            \* the calls so far; history
    stage,             \* of the transaction
    lastBattery,       \* ExpansionHubNtState
    lastEncoder,       \* MotorNtState: position and velocity, in thousandths
    reported,          \* what the hub reported last: position and velocity
    memory,            \* what a motor's controller had in store, last time
    level,             \* the power level every motor was sent last
    pulse,             \* the pulse width every servo was sent last, 0 for none
    calm,              \* nothing was published since the transaction began
    failures           \* what is left of the bound

vars == <<setup, library, nt, todo, called, stage, lastBattery, lastEncoder,
          reported, memory, level, pulse, calm, failures>>

Motors == setup.motors
Servos == setup.servos
Batteries == setup.batteries
Positions == setup.positions

Readings == {"position", "velocity"}
Stages == {"idle", "started", "battery", "bulk"}
PowerConversion == 32767
UInt16 == 65536

ControlTypeOK ==
    /\ setup \in Setups
    /\ library \in Libraries
    /\ called \in Seq(setup.calls)
    /\ stage \in Stages
    /\ lastBattery \in Batteries \cup {0}
    /\ lastEncoder \in [Motors -> [Readings -> Int]]
    /\ reported \in [Motors -> [Readings -> Positions \cup {0}]]
    /\ memory \in [Motors -> Terms]
    /\ level \in [Motors -> -PowerConversion .. PowerConversion]
    /\ pulse \in [Servos -> 0 .. UInt16 - 1]
    /\ calm \in BOOLEAN
    /\ failures \in 0 .. setup.maxFailures

(***************************************************************************)
(* The robot program.                                                      *)
(***************************************************************************)

\* Calls are made one after the other.
Call(c) ==
    /\ todo = << >> /\ Len(called) < setup.maxCalls
    /\ todo' = Publications(library, c)
    /\ called' = Append(called, c)
    /\ UNCHANGED <<setup, library, nt, stage, lastBattery, lastEncoder,
                   reported, memory, level, pulse, calm, failures>>

Publish ==
    /\ todo # << >>
    /\ nt' = [t \in DOMAIN nt \cup {Head(todo).topic} |->
                 IF t = Head(todo).topic THEN Head(todo).value ELSE nt[t]]
    /\ todo' = Tail(todo)
    /\ calm' = FALSE
    /\ UNCHANGED <<setup, library, called, stage, lastBattery, lastEncoder,
                   reported, memory, level, pulse, failures>>

(***************************************************************************)
(* Reading the topics.                                                     *)
(***************************************************************************)

\* Get(default) of a subscriber.
Get(topic, default) == IF topic \in DOMAIN nt THEN nt[topic] ELSE default

GetMotor(m, subscriber, default) ==
    Get(MotorTopic(m, DaemonMotor[subscriber]), default)
GetPid(m, type, subscriber, default) ==
    Get(PidTopic(m, type, DaemonPid[subscriber]), default)

Reversed(m) == IF GetMotor(m, "reversedSubscriber", FALSE) THEN -1 ELSE 1

DistancePerCount(m) ==
    LET d == GetMotor(m, "distancePerCountSubscriber", 0)
    IN  IF d = 0 THEN 1 ELSE d

\* Mutant: only the power is reversed.
SetEncoderForward(m, raw) ==
    [r \in Readings |-> raw[r] * DistancePerCount(m) * 1000]

SetEncoder(m, raw) ==
    [r \in Readings |-> raw[r] * Reversed(m) * DistancePerCount(m) * 1000]

(***************************************************************************)
(* Power.                                                                  *)
(***************************************************************************)

\* x - trunc(x / d) * d, computed with numbers: whatever the conversion of x / 0
\* to an int gives, 0 times it is 0.
Rem(x, d) ==
    LET a == IF d < 0 THEN -d ELSE d
    IN  IF d = 0 THEN x ELSE IF x < 0 THEN -((-x) % a) ELSE x % a

\* InputModulus of wpimath: x moved by multiples of high - low to low .. high.
InputModulus(x, low, high) ==
    LET d == high - low
        y == low + Rem(x - low, d)
    IN  high + Rem(y - high, d)

\* The error of the PIDController, in thousandths.
Error(m, type, setpoint, measurement) ==
    LET low == GetPid(m, type, "continuousMinimumSubscriber", 0)
        high == GetPid(m, type, "continuousMaximumSubscriber", 0)
        bound == (high - low) \div 2
    IN  IF GetPid(m, type, "continuousSubscriber", FALSE)
        THEN InputModulus(setpoint - measurement, -bound, bound)
        ELSE setpoint - measurement

Sign(x) == IF x > 0 THEN 1 ELSE IF x < 0 THEN -1 ELSE 0

\* PidConstants::Compute, in thousandths of a volt; c are the controller's
\* terms.  The gain kA is for an acceleration and none is given.
Compute(m, type, setpoint, measurement, c) ==
    GetPid(m, type, "sSubscriber", 0) * Sign(setpoint)
        + GetPid(m, type, "vSubscriber", 0) * setpoint
        + GetPid(m, type, "pSubscriber", 0)
              * Error(m, type, setpoint, measurement)
        + GetPid(m, type, "iSubscriber", 0) * c.total
        + GetPid(m, type, "dSubscriber", 0) * c.slope

\* A power n/d, and the motor to follow, -1 for none.  A negative battery
\* reading turns the power round.
Own(n, d) ==
    IF d < 0 THEN [n |-> -n, d |-> -d, second |-> -1]
    ELSE [n |-> n, d |-> d, second |-> -1]

\* static_cast<int>(setpoint).
TruncateToInt(x) == Sign(x) * ((x * Sign(x)) \div 1000)

\* Mutant: a voltage is not related to the battery's.
ComputeUncompensated(m, c) ==
    LET setpoint == GetMotor(m, "setpointSubscriber", 0)
    IN  IF GetMotor(m, "modeSubscriber", 0) = 4
        THEN [n |-> 0, d |-> 1, second |-> TruncateToInt(setpoint)]
        ELSE Own(setpoint * Reversed(m), 1000)

\* c: the terms of every motor's controller.
ComputeMotorPower(m, c) ==
    LET setpoint == GetMotor(m, "setpointSubscriber", 0)
        mode == GetMotor(m, "modeSubscriber", 0)
        volts(v) == Own(v * Reversed(m), lastBattery)
    IN  IF lastBattery = 0 THEN Own(0, 1)
        ELSE CASE mode = 1 -> volts(setpoint)
               [] mode = 2 -> volts(Compute(m, "position", setpoint,
                                            lastEncoder[m]["position"], c[m]))
               [] mode = 3 -> volts(Compute(m, "velocity", setpoint,
                                            lastEncoder[m]["velocity"], c[m]))
               [] mode = 4 ->
                      [n |-> 0, d |-> 1, second |-> TruncateToInt(setpoint)]
               [] OTHER -> Own(setpoint * Reversed(m), 1000)

\* Mutant: the power is scaled without being cut off.
LevelUnclamped(power) ==
    Sign(power.n) * ((power.n * Sign(power.n) * PowerConversion) \div power.d)

\* SendMotorConstantPower.
Level(power) ==
    LET n == Clamp(power.n, -power.d, power.d)
    IN  Sign(n) * ((n * Sign(n) * PowerConversion) \div power.d)

\* Mutant: a follower in a chain takes the power of the next but one.
FollowedTwice(m, c) ==
    LET p == ComputeMotorPower(m, c)
        q == IF p.second \in Motors THEN ComputeMotorPower(p.second, c) ELSE p
    IN  IF q.second \in Motors THEN ComputeMotorPower(q.second, c) ELSE q

\* The power a motor is sent: its own, or the one computed for the motor it
\* follows.  A channel that is not in use has no power.
Followed(m, c) ==
    LET p == ComputeMotorPower(m, c)
    IN  IF p.second < 0 THEN p
        ELSE IF p.second \in Motors THEN ComputeMotorPower(p.second, c)
        ELSE Own(0, 1)

(***************************************************************************)
(* Transactions.                                                           *)
(***************************************************************************)

PulseWidth(v) ==
    Get(ServoTopic(v, DaemonServo.pulseWidthSubscriber), 1500) % UInt16

\* SendInitial; a pulse width of 0 is not sent.
SendInitial ==
    /\ stage = "idle"
    /\ stage' = "started"
    /\ calm' = (todo = << >>)
    /\ pulse' = [v \in Servos |->
                    IF PulseWidth(v) = 0 THEN pulse[v] ELSE PulseWidth(v)]
    /\ UNCHANGED <<setup, library, nt, todo, called, lastBattery, lastEncoder,
                   reported, memory, level, failures>>

BatteryAnswer ==
    /\ stage = "started"
    /\ stage' = "battery"
    /\ lastBattery' \in Batteries
    /\ UNCHANGED <<setup, library, nt, todo, called, lastEncoder, reported,
                   memory, level, pulse, calm, failures>>

\* The encoder is published as it is stored.
BulkAnswer ==
    /\ stage = "battery"
    /\ stage' = "bulk"
    /\ reported' \in [Motors -> [Readings -> Positions]]
    /\ lastEncoder' = [m \in Motors |-> SetEncoder(m, reported'[m])]
    /\ UNCHANGED <<setup, library, nt, todo, called, lastBattery, memory,
                   level, pulse, calm, failures>>

\* Every motor's power is computed once; a motor in a PID mode uses one of its
\* two controllers, whose terms are whatever they are by now.
SendCommands ==
    /\ stage = "bulk"
    /\ stage' = "idle"
    /\ memory' \in [Motors -> setup.terms]
    /\ level' = [m \in Motors |-> Level(Followed(m, memory'))]
    /\ UNCHANGED <<setup, library, nt, todo, called, lastBattery, lastEncoder,
                   reported, pulse, calm, failures>>

\* An answer was refused or got lost: the transaction ends without commands.
\* What it may still have read is overwritten before it is used.
TransactionFails ==
    /\ stage \in {"started", "battery"}
    /\ failures > 0
    /\ failures' = failures - 1
    /\ stage' = "idle"
    /\ calm' = FALSE
    /\ UNCHANGED <<setup, library, nt, todo, called, lastBattery, lastEncoder,
                   reported, memory, level, pulse>>

\* The program constructs its servos first; before the first transaction
\* nothing was sent.
Init ==
    /\ setup \in Setups
    /\ library \in Libraries
    /\ nt = << >>
    /\ todo = NewServos(library, Servos)
    /\ called = << >>
    /\ stage = "idle"
    /\ lastBattery = 0
    /\ lastEncoder = [m \in Motors |-> [r \in Readings |-> 0]]
    /\ reported = [m \in Motors |-> [r \in Readings |-> 0]]
    /\ memory = [m \in Motors |-> [total |-> 0, slope |-> 0]]
    /\ level = [m \in Motors |-> 0]
    /\ pulse = [v \in Servos |-> 0]
    /\ calm = FALSE
    /\ failures = setup.maxFailures

Transaction == SendInitial \/ BatteryAnswer \/ BulkAnswer \/ SendCommands

Next == \/ \E c \in setup.calls : Call(c)
        \/ Publish \/ Transaction \/ TransactionFails

Spec == Init /\ [][Next]_vars

(***************************************************************************)
(* Properties.                                                             *)
(***************************************************************************)

\* A transaction during which nothing was published has just ended, and
\* nothing was called since.
Calm == calm /\ stage = "idle" /\ todo = << >>

\* The arguments of the last call of one of some methods of a device.
LastOf(device, ch, type, methods) ==
    LET I == {i \in DOMAIN called :
                 /\ called[i].device = device /\ called[i].ch = ch
                 /\ called[i].type = type /\ called[i].method \in methods}
    IN  IF I = {} THEN [method |-> "none", args |-> <<0, 0, 0>>]
        ELSE called[Max(I)]

PowerCall(m) == LastOf("motor", m, "none", DOMAIN ModeOf)
Direction(m) ==
    LET c == LastOf("motor", m, "none", {"setReversed"})
    IN  IF c.method = "setReversed" /\ c.args[1] THEN -1 ELSE 1
Scale(m) == LET d == LastOf("motor", m, "none", {"setDistancePerCount"}).args[1]
            IN  IF d = 0 THEN 1 ELSE d

\* Distances from the measurement to the setpoint; with continuous input the
\* short way round, which is up, or down by the rest of the range.
Distances(m, type, x) ==
    LET measured == reported[m][type] * Direction(m) * Scale(m) * 1000
        c == LastOf("pid", m, type, {"enableContinuousInput",
                                     "disableContinuousInput"})
        range == c.args[2] - c.args[1]
        up == (x - measured) % range
    IN  IF c.method = "enableContinuousInput"
        THEN {e \in {up, up - range} : 2 * e \in -range .. range}
        ELSE {x - measured}

\* The voltages, in thousandths, that the last calls ask for, from what the
\* controller had in store.
Voltages(m, type, x) ==
    LET gains == LastOf("pid", m, type, {"setPID"}).args
        feed == LastOf("pid", m, type, {"setFF"}).args
    IN  {feed[1] * Sign(x) + feed[2] * x + gains[1] * e
             + gains[2] * memory[m].total + gains[3] * memory[m].slope :
            e \in Distances(m, type, x)}

\* Is l the level, cut off and rounded to 0, of a power n/d?
IsLevel(l, n, d) ==
    LET a == n * Sign(n)
        b == l * Sign(l)
    IN  /\ l * n >= 0
        /\ IF a >= d THEN b = PowerConversion
           ELSE b * d <= a * PowerConversion /\ a * PowerConversion < (b + 1) * d

\* Is l a level that the last calls ask for, when they do not ask to follow?
IsAsked(l, m) ==
    LET c == PowerCall(m)
        x == c.args[1]
        volts(V) == \E v \in V : IsLevel(l, v * Direction(m), lastBattery)
    IN  IF lastBattery = 0 \/ c.method = "none" THEN l = 0
        ELSE CASE c.method = "setPercentagePower" ->
                      IsLevel(l, x * Direction(m), 1000)
               [] c.method = "setVoltage" -> volts({x})
               [] c.method = "setPositionSetpoint" ->
                      volts(Voltages(m, "position", x))
               [] c.method = "setVelocitySetpoint" ->
                      volts(Voltages(m, "velocity", x))

\* The motor that a follower follows, -1 for none.
Leader(m) ==
    IF PowerCall(m).method = "follow" THEN PowerCall(m).args[1] \div 1000 ELSE -1

\* Once a transaction ran without a publication in its way, every motor has
\* the power that the last calls ask for: the mode and the setpoint, all the
\* gains, the direction and the scale that were called for, related to the
\* battery voltage, cut off at full power, and all 0 without a battery.  (No
\* voltage can be met when the battery's is reported as negative; the code
\* does not look out for that.)
PowerAsAsked ==
    Calm => \A m \in Motors :
        LET c == PowerCall(m)
        IN  /\ c.method # "follow"
            /\ lastBattery >= 0 \/ c.method \in {"none", "setPercentagePower"}
            => IsAsked(level[m], m)

\* A follower has the level of the motor it follows.  A motor that follows a
\* follower, itself or a channel that does not exist stands still, while the
\* commands of SendCommands are sent in the order of the channels.
FollowersFollow ==
    Calm => \A m \in {n \in Motors : PowerCall(n).method = "follow"} :
                IF Leader(m) \in Motors /\ PowerCall(Leader(m)).method # "follow"
                THEN level[m] = level[Leader(m)]
                ELSE level[m] = 0

\* Feedback is negative: in position mode with nothing but a proportional gain
\* the motor is driven towards its setpoint, never away from it, reversed or
\* not.  SetEncoder and ComputeMotorPower each apply the direction once.  (A
\* negative gain, distance per count or battery reading would turn the feedback
\* round, and what the controller remembers may outweigh it when kI or kD is
\* not 0.)
DrivesTowardsSetpoint ==
    Calm => \A m \in Motors :
        LET x == PowerCall(m).args[1]
            gains == LastOf("pid", m, "position", {"setPID"}).args
        IN  /\ PowerCall(m).method = "setPositionSetpoint"
            /\ LastOf("pid", m, "position", {"setFF"}).method = "none"
            /\ LastOf("pid", m, "position", {"enableContinuousInput"}).method = "none"
            /\ gains[1] >= 0 /\ gains[2] = 0 /\ gains[3] = 0
            /\ Scale(m) > 0 /\ lastBattery >= 0
            => level[m] * (x * Direction(m) - reported[m]["position"] * Scale(m) * 1000)
                   >= 0

\* The pulse of a servo follows the last call: a position or an angle beyond
\* its range saturates, and before the first call it is the constructor's.
PulsesAsAsked ==
    Calm => \A v \in Servos :
        LET c == LastOf("servo", v, "none", {"set", "setAngle", "setPulseWidth"})
            x == c.args[1]
            travel == pulse[v] - 600
        IN  CASE c.method = "none" -> pulse[v] = 1500
              [] c.method = "set" ->
                    IF x < 0 THEN travel = 0
                    ELSE IF x > 1000 THEN travel = 1800
                    ELSE x * 1800 - travel * 1000 \in 0 .. 999
              [] c.method = "setAngle" ->
                    IF x < 0 THEN travel = 0
                    ELSE IF x > 180 THEN travel = 1800
                    ELSE travel = 10 * x
              [] c.method = "setPulseWidth" -> x % UInt16 \in {0, pulse[v]}

\* The daemon never computes with continuous input before both of its bounds
\* have arrived, whenever the transaction happens: with a range of 0 nothing
\* would wrap around.
ContinuousHasBounds ==
    \A m \in Motors, type \in PidTypes :
        GetPid(m, type, "continuousSubscriber", FALSE) =>
            \A s \in {"continuousMinimumSubscriber", "continuousMaximumSubscriber"} :
                PidTopic(m, type, DaemonPid[s]) \in DOMAIN nt

\* Everything the libraries publish has a subscriber in the daemon.
NoTopicUnread ==
    \A t \in DOMAIN nt :
        \/ \E f \in DOMAIN DaemonMotor : t = MotorTopic(t[2], DaemonMotor[f])
        \/ \E f \in DOMAIN DaemonServo : t = ServoTopic(t[2], DaemonServo[f])
        \/ \E f \in DOMAIN DaemonPid, type \in PidTypes :
               t = PidTopic(t[2], type, DaemonPid[f])
=============================================================================
