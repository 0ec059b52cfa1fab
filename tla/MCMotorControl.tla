--------------------------- MODULE MCMotorControl ---------------------------
(***************************************************************************)
(* Robots and the calls of their programs for TLC.                         *)
(***************************************************************************)
EXTENDS MotorControl

MotorCall(m, method, x) ==
    [device |-> "motor", ch |-> m, type |-> "none", method |-> method,
     args |-> <<x>>]
PidCall(m, type, method, args) ==
    [device |-> "pid", ch |-> m, type |-> type, method |-> method, args |-> args]
ServoCall(v, method, x) ==
    [device |-> "servo", ch |-> v, type |-> "none", method |-> method,
     args |-> <<x>>]

\* Open loop and followers: of a motor with a power of its own, of another
\* follower, of itself, and of channels that are not there.
OpenLoopCalls ==
    {MotorCall(m, "setPercentagePower", x) : m \in {0, 1}, x \in {-300, 1500}}
        \cup {MotorCall(m, "setVoltage", x) : m \in {0, 1}, x \in {-6000, 13000}}
        \cup {MotorCall(m, "setReversed", TRUE) : m \in {0, 2}}
        \cup {MotorCall(0, "setReversed", FALSE)}
        \cup {MotorCall(m, "follow", 1000 * l) : m \in {1, 2}, l \in {-1, 0, 1, 5}}

\* Closed loops of motor 2.
ClosedLoopCalls ==
    {MotorCall(2, "setPositionSetpoint", x) : x \in {-4000, 2500}}
        \cup {MotorCall(2, "setVelocitySetpoint", 2000),
              MotorCall(2, "setReversed", TRUE),
              MotorCall(2, "setDistancePerCount", 2)}
        \cup {PidCall(2, type, "setPID", <<2, 0, 0>>) : type \in PidTypes}
        \cup {PidCall(2, "position", "setPID", <<2, 3, 1>>)}
        \cup {PidCall(2, "velocity", "setFF", <<500, 1, 0>>),
              PidCall(2, "position", "enableContinuousInput", <<-3000, 3000>>),
              PidCall(2, "position", "enableContinuousInput", <<3000, 9000>>),
              PidCall(2, "position", "disableContinuousInput", << >>)}

ServoCalls ==
    {ServoCall(v, "set", x) : v \in {0, 5}, x \in {-200, 333, 1000, 1700}}
        \cup {ServoCall(v, "setAngle", x) : v \in {0, 5}, x \in {-10, 7, 180, 200}}
        \cup {ServoCall(v, "setPulseWidth", x) : v \in {0, 5}, x \in {0, 900, 65536}}
        \cup {ServoCall(v, "setFramePeriod", 10000) : v \in {0, 5}}
        \cup {ServoCall(v, "setEnabled", TRUE) : v \in {0, 5}}

NoTerms == [total |-> 0, slope |-> 0]

OpenLoop == [motors |-> {0, 1, 2}, servos |-> {}, calls |-> OpenLoopCalls,
             batteries |-> {0, 12000}, positions |-> {0}, terms |-> {NoTerms},
             maxCalls |-> 3, maxFailures |-> 1]
\* A battery that the hub sometimes reports as negative.
NegativeBattery ==
    [motors |-> {0}, servos |-> {},
     calls |-> {c \in OpenLoopCalls : c.ch = 0},
     batteries |-> {-12000, 12000}, positions |-> {0}, terms |-> {NoTerms},
     maxCalls |-> 2, maxFailures |-> 1]
ClosedLoop == [motors |-> {2}, servos |-> {}, calls |-> ClosedLoopCalls,
               batteries |-> {9000}, positions |-> {-2, 1, 3},
               terms |-> {NoTerms, [total |-> 700, slope |-> -2500]},
               maxCalls |-> 3, maxFailures |-> 0]
TwoServos == [motors |-> {}, servos |-> {0, 5}, calls |-> ServoCalls,
              batteries |-> {12000}, positions |-> {0}, terms |-> {NoTerms},
              maxCalls |-> 2, maxFailures |-> 1]

Robots == {OpenLoop, NegativeBattery, ClosedLoop, TwoServos}
=============================================================================
