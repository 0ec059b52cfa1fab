------------------------------ MODULE HubClient ------------------------------
(***************************************************************************)
(* The robot-side library of a hub (wpilib/java and wpilib/python) and the *)
(* NetworkTables topics that it shares with the daemon.  Every constructor *)
(* and every Initialize is a table from its publishers and subscribers to  *)
(* the last parts of their topic names; every setter is the sequence of    *)
(* values it publishes.                                                    *)
(***************************************************************************)
EXTENDS Integers, Sequences

MotorNumbers == 0 .. 3
ServoNumbers == 0 .. 5
PidTypes == {"velocity", "position"}

(***************************************************************************)
(* Topics of the daemon.                                                   *)
(***************************************************************************)

DaemonMotor ==
    [encoderPublisher |-> "encoder", velocityPublisher |-> "encoderVelocity",
     currentPublisher |-> "current", setpointSubscriber |-> "setpoint",
     floatOn0Subscriber |-> "floatOn0", enabledSubscriber |-> "enabled",
     modeSubscriber |-> "mode", reversedSubscriber |-> "reversed",
     distancePerCountSubscriber |-> "distancePerCount",
     resetEncoderSubscriber |-> "resetEncoder"]

\* Mutant: the name of one topic is spelled as it should be.
DaemonPidCorrected ==
    [pSubscriber |-> "kp", iSubscriber |-> "ki", dSubscriber |-> "kd",
     aSubscriber |-> "ka", vSubscriber |-> "kv", sSubscriber |-> "ks",
     continuousSubscriber |-> "continuous",
     continuousMinimumSubscriber |-> "continuousMinimum",
     continuousMaximumSubscriber |-> "continuousMaximum"]

DaemonPid ==
    [pSubscriber |-> "kp", iSubscriber |-> "ki", dSubscriber |-> "kd",
     aSubscriber |-> "ka", vSubscriber |-> "kv", sSubscriber |-> "ks",
     continuousSubscriber |-> "continuous",
     continuousMinimumSubscriber |-> "continuousMinimum",
     continuousMaximumSubscriber |-> "continousMaximum"]

DaemonServo ==
    [enabledSubscriber |-> "enabled", framePeriodSubscriber |-> "framePeriod",
     pulseWidthSubscriber |-> "pulseWidth"]

(***************************************************************************)
(* Topics of the libraries.                                                *)
(***************************************************************************)

JavaMotor ==
    [encoderSubscriber |-> "encoder",
     encoderVelocitySubscriber |-> "encoderVelocity",
     currentSubscriber |-> "current", setpointPublisher |-> "setpoint",
     distancePerCountPublisher |-> "distancePerCount",
     floatOn0Publisher |-> "floatOn0", enabledPublisher |-> "enabled",
     modePublisher |-> "mode", reversedPublisher |-> "reversed",
     resetEncoderPublisher |-> "resetEncoder"]

JavaPid ==
    [pPublisher |-> "kp", iPublisher |-> "ki", dPublisher |-> "kd",
     aPublisher |-> "ka", vPublisher |-> "kv", sPublisher |-> "ks",
     continuousPublisher |-> "continuous",
     continuousMinimumPublisher |-> "continuousMinimum",
     continuousMaximumPublisher |-> "continousMaximum"]

JavaServo ==
    [pulseWidthPublisher |-> "pulseWidth",
     framePeriodPublisher |-> "framePeriod", enabledPublisher |-> "enabled"]

PythonMotor ==
    [encoderSubscriber |-> "encoder",
     encoderVelocitySubscriber |-> "encoderVelocity",
     currentSubscriber |-> "current", setpointPublisher |-> "setpoint",
     distancePerCountPublisher |-> "distancePerCount",
     floatOn0Publisher |-> "floatOn0", enabledPublisher |-> "enabled",
     modePublisher |-> "mode", reversedPublisher |-> "reversed",
     resetEncoderPublisher |-> "resetEncoder"]

PythonPid ==
    [pPublisher |-> "kp", iPublisher |-> "ki", dPublisher |-> "kd",
     aPublisher |-> "ka", vPublisher |-> "kv", sPublisher |-> "ks",
     continuousPublisher |-> "continuous",
     continuousMinimumPublisher |-> "continuousMinimum",
     continuousMaximumPublisher |-> "continousMaximum"]

PythonServo ==
    [pulseWidthPublisher |-> "pulseWidth",
     framePeriodPublisher |-> "framePeriod", enabledPublisher |-> "enabled"]

\* The tables of a library.
Libraries == {"java", "python"}
Library(l) ==
    IF l = "java" THEN [motor |-> JavaMotor, pid |-> JavaPid, servo |-> JavaServo]
    ELSE [motor |-> PythonMotor, pid |-> PythonPid, servo |-> PythonServo]

MotorTopic(m, name) == <<"motor", m, name>>
PidTopic(m, type, name) == <<"motor", m, "pid", type, name>>
ServoTopic(v, name) == <<"servo", v, name>>

(***************************************************************************)
(* Setters.  A call is [device, ch, method, args], with the type of the    *)
(* PID for the calls of ExpansionHubPidConstants.                          *)
(***************************************************************************)

\* setPercentagePower and its kin publish a mode, then a setpoint.  No setter
\* asks for the follower mode: a program that wants it publishes by itself.
ModeOf == [setPercentagePower |-> 0, setVoltage |-> 1,
           setPositionSetpoint |-> 2, setVelocitySetpoint |-> 3,
           follow |-> 4]

\* Setters of a motor that publish one value.
MotorField == [setEnabled |-> "enabledPublisher",
               setFloatOn0 |-> "floatOn0Publisher",
               setReversed |-> "reversedPublisher",
               setDistancePerCount |-> "distancePerCountPublisher",
               resetEncoder |-> "resetEncoderPublisher"]

ServoField == [setPulseWidth |-> "pulseWidthPublisher",
               set |-> "pulseWidthPublisher", setAngle |-> "pulseWidthPublisher",
               setFramePeriod |-> "framePeriodPublisher",
               setEnabled |-> "enabledPublisher"]

\* Mutant: continuous input is switched on before its bounds are published.
EnableContinuousFirst(minimum, maximum) ==
    <<<<"continuousPublisher", TRUE>>, <<"continuousMaximumPublisher", maximum>>,
      <<"continuousMinimumPublisher", minimum>>>>

EnableContinuousInput(minimum, maximum) ==
    <<<<"continuousMaximumPublisher", maximum>>,
      <<"continuousMinimumPublisher", minimum>>, <<"continuousPublisher", TRUE>>>>

\* What the setters of ExpansionHubPidConstants publish.
PidValues(c) ==
    CASE c.method = "setPID" ->
            <<<<"pPublisher", c.args[1]>>, <<"iPublisher", c.args[2]>>,
              <<"dPublisher", c.args[3]>>>>
      [] c.method = "setFF" ->
            <<<<"sPublisher", c.args[1]>>, <<"vPublisher", c.args[2]>>,
              <<"aPublisher", c.args[3]>>>>
      [] c.method = "enableContinuousInput" ->
            EnableContinuousInput(c.args[1], c.args[2])
      [] c.method = "disableContinuousInput" ->
            <<<<"continuousPublisher", FALSE>>>>

\* MathUtil.clamp.
Clamp(x, low, high) == IF x < low THEN low ELSE IF x > high THEN high ELSE x

MinPwm == 600
MaxPwm == 2400

\* set() for the value n/d.
Pulse(n, d) == MinPwm + (Clamp(n, 0, d) * (MaxPwm - MinPwm)) \div d

\* Mutant: an angle outside the range of a servo is not cut off.
AngleUnbounded(degrees) == MinPwm + (degrees * (MaxPwm - MinPwm)) \div 180

\* setAngle().
Angle(degrees) == Pulse(Clamp(degrees, 0, 180), 180)

\* The value a setter of a servo publishes; positions are in thousandths.
ServoValue(c) ==
    CASE c.method = "set" -> Pulse(c.args[1], 1000)
      [] c.method = "setAngle" -> Angle(c.args[1])
      [] OTHER -> c.args[1]

\* The calls a program makes.  A motor is followed by its number, which like
\* every setpoint is in thousandths; the bounds of a continuous input are even,
\* so that half of the range is exact, and in order.
IsCall(c) ==
    LET of(device, channels, types, methods, args) ==
            c \in [device : {device}, ch : channels, type : types,
                   method : methods, args : args]
        motor(methods, args) == of("motor", MotorNumbers, {"none"}, methods, args)
        pid(methods, args) == of("pid", MotorNumbers, PidTypes, methods, args)
        servo(methods, args) == of("servo", ServoNumbers, {"none"}, methods, args)
    IN  \/ motor(DOMAIN ModeOf \ {"follow"}, [1 .. 1 -> Int])
        \/ motor({"follow"}, [1 .. 1 -> Int]) /\ c.args[1] % 1000 = 0
        \/ motor({"setDistancePerCount"}, [1 .. 1 -> Int])
        \/ motor(DOMAIN MotorField \ {"setDistancePerCount"},
                 [1 .. 1 -> BOOLEAN])
        \/ pid({"setPID", "setFF"}, [1 .. 3 -> Int])
        \/ /\ pid({"enableContinuousInput"}, [1 .. 2 -> Int])
           /\ c.args[1] % 2 = 0 /\ c.args[2] % 2 = 0 /\ c.args[1] < c.args[2]
        \/ pid({"disableContinuousInput"}, {<< >>})
        \/ servo(DOMAIN ServoField \ {"setEnabled"}, [1 .. 1 -> Int])
        \/ servo({"setEnabled"}, [1 .. 1 -> BOOLEAN])

\* The publications of a call in the order they are made.
Publications(l, c) ==
    LET F == Library(l)
        motor(field, x) == [topic |-> MotorTopic(c.ch, F.motor[field]),
                            value |-> x]
        pid(p) == [topic |-> PidTopic(c.ch, c.type, F.pid[p[1]]),
                   value |-> p[2]]
        servo(field, x) == [topic |-> ServoTopic(c.ch, F.servo[field]),
                            value |-> x]
    IN  CASE c.device = "pid" ->
                [i \in DOMAIN PidValues(c) |-> pid(PidValues(c)[i])]
          [] c.device = "servo" ->
                <<servo(ServoField[c.method], ServoValue(c))>>
          [] c.method \in DOMAIN ModeOf ->
                <<motor("modePublisher", ModeOf[c.method]),
                  motor("setpointPublisher", c.args[1])>>
          [] OTHER -> <<motor(MotorField[c.method], c.args[1])>>

\* The constructor of ExpansionHubServo publishes two values.
NewServo(l, v) ==
    LET F == Library(l).servo
    IN  <<[topic |-> ServoTopic(v, F.pulseWidthPublisher), value |-> 1500],
          [topic |-> ServoTopic(v, F.framePeriodPublisher), value |-> 20000]>>

\* A program constructs its servos in the order of their channels.
NewServos(l, servos) ==
    LET new(v) == IF v \in servos THEN NewServo(l, v) ELSE << >>
    IN  new(0) \o new(1) \o new(2) \o new(3) \o new(4) \o new(5)
=============================================================================
