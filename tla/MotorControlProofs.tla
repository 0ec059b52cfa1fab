------------------------- MODULE MotorControlProofs -------------------------
(***************************************************************************)
(* Theorems about MotorControl: what a motor and a servo are sent is what  *)
(* the last calls of the robot program ask for, for every robot and every  *)
(* program.                                                                *)
(***************************************************************************)
EXTENDS MotorControl, NaturalsInduction, WellFoundedInduction, TLAPS

(***************************************************************************)
(* What the calls publish.                                                 *)
(***************************************************************************)

Pub(t, x) == [topic |-> t, value |-> x]

\* The calls that set a pulse width.
PulseMethods == {"set", "setAngle", "setPulseWidth"}

PidMethods == {"setPID", "setFF", "enableContinuousInput",
               "disableContinuousInput"}

LEMMA PowerPublications ==
    ASSUME NEW l \in Libraries, NEW c, c.device = "motor",
           c.method \in DOMAIN ModeOf
    PROVE  Publications(l, c) =
               <<Pub(MotorTopic(c.ch, "mode"), ModeOf[c.method]),
                 Pub(MotorTopic(c.ch, "setpoint"), c.args[1])>>
  BY DEF Publications, Library, Libraries, JavaMotor, PythonMotor, Pub

LEMMA MotorPublications ==
    ASSUME NEW l \in Libraries, NEW c, c.device = "motor",
           c.method \in DOMAIN MotorField
    PROVE  \E x \in {"enabled", "floatOn0", "reversed", "distancePerCount",
                     "resetEncoder"} :
               /\ Publications(l, c) = <<Pub(MotorTopic(c.ch, x), c.args[1])>>
               /\ c.method = "setReversed" <=> x = "reversed"
               /\ c.method = "setDistancePerCount" <=> x = "distancePerCount"
  <1>1. c.method \notin DOMAIN ModeOf
    BY DEF ModeOf, MotorField
  <1>2. Publications(l, c) =
            <<Pub(MotorTopic(c.ch, Library(l).motor[MotorField[c.method]]),
                  c.args[1])>>
    BY <1>1 DEF Publications, Pub
  <1>3. Library(l).motor = JavaMotor \/ Library(l).motor = PythonMotor
    BY DEF Library, Libraries
  <1>4. c.method \in {"setEnabled", "setFloatOn0", "setReversed",
                      "setDistancePerCount", "resetEncoder"}
    BY DEF MotorField
  <1> QED
    BY <1>2, <1>3, <1>4 DEF JavaMotor, PythonMotor, MotorField

LEMMA ServoPublications ==
    ASSUME NEW l \in Libraries, NEW c, c.device = "servo",
           c.method \in DOMAIN ServoField
    PROVE  \E x \in {"pulseWidth", "framePeriod", "enabled"} :
               /\ Publications(l, c) = <<Pub(ServoTopic(c.ch, x), ServoValue(c))>>
               /\ c.method \in PulseMethods <=> x = "pulseWidth"
               /\ c.method = "setEnabled" <=> x = "enabled"
  <1>1. c.method \notin DOMAIN ModeOf
    BY DEF ModeOf, ServoField
  <1>2. Publications(l, c) =
            <<Pub(ServoTopic(c.ch, Library(l).servo[ServoField[c.method]]),
                  ServoValue(c))>>
    BY <1>1 DEF Publications, Pub
  <1>3. Library(l).servo = JavaServo \/ Library(l).servo = PythonServo
    BY DEF Library, Libraries
  <1>4. c.method \in {"setPulseWidth", "set", "setAngle", "setFramePeriod",
                      "setEnabled"}
    BY DEF ServoField
  <1> QED
    BY <1>2, <1>3, <1>4 DEF JavaServo, PythonServo, ServoField, PulseMethods

LEMMA PidPublications ==
    ASSUME NEW l \in Libraries, NEW c, c.device = "pid",
           c.method \in PidMethods
    PROVE  LET t(x) == PidTopic(c.ch, c.type, x)
           IN  /\ c.method = "setPID" => Publications(l, c) =
                      <<Pub(t("kp"), c.args[1]), Pub(t("ki"), c.args[2]),
                        Pub(t("kd"), c.args[3])>>
               /\ c.method = "setFF" => Publications(l, c) =
                      <<Pub(t("ks"), c.args[1]), Pub(t("kv"), c.args[2]),
                        Pub(t("ka"), c.args[3])>>
               /\ c.method = "enableContinuousInput" => Publications(l, c) =
                      <<Pub(t("continousMaximum"), c.args[2]),
                        Pub(t("continuousMinimum"), c.args[1]),
                        Pub(t("continuous"), TRUE)>>
               /\ c.method = "disableContinuousInput" => Publications(l, c) =
                      <<Pub(t("continuous"), FALSE)>>
  <1>1. Publications(l, c) =
            [i \in DOMAIN PidValues(c) |->
                Pub(PidTopic(c.ch, c.type, Library(l).pid[PidValues(c)[i][1]]),
                    PidValues(c)[i][2])]
    <2>1. c.method \notin DOMAIN ModeOf
      BY DEF ModeOf, PidMethods
    <2> QED
      BY <2>1 DEF Publications, Pub
  <1>2. Library(l).pid = JavaPid
    BY DEF Library, Libraries, JavaPid, PythonPid
  <1>3. CASE c.method = "setPID"
    <2>1. PidValues(c) = <<<<"pPublisher", c.args[1]>>,
                           <<"iPublisher", c.args[2]>>,
                           <<"dPublisher", c.args[3]>>>>
      BY <1>3 DEF PidValues
    <2> QED
      BY <1>1, <1>2, <1>3, <2>1 DEF JavaPid
  <1>4. CASE c.method = "setFF"
    <2>1. PidValues(c) = <<<<"sPublisher", c.args[1]>>,
                           <<"vPublisher", c.args[2]>>,
                           <<"aPublisher", c.args[3]>>>>
      BY <1>4 DEF PidValues
    <2> QED
      BY <1>1, <1>2, <1>4, <2>1 DEF JavaPid
  <1>5. CASE c.method = "enableContinuousInput"
    <2> DEFINE on == TRUE
    <2>1. PidValues(c) = <<<<"continuousMaximumPublisher", c.args[2]>>,
                           <<"continuousMinimumPublisher", c.args[1]>>,
                           <<"continuousPublisher", on>>>>
      BY <1>5 DEF PidValues, EnableContinuousInput
    <2> HIDE DEF on
    <2>2. Publications(l, c) =
              <<Pub(PidTopic(c.ch, c.type, "continousMaximum"), c.args[2]),
                Pub(PidTopic(c.ch, c.type, "continuousMinimum"), c.args[1]),
                Pub(PidTopic(c.ch, c.type, "continuous"), on)>>
      BY <1>1, <1>2, <2>1 DEF JavaPid
    <2> QED
      BY <1>5, <2>2 DEF on
  <1>6. CASE c.method = "disableContinuousInput"
    <2> DEFINE off == FALSE
    <2>1. PidValues(c) = <<<<"continuousPublisher", off>>>>
      BY <1>6 DEF PidValues
    <2> HIDE DEF off
    <2>2. Publications(l, c) =
              <<Pub(PidTopic(c.ch, c.type, "continuous"), off)>>
      BY <1>1, <1>2, <2>1 DEF JavaPid
    <2> QED
      BY <1>6, <2>2 DEF off
  <1> QED
    BY <1>3, <1>4, <1>5, <1>6 DEF PidMethods

\* The kinds of calls.
LEMMA CallKinds ==
    ASSUME NEW c, IsCall(c)
    PROVE  /\ \/ /\ c.device = "motor" /\ c.type = "none"
                 /\ c.method \in DOMAIN ModeOf \cup DOMAIN MotorField
              \/ /\ c.device = "servo" /\ c.type = "none"
                 /\ c.method \in DOMAIN ServoField
              \/ /\ c.device = "pid" /\ c.type \in PidTypes
                 /\ c.method \in PidMethods
           /\ c.device \in {"motor", "pid"} => c.ch \in MotorNumbers
           /\ c.device = "servo" => c.ch \in ServoNumbers
           /\ c.method # "none"
  BY DEF IsCall, ModeOf, MotorField, ServoField, PidMethods

\* The types of the arguments that the properties speak about.
LEMMA CallArgs ==
    ASSUME NEW c, IsCall(c)
    PROVE  /\ c.device = "motor" /\ c.method \in DOMAIN ModeOf
                  => /\ c.args[1] \in Int
                     /\ c.method = "follow" => c.args[1] % 1000 = 0
           /\ c.device = "motor" /\ c.method \in DOMAIN MotorField
                  => c.args[1] \in IF c.method = "setDistancePerCount" THEN Int
                                   ELSE BOOLEAN
           /\ c.device = "pid" /\ c.method \in {"setPID", "setFF"}
                  => c.args[1] \in Int /\ c.args[2] \in Int /\ c.args[3] \in Int
           /\ c.device = "pid" /\ c.method = "enableContinuousInput"
                  => /\ c.args[1] \in Int /\ c.args[2] \in Int
                     /\ c.args[1] % 2 = 0 /\ c.args[2] % 2 = 0
                     /\ c.args[1] < c.args[2]
           /\ c.device = "servo" /\ c.method \in DOMAIN ServoField
                  => c.args[1] \in IF c.method = "setEnabled" THEN BOOLEAN
                                   ELSE Int
  BY DEF IsCall, ModeOf, MotorField, ServoField

(***************************************************************************)
(* What a topic gets: the value that a queue of publications gives it, or  *)
(* the one it has.                                                         *)
(***************************************************************************)

Silent(q, t) == \A i \in DOMAIN q : q[i].topic # t

Says(q, t, x) == /\ \E i \in DOMAIN q : q[i].topic = t
                 /\ \A i \in DOMAIN q : q[i].topic = t => q[i].value = x

Gets(n, q, t, x) == \/ Says(q, t, x)
                    \/ Silent(q, t) /\ t \in DOMAIN n /\ n[t] = x

Never(n, q, t) == Silent(q, t) /\ t \notin DOMAIN n

\* The topics after a publication.
Put(n, p) == [t \in DOMAIN n \cup {p.topic} |->
                 IF t = p.topic THEN p.value ELSE n[t]]

LEMMA PublishGets ==
    ASSUME NEW S, NEW q \in Seq(S), q # << >>, NEW n, NEW t, NEW x,
           Gets(n, q, t, x)
    PROVE  Gets(Put(n, Head(q)), Tail(q), t, x)
  <1>1. /\ DOMAIN q = 1 .. Len(q) /\ Len(q) \in Nat \ {0}
        /\ DOMAIN Tail(q) = 1 .. Len(q) - 1
        /\ \A i \in 1 .. Len(q) - 1 : Tail(q)[i] = q[i + 1]
        /\ Head(q) = q[1]
    OBVIOUS
  <1>2. CASE Says(q, t, x)
    <2>1. PICK i \in 1 .. Len(q) : q[i].topic = t
      BY <1>1, <1>2 DEF Says
    <2>2. \A j \in 1 .. Len(q) - 1 : Tail(q)[j].topic = t => Tail(q)[j].value = x
      BY <1>1, <1>2 DEF Says
    <2>3. CASE Silent(Tail(q), t)
      <3>1. i = 1
        <4>1. ASSUME i # 1 PROVE FALSE
          <5>1. i - 1 \in 1 .. Len(q) - 1 /\ (i - 1) + 1 = i
            BY <1>1, <2>1, <4>1
          <5> QED
            BY <1>1, <2>1, <2>3, <5>1 DEF Silent
        <4> QED
          BY <4>1
      <3>2. Head(q).topic = t /\ Head(q).value = x
        BY <1>1, <1>2, <2>1, <3>1 DEF Says
      <3> QED
        BY <2>3, <3>2 DEF Gets, Put
    <2>4. CASE ~Silent(Tail(q), t)
      BY <1>1, <2>2, <2>4 DEF Silent, Says, Gets
    <2> QED
      BY <2>3, <2>4
  <1>3. CASE Silent(q, t) /\ t \in DOMAIN n /\ n[t] = x
    <2>1. Silent(Tail(q), t) /\ Head(q).topic # t
      BY <1>1, <1>3 DEF Silent
    <2> QED
      BY <1>3, <2>1 DEF Gets, Put
  <1> QED
    BY <1>2, <1>3 DEF Gets

LEMMA PublishNever ==
    ASSUME NEW S, NEW q \in Seq(S), q # << >>, NEW n, NEW t, Never(n, q, t)
    PROVE  Never(Put(n, Head(q)), Tail(q), t)
  <1>1. /\ DOMAIN q = 1 .. Len(q) /\ Len(q) \in Nat \ {0}
        /\ DOMAIN Tail(q) = 1 .. Len(q) - 1
        /\ \A i \in 1 .. Len(q) - 1 : Tail(q)[i] = q[i + 1]
        /\ Head(q) = q[1]
    OBVIOUS
  <1>2. Silent(Tail(q), t) /\ Head(q).topic # t
    BY <1>1 DEF Silent, Never
  <1> QED
    BY <1>2 DEF Never, Put

(***************************************************************************)
(* Which calls publish to a topic, and what.                               *)
(***************************************************************************)

\* The calls that LastOf looks for.
Asks(c, device, ch, type, methods) ==
    c.device = device /\ c.ch = ch /\ c.type = type /\ c.method \in methods

LEMMA MotorSays ==
    ASSUME NEW l \in Libraries, NEW c, IsCall(c), NEW m
    PROVE  LET P == Publications(l, c)
               asks(methods) == Asks(c, "motor", m, "none", methods)
           IN  /\ IF asks(DOMAIN ModeOf)
                  THEN /\ Says(P, MotorTopic(m, "mode"), ModeOf[c.method])
                       /\ Says(P, MotorTopic(m, "setpoint"), c.args[1])
                  ELSE /\ Silent(P, MotorTopic(m, "mode"))
                       /\ Silent(P, MotorTopic(m, "setpoint"))
               /\ IF asks({"setReversed"})
                  THEN Says(P, MotorTopic(m, "reversed"), c.args[1])
                  ELSE Silent(P, MotorTopic(m, "reversed"))
               /\ IF asks({"setDistancePerCount"})
                  THEN Says(P, MotorTopic(m, "distancePerCount"), c.args[1])
                  ELSE Silent(P, MotorTopic(m, "distancePerCount"))
  <1> DEFINE P == Publications(l, c)
             asks(methods) == Asks(c, "motor", m, "none", methods)
             mine == c.device = "motor" /\ c.ch = m
  <1>1. \/ c.device = "motor" /\ c.type = "none" /\ c.method \in DOMAIN ModeOf
        \/ c.device = "motor" /\ c.type = "none" /\ c.method \in DOMAIN MotorField
        \/ c.device = "servo" /\ c.method \in DOMAIN ServoField
        \/ c.device = "pid" /\ c.method \in PidMethods
    BY CallKinds
  <1>2. CASE c.device = "motor" /\ c.type = "none" /\ c.method \in DOMAIN ModeOf
    <2>1. P = <<Pub(MotorTopic(c.ch, "mode"), ModeOf[c.method]),
                Pub(MotorTopic(c.ch, "setpoint"), c.args[1])>>
      BY <1>2, PowerPublications
    <2>2. asks(DOMAIN ModeOf) <=> c.ch = m
      BY <1>2 DEF Asks
    <2>3. ~asks({"setReversed"}) /\ ~asks({"setDistancePerCount"})
      BY <1>2 DEF Asks, ModeOf
    <2> HIDE DEF P, asks
    <2>4. /\ Silent(P, MotorTopic(m, "reversed"))
          /\ Silent(P, MotorTopic(m, "distancePerCount"))
      BY <2>1 DEF Silent, Pub, MotorTopic
    <2>5. c.ch = m => /\ Says(P, MotorTopic(m, "mode"), ModeOf[c.method])
                      /\ Says(P, MotorTopic(m, "setpoint"), c.args[1])
      <3>1. PICK x, y : x = ModeOf[c.method] /\ y = c.args[1]
        OBVIOUS
      <3>2. c.ch = m => Says(P, MotorTopic(m, "mode"), x)
        BY <2>1, <3>1 DEF Says, Pub, MotorTopic
      <3>3. c.ch = m => Says(P, MotorTopic(m, "setpoint"), y)
        BY <2>1, <3>1 DEF Says, Pub, MotorTopic
      <3> QED
        BY <3>1, <3>2, <3>3
    <2>6. c.ch # m => /\ Silent(P, MotorTopic(m, "mode"))
                      /\ Silent(P, MotorTopic(m, "setpoint"))
      BY <2>1 DEF Silent, Pub, MotorTopic
    <2> QED
      BY <2>2, <2>3, <2>4, <2>5, <2>6 DEF P, asks
  <1>3. CASE c.device = "motor" /\ c.type = "none" /\ c.method \in DOMAIN MotorField
    <2>1. PICK x \in {"enabled", "floatOn0", "reversed", "distancePerCount",
                      "resetEncoder"} :
              /\ P = <<Pub(MotorTopic(c.ch, x), c.args[1])>>
              /\ c.method = "setReversed" <=> x = "reversed"
              /\ c.method = "setDistancePerCount" <=> x = "distancePerCount"
      BY <1>3, MotorPublications
    <2>2. ~asks(DOMAIN ModeOf)
      BY <1>3 DEF Asks, ModeOf, MotorField
    <2>3. /\ asks({"setReversed"}) <=> c.ch = m /\ x = "reversed"
          /\ asks({"setDistancePerCount"}) <=> c.ch = m /\ x = "distancePerCount"
      BY <1>3, <2>1 DEF Asks
    <2> HIDE DEF P, asks
    <2>4. /\ Silent(P, MotorTopic(m, "mode")) /\ Silent(P, MotorTopic(m, "setpoint"))
          /\ ~(c.ch = m /\ x = "reversed")
                 => Silent(P, MotorTopic(m, "reversed"))
          /\ ~(c.ch = m /\ x = "distancePerCount")
                 => Silent(P, MotorTopic(m, "distancePerCount"))
      BY <2>1 DEF Silent, Pub, MotorTopic
    <2>5. c.ch = m => Says(P, MotorTopic(m, x), c.args[1])
      BY <2>1 DEF Says, Pub, MotorTopic
    <2> QED
      BY <2>2, <2>3, <2>4, <2>5 DEF P, asks
  <1>4. CASE c.device = "servo" /\ c.method \in DOMAIN ServoField
    <2>1. \E x : P = <<Pub(ServoTopic(c.ch, x), ServoValue(c))>>
      BY <1>4, ServoPublications
    <2>2. \A M : ~asks(M)
      BY <1>4 DEF Asks
    <2> HIDE DEF P, asks
    <2>3. \A x : Silent(P, MotorTopic(m, x))
      BY <2>1 DEF Silent, Pub, MotorTopic, ServoTopic
    <2> QED
      BY <2>2, <2>3 DEF P, asks
  <1>5. CASE c.device = "pid" /\ c.method \in PidMethods
    <2>1. \A i \in DOMAIN P : \E x : P[i].topic = PidTopic(c.ch, c.type, x)
      BY <1>5, PidPublications DEF PidMethods, Pub
    <2>2. \A M : ~asks(M)
      BY <1>5 DEF Asks
    <2> HIDE DEF P, asks
    <2>3. \A x : Silent(P, MotorTopic(m, x))
      BY <2>1 DEF Silent, MotorTopic, PidTopic
    <2> QED
      BY <2>2, <2>3 DEF P, asks
  <1> QED
    BY <1>1, <1>2, <1>3, <1>4, <1>5

LEMMA ServoSays ==
    ASSUME NEW l \in Libraries, NEW c, IsCall(c), NEW v
    PROVE  LET P == Publications(l, c)
           IN  IF Asks(c, "servo", v, "none", PulseMethods)
               THEN Says(P, ServoTopic(v, "pulseWidth"), ServoValue(c))
               ELSE Silent(P, ServoTopic(v, "pulseWidth"))
  <1> DEFINE P == Publications(l, c)
             asks == Asks(c, "servo", v, "none", PulseMethods)
             x == ServoValue(c)
  <1>1. CASE c.device = "servo" /\ c.type = "none" /\ c.method \in DOMAIN ServoField
    <2>1. PICK f \in {"pulseWidth", "framePeriod", "enabled"} :
              /\ P = <<Pub(ServoTopic(c.ch, f), x)>>
              /\ c.method \in PulseMethods <=> f = "pulseWidth"
      BY <1>1, ServoPublications
    <2>2. asks <=> c.ch = v /\ f = "pulseWidth"
      BY <1>1, <2>1 DEF Asks
    <2> HIDE DEF P, asks, x
    <2>3. ~(c.ch = v /\ f = "pulseWidth") => Silent(P, ServoTopic(v, "pulseWidth"))
      BY <2>1 DEF Silent, Pub, ServoTopic
    <2>4. c.ch = v => Says(P, ServoTopic(v, f), x)
      BY <2>1 DEF Says, Pub, ServoTopic
    <2> QED
      BY <2>2, <2>3, <2>4 DEF P, asks, x
  <1>2. CASE c.device # "servo"
    <2>1. ~asks
      BY <1>2 DEF Asks
    <2>2. \A i \in DOMAIN P :
              \/ \E y : P[i].topic = PidTopic(c.ch, c.type, y)
              \/ \E y : P[i].topic = MotorTopic(c.ch, y)
      <3>1. CASE c.device = "pid" /\ c.method \in PidMethods
        BY <3>1, PidPublications DEF PidMethods, Pub
      <3>2. CASE c.device = "motor" /\ c.method \in DOMAIN ModeOf
        BY <3>2, PowerPublications DEF Pub
      <3>3. CASE c.device = "motor" /\ c.method \in DOMAIN MotorField
        BY <3>3, MotorPublications DEF Pub
      <3> QED
        BY <1>2, <3>1, <3>2, <3>3, CallKinds
    <2> HIDE DEF P, asks
    <2>3. Silent(P, ServoTopic(v, "pulseWidth"))
      BY <2>2 DEF Silent, PidTopic, MotorTopic, ServoTopic
    <2> QED
      BY <2>1, <2>3 DEF P, asks
  <1> QED
    BY <1>1, <1>2, CallKinds

LEMMA PidSays ==
    ASSUME NEW l \in Libraries, NEW c, IsCall(c), NEW m, NEW type
    PROVE  LET P == Publications(l, c)
               t(x) == PidTopic(m, type, x)
               asks(methods) == Asks(c, "pid", m, type, methods)
           IN  /\ IF asks({"setPID"}) THEN /\ Says(P, t("kp"), c.args[1])
                                           /\ Says(P, t("ki"), c.args[2])
                                           /\ Says(P, t("kd"), c.args[3])
                  ELSE /\ Silent(P, t("kp")) /\ Silent(P, t("ki"))
                       /\ Silent(P, t("kd"))
               /\ IF asks({"setFF"}) THEN /\ Says(P, t("ks"), c.args[1])
                                          /\ Says(P, t("kv"), c.args[2])
                  ELSE Silent(P, t("ks")) /\ Silent(P, t("kv"))
               /\ IF asks({"enableContinuousInput"})
                  THEN /\ Says(P, t("continuousMinimum"), c.args[1])
                       /\ Says(P, t("continousMaximum"), c.args[2])
                       /\ Says(P, t("continuous"), TRUE)
                  ELSE /\ Silent(P, t("continuousMinimum"))
                       /\ Silent(P, t("continousMaximum"))
               /\ IF asks({"disableContinuousInput"})
                  THEN Says(P, t("continuous"), FALSE)
                  ELSE asks({"enableContinuousInput"}) \/ Silent(P, t("continuous"))
  <1> DEFINE P == Publications(l, c)
             t(x) == PidTopic(m, type, x)
             asks(methods) == Asks(c, "pid", m, type, methods)
             on == TRUE
             off == FALSE
             own(x) == PidTopic(c.ch, c.type, x)
             mine == c.ch = m /\ c.type = type
             pid == asks({"setPID"})
             ff == asks({"setFF"})
             enable == asks({"enableContinuousInput"})
             disable == asks({"disableContinuousInput"})
  <1> SUFFICES /\ IF pid THEN /\ Says(P, t("kp"), c.args[1])
                              /\ Says(P, t("ki"), c.args[2])
                              /\ Says(P, t("kd"), c.args[3])
                  ELSE /\ Silent(P, t("kp")) /\ Silent(P, t("ki"))
                       /\ Silent(P, t("kd"))
               /\ IF ff THEN Says(P, t("ks"), c.args[1]) /\ Says(P, t("kv"), c.args[2])
                  ELSE Silent(P, t("ks")) /\ Silent(P, t("kv"))
               /\ IF enable THEN /\ Says(P, t("continuousMinimum"), c.args[1])
                                 /\ Says(P, t("continousMaximum"), c.args[2])
                                 /\ Says(P, t("continuous"), on)
                  ELSE /\ Silent(P, t("continuousMinimum"))
                       /\ Silent(P, t("continousMaximum"))
               /\ IF disable THEN Says(P, t("continuous"), off)
                  ELSE enable \/ Silent(P, t("continuous"))
    OBVIOUS
  <1>1. \A x : mine => own(x) = t(x)
    OBVIOUS
  <1>2. \A x, y : ~mine => own(x) # t(y)
    BY DEF PidTopic
  <1>3. \A x, y : x # y => own(x) # t(y)
    BY DEF PidTopic
  <1>4. CASE c.device = "pid" /\ c.method \in PidMethods
    <2>1. /\ pid <=> mine /\ c.method = "setPID"
          /\ ff <=> mine /\ c.method = "setFF"
          /\ enable <=> mine /\ c.method = "enableContinuousInput"
          /\ disable <=> mine /\ c.method = "disableContinuousInput"
      BY <1>4 DEF Asks
    <2>2. /\ c.method = "setPID" => P =
                 <<Pub(own("kp"), c.args[1]), Pub(own("ki"), c.args[2]),
                   Pub(own("kd"), c.args[3])>>
          /\ c.method = "setFF" => P =
                 <<Pub(own("ks"), c.args[1]), Pub(own("kv"), c.args[2]),
                   Pub(own("ka"), c.args[3])>>
          /\ c.method = "enableContinuousInput" => P =
                 <<Pub(own("continousMaximum"), c.args[2]),
                   Pub(own("continuousMinimum"), c.args[1]),
                   Pub(own("continuous"), on)>>
          /\ c.method = "disableContinuousInput" => P =
                 <<Pub(own("continuous"), off)>>
      BY <1>4, PidPublications
    <2> HIDE DEF P, t, asks, on, off, own, mine, pid, ff, enable, disable
    <2>3. CASE c.method = "setPID"
      <3>1. /\ mine => /\ Says(P, t("kp"), c.args[1]) /\ Says(P, t("ki"), c.args[2])
                       /\ Says(P, t("kd"), c.args[3])
            /\ ~mine => /\ Silent(P, t("kp")) /\ Silent(P, t("ki"))
                        /\ Silent(P, t("kd"))
            /\ \A x \in {"ks", "kv", "continuousMinimum", "continousMaximum",
                          "continuous"} : Silent(P, t(x))
        BY <1>1, <1>2, <1>3, <2>2, <2>3 DEF Says, Silent, Pub
      <3> QED
        BY <2>1, <2>3, <3>1
    <2>4. CASE c.method = "setFF"
      <3>1. /\ mine => Says(P, t("ks"), c.args[1]) /\ Says(P, t("kv"), c.args[2])
            /\ ~mine => Silent(P, t("ks")) /\ Silent(P, t("kv"))
            /\ \A x \in {"kp", "ki", "kd", "continuousMinimum",
                          "continousMaximum", "continuous"} : Silent(P, t(x))
        BY <1>1, <1>2, <1>3, <2>2, <2>4 DEF Says, Silent, Pub
      <3> QED
        BY <2>1, <2>4, <3>1
    <2>5. CASE c.method = "enableContinuousInput"
      <3>1. /\ mine => /\ Says(P, t("continuousMinimum"), c.args[1])
                       /\ Says(P, t("continousMaximum"), c.args[2])
                       /\ Says(P, t("continuous"), on)
            /\ ~mine => /\ Silent(P, t("continuousMinimum"))
                        /\ Silent(P, t("continousMaximum"))
                        /\ Silent(P, t("continuous"))
            /\ \A x \in {"kp", "ki", "kd", "ks", "kv"} : Silent(P, t(x))
        BY <1>1, <1>2, <1>3, <2>2, <2>5 DEF Says, Silent, Pub
      <3> QED
        BY <2>1, <2>5, <3>1
    <2>6. CASE c.method = "disableContinuousInput"
      <3>1. /\ IF mine THEN Says(P, t("continuous"), off)
               ELSE Silent(P, t("continuous"))
            /\ \A x \in {"kp", "ki", "kd", "ks", "kv", "continuousMinimum",
                          "continousMaximum"} : Silent(P, t(x))
        BY <1>1, <1>2, <1>3, <2>2, <2>6 DEF Says, Silent, Pub
      <3> QED
        BY <2>1, <2>6, <3>1
    <2> QED
      BY <1>4, <2>3, <2>4, <2>5, <2>6 DEF PidMethods
  <1>5. CASE c.device # "pid"
    <2>1. ~pid /\ ~ff /\ ~enable /\ ~disable
      BY <1>5 DEF Asks
    <2>2. \A i \in DOMAIN P :
              \/ \E y : P[i].topic = MotorTopic(c.ch, y)
              \/ \E y : P[i].topic = ServoTopic(c.ch, y)
      <3>1. CASE c.device = "servo" /\ c.method \in DOMAIN ServoField
        BY <3>1, ServoPublications DEF Pub
      <3>2. CASE c.device = "motor" /\ c.method \in DOMAIN ModeOf
        BY <3>2, PowerPublications DEF Pub
      <3>3. CASE c.device = "motor" /\ c.method \in DOMAIN MotorField
        BY <3>3, MotorPublications DEF Pub
      <3> QED
        BY <1>5, <3>1, <3>2, <3>3, CallKinds
    <2> HIDE DEF P, pid, ff, enable, disable
    <2>3. \A x : Silent(P, t(x))
      BY <2>2 DEF Silent, PidTopic, MotorTopic, ServoTopic
    <2> HIDE DEF t, on, off
    <2> QED
      BY <2>1, <2>3
  <1> QED
    BY <1>4, <1>5, CallKinds

(***************************************************************************)
(* The last call of a kind.                                                *)
(***************************************************************************)

\* A set of numbers up to n has a largest one, and Max chooses it.
LEMMA MaxIn ==
    ASSUME NEW n \in Nat, NEW I \in SUBSET (1 .. n), I # {}
    PROVE  Max(I) \in I /\ \A j \in I : j <= Max(I)
  <1>1. \E R : /\ IsWellFoundedOn(R, Nat)
               /\ \A x, y \in Nat : y < x => <<y, x>> \in R
    <2>1. IsWellFoundedOn(OpToRel(<, Nat), Nat)
      BY NatLessThanWellFounded, Zenon
    <2>2. \A x, y \in Nat : y < x => <<y, x>> \in OpToRel(<, Nat)
      BY Zenon DEF OpToRel
    <2> QED
      BY <2>1, <2>2, Zenon
  <1>2. PICK R : /\ IsWellFoundedOn(R, Nat)
                 /\ \A x, y \in Nat : y < x => <<y, x>> \in R
    BY <1>1
  <1> DEFINE T == {k \in Nat : \E j \in I : k = n - j}
  <1>3. PICK k \in T : \A y \in T : ~(<<y, k>> \in R)
    <2>1. T \in SUBSET Nat /\ T # {}
      <3>1. PICK j \in I : TRUE
        OBVIOUS
      <3>2. n - j \in T
        BY <3>1
      <3> QED
        BY <3>2
    <2> QED
      BY <1>2, <2>1, WFMin
  <1>4. PICK i \in I : k = n - i
    BY <1>3
  <1>5. \A j \in I : j <= i
    <2> SUFFICES ASSUME NEW j \in I, j > i PROVE FALSE
      OBVIOUS
    <2>1. n - j \in T /\ n - j \in Nat /\ k \in Nat /\ n - j < k
      BY <1>4
    <2> QED
      BY <1>2, <1>3, <2>1
  <1>6. \A j \in I : i >= j
    BY <1>5
  <1> QED
    BY <1>6 DEF Max

\* What LastOf returns when there is no such call.
NoCall == [method |-> "none", args |-> <<0, 0, 0>>]

\* Where the calls of a kind are in the history.
At(device, ch, type, methods) ==
    {i \in DOMAIN called : Asks(called[i], device, ch, type, methods)}

LEMMA LastOfAt ==
    ASSUME NEW S, called \in Seq(S), NEW d, NEW ch, NEW ty, NEW M
    PROVE  \/ At(d, ch, ty, M) = {} /\ LastOf(d, ch, ty, M) = NoCall
           \/ \E i \in At(d, ch, ty, M) :
                  /\ \A j \in At(d, ch, ty, M) : j <= i
                  /\ LastOf(d, ch, ty, M) = called[i]
  <1> DEFINE I == At(d, ch, ty, M)
  <1>1. LastOf(d, ch, ty, M) = IF I = {} THEN NoCall ELSE called[Max(I)]
    BY DEF LastOf, At, Asks, NoCall
  <1>2. I \in SUBSET (1 .. Len(called)) /\ Len(called) \in Nat
    BY DEF At
  <1> HIDE DEF I
  <1>3. I # {} => Max(I) \in I /\ \A j \in I : j <= Max(I)
    BY <1>2, MaxIn
  <1> QED
    BY <1>1, <1>3 DEF I

\* The last call of a kind is one of that kind.
LEMMA LastOfKind ==
    ASSUME NEW S, called \in Seq(S), NEW d, NEW ch, NEW ty, NEW M
    PROVE  \/ LastOf(d, ch, ty, M) = NoCall
           \/ /\ LastOf(d, ch, ty, M) \in S
              /\ Asks(LastOf(d, ch, ty, M), d, ch, ty, M)
  BY LastOfAt DEF At

\* When no call of a kind was made, none of that kind is the last of others.
LEMMA LastOfOthers ==
    ASSUME NEW S, called \in Seq(S), NEW d, NEW ch, NEW ty, NEW M, NEW N,
           \A c \in S : c.method # "none",
           LastOf(d, ch, ty, M).method = "none"
    PROVE  LastOf(d, ch, ty, N).method \notin M \/ LastOf(d, ch, ty, N) = NoCall
  <1>1. At(d, ch, ty, M) = {}
    BY LastOfAt DEF At
  <1> QED
    BY <1>1, LastOfAt DEF At, Asks

\* A call becomes the last of its kinds.
LEMMA LastOfAppend ==
    ASSUME NEW S, called \in Seq(S), NEW c \in S, called' = Append(called, c),
           NEW d, NEW ch, NEW ty, NEW M
    PROVE  LastOf(d, ch, ty, M)' =
               IF Asks(c, d, ch, ty, M) THEN c ELSE LastOf(d, ch, ty, M)
  <1> DEFINE n == Len(called)
             I == At(d, ch, ty, M)
             J == At(d, ch, ty, M)'
             asks == Asks(c, d, ch, ty, M)
             last == LastOf(d, ch, ty, M)'
  <1>1. /\ n \in Nat /\ DOMAIN called = 1 .. n /\ DOMAIN called' = 1 .. n + 1
        /\ called'[n + 1] = c /\ \A i \in 1 .. n : called'[i] = called[i]
        /\ called' \in Seq(S)
    OBVIOUS
  <1>2. J = {i \in 1 .. n + 1 : Asks(called'[i], d, ch, ty, M)}
    BY <1>1 DEF At
  <1>3. I = {i \in 1 .. n : Asks(called[i], d, ch, ty, M)}
    BY <1>1 DEF At
  <1>4. J = I \cup (IF asks THEN {n + 1} ELSE {})
    BY <1>1, <1>2, <1>3
  <1>5. \/ J = {} /\ last = NoCall
        \/ \E i \in J : (\A j \in J : j <= i) /\ last = called'[i]
    <2>1. last = IF J = {} THEN NoCall ELSE called'[Max(J)]
      BY DEF LastOf, At, Asks, NoCall
    <2>2. J \in SUBSET (1 .. n + 1) /\ n + 1 \in Nat
      BY <1>1, <1>2
    <2> HIDE DEF J, last, n
    <2>3. J # {} => Max(J) \in J /\ \A j \in J : j <= Max(J)
      BY <2>2, MaxIn
    <2> QED
      BY <2>1, <2>3
  <1>6. \/ I = {} /\ LastOf(d, ch, ty, M) = NoCall
        \/ \E i \in I : (\A j \in I : j <= i) /\ LastOf(d, ch, ty, M) = called[i]
    BY LastOfAt
  <1>7. I \subseteq 1 .. n
    BY <1>3
  <1> HIDE DEF I, J, asks, last, n
  <1>8. CASE asks
    <2>1. n + 1 \in J /\ \A i \in J : i <= n + 1
      BY <1>1, <1>4, <1>7, <1>8
    <2>2. PICK i \in J : (\A j \in J : j <= i) /\ last = called'[i]
      BY <1>5, <2>1
    <2>3. i \in 1 .. n + 1
      BY <1>4, <1>7, <1>8, <1>1
    <2>4. i = n + 1
      BY <1>1, <2>1, <2>2, <2>3
    <2> QED
      BY <1>1, <1>8, <2>2, <2>4 DEF asks, last
  <1>9. CASE ~asks
    <2>1. J = I
      BY <1>4, <1>9
    <2>2. CASE I = {}
      BY <1>5, <1>6, <1>9, <2>1, <2>2 DEF asks, last
    <2>3. CASE I # {}
      <3>1. PICK i \in I : (\A j \in I : j <= i) /\ last = called'[i]
        BY <1>5, <2>1, <2>3
      <3>2. PICK k \in I : (\A j \in I : j <= k) /\ LastOf(d, ch, ty, M) = called[k]
        BY <1>6, <2>3
      <3>3. i = k
        BY <1>1, <1>7, <3>1, <3>2
      <3> QED
        BY <1>1, <1>7, <1>9, <3>1, <3>2, <3>3 DEF asks, last
    <2> QED
      BY <2>2, <2>3
  <1> QED
    BY <1>8, <1>9

(***************************************************************************)
(* The types of topics.                                                    *)
(***************************************************************************)

NumberTopics ==
    {MotorTopic(m, x) : m \in MotorNumbers,
                        x \in {"mode", "setpoint", "distancePerCount"}}
        \cup {PidTopic(m, type, x) :
                 m \in MotorNumbers, type \in PidTypes,
                 x \in {"kp", "ki", "kd", "ks", "kv", "ka",
                       "continuousMinimum", "continousMaximum"}}
        \cup {ServoTopic(v, x) : v \in ServoNumbers,
                                x \in {"pulseWidth", "framePeriod"}}
FlagTopics ==
    {MotorTopic(m, x) : m \in MotorNumbers,
                        x \in {"enabled", "floatOn0", "reversed", "resetEncoder"}}
        \cup {PidTopic(m, type, "continuous") : m \in MotorNumbers, type \in PidTypes}
        \cup {ServoTopic(v, "enabled") : v \in ServoNumbers}

Published == [topic : NumberTopics, value : Int]
                 \cup [topic : FlagTopics, value : BOOLEAN]

TopicsTyped == /\ todo \in Seq(Published)
               /\ \A t \in DOMAIN nt : Pub(t, nt[t]) \in Published

\* No topic is both a number and a flag.
LEMMA NumberOrFlag ==
    /\ \A m \in MotorNumbers : /\ MotorTopic(m, "reversed") \notin NumberTopics
                               /\ \A x \in {"mode", "setpoint", "distancePerCount"} :
                                      MotorTopic(m, x) \notin FlagTopics
    /\ \A m \in MotorNumbers, type \in PidTypes :
           /\ PidTopic(m, type, "continuous") \notin NumberTopics
           /\ \A x \in {"kp", "ki", "kd", "ks", "kv", "continuousMinimum",
                         "continousMaximum"} :
                  PidTopic(m, type, x) \notin FlagTopics
    /\ \A v \in ServoNumbers : ServoTopic(v, "pulseWidth") \notin FlagTopics
  BY DEF NumberTopics, FlagTopics, MotorTopic, PidTopic, ServoTopic

LEMMA PublicationTypes ==
    ASSUME NEW t, NEW x, Pub(t, x) \in Published
    PROVE  /\ t \in NumberTopics \cup FlagTopics
           /\ t \notin FlagTopics => x \in Int
           /\ t \notin NumberTopics => x \in BOOLEAN
  BY DEF Published, Pub

LEMMA ServoValueType ==
    ASSUME NEW c, IsCall(c), c.device = "servo", c.method # "setEnabled"
    PROVE  /\ ServoValue(c) \in Int
           /\ c.method \in {"set", "setAngle"} => ServoValue(c) \in MinPwm .. MaxPwm
  <1>1. c.args[1] \in Int
    BY CallArgs, CallKinds
  <1>2. \A d \in {180, 1000}, n \in Int :
            Pulse(n, d) \in MinPwm .. MaxPwm /\ Pulse(n, d) \in Int
    <2> SUFFICES ASSUME NEW d \in {180, 1000}, NEW n \in Int
                 PROVE  Pulse(n, d) \in MinPwm .. MaxPwm /\ Pulse(n, d) \in Int
      OBVIOUS
    <2>1. Clamp(n, 0, d) \in 0 .. d
      BY DEF Clamp
    <2> DEFINE k == Clamp(n, 0, d)
    <2>2. Pulse(n, d) = 600 + (k * 1800) \div d
      BY DEF Pulse, MinPwm, MaxPwm
    <2> HIDE DEF k
    <2>3. (k * 1800) \div d \in 0 .. 1800
      BY <2>1 DEF k
    <2>4. PICK p \in Int : p = (k * 1800) \div d /\ 0 <= p /\ p <= 1800
      BY <2>3
    <2>5. Pulse(n, d) = 600 + p
      BY <2>2, <2>4
    <2> QED
      BY <2>4, <2>5 DEF MinPwm, MaxPwm
  <1>3. Clamp(c.args[1], 0, 180) \in Int
    BY <1>1 DEF Clamp
  <1>4. CASE c.method = "set"
    <2>1. ServoValue(c) = Pulse(c.args[1], 1000)
      BY <1>4 DEF ServoValue
    <2> QED
      BY <1>1, <1>2, <2>1
  <1>5. CASE c.method = "setAngle"
    <2>1. ServoValue(c) = Pulse(Clamp(c.args[1], 0, 180), 180)
      BY <1>5 DEF ServoValue, Angle
    <2> QED
      BY <1>2, <1>3, <2>1
  <1>6. CASE c.method \notin {"set", "setAngle"}
    <2>1. ServoValue(c) = c.args[1]
      BY <1>6 DEF ServoValue
    <2> QED
      BY <1>1, <1>6, <2>1
  <1> QED
    BY <1>4, <1>5, <1>6

LEMMA ShortSequences ==
    ASSUME NEW S
    PROVE  /\ \A a \in S : <<a>> \in Seq(S)
           /\ \A a, b \in S : <<a, b>> \in Seq(S)
           /\ \A a, b, c \in S : <<a, b, c>> \in Seq(S)
  OBVIOUS

LEMMA PublicationsTyped ==
    ASSUME NEW l \in Libraries, NEW c, IsCall(c)
    PROVE  Publications(l, c) \in Seq(Published)
  <1>1. \A m \in MotorNumbers :
            /\ \A n \in Int, x \in {"mode", "setpoint", "distancePerCount"} :
                   Pub(MotorTopic(m, x), n) \in Published
            /\ \A b \in BOOLEAN,
                  x \in {"enabled", "floatOn0", "reversed", "resetEncoder"} :
                   Pub(MotorTopic(m, x), b) \in Published
    BY DEF Pub, Published, NumberTopics, FlagTopics
  <1>2. \A m \in MotorNumbers, type \in PidTypes :
            /\ \A n \in Int, x \in {"kp", "ki", "kd", "ks", "kv", "ka",
                                  "continuousMinimum", "continousMaximum"} :
                   Pub(PidTopic(m, type, x), n) \in Published
            /\ \A b \in BOOLEAN :
                   Pub(PidTopic(m, type, "continuous"), b) \in Published
    BY DEF Pub, Published, NumberTopics, FlagTopics
  <1>3. \A v \in ServoNumbers :
            /\ \A n \in Int, x \in {"pulseWidth", "framePeriod"} :
                   Pub(ServoTopic(v, x), n) \in Published
            /\ \A b \in BOOLEAN : Pub(ServoTopic(v, "enabled"), b) \in Published
    BY DEF Pub, Published, NumberTopics, FlagTopics
  <1>4. CASE c.device = "motor" /\ c.method \in DOMAIN ModeOf
    <2>1. ModeOf[c.method] \in Int /\ c.args[1] \in Int /\ c.ch \in MotorNumbers
      BY <1>4, CallArgs, CallKinds DEF ModeOf
    <2>2. /\ Pub(MotorTopic(c.ch, "mode"), ModeOf[c.method]) \in Published
          /\ Pub(MotorTopic(c.ch, "setpoint"), c.args[1]) \in Published
      BY <1>1, <2>1
    <2>3. Publications(l, c) =
              <<Pub(MotorTopic(c.ch, "mode"), ModeOf[c.method]),
                Pub(MotorTopic(c.ch, "setpoint"), c.args[1])>>
      BY <1>4, PowerPublications
    <2> QED
      BY <2>2, <2>3, ShortSequences
  <1>5. CASE c.device = "motor" /\ c.method \in DOMAIN MotorField
    <2>1. PICK x \in {"enabled", "floatOn0", "reversed", "distancePerCount",
                      "resetEncoder"} :
              /\ Publications(l, c) = <<Pub(MotorTopic(c.ch, x), c.args[1])>>
              /\ c.method = "setDistancePerCount" <=> x = "distancePerCount"
      BY <1>5, MotorPublications
    <2>2. /\ c.ch \in MotorNumbers
          /\ x = "distancePerCount" => c.args[1] \in Int
          /\ x # "distancePerCount" => c.args[1] \in BOOLEAN
      BY <1>5, <2>1, CallArgs, CallKinds
    <2>3. Pub(MotorTopic(c.ch, x), c.args[1]) \in Published
      BY <1>1, <2>2
    <2> QED
      BY <2>1, <2>3
  <1>6. CASE c.device = "servo" /\ c.method \in DOMAIN ServoField
    <2>1. PICK x \in {"pulseWidth", "framePeriod", "enabled"} :
              /\ Publications(l, c) = <<Pub(ServoTopic(c.ch, x), ServoValue(c))>>
              /\ c.method = "setEnabled" <=> x = "enabled"
      BY <1>6, ServoPublications
    <2>2. /\ c.ch \in ServoNumbers
          /\ x # "enabled" => ServoValue(c) \in Int
      BY <1>6, <2>1, ServoValueType, CallKinds
    <2>3. x = "enabled" => ServoValue(c) \in BOOLEAN
      <3>1. x = "enabled" => ServoValue(c) = c.args[1] /\ c.method = "setEnabled"
        BY <2>1 DEF ServoValue
      <3> QED
        BY <1>6, <3>1, CallArgs
    <2>4. Pub(ServoTopic(c.ch, x), ServoValue(c)) \in Published
      BY <1>3, <2>2, <2>3
    <2> QED
      BY <2>1, <2>4
  <1>7. CASE c.device = "pid" /\ c.method \in PidMethods
    <2>1. /\ c.ch \in MotorNumbers /\ c.type \in PidTypes
          /\ c.method \in {"setPID", "setFF"}
                 => c.args[1] \in Int /\ c.args[2] \in Int /\ c.args[3] \in Int
          /\ c.method = "enableContinuousInput"
                 => c.args[1] \in Int /\ c.args[2] \in Int
      BY <1>7, CallArgs, CallKinds
    <2>2. \A n \in Int, x \in {"kp", "ki", "kd", "ks", "kv", "ka",
                             "continuousMinimum", "continousMaximum"} :
              Pub(PidTopic(c.ch, c.type, x), n) \in Published
      BY <1>2, <2>1
    <2>3. \A b \in BOOLEAN : Pub(PidTopic(c.ch, c.type, "continuous"), b) \in Published
      BY <1>2, <2>1
    <2>4. CASE c.method = "setPID"
      <3>1. Publications(l, c) =
                <<Pub(PidTopic(c.ch, c.type, "kp"), c.args[1]),
                  Pub(PidTopic(c.ch, c.type, "ki"), c.args[2]),
                  Pub(PidTopic(c.ch, c.type, "kd"), c.args[3])>>
        BY <1>7, <2>4, PidPublications
      <3>2. /\ Pub(PidTopic(c.ch, c.type, "kp"), c.args[1]) \in Published
            /\ Pub(PidTopic(c.ch, c.type, "ki"), c.args[2]) \in Published
            /\ Pub(PidTopic(c.ch, c.type, "kd"), c.args[3]) \in Published
        BY <2>1, <2>2, <2>4
      <3> QED
        BY <3>1, <3>2, ShortSequences
    <2>5. CASE c.method = "setFF"
      <3>1. Publications(l, c) =
                <<Pub(PidTopic(c.ch, c.type, "ks"), c.args[1]),
                  Pub(PidTopic(c.ch, c.type, "kv"), c.args[2]),
                  Pub(PidTopic(c.ch, c.type, "ka"), c.args[3])>>
        BY <1>7, <2>5, PidPublications
      <3>2. /\ Pub(PidTopic(c.ch, c.type, "ks"), c.args[1]) \in Published
            /\ Pub(PidTopic(c.ch, c.type, "kv"), c.args[2]) \in Published
            /\ Pub(PidTopic(c.ch, c.type, "ka"), c.args[3]) \in Published
        BY <2>1, <2>2, <2>5
      <3> QED
        BY <3>1, <3>2, ShortSequences
    <2>6. CASE c.method = "enableContinuousInput"
      <3> DEFINE on == Pub(PidTopic(c.ch, c.type, "continuous"), TRUE)
      <3>1. on \in Published
        BY <2>3
      <3>2. Publications(l, c) =
                <<Pub(PidTopic(c.ch, c.type, "continousMaximum"), c.args[2]),
                  Pub(PidTopic(c.ch, c.type, "continuousMinimum"), c.args[1]),
                  on>>
        BY <1>7, <2>6, PidPublications
      <3>3. /\ Pub(PidTopic(c.ch, c.type, "continousMaximum"), c.args[2])
                  \in Published
            /\ Pub(PidTopic(c.ch, c.type, "continuousMinimum"), c.args[1])
                  \in Published
        BY <2>1, <2>2, <2>6
      <3> HIDE DEF on
      <3> QED
        BY <3>1, <3>2, <3>3, ShortSequences
    <2>7. CASE c.method = "disableContinuousInput"
      <3> DEFINE off == Pub(PidTopic(c.ch, c.type, "continuous"), FALSE)
      <3>1. off \in Published
        BY <2>3
      <3>2. Publications(l, c) = <<off>>
        BY <1>7, <2>7, PidPublications
      <3> HIDE DEF off
      <3> QED
        BY <3>1, <3>2, ShortSequences
    <2> QED
      BY <1>7, <2>4, <2>5, <2>6, <2>7 DEF PidMethods
  <1> QED
    BY <1>4, <1>5, <1>6, <1>7, CallKinds

(***************************************************************************)
(* The invariant of the topics: each gets what the last call of its kind   *)
(* published, and nothing before there is one.                             *)
(***************************************************************************)

\* Topic t, after the publications q are made, has the value x of the call c.
Follows(n, q, t, c, x) ==
    IF c.method = "none" THEN Never(n, q, t) ELSE Gets(n, q, t, x)

ReverseCall(m) == LastOf("motor", m, "none", {"setReversed"})
ScaleCall(m) == LastOf("motor", m, "none", {"setDistancePerCount"})
GainCall(m, type) == LastOf("pid", m, type, {"setPID"})
FeedCall(m, type) == LastOf("pid", m, type, {"setFF"})
ContinuousCall(m, type) ==
    LastOf("pid", m, type, {"enableContinuousInput", "disableContinuousInput"})
PulseCall(v) == LastOf("servo", v, "none", PulseMethods)

MotorFollows(n, q, m) ==
    LET power == PowerCall(m)
    IN  /\ Follows(n, q, MotorTopic(m, "mode"), power, ModeOf[power.method])
        /\ Follows(n, q, MotorTopic(m, "setpoint"), power, power.args[1])
        /\ Follows(n, q, MotorTopic(m, "reversed"), ReverseCall(m),
                   ReverseCall(m).args[1])
        /\ Follows(n, q, MotorTopic(m, "distancePerCount"), ScaleCall(m),
                   ScaleCall(m).args[1])

PidFollows(n, q, m, type) ==
    LET t(x) == PidTopic(m, type, x)
    IN  /\ Follows(n, q, t("kp"), GainCall(m, type), GainCall(m, type).args[1])
        /\ Follows(n, q, t("ki"), GainCall(m, type), GainCall(m, type).args[2])
        /\ Follows(n, q, t("kd"), GainCall(m, type), GainCall(m, type).args[3])
        /\ Follows(n, q, t("ks"), FeedCall(m, type), FeedCall(m, type).args[1])
        /\ Follows(n, q, t("kv"), FeedCall(m, type), FeedCall(m, type).args[2])

ContinuousFollows(n, q, m, type) ==
    LET c == ContinuousCall(m, type)
        t(x) == PidTopic(m, type, x)
    IN  /\ c.method = "none" => Never(n, q, t("continuous"))
        /\ c.method = "disableContinuousInput" => Gets(n, q, t("continuous"), FALSE)
        /\ c.method = "enableContinuousInput"
               => /\ Gets(n, q, t("continuous"), TRUE)
                  /\ Gets(n, q, t("continuousMinimum"), c.args[1])
                  /\ Gets(n, q, t("continousMaximum"), c.args[2])

ServoFollows(n, q, v) ==
    Gets(n, q, ServoTopic(v, "pulseWidth"),
         IF PulseCall(v).method = "none" THEN 1500 ELSE ServoValue(PulseCall(v)))

\* The value of a flag that is set.
On == TRUE

\* Continuous input is never on before its bounds are there.
BoundFirst(n, q, on, bound) ==
    /\ on \in DOMAIN n /\ n[on] = On => bound \in DOMAIN n
    /\ \A i \in DOMAIN q : q[i].topic = on /\ q[i].value = On
           => bound \in DOMAIN n \/ \E j \in 1 .. i - 1 : q[j].topic = bound

BoundsFirst(n, q) ==
    \A m \in MotorNumbers, type \in PidTypes :
        \A b \in {"continuousMinimum", "continousMaximum"} :
            BoundFirst(n, q, PidTopic(m, type, "continuous"), PidTopic(m, type, b))

ProgramTyped ==
    setup \in Setups /\ library \in Libraries /\ called \in Seq(setup.calls)

TopicsInv ==
    /\ ProgramTyped /\ TopicsTyped /\ BoundsFirst(nt, todo)
    /\ \A m \in MotorNumbers :
           /\ MotorFollows(nt, todo, m)
           /\ \A type \in PidTypes : PidFollows(nt, todo, m, type)
                                   /\ ContinuousFollows(nt, todo, m, type)
    /\ \A v \in Servos : ServoFollows(nt, todo, v)

LEMMA SetupTypes ==
    ASSUME setup \in Setups
    PROVE  /\ Motors \subseteq MotorNumbers /\ Servos \subseteq ServoNumbers
           /\ Batteries \subseteq Int /\ Positions \subseteq Int
           /\ setup.terms \subseteq Terms
           /\ setup.maxCalls \in Nat /\ setup.maxFailures \in Nat
           /\ \A c \in setup.calls : IsCall(c) /\ c.method # "none"
  <1>1. IsSetup(setup)
    BY SetupsAssumption
  <1>2. \A c \in setup.calls : IsCall(c) /\ c.method # "none"
    BY <1>1, CallKinds DEF IsSetup
  <1>3. Batteries \subseteq Int
    <2>1. Batteries \subseteq MinBattery .. MaxBattery
      BY <1>1, Zenon DEF IsSetup, Batteries
    <2>2. MinBattery .. MaxBattery \subseteq Int
      OBVIOUS
    <2> QED
      BY <2>1, <2>2
  <1>4. Motors \subseteq MotorNumbers /\ Servos \subseteq ServoNumbers
    BY <1>1, Zenon DEF IsSetup, Motors, Servos
  <1>5. Positions \subseteq Int
    BY <1>1, Zenon DEF IsSetup, Positions
  <1>6. /\ setup.maxCalls \in Nat /\ setup.maxFailures \in Nat
        /\ setup.terms \subseteq Terms
    BY <1>1, Zenon DEF IsSetup
  <1> QED
    BY <1>2, <1>3, <1>4, <1>5, <1>6

(***************************************************************************)
(* A call.                                                                 *)
(***************************************************************************)

\* What a queue says about a topic counts, or else what the topic has.
LEMMA CallGets ==
    ASSUME NEW n, NEW q, NEW t, NEW x
    PROVE  /\ Says(q, t, x) => Gets(n, q, t, x)
           /\ Silent(q, t) /\ Gets(n, << >>, t, x) => Gets(n, q, t, x)
           /\ Silent(q, t) /\ Never(n, << >>, t) => Never(n, q, t)
  BY DEF Says, Silent, Gets, Never

LEMMA SaidFollows ==
    ASSUME NEW n, NEW q, NEW t, NEW c, NEW x, c.method # "none", Says(q, t, x)
    PROVE  Follows(n, q, t, c, x)
  BY CallGets DEF Follows

LEMMA SilentFollows ==
    ASSUME NEW n, NEW q, NEW t, NEW c, NEW x, Silent(q, t),
           Follows(n, << >>, t, c, x)
    PROVE  Follows(n, q, t, c, x)
  BY CallGets DEF Follows

LEMMA CallPrograms ==
    ASSUME ProgramTyped, NEW c \in setup.calls, Call(c)
    PROVE  /\ IsCall(c) /\ c.method # "none" /\ library \in Libraries
           /\ todo = << >> /\ nt' = nt /\ todo' = Publications(library, c)
           /\ \A d, ch, ty, M : LastOf(d, ch, ty, M)' =
                  IF Asks(c, d, ch, ty, M) THEN c ELSE LastOf(d, ch, ty, M)
  <1>1. called \in Seq(setup.calls) /\ called' = Append(called, c)
    BY DEF ProgramTyped, Call
  <1>2. \A d, ch, ty, M : LastOf(d, ch, ty, M)' =
            IF Asks(c, d, ch, ty, M) THEN c ELSE LastOf(d, ch, ty, M)
    BY <1>1, LastOfAppend
  <1> QED
    BY <1>2, SetupTypes DEF ProgramTyped, Call

\* Within a call the bounds are published before continuous input is on.
LEMMA CallBounds ==
    ASSUME NEW l \in Libraries, NEW c, IsCall(c), NEW m, NEW type,
           NEW b \in {"continuousMinimum", "continousMaximum"},
           NEW i \in DOMAIN Publications(l, c),
           Publications(l, c)[i].topic = PidTopic(m, type, "continuous"),
           Publications(l, c)[i].value = On
    PROVE  \E j \in 1 .. i - 1 : Publications(l, c)[j].topic = PidTopic(m, type, b)
  <1> DEFINE P == Publications(l, c)
             on == On
             off == FALSE
             t(x) == PidTopic(m, type, x)
             asks(methods) == Asks(c, "pid", m, type, methods)
             enable == asks({"enableContinuousInput"})
             disable == asks({"disableContinuousInput"})
  <1>1. /\ disable => Says(P, t("continuous"), off)
        /\ ~disable => enable \/ Silent(P, t("continuous"))
    BY PidSays
  <1>2. P[i].topic = t("continuous") /\ P[i].value = on /\ on # off
    BY DEF On
  <1>3. enable => c.device = "pid" /\ c.ch = m /\ c.type = type
                  /\ c.method = "enableContinuousInput"
    BY DEF Asks
  <1>4. enable => P = <<Pub(t("continousMaximum"), c.args[2]),
                        Pub(t("continuousMinimum"), c.args[1]),
                        Pub(t("continuous"), on)>>
    BY <1>3, PidPublications DEF PidMethods, On
  <1>5. t("continuous") # t("continuousMinimum") /\ t("continuous") # t("continousMaximum")
    BY DEF PidTopic
  <1> HIDE DEF P, on, off, t, asks, enable, disable
  <1>6. enable
    BY <1>1, <1>2 DEF Says, Silent, P
  <1>7. P[i].topic # t(b)
    BY <1>2, <1>5
  <1>8. i = 3
    BY <1>2, <1>4, <1>5, <1>6 DEF Pub, P
  <1>9. P[1].topic = t("continousMaximum") /\ P[2].topic = t("continuousMinimum")
    BY <1>4, <1>6 DEF Pub
  <1>10. \E j \in 1 .. i - 1 : P[j].topic = t(b)
    BY <1>8, <1>9
  <1> QED
    BY <1>10 DEF P, t

LEMMA CallMotorFollows ==
    ASSUME ProgramTyped, NEW c \in setup.calls, Call(c), NEW m,
           MotorFollows(nt, todo, m)
    PROVE  MotorFollows(nt, todo, m)'
  <1> DEFINE P == Publications(library, c)
             asks(methods) == Asks(c, "motor", m, "none", methods)
             mode == MotorTopic(m, "mode")
             setpoint == MotorTopic(m, "setpoint")
             reversed == MotorTopic(m, "reversed")
             scale == MotorTopic(m, "distancePerCount")
  <1>1. /\ IsCall(c) /\ c.method # "none" /\ library \in Libraries
        /\ todo = << >> /\ nt' = nt /\ todo' = P
    BY CallPrograms
  <1>2. /\ PowerCall(m)' = IF asks(DOMAIN ModeOf) THEN c ELSE PowerCall(m)
        /\ ReverseCall(m)' = IF asks({"setReversed"}) THEN c ELSE ReverseCall(m)
        /\ ScaleCall(m)' = IF asks({"setDistancePerCount"}) THEN c ELSE ScaleCall(m)
    BY CallPrograms DEF PowerCall, ReverseCall, ScaleCall
  <1>3. /\ IF asks(DOMAIN ModeOf) THEN /\ Says(P, mode, ModeOf[c.method])
                                       /\ Says(P, setpoint, c.args[1])
           ELSE Silent(P, mode) /\ Silent(P, setpoint)
        /\ IF asks({"setReversed"}) THEN Says(P, reversed, c.args[1])
           ELSE Silent(P, reversed)
        /\ IF asks({"setDistancePerCount"}) THEN Says(P, scale, c.args[1])
           ELSE Silent(P, scale)
    BY <1>1, MotorSays
  <1>4. /\ Follows(nt, << >>, mode, PowerCall(m), ModeOf[PowerCall(m).method])
        /\ Follows(nt, << >>, setpoint, PowerCall(m), PowerCall(m).args[1])
        /\ Follows(nt, << >>, reversed, ReverseCall(m), ReverseCall(m).args[1])
        /\ Follows(nt, << >>, scale, ScaleCall(m), ScaleCall(m).args[1])
    BY <1>1 DEF MotorFollows
  <1>5. asks(DOMAIN ModeOf) \in BOOLEAN /\ asks({"setReversed"}) \in BOOLEAN
        /\ asks({"setDistancePerCount"}) \in BOOLEAN
    BY DEF Asks
  <1> DEFINE a == asks(DOMAIN ModeOf)
             b == asks({"setReversed"})
             d == asks({"setDistancePerCount"})
  <1> HIDE DEF P, mode, setpoint, reversed, scale, a, b, d
  <1>6. /\ Follows(nt, P, mode, PowerCall(m)', ModeOf[PowerCall(m)'.method])
        /\ Follows(nt, P, setpoint, PowerCall(m)', PowerCall(m)'.args[1])
    <2>1. /\ IF a THEN Says(P, mode, ModeOf[c.method]) ELSE Silent(P, mode)
          /\ IF a THEN Says(P, setpoint, c.args[1]) ELSE Silent(P, setpoint)
          /\ a \in BOOLEAN
          /\ PowerCall(m)' = IF a THEN c ELSE PowerCall(m)
      BY <1>2, <1>3, <1>5 DEF a
    <2>2. /\ IF a THEN Follows(nt, P, mode, c, ModeOf[c.method])
             ELSE Follows(nt, P, mode, PowerCall(m), ModeOf[PowerCall(m).method])
          /\ IF a THEN Follows(nt, P, setpoint, c, c.args[1])
             ELSE Follows(nt, P, setpoint, PowerCall(m), PowerCall(m).args[1])
      BY <1>1, <1>4, <2>1, SaidFollows, SilentFollows
    <2> QED
      BY <2>1, <2>2
  <1>7. Follows(nt, P, reversed, ReverseCall(m)', ReverseCall(m)'.args[1])
    <2>1. /\ IF b THEN Says(P, reversed, c.args[1]) ELSE Silent(P, reversed)
          /\ b \in BOOLEAN
          /\ ReverseCall(m)' = IF b THEN c ELSE ReverseCall(m)
      BY <1>2, <1>3, <1>5 DEF b
    <2>2. IF b THEN Follows(nt, P, reversed, c, c.args[1])
          ELSE Follows(nt, P, reversed, ReverseCall(m), ReverseCall(m).args[1])
      BY <1>1, <1>4, <2>1, SaidFollows, SilentFollows
    <2> QED
      BY <2>1, <2>2
  <1>8. Follows(nt, P, scale, ScaleCall(m)', ScaleCall(m)'.args[1])
    <2>1. /\ IF d THEN Says(P, scale, c.args[1]) ELSE Silent(P, scale)
          /\ d \in BOOLEAN
          /\ ScaleCall(m)' = IF d THEN c ELSE ScaleCall(m)
      BY <1>2, <1>3, <1>5 DEF d
    <2>2. IF d THEN Follows(nt, P, scale, c, c.args[1])
          ELSE Follows(nt, P, scale, ScaleCall(m), ScaleCall(m).args[1])
      BY <1>1, <1>4, <2>1, SaidFollows, SilentFollows
    <2> QED
      BY <2>1, <2>2
  <1> QED
    BY <1>1, <1>6, <1>7, <1>8
    DEF MotorFollows, mode, setpoint, reversed, scale, P

\* A call c, if it is of the kind a, comes after the call d of that kind.
LEMMA CallFollows ==
    ASSUME NEW n, NEW P, NEW t, NEW c, NEW d, NEW e, NEW i, NEW a \in BOOLEAN,
           c.method # "none", e = IF a THEN c ELSE d,
           IF a THEN Says(P, t, c.args[i]) ELSE Silent(P, t),
           Follows(n, << >>, t, d, d.args[i])
    PROVE  Follows(n, P, t, e, e.args[i])
  BY SaidFollows, SilentFollows

LEMMA CallPidFollows ==
    ASSUME ProgramTyped, NEW c \in setup.calls, Call(c), NEW m, NEW type,
           PidFollows(nt, todo, m, type)
    PROVE  PidFollows(nt, todo, m, type)'
  <1> DEFINE P == Publications(library, c)
             t(x) == PidTopic(m, type, x)
             a == Asks(c, "pid", m, type, {"setPID"})
             b == Asks(c, "pid", m, type, {"setFF"})
             gain == GainCall(m, type)
             feed == FeedCall(m, type)
             gain2 == GainCall(m, type)'
             feed2 == FeedCall(m, type)'
  <1>1. /\ IsCall(c) /\ c.method # "none" /\ library \in Libraries
        /\ todo = << >> /\ nt' = nt /\ todo' = P
    BY CallPrograms
  <1>2. gain2 = (IF a THEN c ELSE gain) /\ feed2 = (IF b THEN c ELSE feed)
    BY CallPrograms DEF GainCall, FeedCall
  <1>3. /\ IF a THEN Says(P, t("kp"), c.args[1]) ELSE Silent(P, t("kp"))
        /\ IF a THEN Says(P, t("ki"), c.args[2]) ELSE Silent(P, t("ki"))
        /\ IF a THEN Says(P, t("kd"), c.args[3]) ELSE Silent(P, t("kd"))
        /\ IF b THEN Says(P, t("ks"), c.args[1]) ELSE Silent(P, t("ks"))
        /\ IF b THEN Says(P, t("kv"), c.args[2]) ELSE Silent(P, t("kv"))
    <2>1. /\ IF a THEN /\ Says(P, t("kp"), c.args[1]) /\ Says(P, t("ki"), c.args[2])
                       /\ Says(P, t("kd"), c.args[3])
             ELSE /\ Silent(P, t("kp")) /\ Silent(P, t("ki")) /\ Silent(P, t("kd"))
          /\ IF b THEN Says(P, t("ks"), c.args[1]) /\ Says(P, t("kv"), c.args[2])
             ELSE Silent(P, t("ks")) /\ Silent(P, t("kv"))
      BY <1>1, PidSays
    <2> HIDE DEF P, t, a, b
    <2> QED
      BY <2>1
  <1>4. /\ Follows(nt, << >>, t("kp"), gain, gain.args[1])
        /\ Follows(nt, << >>, t("ki"), gain, gain.args[2])
        /\ Follows(nt, << >>, t("kd"), gain, gain.args[3])
        /\ Follows(nt, << >>, t("ks"), feed, feed.args[1])
        /\ Follows(nt, << >>, t("kv"), feed, feed.args[2])
    BY <1>1 DEF PidFollows
  <1>5. a \in BOOLEAN /\ b \in BOOLEAN
    BY DEF Asks
  <1> HIDE DEF P, t, a, b, gain, feed, gain2, feed2
  <1>6. Follows(nt, P, t("kp"), gain2, gain2.args[1])
    BY <1>1, <1>2, <1>3, <1>4, <1>5, CallFollows
  <1>7. Follows(nt, P, t("ki"), gain2, gain2.args[2])
    BY <1>1, <1>2, <1>3, <1>4, <1>5, CallFollows
  <1>8. Follows(nt, P, t("kd"), gain2, gain2.args[3])
    BY <1>1, <1>2, <1>3, <1>4, <1>5, CallFollows
  <1>9. Follows(nt, P, t("ks"), feed2, feed2.args[1])
    BY <1>1, <1>2, <1>3, <1>4, <1>5, CallFollows
  <1>10. Follows(nt, P, t("kv"), feed2, feed2.args[2])
    BY <1>1, <1>2, <1>3, <1>4, <1>5, CallFollows
  <1> QED
    BY <1>1, <1>6, <1>7, <1>8, <1>9, <1>10
    DEF PidFollows, P, t, gain2, feed2

LEMMA CallContinuousFollows ==
    ASSUME ProgramTyped, NEW c \in setup.calls, Call(c), NEW m, NEW type,
           ContinuousFollows(nt, todo, m, type)
    PROVE  ContinuousFollows(nt, todo, m, type)'
  <1> DEFINE P == Publications(library, c)
             t(x) == PidTopic(m, type, x)
             enable == Asks(c, "pid", m, type, {"enableContinuousInput"})
             disable == Asks(c, "pid", m, type, {"disableContinuousInput"})
             on == TRUE
             off == FALSE
             d == ContinuousCall(m, type)
  <1>1. /\ IsCall(c) /\ c.method # "none" /\ library \in Libraries
        /\ todo = << >> /\ nt' = nt /\ todo' = P
    BY CallPrograms
  <1>2. /\ ContinuousCall(m, type)' = IF enable \/ disable THEN c ELSE d
        /\ enable => c.method = "enableContinuousInput"
        /\ disable => c.method = "disableContinuousInput"
    BY CallPrograms DEF ContinuousCall, Asks
  <1>3. /\ enable => /\ Says(P, t("continuousMinimum"), c.args[1])
                     /\ Says(P, t("continousMaximum"), c.args[2])
                     /\ Says(P, t("continuous"), on)
        /\ ~enable => /\ Silent(P, t("continuousMinimum"))
                      /\ Silent(P, t("continousMaximum"))
        /\ disable => Says(P, t("continuous"), off)
        /\ ~disable => enable \/ Silent(P, t("continuous"))
    BY <1>1, PidSays
  <1>4. /\ d.method = "none" => Never(nt, << >>, t("continuous"))
        /\ d.method = "disableContinuousInput"
               => Gets(nt, << >>, t("continuous"), off)
        /\ d.method = "enableContinuousInput"
               => /\ Gets(nt, << >>, t("continuous"), on)
                  /\ Gets(nt, << >>, t("continuousMinimum"), d.args[1])
                  /\ Gets(nt, << >>, t("continousMaximum"), d.args[2])
    BY <1>1 DEF ContinuousFollows
  <1> DEFINE e == ContinuousCall(m, type)'
  <1> HIDE DEF P, t, enable, disable, on, off, d, e
  <1>5. /\ e.method = "none" => Never(nt, P, t("continuous"))
        /\ e.method = "disableContinuousInput" => Gets(nt, P, t("continuous"), off)
        /\ e.method = "enableContinuousInput"
               => /\ Gets(nt, P, t("continuous"), on)
                  /\ Gets(nt, P, t("continuousMinimum"), e.args[1])
                  /\ Gets(nt, P, t("continousMaximum"), e.args[2])
    <2>1. CASE enable
      <3>1. e = c /\ c.method = "enableContinuousInput"
        BY <1>2, <2>1 DEF e
      <3> QED
        BY <1>3, <2>1, <3>1, CallGets
    <2>2. CASE disable
      <3>1. e = c /\ c.method = "disableContinuousInput"
        BY <1>2, <2>2 DEF e
      <3> QED
        BY <1>3, <2>2, <3>1, CallGets
    <2>3. CASE ~enable /\ ~disable
      <3>1. e = d
        BY <1>2, <2>3 DEF e
      <3> QED
        BY <1>3, <1>4, <2>3, <3>1, CallGets
    <2> QED
      BY <2>1, <2>2, <2>3
  <1> QED
    BY <1>1, <1>5 DEF ContinuousFollows, P, t, on, off, e

LEMMA CallServoFollows ==
    ASSUME ProgramTyped, NEW c \in setup.calls, Call(c), NEW v,
           ServoFollows(nt, todo, v)
    PROVE  ServoFollows(nt, todo, v)'
  <1> DEFINE P == Publications(library, c)
             t == ServoTopic(v, "pulseWidth")
             a == Asks(c, "servo", v, "none", PulseMethods)
  <1>1. /\ IsCall(c) /\ c.method # "none" /\ library \in Libraries
        /\ todo = << >> /\ nt' = nt /\ todo' = P
    BY CallPrograms
  <1>2. PulseCall(v)' = IF a THEN c ELSE PulseCall(v)
    BY CallPrograms DEF PulseCall
  <1>3. IF a THEN Says(P, t, ServoValue(c)) ELSE Silent(P, t)
    BY <1>1, ServoSays
  <1>4. Gets(nt, << >>, t, IF PulseCall(v).method = "none" THEN 1500
                           ELSE ServoValue(PulseCall(v)))
    BY <1>1 DEF ServoFollows
  <1> HIDE DEF P, t, a
  <1>5. Gets(nt, P, t, IF PulseCall(v)'.method = "none" THEN 1500
                       ELSE ServoValue(PulseCall(v)'))
    <2>1. CASE a
      BY <1>1, <1>2, <1>3, <2>1, CallGets
    <2>2. CASE ~a
      BY <1>2, <1>3, <1>4, <2>2, CallGets
    <2> QED
      BY <2>1, <2>2
  <1> QED
    BY <1>1, <1>5 DEF ServoFollows, P, t

LEMMA CallTopics ==
    ASSUME TopicsInv, NEW c \in setup.calls, Call(c)
    PROVE  TopicsInv'
  <1>1. /\ IsCall(c) /\ library \in Libraries
        /\ todo = << >> /\ nt' = nt /\ todo' = Publications(library, c)
    BY CallPrograms DEF TopicsInv
  <1>2. setup' = setup /\ library' = library /\ called' = Append(called, c)
    BY DEF Call
  <1>3. ProgramTyped'
    BY <1>2 DEF TopicsInv, ProgramTyped
  <1>4. TopicsTyped'
    BY <1>1, PublicationsTyped DEF TopicsInv, TopicsTyped
  <1>5. BoundsFirst(nt, todo)'
    <2> SUFFICES ASSUME NEW m \in MotorNumbers, NEW type \in PidTypes,
                        NEW b \in {"continuousMinimum", "continousMaximum"}
                 PROVE  BoundFirst(nt', todo', PidTopic(m, type, "continuous"),
                                   PidTopic(m, type, b))
      BY DEF BoundsFirst
    <2>1. BoundFirst(nt, todo, PidTopic(m, type, "continuous"), PidTopic(m, type, b))
      BY DEF TopicsInv, BoundsFirst
    <2>2. ASSUME NEW i \in DOMAIN todo',
                 todo'[i].topic = PidTopic(m, type, "continuous"),
                 todo'[i].value = On
          PROVE  \E j \in 1 .. i - 1 : todo'[j].topic = PidTopic(m, type, b)
      <3> DEFINE P == Publications(library, c)
      <3>1. i \in DOMAIN P /\ P[i].topic = PidTopic(m, type, "continuous")
        BY <1>1, <2>2
      <3>2. P[i].value = On
        BY <1>1, <2>2
      <3>3. \E j \in 1 .. i - 1 : P[j].topic = PidTopic(m, type, b)
        BY <1>1, <3>1, <3>2, CallBounds
      <3> QED
        BY <1>1, <3>3
    <2> QED
      BY <1>1, <2>1, <2>2 DEF BoundFirst
  <1>6. ASSUME NEW m \in MotorNumbers
        PROVE  /\ MotorFollows(nt, todo, m)'
               /\ \A type \in PidTypes : PidFollows(nt, todo, m, type)'
                                       /\ ContinuousFollows(nt, todo, m, type)'
    BY CallMotorFollows, CallPidFollows, CallContinuousFollows DEF TopicsInv
  <1>7. \A v \in Servos : ServoFollows(nt, todo, v)'
    BY CallServoFollows DEF TopicsInv
  <1>8. Servos' = Servos
    BY <1>2 DEF Servos
  <1> QED
    BY <1>3, <1>4, <1>5, <1>6, <1>7, <1>8 DEF TopicsInv

(***************************************************************************)
(* A publication.                                                          *)
(***************************************************************************)

LEMMA PublishFollows ==
    ASSUME NEW S, NEW q \in Seq(S), q # << >>, NEW n, NEW t, NEW c, NEW x,
           Follows(n, q, t, c, x)
    PROVE  Follows(Put(n, Head(q)), Tail(q), t, c, x)
  BY PublishGets, PublishNever DEF Follows

LEMMA PublishBoundFirst ==
    ASSUME NEW S, NEW q \in Seq(S), q # << >>, NEW n, NEW on, NEW bound,
           BoundFirst(n, q, on, bound)
    PROVE  BoundFirst(Put(n, Head(q)), Tail(q), on, bound)
  <1> DEFINE up == On
             n2 == Put(n, Head(q))
  <1>1. /\ DOMAIN q = 1 .. Len(q) /\ Len(q) \in Nat \ {0}
        /\ DOMAIN Tail(q) = 1 .. Len(q) - 1
        /\ \A i \in 1 .. Len(q) - 1 : Tail(q)[i] = q[i + 1]
        /\ Head(q) = q[1]
    OBVIOUS
  <1>2. /\ DOMAIN n2 = DOMAIN n \cup {Head(q).topic}
        /\ \A t \in DOMAIN n2 :
               n2[t] = IF t = Head(q).topic THEN Head(q).value ELSE n[t]
    BY DEF Put
  <1>3. /\ on \in DOMAIN n /\ n[on] = up => bound \in DOMAIN n
        /\ \A i \in DOMAIN q : q[i].topic = on /\ q[i].value = up
              => bound \in DOMAIN n \/ \E j \in 1 .. i - 1 : q[j].topic = bound
    BY DEF BoundFirst
  <1> HIDE DEF up, n2
  <1>4. on \in DOMAIN n2 /\ n2[on] = up => bound \in DOMAIN n2
    <2>1. CASE on = Head(q).topic /\ Head(q).value = up
      BY <1>1, <1>2, <1>3, <2>1
    <2>2. CASE ~(on = Head(q).topic /\ Head(q).value = up)
      BY <1>2, <1>3, <2>2
    <2> QED
      BY <2>1, <2>2
  <1>5. ASSUME NEW i \in DOMAIN Tail(q),
               Tail(q)[i].topic = on, Tail(q)[i].value = up
        PROVE  \/ bound \in DOMAIN n2
               \/ \E j \in 1 .. i - 1 : Tail(q)[j].topic = bound
    <2>1. /\ i + 1 \in DOMAIN q /\ q[i + 1].topic = on /\ q[i + 1].value = up
          /\ (i + 1) - 1 = i
      BY <1>1, <1>5
    <2>2. bound \in DOMAIN n \/ \E j \in 1 .. i : q[j].topic = bound
      BY <1>3, <2>1
    <2>3. ASSUME NEW j \in 1 .. i, q[j].topic = bound
          PROVE  \/ bound \in DOMAIN n2
                 \/ \E k \in 1 .. i - 1 : Tail(q)[k].topic = bound
      <3>1. CASE j = 1
        BY <1>1, <1>2, <2>3, <3>1
      <3>2. CASE j # 1
        <4>1. j - 1 \in 1 .. i - 1 /\ j - 1 \in 1 .. Len(q) - 1 /\ (j - 1) + 1 = j
          BY <1>1, <3>2
        <4> QED
          BY <1>1, <2>3, <4>1
      <3> QED
        BY <3>1, <3>2
    <2> QED
      BY <1>2, <2>2, <2>3
  <1> QED
    BY <1>4, <1>5 DEF BoundFirst, up, n2

LEMMA PublishTopics ==
    ASSUME TopicsInv, Publish
    PROVE  TopicsInv'
  <1>1. /\ todo \in Seq(Published) /\ todo # << >>
        /\ nt' = Put(nt, Head(todo)) /\ todo' = Tail(todo)
        /\ setup' = setup /\ library' = library /\ called' = called
    BY DEF TopicsInv, TopicsTyped, Publish, Put
  <1>2. \A d, ch, ty, M : LastOf(d, ch, ty, M)' = LastOf(d, ch, ty, M)
    BY <1>1 DEF LastOf
  <1>3. ProgramTyped'
    BY <1>1 DEF TopicsInv, ProgramTyped
  <1>4. TopicsTyped'
    <2>1. Head(todo) \in Published /\ Tail(todo) \in Seq(Published)
      BY <1>1
    <2>2. Pub(Head(todo).topic, Head(todo).value) = Head(todo)
      BY <2>1 DEF Published, Pub
    <2>3. \A t \in DOMAIN nt : Pub(t, nt[t]) \in Published
      BY DEF TopicsInv, TopicsTyped
    <2>4. \A t \in DOMAIN nt' : Pub(t, nt'[t]) \in Published
      BY <1>1, <2>1, <2>2, <2>3 DEF Put
    <2> QED
      BY <1>1, <2>1, <2>4 DEF TopicsTyped
  <1>5. BoundsFirst(nt, todo)'
    BY <1>1, PublishBoundFirst DEF TopicsInv, BoundsFirst
  <1>6. ASSUME NEW m \in MotorNumbers
        PROVE  MotorFollows(nt, todo, m)'
    <2>1. /\ PowerCall(m)' = PowerCall(m) /\ ReverseCall(m)' = ReverseCall(m)
          /\ ScaleCall(m)' = ScaleCall(m)
      BY <1>2 DEF PowerCall, ReverseCall, ScaleCall
    <2>2. MotorFollows(nt, todo, m)
      BY DEF TopicsInv
    <2> QED
      BY <1>1, <2>1, <2>2, PublishFollows DEF MotorFollows
  <1>7. ASSUME NEW m \in MotorNumbers, NEW type \in PidTypes
        PROVE  PidFollows(nt, todo, m, type)'
    <2>1. /\ GainCall(m, type)' = GainCall(m, type)
          /\ FeedCall(m, type)' = FeedCall(m, type)
      BY <1>2 DEF GainCall, FeedCall
    <2>2. PidFollows(nt, todo, m, type)
      BY DEF TopicsInv
    <2> QED
      BY <1>1, <2>1, <2>2, PublishFollows DEF PidFollows
  <1>8. ASSUME NEW m \in MotorNumbers, NEW type \in PidTypes
        PROVE  ContinuousFollows(nt, todo, m, type)'
    <2> DEFINE on == TRUE
               off == FALSE
               c == ContinuousCall(m, type)
               t(x) == PidTopic(m, type, x)
    <2>1. ContinuousCall(m, type)' = c
      BY <1>2 DEF ContinuousCall
    <2>2. /\ c.method = "none" => Never(nt, todo, t("continuous"))
          /\ c.method = "disableContinuousInput"
                 => Gets(nt, todo, t("continuous"), off)
          /\ c.method = "enableContinuousInput"
                 => /\ Gets(nt, todo, t("continuous"), on)
                    /\ Gets(nt, todo, t("continuousMinimum"), c.args[1])
                    /\ Gets(nt, todo, t("continousMaximum"), c.args[2])
      BY DEF TopicsInv, ContinuousFollows
    <2> HIDE DEF on, off, c, t
    <2>3. /\ c.method = "none" => Never(nt', todo', t("continuous"))
          /\ c.method = "disableContinuousInput"
                 => Gets(nt', todo', t("continuous"), off)
          /\ c.method = "enableContinuousInput"
                 => /\ Gets(nt', todo', t("continuous"), on)
                    /\ Gets(nt', todo', t("continuousMinimum"), c.args[1])
                    /\ Gets(nt', todo', t("continousMaximum"), c.args[2])
      BY <1>1, <2>2, PublishGets, PublishNever
    <2> QED
      BY <2>1, <2>3 DEF ContinuousFollows, on, off, c, t
  <1>9. ASSUME NEW v \in Servos
        PROVE  ServoFollows(nt, todo, v)'
    <2>1. PulseCall(v)' = PulseCall(v)
      BY <1>2 DEF PulseCall
    <2>2. ServoFollows(nt, todo, v)
      BY DEF TopicsInv
    <2> QED
      BY <1>1, <2>1, <2>2, PublishGets DEF ServoFollows
  <1>10. Servos' = Servos
    BY <1>1 DEF Servos
  <1> QED
    BY <1>3, <1>4, <1>5, <1>6, <1>7, <1>8, <1>9, <1>10 DEF TopicsInv

(***************************************************************************)
(* The constructors of the servos.                                         *)
(***************************************************************************)

NewPulse(v) == Pub(ServoTopic(v, "pulseWidth"), 1500)
NewPeriod(v) == Pub(ServoTopic(v, "framePeriod"), 20000)

LEMMA ServosPublish ==
    ASSUME NEW l \in Libraries, NEW W, W \subseteq ServoNumbers
    PROVE  LET q == NewServos(l, W)
           IN  /\ \A i \in DOMAIN q :
                      \E v \in W : q[i] \in {NewPulse(v), NewPeriod(v)}
               /\ \A v \in W : \E i \in DOMAIN q : q[i] = NewPulse(v)
               /\ q \in Seq({NewPulse(v) : v \in W} \cup {NewPeriod(v) : v \in W})
  <1> DEFINE E == {NewPulse(v) : v \in W} \cup {NewPeriod(v) : v \in W}
             new(v) == IF v \in W THEN NewServo(l, v) ELSE << >>
             has(q, e) == \E i \in DOMAIN q : q[i] = e
  <1>1. \A v \in W : NewServo(l, v) = <<NewPulse(v), NewPeriod(v)>>
    BY DEF NewServo, Library, Libraries, JavaServo, PythonServo, NewPulse,
           NewPeriod, Pub
  <1>2. \A v : new(v) \in Seq(E)
    <2> SUFFICES ASSUME NEW v PROVE new(v) \in Seq(E)
      OBVIOUS
    <2>1. CASE v \in W
      <3>1. NewPulse(v) \in E /\ NewPeriod(v) \in E
        BY <2>1
      <3>2. new(v) = <<NewPulse(v), NewPeriod(v)>>
        BY <1>1, <2>1
      <3> HIDE DEF E
      <3> QED
        BY <3>1, <3>2, ShortSequences
    <2>2. CASE v \notin W
      <3>1. new(v) = << >>
        BY <2>2
      <3> HIDE DEF E, new
      <3> QED
        BY <3>1
    <2> QED
      BY <2>1, <2>2
  <1>3. \A v \in W : has(new(v), NewPulse(v))
    <2> SUFFICES ASSUME NEW v \in W PROVE has(new(v), NewPulse(v))
      OBVIOUS
    <2>1. new(v) = <<NewPulse(v), NewPeriod(v)>>
      BY <1>1
    <2> HIDE DEF new
    <2> QED
      BY <2>1
  <1>4. ASSUME NEW a \in Seq(E), NEW b \in Seq(E)
        PROVE  /\ a \o b \in Seq(E)
               /\ \A e : has(a, e) \/ has(b, e) => has(a \o b, e)
    <2> HIDE DEF E
    <2>1. /\ a \o b \in Seq(E) /\ DOMAIN (a \o b) = 1 .. Len(a) + Len(b)
          /\ DOMAIN a = 1 .. Len(a) /\ DOMAIN b = 1 .. Len(b)
          /\ Len(a) \in Nat /\ Len(b) \in Nat
          /\ \A i \in 1 .. Len(a) : (a \o b)[i] = a[i]
          /\ \A i \in 1 .. Len(b) : (a \o b)[Len(a) + i] = b[i]
      OBVIOUS
    <2>2. ASSUME NEW e, has(a, e) PROVE has(a \o b, e)
      BY <2>1, <2>2
    <2>3. ASSUME NEW e, has(b, e) PROVE has(a \o b, e)
      <3>1. PICK i \in 1 .. Len(b) : b[i] = e
        BY <2>1, <2>3
      <3>2. Len(a) + i \in DOMAIN (a \o b) /\ (a \o b)[Len(a) + i] = e
        BY <2>1, <3>1
      <3> QED
        BY <3>2
    <2> QED
      BY <2>1, <2>2, <2>3
  <1> DEFINE q1 == new(0) \o new(1)
             q2 == q1 \o new(2)
             q3 == q2 \o new(3)
             q4 == q3 \o new(4)
             q == q4 \o new(5)
  <1>5. q = NewServos(l, W)
    BY DEF NewServos
  <1> HIDE DEF E, new, has, q1, q2, q3, q4, q
  <1>6. /\ q1 \in Seq(E)
        /\ \A e : has(new(0), e) \/ has(new(1), e) => has(q1, e)
    BY <1>2, <1>4 DEF q1
  <1>7. q2 \in Seq(E) /\ \A e : has(q1, e) \/ has(new(2), e) => has(q2, e)
    BY <1>2, <1>4, <1>6 DEF q2
  <1>8. q3 \in Seq(E) /\ \A e : has(q2, e) \/ has(new(3), e) => has(q3, e)
    BY <1>2, <1>4, <1>7 DEF q3
  <1>9. q4 \in Seq(E) /\ \A e : has(q3, e) \/ has(new(4), e) => has(q4, e)
    BY <1>2, <1>4, <1>8 DEF q4
  <1>10. q \in Seq(E) /\ \A e : has(q4, e) \/ has(new(5), e) => has(q, e)
    BY <1>2, <1>4, <1>9 DEF q
  <1>11. \A v \in W : has(q, NewPulse(v))
    <2> SUFFICES ASSUME NEW v \in W PROVE has(q, NewPulse(v))
      OBVIOUS
    <2>1. v = 0 \/ v = 1 \/ v = 2 \/ v = 3 \/ v = 4 \/ v = 5
      BY DEF ServoNumbers
    <2>2. has(new(v), NewPulse(v))
      BY <1>3
    <2> QED
      BY <1>6, <1>7, <1>8, <1>9, <1>10, <2>1, <2>2
  <1>12. \A i \in DOMAIN q : q[i] \in E
    BY <1>10
  <1>13. \A i \in DOMAIN q : \E v \in W : q[i] \in {NewPulse(v), NewPeriod(v)}
    BY <1>12 DEF E
  <1> QED
    BY <1>5, <1>10, <1>11, <1>13 DEF E, has

LEMMA InitTopics == Init => TopicsInv
  <1> SUFFICES ASSUME Init PROVE TopicsInv
    OBVIOUS
  <1> DEFINE q == NewServos(library, Servos)
  <1>1. /\ setup \in Setups /\ library \in Libraries /\ nt = << >>
        /\ todo = q /\ called = << >>
    BY DEF Init
  <1>2. Servos \subseteq ServoNumbers
    BY <1>1, SetupTypes
  <1>3. /\ \A i \in DOMAIN q :
               \E v \in Servos : q[i] \in {NewPulse(v), NewPeriod(v)}
        /\ \A v \in Servos : \E i \in DOMAIN q : q[i] = NewPulse(v)
        /\ q \in Seq({NewPulse(v) : v \in Servos}
                         \cup {NewPeriod(v) : v \in Servos})
    BY <1>1, <1>2, ServosPublish
  <1>4. ProgramTyped
    BY <1>1 DEF ProgramTyped
  <1>5. \A d, ch, ty, M : LastOf(d, ch, ty, M) = NoCall
    BY <1>1 DEF LastOf, NoCall
  <1>6. DOMAIN nt = {}
    BY <1>1
  <1> HIDE DEF q
  <1>7. TopicsTyped
    <2>1. \A v \in Servos : NewPulse(v) \in Published /\ NewPeriod(v) \in Published
      BY <1>2 DEF NewPulse, NewPeriod, Pub, Published, NumberTopics
    <2>2. {NewPulse(v) : v \in Servos} \cup {NewPeriod(v) : v \in Servos}
              \subseteq Published
      BY <2>1
    <2>3. q \in Seq(Published)
      BY <1>3, <2>2
    <2> QED
      BY <1>1, <1>6, <2>3 DEF TopicsTyped
  <1>8. \A m, x : Never(nt, todo, MotorTopic(m, x))
    BY <1>1, <1>3, <1>6 DEF Never, Silent, NewPulse, NewPeriod, Pub, MotorTopic,
                            ServoTopic
  <1>9. \A m, ty, x : Never(nt, todo, PidTopic(m, ty, x))
    BY <1>1, <1>3, <1>6 DEF Never, Silent, NewPulse, NewPeriod, Pub, PidTopic,
                            ServoTopic
  <1>10. BoundsFirst(nt, todo)
    BY <1>9 DEF BoundsFirst, BoundFirst, Never, Silent
  <1>11. \A m : MotorFollows(nt, todo, m)
    BY <1>5, <1>8 DEF MotorFollows, Follows, PowerCall, ReverseCall, ScaleCall,
                      NoCall
  <1>12. \A m, ty : PidFollows(nt, todo, m, ty) /\ ContinuousFollows(nt, todo, m, ty)
    BY <1>5, <1>9 DEF PidFollows, ContinuousFollows, Follows, GainCall, FeedCall,
                      ContinuousCall, NoCall
  <1>13. \A v \in Servos : ServoFollows(nt, todo, v)
    <2> SUFFICES ASSUME NEW v \in Servos PROVE ServoFollows(nt, todo, v)
      OBVIOUS
    <2>1. PulseCall(v).method = "none"
      BY <1>5 DEF PulseCall, NoCall
    <2>2. Says(todo, ServoTopic(v, "pulseWidth"), 1500)
      <3>1. \A w : /\ NewPulse(w).topic = ServoTopic(w, "pulseWidth")
                   /\ NewPulse(w).value = 1500
                   /\ NewPeriod(w).topic # ServoTopic(v, "pulseWidth")
        BY DEF NewPulse, NewPeriod, Pub, ServoTopic
      <3>2. \A i \in DOMAIN todo :
                \E w \in Servos : todo[i] = NewPulse(w) \/ todo[i] = NewPeriod(w)
        BY <1>1, <1>3
      <3>3. \A i \in DOMAIN todo : todo[i].topic = ServoTopic(v, "pulseWidth")
                                      => todo[i].value = 1500
        BY <3>1, <3>2
      <3>4. \E i \in DOMAIN todo : todo[i] = NewPulse(v)
        BY <1>1, <1>3
      <3> QED
        BY <3>1, <3>3, <3>4 DEF Says
    <2> QED
      BY <2>1, <2>2 DEF ServoFollows, Gets
  <1> QED
    BY <1>4, <1>7, <1>10, <1>11, <1>12, <1>13 DEF TopicsInv

\* The actions of the daemon leave the topics and the program alone.
LEMMA DaemonTopics ==
    ASSUME TopicsInv, Transaction \/ TransactionFails \/ UNCHANGED vars
    PROVE  TopicsInv'
  <1>1. UNCHANGED <<setup, library, nt, todo, called>>
    BY DEF Transaction, SendInitial, BatteryAnswer, BulkAnswer, SendCommands,
           TransactionFails, vars
  <1>2. \A d, ch, ty, M : LastOf(d, ch, ty, M)' = LastOf(d, ch, ty, M)
    BY <1>1 DEF LastOf
  <1>3. ProgramTyped' /\ TopicsTyped' /\ BoundsFirst(nt, todo)' /\ Servos' = Servos
    BY <1>1 DEF TopicsInv, ProgramTyped, TopicsTyped, BoundsFirst, Servos
  <1>4. \A m \in MotorNumbers : MotorFollows(nt, todo, m)'
    BY <1>1, <1>2 DEF TopicsInv, MotorFollows, PowerCall, ReverseCall, ScaleCall
  <1>5. \A m \in MotorNumbers, type \in PidTypes : PidFollows(nt, todo, m, type)'
    BY <1>1, <1>2 DEF TopicsInv, PidFollows, GainCall, FeedCall
  <1>6. \A m \in MotorNumbers, type \in PidTypes :
            ContinuousFollows(nt, todo, m, type)'
    BY <1>1, <1>2 DEF TopicsInv, ContinuousFollows, ContinuousCall
  <1>7. \A v \in Servos : ServoFollows(nt, todo, v)'
    BY <1>1, <1>2 DEF TopicsInv, ServoFollows, PulseCall
  <1> QED
    BY <1>3, <1>4, <1>5, <1>6, <1>7 DEF TopicsInv

LEMMA TopicsStep == TopicsInv /\ [Next]_vars => TopicsInv'
  BY CallTopics, PublishTopics, DaemonTopics DEF Next

LEMMA TopicsFollowCalls == Spec => []TopicsInv
  BY InitTopics, TopicsStep, PTL DEF Spec

\* Everything the libraries publish has a subscriber in the daemon, for every
\* robot and every program: no topic name of a library is spelled otherwise.
THEOREM EveryTopicIsRead == Spec => []NoTopicUnread
  <1>1. \A t \in NumberTopics \cup FlagTopics :
            \E m : \/ \E f \in DOMAIN DaemonMotor : t = MotorTopic(m, DaemonMotor[f])
                   \/ \E f \in DOMAIN DaemonServo : t = ServoTopic(m, DaemonServo[f])
                   \/ \E f \in DOMAIN DaemonPid, type \in PidTypes :
                          t = PidTopic(m, type, DaemonPid[f])
    <2>1. \A x \in {"mode", "setpoint", "distancePerCount", "enabled",
                    "floatOn0", "reversed", "resetEncoder"} :
              \E f \in DOMAIN DaemonMotor : DaemonMotor[f] = x
      BY DEF DaemonMotor
    <2>2. \A x \in {"pulseWidth", "framePeriod", "enabled"} :
              \E f \in DOMAIN DaemonServo : DaemonServo[f] = x
      BY DEF DaemonServo
    <2>3. \A x \in {"kp", "ki", "kd", "ks", "kv", "ka", "continuous",
                    "continuousMinimum", "continousMaximum"} :
              \E f \in DOMAIN DaemonPid : DaemonPid[f] = x
      BY DEF DaemonPid
    <2> QED
      BY <2>1, <2>2, <2>3 DEF NumberTopics, FlagTopics
  <1>2. \A m, x, type : /\ MotorTopic(m, x)[2] = m /\ ServoTopic(m, x)[2] = m
                        /\ PidTopic(m, type, x)[2] = m
    BY DEF MotorTopic, ServoTopic, PidTopic
  <1>3. TopicsInv => NoTopicUnread
    <2> SUFFICES ASSUME TopicsInv, NEW t \in DOMAIN nt
                 PROVE  \/ \E f \in DOMAIN DaemonMotor :
                               t = MotorTopic(t[2], DaemonMotor[f])
                        \/ \E f \in DOMAIN DaemonServo :
                               t = ServoTopic(t[2], DaemonServo[f])
                        \/ \E f \in DOMAIN DaemonPid, type \in PidTypes :
                               t = PidTopic(t[2], type, DaemonPid[f])
      BY DEF NoTopicUnread
    <2>1. t \in NumberTopics \cup FlagTopics
      BY PublicationTypes DEF TopicsInv, TopicsTyped
    <2>2. PICK m : \/ \E f \in DOMAIN DaemonMotor : t = MotorTopic(m, DaemonMotor[f])
                   \/ \E f \in DOMAIN DaemonServo : t = ServoTopic(m, DaemonServo[f])
                   \/ \E f \in DOMAIN DaemonPid, type \in PidTypes :
                          t = PidTopic(m, type, DaemonPid[f])
      BY <1>1, <2>1
    <2>3. t[2] = m
      BY <1>2, <2>2
    <2> QED
      BY <2>2, <2>3
  <1> QED
    BY <1>3, TopicsFollowCalls, PTL

\* The daemon never computes with continuous input before both of its bounds
\* have arrived, for every program and at whatever moment it reads.
THEOREM BoundsArriveFirst == Spec => []ContinuousHasBounds
  <1>1. TopicsInv => ContinuousHasBounds
    <2> SUFFICES ASSUME TopicsInv, NEW m \in Motors, NEW type \in PidTypes,
                        GetPid(m, type, "continuousSubscriber", FALSE)
                 PROVE  \A s \in {"continuousMinimumSubscriber",
                                 "continuousMaximumSubscriber"} :
                            PidTopic(m, type, DaemonPid[s]) \in DOMAIN nt
      BY DEF ContinuousHasBounds
    <2> DEFINE on == PidTopic(m, type, "continuous")
    <2>1. m \in MotorNumbers
      BY SetupTypes DEF TopicsInv, ProgramTyped
    <2>2. on \in DOMAIN nt /\ nt[on]
      <3>1. DaemonPid["continuousSubscriber"] = "continuous"
        BY DEF DaemonPid
      <3> QED
        BY <3>1 DEF GetPid, Get
    <2>3. nt[on] = On
      <3>1. Pub(on, nt[on]) \in Published /\ on \notin NumberTopics
        BY <2>1, <2>2, NumberOrFlag DEF TopicsInv, TopicsTyped
      <3>2. nt[on] \in BOOLEAN
        BY <3>1, PublicationTypes
      <3> QED
        BY <2>2, <3>2 DEF On
    <2>4. \A b \in {"continuousMinimum", "continousMaximum"} :
              PidTopic(m, type, b) \in DOMAIN nt
      BY <2>1, <2>2, <2>3 DEF TopicsInv, BoundsFirst, BoundFirst
    <2>5. /\ DaemonPid["continuousMinimumSubscriber"] = "continuousMinimum"
          /\ DaemonPid["continuousMaximumSubscriber"] = "continousMaximum"
      BY DEF DaemonPid
    <2> QED
      BY <2>4, <2>5
  <1> QED
    BY <1>1, TopicsFollowCalls, PTL

(***************************************************************************)
(* What the daemon reads when nothing is left to publish.                  *)
(***************************************************************************)

LEMMA LastCalls ==
    ASSUME ProgramTyped, NEW d, NEW ch, NEW ty, NEW M
    PROVE  \/ LastOf(d, ch, ty, M) = NoCall /\ LastOf(d, ch, ty, M).method = "none"
           \/ /\ IsCall(LastOf(d, ch, ty, M))
              /\ LastOf(d, ch, ty, M).method # "none"
              /\ Asks(LastOf(d, ch, ty, M), d, ch, ty, M)
  BY SetupTypes, LastOfKind DEF ProgramTyped, NoCall

LEMMA NoCallArgs ==
    ASSUME NEW c, c = NoCall
    PROVE  c.method = "none" /\ c.args[1] = 0 /\ c.args[2] = 0 /\ c.args[3] = 0
  BY DEF NoCall

LEMMA Reads ==
    ASSUME NEW t, NEW c, NEW x, NEW default, Follows(nt, << >>, t, c, x)
    PROVE  Get(t, default) = IF c.method = "none" THEN default ELSE x
  BY DEF Follows, Never, Gets, Says, Get

LEMMA PowerCallKinds ==
    ASSUME ProgramTyped, NEW m
    PROVE  \/ PowerCall(m) = NoCall
           \/ /\ PowerCall(m).method \in DOMAIN ModeOf
              /\ PowerCall(m).args[1] \in Int
              /\ PowerCall(m).method = "follow" => PowerCall(m).args[1] % 1000 = 0
  BY LastCalls, CallArgs DEF PowerCall, Asks

LEMMA MotorReads ==
    ASSUME TopicsInv, todo = << >>, NEW m \in MotorNumbers
    PROVE  /\ GetMotor(m, "modeSubscriber", 0) =
                  IF PowerCall(m).method = "none" THEN 0
                  ELSE ModeOf[PowerCall(m).method]
           /\ GetMotor(m, "setpointSubscriber", 0) = PowerCall(m).args[1]
           /\ Reversed(m) = Direction(m)
           /\ DistancePerCount(m) = Scale(m)
  <1>1. /\ Follows(nt, << >>, MotorTopic(m, "mode"), PowerCall(m),
                   ModeOf[PowerCall(m).method])
        /\ Follows(nt, << >>, MotorTopic(m, "setpoint"), PowerCall(m),
                   PowerCall(m).args[1])
        /\ Follows(nt, << >>, MotorTopic(m, "reversed"), ReverseCall(m),
                   ReverseCall(m).args[1])
        /\ Follows(nt, << >>, MotorTopic(m, "distancePerCount"), ScaleCall(m),
                   ScaleCall(m).args[1])
    BY DEF TopicsInv, MotorFollows
  <1>2. \A x : /\ GetMotor(m, "modeSubscriber", x) = Get(MotorTopic(m, "mode"), x)
               /\ GetMotor(m, "setpointSubscriber", x)
                      = Get(MotorTopic(m, "setpoint"), x)
               /\ GetMotor(m, "reversedSubscriber", x)
                      = Get(MotorTopic(m, "reversed"), x)
               /\ GetMotor(m, "distancePerCountSubscriber", x)
                      = Get(MotorTopic(m, "distancePerCount"), x)
    BY DEF GetMotor, DaemonMotor
  <1>3. GetMotor(m, "modeSubscriber", 0) =
            IF PowerCall(m).method = "none" THEN 0 ELSE ModeOf[PowerCall(m).method]
    BY <1>1, <1>2, Reads
  <1>4. GetMotor(m, "setpointSubscriber", 0) = PowerCall(m).args[1]
    <2>1. PowerCall(m).method = "none" => PowerCall(m).args[1] = 0
      BY LastCalls, NoCallArgs DEF TopicsInv, PowerCall
    <2> QED
      BY <1>1, <1>2, <2>1, Reads
  <1>5. Reversed(m) = Direction(m)
    <2> DEFINE off == FALSE
               c == ReverseCall(m)
               r == GetMotor(m, "reversedSubscriber", FALSE)
    <2>1. r = GetMotor(m, "reversedSubscriber", off)
      OBVIOUS
    <2>2. \/ c.method = "none"
          \/ c.method = "setReversed" /\ c.args[1] \in BOOLEAN
      <3>1. \/ c.method = "none"
            \/ IsCall(c) /\ c.device = "motor" /\ c.method = "setReversed"
        BY LastCalls DEF TopicsInv, ReverseCall, Asks
      <3> QED
        BY <3>1, CallArgs DEF MotorField
    <2>3. /\ Reversed(m) = IF r THEN -1 ELSE 1
          /\ Direction(m) = IF c.method = "setReversed" /\ c.args[1] THEN -1 ELSE 1
      BY DEF Reversed, Direction, ReverseCall
    <2>4. Follows(nt, << >>, MotorTopic(m, "reversed"), c, c.args[1])
      BY <1>1
    <2> HIDE DEF off, c, r
    <2>5. r = IF c.method = "none" THEN off ELSE c.args[1]
      BY <1>2, <2>1, <2>4, Reads
    <2>6. CASE c.method = "none"
      <3>1. r = FALSE /\ c.method # "setReversed"
        BY <2>5, <2>6 DEF off
      <3> QED
        BY <2>3, <3>1, Zenon
    <2>7. CASE c.method = "setReversed" /\ c.args[1] \in BOOLEAN
      <3>1. r = c.args[1]
        BY <2>5, <2>7
      <3>2. CASE c.args[1] = TRUE
        <4>1. r /\ c.method = "setReversed" /\ c.args[1]
          BY <2>7, <3>1, <3>2
        <4> QED
          BY <2>3, <4>1, Zenon
      <3>3. CASE c.args[1] = FALSE
        <4>1. ~r /\ ~c.args[1]
          BY <3>1, <3>3
        <4> QED
          BY <2>3, <4>1, Zenon
      <3> QED
        BY <2>7, <3>2, <3>3
    <2> QED
      BY <2>2, <2>6, <2>7
  <1>6. DistancePerCount(m) = Scale(m)
    <2>1. GetMotor(m, "distancePerCountSubscriber", 0) = ScaleCall(m).args[1]
      <3>1. ScaleCall(m).method = "none" => ScaleCall(m).args[1] = 0
        BY LastCalls, NoCallArgs DEF TopicsInv, ScaleCall
      <3> QED
        BY <1>1, <1>2, <3>1, Reads
    <2> QED
      BY <2>1 DEF DistancePerCount, Scale, ScaleCall
  <1> QED
    BY <1>3, <1>4, <1>5, <1>6

LEMMA PidReads ==
    ASSUME TopicsInv, todo = << >>, NEW m \in MotorNumbers, NEW type \in PidTypes
    PROVE  /\ GetPid(m, type, "pSubscriber", 0) = GainCall(m, type).args[1]
           /\ GetPid(m, type, "iSubscriber", 0) = GainCall(m, type).args[2]
           /\ GetPid(m, type, "dSubscriber", 0) = GainCall(m, type).args[3]
           /\ GetPid(m, type, "sSubscriber", 0) = FeedCall(m, type).args[1]
           /\ GetPid(m, type, "vSubscriber", 0) = FeedCall(m, type).args[2]
  <1> DEFINE t(x) == PidTopic(m, type, x)
             gain == GainCall(m, type)
             feed == FeedCall(m, type)
  <1>1. /\ Follows(nt, << >>, t("kp"), gain, gain.args[1])
        /\ Follows(nt, << >>, t("ki"), gain, gain.args[2])
        /\ Follows(nt, << >>, t("kd"), gain, gain.args[3])
        /\ Follows(nt, << >>, t("ks"), feed, feed.args[1])
        /\ Follows(nt, << >>, t("kv"), feed, feed.args[2])
    BY DEF TopicsInv, PidFollows
  <1>2. /\ GetPid(m, type, "pSubscriber", 0) = Get(t("kp"), 0)
        /\ GetPid(m, type, "iSubscriber", 0) = Get(t("ki"), 0)
        /\ GetPid(m, type, "dSubscriber", 0) = Get(t("kd"), 0)
        /\ GetPid(m, type, "sSubscriber", 0) = Get(t("ks"), 0)
        /\ GetPid(m, type, "vSubscriber", 0) = Get(t("kv"), 0)
    BY DEF GetPid, DaemonPid
  <1>3. /\ gain.method = "none" => gain.args[1] = 0 /\ gain.args[2] = 0
                                   /\ gain.args[3] = 0
        /\ feed.method = "none" => feed.args[1] = 0 /\ feed.args[2] = 0
    BY LastCalls, NoCallArgs DEF TopicsInv, GainCall, FeedCall
  <1> HIDE DEF t, gain, feed
  <1>4. Get(t("kp"), 0) = gain.args[1]
    BY <1>1, <1>3, Reads
  <1>5. Get(t("ki"), 0) = gain.args[2]
    BY <1>1, <1>3, Reads
  <1>6. Get(t("kd"), 0) = gain.args[3]
    BY <1>1, <1>3, Reads
  <1>7. Get(t("ks"), 0) = feed.args[1]
    BY <1>1, <1>3, Reads
  <1>8. Get(t("kv"), 0) = feed.args[2]
    BY <1>1, <1>3, Reads
  <1> QED
    BY <1>2, <1>4, <1>5, <1>6, <1>7, <1>8 DEF gain, feed

LEMMA ContinuousReads ==
    ASSUME TopicsInv, todo = << >>, NEW m \in MotorNumbers, NEW type \in PidTypes
    PROVE  LET c == ContinuousCall(m, type)
           IN  /\ GetPid(m, type, "continuousSubscriber", FALSE)
                      <=> c.method = "enableContinuousInput"
               /\ c.method = "enableContinuousInput"
                      => /\ GetPid(m, type, "continuousMinimumSubscriber", 0)
                                = c.args[1]
                         /\ GetPid(m, type, "continuousMaximumSubscriber", 0)
                                = c.args[2]
  <1> DEFINE c == ContinuousCall(m, type)
             on == TRUE
             off == FALSE
  <1>1. /\ c.method = "none"
               => Never(nt, << >>, PidTopic(m, type, "continuous"))
        /\ c.method = "disableContinuousInput"
               => Gets(nt, << >>, PidTopic(m, type, "continuous"), off)
        /\ c.method = "enableContinuousInput"
               => /\ Gets(nt, << >>, PidTopic(m, type, "continuous"), on)
                  /\ Gets(nt, << >>, PidTopic(m, type, "continuousMinimum"), c.args[1])
                  /\ Gets(nt, << >>, PidTopic(m, type, "continousMaximum"), c.args[2])
    BY DEF TopicsInv, ContinuousFollows
  <1>2. \A x : /\ GetPid(m, type, "continuousSubscriber", x)
                      = Get(PidTopic(m, type, "continuous"), x)
               /\ GetPid(m, type, "continuousMinimumSubscriber", x)
                      = Get(PidTopic(m, type, "continuousMinimum"), x)
               /\ GetPid(m, type, "continuousMaximumSubscriber", x)
                      = Get(PidTopic(m, type, "continousMaximum"), x)
    BY DEF GetPid, DaemonPid
  <1>3. c.method \in {"none", "disableContinuousInput", "enableContinuousInput"}
    BY LastCalls DEF TopicsInv, ContinuousCall, Asks
  <1>4. \A t, x, y : /\ Gets(nt, << >>, t, x) => Get(t, y) = x
                     /\ Never(nt, << >>, t) => Get(t, y) = y
    BY DEF Gets, Says, Never, Get
  <1> DEFINE flag == GetPid(m, type, "continuousSubscriber", FALSE)
  <1>5. flag = GetPid(m, type, "continuousSubscriber", off)
    OBVIOUS
  <1> HIDE DEF c, on, off, flag
  <1>6. /\ c.method = "enableContinuousInput" => flag = on
        /\ c.method # "enableContinuousInput" => flag = off
    BY <1>1, <1>2, <1>3, <1>4, <1>5
  <1>7. c.method = "enableContinuousInput"
            => /\ GetPid(m, type, "continuousMinimumSubscriber", 0) = c.args[1]
               /\ GetPid(m, type, "continuousMaximumSubscriber", 0) = c.args[2]
    BY <1>1, <1>2, <1>4
  <1>8. flag <=> c.method = "enableContinuousInput"
    BY <1>6, Zenon DEF on, off
  <1> QED
    BY <1>7, <1>8 DEF c, flag

(***************************************************************************)
(* Arithmetic.                                                             *)
(***************************************************************************)

\* The remainder of C has the sign of its first argument.
LEMMA RemFacts ==
    ASSUME NEW x \in Int, NEW d \in Int
    PROVE  /\ Rem(x, d) \in Int
           /\ d > 0 => /\ \E k \in Int : x = k * d + Rem(x, d)
                       /\ x >= 0 => Rem(x, d) \in 0 .. d - 1
                       /\ x <= 0 => -Rem(x, d) \in 0 .. d - 1
  <1>1. \A y, a \in Int : a > 0 => /\ y % a \in 0 .. a - 1
                                   /\ y = (y \div a) * a + (y % a)
                                   /\ y \div a \in Int
    BY Z3
  <1>2. CASE d > 0
    <2>1. CASE x >= 0
      <3>1. Rem(x, d) = x % d
        BY <1>2, <2>1 DEF Rem
      <3>2. x = (x \div d) * d + Rem(x, d) /\ Rem(x, d) \in 0 .. d - 1
            /\ x \div d \in Int
        BY <1>1, <1>2, <3>1
      <3>3. x = 0 => Rem(x, d) = 0
        <4> SUFFICES ASSUME x = 0 PROVE Rem(x, d) = 0
          OBVIOUS
        <4> QED
          BY <1>2, <3>1
      <3>4. \E k \in Int : x = k * d + Rem(x, d)
        BY <3>2
      <3>5. x <= 0 => Rem(x, d) = 0
        BY <2>1, <3>3
      <3> DEFINE r == Rem(x, d)
      <3>6. r \in 0 .. d - 1 /\ (x <= 0 => r = 0)
        BY <3>2, <3>5
      <3> HIDE DEF r
      <3>7. r \in Int /\ (x >= 0 => r \in 0 .. d - 1) /\ (x <= 0 => -r \in 0 .. d - 1)
        BY <1>2, <3>6
      <3> QED
        BY <3>4, <3>7 DEF r
    <2>2. CASE x < 0
      <3>1. Rem(x, d) = -((-x) % d)
        BY <1>2, <2>2 DEF Rem
      <3> DEFINE q == (-x) \div d
                 r == (-x) % d
      <3>2. -x = q * d + r /\ r \in 0 .. d - 1 /\ q \in Int
        BY <1>1, <1>2
      <3> HIDE DEF q, r
      <3>3. x = (-q) * d + (-r) /\ -q \in Int
        BY <3>2
      <3>4. \E k \in Int : x = k * d + Rem(x, d)
        BY <3>1, <3>3 DEF r
      <3> DEFINE s == Rem(x, d)
      <3>5. s = -r
        BY <3>1 DEF r
      <3> HIDE DEF s
      <3>6. s \in Int /\ (x >= 0 => s \in 0 .. d - 1) /\ (x <= 0 => -s \in 0 .. d - 1)
        BY <1>2, <2>2, <3>2, <3>5
      <3> QED
        BY <3>4, <3>6 DEF s
    <2> QED
      BY <2>1, <2>2
  <1>3. CASE d < 0
    <2>1. -d > 0 /\ -d \in Int
      BY <1>3
    <2>2. x % (-d) \in Int /\ (-x) % (-d) \in Int
      BY <1>1, <2>1
    <2> QED
      BY <1>3, <2>2 DEF Rem
  <1>4. CASE d = 0
    BY <1>4 DEF Rem
  <1> QED
    BY <1>2, <1>3, <1>4

\* A remainder is the only one.
LEMMA ModUnique ==
    ASSUME NEW x \in Int, NEW d \in Nat \ {0}, NEW k \in Int,
           NEW r \in 0 .. d - 1, x = k * d + r
    PROVE  x % d = r
  <1> DEFINE q == x \div d
             s == x % d
  <1>1. x = q * d + s /\ s \in 0 .. d - 1 /\ q \in Int
    BY Z3
  <1> HIDE DEF q, s
  <1>2. (k - q) * d = s - r
    BY <1>1
  <1>3. \A i \in Int : i >= 1 => i * d >= d
    OBVIOUS
  <1>4. ~(k - q >= 1)
    BY <1>1, <1>2, <1>3
  <1>5. ~(q - k >= 1)
    <2>1. (q - k) * d = r - s
      BY <1>1
    <2> QED
      BY <1>1, <1>3, <2>1
  <1>6. k = q
    BY <1>1, <1>4, <1>5
  <1> QED
    BY <1>1, <1>2, <1>6 DEF s

\* InputModulus moves a number by multiples of the range to the middle.
LEMMA InputModulusFacts ==
    ASSUME NEW x \in Int, NEW h \in Nat \ {0}
    PROVE  LET y == InputModulus(x, -h, h)
               d == 2 * h
           IN  /\ y \in {x % d, (x % d) - d}
               /\ 2 * y \in -d .. d
  <1> DEFINE d == 2 * h
             r == Rem(x + h, d)
             w == r - d
             s == Rem(w, d)
             y == h + s
  <1>1. d \in Nat \ {0} /\ d \in Int /\ d > 0
    OBVIOUS
  <1>2. InputModulus(x, -h, h) = y
    <2>1. h - (-h) = d /\ x - (-h) = x + h
      OBVIOUS
    <2>2. r \in Int
      BY RemFacts
    <2>3. (-h + r) - h = w
      BY <2>2
    <2> QED
      BY <2>1, <2>3 DEF InputModulus
  <1>3. PICK j \in Int : x + h = j * d + r
    <2>1. x + h \in Int
      OBVIOUS
    <2> HIDE DEF d
    <2> QED
      BY <1>1, <2>1, RemFacts
  <1>4. r \in Int /\ r < d /\ r > -d
    <2>1. x + h \in Int
      OBVIOUS
    <2>2. /\ r \in Int
          /\ x + h >= 0 => r \in 0 .. d - 1
          /\ x + h <= 0 => -r \in 0 .. d - 1
      BY <1>1, <2>1, RemFacts
    <2> HIDE DEF r, d
    <2> QED
      BY <1>1, <2>1, <2>2
  <1>5. w \in Int /\ w < 0
    BY <1>1, <1>4
  <1>6. PICK k \in Int : w = k * d + s
    BY <1>1, <1>5, RemFacts
  <1>7. s \in Int /\ -s \in 0 .. d - 1
    <2> HIDE DEF w, d
    <2> QED
      BY <1>1, <1>5, RemFacts
  <1> HIDE DEF r, s
  <1>8. x = (j + k) * d + y
    <2>1. x = j * d + r - h /\ r = w + d /\ w = k * d + s /\ d = h + h
      BY <1>3, <1>4, <1>6, <1>7
    <2> HIDE DEF w, d, y
    <2>2. y = h + s
      BY DEF y
    <2>3. x = j * d + (k * d + s + d) - h
      BY <2>1, <1>4, <1>5, <1>7
    <2>4. j * d \in Int /\ k * d \in Int /\ (j + k) * d = j * d + k * d
      BY <1>1
    <2> QED
      BY <1>1, <1>7, <2>1, <2>2, <2>3, <2>4
  <1>9. y \in Int /\ 2 * y <= d /\ 2 * y > -d
    BY <1>1, <1>7
  <1>10. y >= 0 => x % d = y
    <2>1. y >= 0 => y \in 0 .. d - 1
      BY <1>1, <1>9
    <2>2. j + k \in Int
      OBVIOUS
    <2> HIDE DEF y, d
    <2> QED
      BY <1>1, <1>8, <2>1, <2>2, ModUnique
  <1>11. y < 0 => x % d = y + d
    <2>1. y < 0 => y + d \in 0 .. d - 1
      BY <1>1, <1>9
    <2> HIDE DEF y, d
    <2>2. x = (j + k - 1) * d + (y + d)
      BY <1>1, <1>8, <1>9
    <2>3. j + k - 1 \in Int
      OBVIOUS
    <2> QED
      BY <1>1, <2>1, <2>2, <2>3, ModUnique
  <1>12. y \in {x % d, (x % d) - d}
    <2> HIDE DEF y, d
    <2> QED
      BY <1>1, <1>9, <1>10, <1>11
  <1>13. 2 * y \in -d .. d
    BY <1>1, <1>9
  <1> QED
    BY <1>2, <1>12, <1>13

LEMMA SignFacts ==
    ASSUME NEW x \in Int
    PROVE  /\ Sign(x) \in {-1, 0, 1} /\ x * Sign(x) \in Nat
           /\ x >= 0 => x * Sign(x) = x
           /\ x <= 0 => x * Sign(x) = -x
           /\ x > 0 <=> Sign(x) = 1
           /\ x < 0 <=> Sign(x) = -1
           /\ x = 0 <=> Sign(x) = 0
  BY DEF Sign

\* A level is cut off at full power, and rounded to 0.
LEMMA LevelFacts ==
    ASSUME NEW p, p.n \in Int, p.d \in Nat \ {0}
    PROVE  /\ Level(p) \in -PowerConversion .. PowerConversion
           /\ IsLevel(Level(p), p.n, p.d)
  <1> DEFINE K == PowerConversion
  <1>0. K \in Nat
    BY DEF PowerConversion
  <1>1. PICK n \in Int, d \in Nat \ {0} : n = p.n /\ d = p.d
    OBVIOUS
  <1>2. PICK c \in Int :
            /\ c = Clamp(n, -d, d)
            /\ n > d => c = d
            /\ n < -d => c = -d
            /\ n \in -d .. d => c = n
    BY DEF Clamp
  <1>3. PICK a \in 0 .. d :
            /\ a = c * Sign(c)
            /\ n * Sign(n) >= d => a = d
            /\ n * Sign(n) < d => a = n * Sign(n)
    <2>1. /\ n >= 0 => n * Sign(n) = n
          /\ n <= 0 => n * Sign(n) = -n
          /\ c >= 0 => c * Sign(c) = c
          /\ c <= 0 => c * Sign(c) = -c
      BY SignFacts
    <2>2. c * Sign(c) \in 0 .. d
      BY <1>2, <2>1
    <2>3. n * Sign(n) >= d => c * Sign(c) = d
      BY <1>2, <2>1
    <2>4. n * Sign(n) < d => c * Sign(c) = n * Sign(n)
      BY <1>2, <2>1
    <2> QED
      BY <2>2, <2>3, <2>4
  <1>4. PICK y \in Nat : y = a * K
    BY <1>0
  <1>5. PICK b \in Int : b = y \div d /\ b * d <= y /\ y < b * d + d
    <2>1. /\ y \div d \in Int /\ y % d \in 0 .. d - 1
          /\ y = (y \div d) * d + (y % d)
      BY Z3
    <2>2. y \div d \in Int /\ (y \div d) * d <= y /\ y < (y \div d) * d + d
      BY <2>1
    <2> QED
      BY <2>2
  <1>6. \A i \in Int : /\ i <= -1 => i * d <= -d
                       /\ i >= 1 => i * d >= d
    OBVIOUS
  <1>7. b \in 0 .. K
    <2>1. ~(b <= -1)
      BY <1>5, <1>6
    <2>2. ~(b - K >= 1)
      <3>1. y <= d * K
        BY <1>0, <1>3, <1>4
      <3>2. (b - K) * d = b * d - K * d
        BY <1>0
      <3> QED
        BY <1>0, <1>5, <1>6, <3>1, <3>2
    <2> QED
      BY <1>0, <2>1, <2>2
  <1>8. a = d => b = K
    <2>1. (K - b) * d = K * d - b * d
      BY <1>0
    <2>2. a = d => ~(K - b >= 1)
      BY <1>0, <1>4, <1>5, <1>6, <2>1
    <2> QED
      BY <1>0, <1>7, <2>2
  <1>9. a = 0 => b = 0
    <2>1. a = 0 => ~(b >= 1)
      BY <1>0, <1>4, <1>5, <1>6
    <2> QED
      BY <1>0, <1>7, <2>1
  <1>10. PICK l \in Int : l = Sign(c) * b
    <2>1. Sign(c) \in Int
      BY SignFacts
    <2> QED
      BY <2>1
  <1>11. /\ c > 0 => l = b /\ n > 0
         /\ c < 0 => l = -b /\ n < 0
         /\ c = 0 => l = 0 /\ b = 0
    <2>1. c = 0 => a = 0
      BY <1>3, SignFacts
    <2>2. /\ c > 0 => Sign(c) = 1
          /\ c < 0 => Sign(c) = -1
          /\ c = 0 => Sign(c) = 0
      BY SignFacts
    <2> QED
      BY <1>2, <1>9, <1>10, <2>1, <2>2
  <1>12. l \in -K .. K /\ l * Sign(l) = b
    <2>1. (l >= 0 => l * Sign(l) = l) /\ (l <= 0 => l * Sign(l) = -l)
      BY SignFacts
    <2>2. l = b \/ l = -b
      BY <1>11
    <2> QED
      BY <1>0, <1>7, <2>1, <2>2
  <1>13. l * n >= 0
    <2>1. b >= 0
      BY <1>0, <1>7
    <2>2. CASE c > 0
      <3>1. l >= 0 /\ n >= 0
        BY <1>11, <2>1, <2>2
      <3> QED
        BY <3>1
    <2>3. CASE c < 0
      <3>1. l <= 0 /\ n <= 0
        BY <1>11, <2>1, <2>3
      <3>2. (-l) * (-n) = l * n /\ -l >= 0 /\ -n >= 0
        BY <3>1
      <3> QED
        BY <3>2
    <2>4. CASE c = 0
      BY <1>11, <2>4
    <2> QED
      BY <2>2, <2>3, <2>4
  <1>14. IF n * Sign(n) >= d THEN b = K
         ELSE /\ b * d <= n * Sign(n) * K
              /\ n * Sign(n) * K < (b + 1) * d
    <2>1. CASE n * Sign(n) >= d
      BY <1>3, <1>8, <2>1
    <2>2. CASE ~(n * Sign(n) >= d)
      <3>1. n * Sign(n) = a
        BY <1>3, <2>2, SignFacts
      <3>2. (b + 1) * d = b * d + d
        OBVIOUS
      <3> QED
        BY <1>4, <1>5, <2>2, <3>1, <3>2
    <2> QED
      BY <2>1, <2>2
  <1>15. IsLevel(l, n, d)
    BY <1>12, <1>13, <1>14 DEF IsLevel
  <1>16. Level(p) = l
    BY <1>1, <1>2, <1>3, <1>4, <1>5, <1>10 DEF Level
  <1> QED
    BY <1>1, <1>12, <1>15, <1>16

(***************************************************************************)
(* Types of what the daemon reads and computes, at any moment.             *)
(***************************************************************************)

LEMMA NumberRead ==
    ASSUME TopicsInv, NEW t, t \notin FlagTopics, NEW x \in Int
    PROVE  Get(t, x) \in Int
  <1>1. t \in DOMAIN nt => nt[t] \in Int
    BY PublicationTypes DEF TopicsInv, TopicsTyped
  <1> QED
    BY <1>1 DEF Get

LEMMA ReadTypes ==
    ASSUME TopicsInv, NEW m \in MotorNumbers
    PROVE  /\ GetMotor(m, "modeSubscriber", 0) \in Int
           /\ GetMotor(m, "setpointSubscriber", 0) \in Int
           /\ DistancePerCount(m) \in Int
           /\ Reversed(m) \in {-1, 1}
           /\ \A type \in PidTypes :
                  \A s \in {"pSubscriber", "iSubscriber", "dSubscriber",
                           "sSubscriber", "vSubscriber",
                           "continuousMinimumSubscriber",
                           "continuousMaximumSubscriber"} :
                      GetPid(m, type, s, 0) \in Int
  <1>1. \A x \in {"mode", "setpoint", "distancePerCount"} :
            Get(MotorTopic(m, x), 0) \in Int
    BY NumberOrFlag, NumberRead
  <1>2. \A type \in PidTypes,
           x \in {"kp", "ki", "kd", "ks", "kv", "continuousMinimum",
                  "continousMaximum"} :
            Get(PidTopic(m, type, x), 0) \in Int
    BY NumberOrFlag, NumberRead
  <1>3. /\ DaemonMotor["modeSubscriber"] = "mode"
        /\ DaemonMotor["setpointSubscriber"] = "setpoint"
        /\ DaemonMotor["distancePerCountSubscriber"] = "distancePerCount"
    BY DEF DaemonMotor
  <1>4. \A s \in {"pSubscriber", "iSubscriber", "dSubscriber", "sSubscriber",
                 "vSubscriber", "continuousMinimumSubscriber",
                 "continuousMaximumSubscriber"} :
            DaemonPid[s] \in {"kp", "ki", "kd", "ks", "kv", "continuousMinimum",
                              "continousMaximum"}
    BY DEF DaemonPid
  <1>5. \A type \in PidTypes :
            \A s \in {"pSubscriber", "iSubscriber", "dSubscriber",
                     "sSubscriber", "vSubscriber",
                     "continuousMinimumSubscriber",
                     "continuousMaximumSubscriber"} :
                GetPid(m, type, s, 0) \in Int
    BY <1>2, <1>4 DEF GetPid
  <1>6. /\ GetMotor(m, "modeSubscriber", 0) \in Int
        /\ GetMotor(m, "setpointSubscriber", 0) \in Int
        /\ GetMotor(m, "distancePerCountSubscriber", 0) \in Int
    BY <1>1, <1>3 DEF GetMotor
  <1> QED
    BY <1>5, <1>6 DEF DistancePerCount, Reversed

LEMMA PulseWidthType ==
    ASSUME TopicsInv, NEW v \in ServoNumbers
    PROVE  PulseWidth(v) \in 0 .. UInt16 - 1
  <1>1. Get(ServoTopic(v, "pulseWidth"), 1500) \in Int
    BY NumberOrFlag, NumberRead
  <1>2. PICK x \in Int : PulseWidth(v) = x % UInt16
    BY <1>1 DEF PulseWidth, DaemonServo
  <1>3. UInt16 \in Nat \ {0}
    BY DEF UInt16
  <1> QED
    BY <1>2, <1>3

LEMMA SetEncoderType ==
    ASSUME TopicsInv, NEW m \in MotorNumbers, NEW raw \in [Readings -> Int]
    PROVE  SetEncoder(m, raw) \in [Readings -> Int]
  <1>1. DistancePerCount(m) \in Int /\ Reversed(m) \in Int
    BY ReadTypes
  <1>2. \A r \in Readings : raw[r] * Reversed(m) * DistancePerCount(m) * 1000 \in Int
    BY <1>1
  <1> QED
    BY <1>2 DEF SetEncoder

LEMMA ErrorType ==
    ASSUME TopicsInv, NEW m \in MotorNumbers, NEW type \in PidTypes,
           NEW x \in Int, NEW y \in Int
    PROVE  Error(m, type, x, y) \in Int
  <1>1. PICK low \in Int, high \in Int :
            /\ low = GetPid(m, type, "continuousMinimumSubscriber", 0)
            /\ high = GetPid(m, type, "continuousMaximumSubscriber", 0)
    BY ReadTypes
  <1>2. PICK b \in Int : b = (high - low) \div 2
    OBVIOUS
  <1>3. InputModulus(x - y, -b, b) \in Int
    <2>1. PICK d \in Int, u \in Int : d = b - (-b) /\ u = (x - y) - (-b)
      OBVIOUS
    <2>2. PICK z \in Int : z = -b + Rem(u, d)
      <3>1. Rem(u, d) \in Int
        BY RemFacts
      <3> QED
        BY <3>1
    <2>3. Rem(z - b, d) \in Int
      BY RemFacts
    <2>4. InputModulus(x - y, -b, b) = b + Rem(z - b, d)
      BY <2>1, <2>2 DEF InputModulus
    <2> QED
      BY <2>3, <2>4
  <1>4. \/ Error(m, type, x, y) = InputModulus(x - y, -b, b)
        \/ Error(m, type, x, y) = x - y
    BY <1>1, <1>2, Zenon DEF Error
  <1> QED
    BY <1>3, <1>4

LEMMA ComputeType ==
    ASSUME TopicsInv, NEW m \in MotorNumbers, NEW type \in PidTypes,
           NEW x \in Int, NEW y \in Int, NEW c \in Terms
    PROVE  Compute(m, type, x, y, c) \in Int
  <1>1. /\ GetPid(m, type, "pSubscriber", 0) \in Int
        /\ GetPid(m, type, "iSubscriber", 0) \in Int
        /\ GetPid(m, type, "dSubscriber", 0) \in Int
        /\ GetPid(m, type, "sSubscriber", 0) \in Int
        /\ GetPid(m, type, "vSubscriber", 0) \in Int
    BY ReadTypes
  <1>2. Error(m, type, x, y) \in Int
    BY ErrorType
  <1>3. Sign(x) \in Int
    BY DEF Sign
  <1>4. c.total \in Int /\ c.slope \in Int
    BY DEF Terms
  <1> QED
    BY <1>1, <1>2, <1>3, <1>4 DEF Compute

\* A power is a fraction.
IsPower(p) == p.n \in Int /\ p.d \in Nat \ {0} /\ p.second \in Int

LEMMA ComputedPowerType ==
    ASSUME TopicsInv, ControlTypeOK, NEW m \in Motors,
           NEW c \in [Motors -> Terms]
    PROVE  IsPower(ComputeMotorPower(m, c))
  <1>1. /\ m \in MotorNumbers /\ lastBattery \in Int /\ c[m] \in Terms
        /\ lastEncoder[m]["position"] \in Int /\ lastEncoder[m]["velocity"] \in Int
    BY SetupTypes DEF ControlTypeOK, Readings
  <1>2. PICK x \in Int, mode \in Int, r \in Int :
            /\ x = GetMotor(m, "setpointSubscriber", 0)
            /\ mode = GetMotor(m, "modeSubscriber", 0)
            /\ r = Reversed(m)
    <2>1. Reversed(m) \in Int
      BY <1>1, ReadTypes
    <2> QED
      BY <1>1, <2>1, ReadTypes
  <1>3. PICK p \in Int, v \in Int :
            /\ p = Compute(m, "position", x, lastEncoder[m]["position"], c[m])
            /\ v = Compute(m, "velocity", x, lastEncoder[m]["velocity"], c[m])
    BY <1>1, ComputeType DEF PidTypes
  <1>4. TruncateToInt(x) \in Int
    <2>1. x * Sign(x) \in Nat /\ Sign(x) \in Int
      BY SignFacts
    <2>2. (x * Sign(x)) \div 1000 \in Int
      BY <2>1
    <2> QED
      BY <2>1, <2>2 DEF TruncateToInt
  <1>5. \A a \in Int, b \in Int \ {0} : IsPower(Own(a, b))
    BY DEF IsPower, Own
  <1>6. \/ lastBattery = 0 /\ ComputeMotorPower(m, c) = Own(0, 1)
        \/ /\ lastBattery # 0
           /\ \/ ComputeMotorPower(m, c) = Own(x * r, lastBattery)
              \/ ComputeMotorPower(m, c) = Own(p * r, lastBattery)
              \/ ComputeMotorPower(m, c) = Own(v * r, lastBattery)
        \/ ComputeMotorPower(m, c) = [n |-> 0, d |-> 1, second |-> TruncateToInt(x)]
        \/ ComputeMotorPower(m, c) = Own(x * r, 1000)
    <2> DEFINE w == ComputeMotorPower(m, c)
    <2>1. w = IF lastBattery = 0 THEN Own(0, 1)
              ELSE CASE mode = 1 -> Own(x * r, lastBattery)
                     [] mode = 2 -> Own(p * r, lastBattery)
                     [] mode = 3 -> Own(v * r, lastBattery)
                     [] mode = 4 -> [n |-> 0, d |-> 1, second |-> TruncateToInt(x)]
                     [] OTHER -> Own(x * r, 1000)
      BY <1>2, <1>3 DEF ComputeMotorPower
    <2> HIDE DEF w
    <2>2. \/ lastBattery = 0 /\ w = Own(0, 1)
          \/ lastBattery # 0 /\ \/ w = Own(x * r, lastBattery)
                                \/ w = Own(p * r, lastBattery)
                                \/ w = Own(v * r, lastBattery)
          \/ w = [n |-> 0, d |-> 1, second |-> TruncateToInt(x)]
          \/ w = Own(x * r, 1000)
      <3>1. CASE lastBattery = 0
        BY <2>1, <3>1, Zenon
      <3>2. CASE lastBattery # 0 /\ mode \in {1, 2, 3, 4}
        <4>1. /\ mode = 1 => w = Own(x * r, lastBattery)
              /\ mode = 2 => w = Own(p * r, lastBattery)
              /\ mode = 3 => w = Own(v * r, lastBattery)
              /\ mode = 4 => w = [n |-> 0, d |-> 1, second |-> TruncateToInt(x)]
          BY <2>1, <3>2
        <4> QED
          BY <3>2, <4>1, Zenon
      <3>3. CASE lastBattery # 0 /\ mode \notin {1, 2, 3, 4}
        BY <2>1, <3>3
      <3> QED
        BY <3>1, <3>2, <3>3, Zenon
    <2> QED
      BY <2>2 DEF w
  <1>7. IsPower([n |-> 0, d |-> 1, second |-> TruncateToInt(x)])
    BY <1>4 DEF IsPower
  <1>8. /\ IsPower(Own(0, 1)) /\ IsPower(Own(x * r, 1000))
        /\ lastBattery # 0 => /\ IsPower(Own(x * r, lastBattery))
                              /\ IsPower(Own(p * r, lastBattery))
                              /\ IsPower(Own(v * r, lastBattery))
    BY <1>1, <1>5
  <1> QED
    BY <1>6, <1>7, <1>8

LEMMA FollowedType ==
    ASSUME TopicsInv, ControlTypeOK, NEW m \in Motors,
           NEW c \in [Motors -> Terms]
    PROVE  IsPower(Followed(m, c))
  <1>1. IsPower(Own(0, 1))
    BY DEF IsPower, Own
  <1> QED
    BY <1>1, ComputedPowerType DEF Followed

(***************************************************************************)
(* Transactions.                                                           *)
(***************************************************************************)

\* What a transaction without publications in its way read and sent is what
\* it would still read and send.
TransactionHolds ==
    calm => /\ stage \in {"bulk", "idle"} =>
                   lastEncoder = [m \in Motors |-> SetEncoder(m, reported[m])]
            /\ stage = "idle" => level = [m \in Motors |-> Level(Followed(m, memory))]
            /\ \A v \in Servos : PulseWidth(v) \in {0, pulse[v]}

ControlInv == TopicsInv /\ ControlTypeOK /\ TransactionHolds

\* What is computed from the topics changes with them only.
LEMMA ReadsSame ==
    ASSUME UNCHANGED <<setup, nt>>
    PROVE  /\ \A m : /\ Reversed(m)' = Reversed(m)
                     /\ DistancePerCount(m)' = DistancePerCount(m)
           /\ \A v : PulseWidth(v)' = PulseWidth(v)
           /\ Motors' = Motors /\ Servos' = Servos
           /\ Batteries' = Batteries /\ Positions' = Positions
  BY DEF Reversed, DistancePerCount, GetMotor, Get, PulseWidth, Motors, Servos,
         Batteries, Positions

LEMMA FollowedSame ==
    ASSUME UNCHANGED <<setup, nt, lastBattery, lastEncoder>>
    PROVE  \A m : Followed(m, memory)' = Followed(m, memory')
  <1>1. /\ \A m, s, x : GetMotor(m, s, x)' = GetMotor(m, s, x)
        /\ \A m, type, s, x : GetPid(m, type, s, x)' = GetPid(m, type, s, x)
    BY DEF GetMotor, GetPid, Get
  <1>2. ASSUME NEW m, NEW type, NEW x, NEW y
        PROVE  Compute(m, type, x, y, memory[m])'
                   = Compute(m, type, x, y, memory'[m])
    <2>1. Error(m, type, x, y)' = Error(m, type, x, y)
      BY <1>1, Zenon DEF Error
    <2> QED
      BY <1>1, <2>1, Zenon DEF Compute
  <1>3. ASSUME NEW m
        PROVE  ComputeMotorPower(m, memory)' = ComputeMotorPower(m, memory')
    <2>1. Reversed(m)' = Reversed(m)
      BY ReadsSame
    <2> DEFINE x == GetMotor(m, "setpointSubscriber", 0)
               mode == GetMotor(m, "modeSubscriber", 0)
               measured(type) == lastEncoder[m][type]
               position == Compute(m, "position", x, measured("position"), memory'[m])
               velocity == Compute(m, "velocity", x, measured("velocity"), memory'[m])
               position2 == Compute(m, "position", x, measured("position"), memory[m])'
               velocity2 == Compute(m, "velocity", x, measured("velocity"), memory[m])'
    <2>2. x' = x /\ mode' = mode
      BY <1>1
    <2>3. position2 = position /\ velocity2 = velocity
      BY <1>2, <2>2
    <2>4. lastBattery' = lastBattery
      OBVIOUS
    <2>5. ComputeMotorPower(m, memory') =
              IF lastBattery = 0 THEN Own(0, 1)
              ELSE CASE mode = 1 -> Own(x * Reversed(m), lastBattery)
                     [] mode = 2 -> Own(position * Reversed(m), lastBattery)
                     [] mode = 3 -> Own(velocity * Reversed(m), lastBattery)
                     [] mode = 4 -> [n |-> 0, d |-> 1, second |-> TruncateToInt(x)]
                     [] OTHER -> Own(x * Reversed(m), 1000)
      BY DEF ComputeMotorPower
    <2>6. ComputeMotorPower(m, memory)' =
              IF lastBattery' = 0 THEN Own(0, 1)
              ELSE CASE mode' = 1 -> Own(x' * Reversed(m)', lastBattery')
                     [] mode' = 2 -> Own(position2 * Reversed(m)', lastBattery')
                     [] mode' = 3 -> Own(velocity2 * Reversed(m)', lastBattery')
                     [] mode' = 4 -> [n |-> 0, d |-> 1, second |-> TruncateToInt(x')]
                     [] OTHER -> Own(x' * Reversed(m)', 1000)
      BY DEF ComputeMotorPower
    <2> HIDE DEF x, mode, position, velocity, position2, velocity2
    <2> QED
      BY <2>1, <2>2, <2>3, <2>4, <2>5, <2>6
  <1>4. Motors' = Motors
    BY DEF Motors
  <1> QED
    BY <1>3, <1>4 DEF Followed

LEMMA InitControl == Init => ControlInv
  <1> SUFFICES ASSUME Init PROVE ControlInv
    OBVIOUS
  <1>1. ControlTypeOK
    <2>1. setup \in Setups
      BY DEF Init
    <2>2. setup.maxFailures \in Nat /\ 0 \in -PowerConversion .. PowerConversion
      BY <2>1, SetupTypes DEF PowerConversion
    <2>3. level \in [Motors -> -PowerConversion .. PowerConversion]
      BY <2>2 DEF Init
    <2>4. pulse \in [Servos -> 0 .. UInt16 - 1]
      <3>1. 0 \in 0 .. UInt16 - 1
        BY DEF UInt16
      <3> QED
        BY <3>1 DEF Init
    <2>5. /\ lastEncoder \in [Motors -> [Readings -> Int]]
          /\ reported \in [Motors -> [Readings -> Positions \cup {0}]]
      BY DEF Init
    <2>6. failures \in 0 .. setup.maxFailures
      BY <2>2 DEF Init
    <2>7. /\ called \in Seq(setup.calls) /\ stage \in Stages
          /\ lastBattery \in Batteries \cup {0} /\ library \in Libraries
      BY DEF Init, Stages
    <2>8. calm \in BOOLEAN
      BY DEF Init
    <2>9. memory \in [Motors -> Terms]
      BY DEF Init, Terms
    <2> QED
      BY <2>1, <2>3, <2>4, <2>5, <2>6, <2>7, <2>8, <2>9 DEF ControlTypeOK
  <1>2. TransactionHolds
    BY DEF Init, TransactionHolds
  <1> QED
    BY <1>1, <1>2, InitTopics DEF ControlInv

LEMMA ControlTypes ==
    ASSUME ControlInv, Next
    PROVE  ControlTypeOK'
  <1>1. ControlTypeOK /\ TopicsInv
    BY DEF ControlInv
  <1>2. /\ Motors \subseteq MotorNumbers /\ Servos \subseteq ServoNumbers
        /\ Positions \subseteq Int
    BY <1>1, SetupTypes DEF ControlTypeOK
  <1>3. setup' = setup /\ library' = library
        /\ Motors' = Motors /\ Servos' = Servos /\ Batteries' = Batteries
        /\ Positions' = Positions
    BY DEF Next, Call, Publish, Transaction, SendInitial, BatteryAnswer,
           BulkAnswer, SendCommands, TransactionFails, Motors, Servos,
           Batteries, Positions
  <1> DEFINE Same(f) == f' = f
  <1>4. CASE \E c \in setup.calls : Call(c)
    <2>1. PICK c \in setup.calls : Call(c)
      BY <1>4
    <2>2. called' \in Seq(setup.calls)
      BY <1>1, <2>1 DEF Call, ControlTypeOK
    <2> QED
      BY <1>1, <1>3, <2>1, <2>2 DEF Call, ControlTypeOK
  <1>5. CASE Publish
    BY <1>1, <1>3, <1>5 DEF Publish, ControlTypeOK
  <1>6. CASE SendInitial
    <2>1. \A v \in Servos : PulseWidth(v) \in 0 .. UInt16 - 1
      BY <1>1, <1>2, PulseWidthType
    <2>2. pulse' \in [Servos -> 0 .. UInt16 - 1]
      BY <1>1, <1>6, <2>1 DEF SendInitial, ControlTypeOK
    <2>3. calm' \in BOOLEAN /\ stage' \in Stages
      BY <1>6 DEF SendInitial, Stages
    <2> QED
      BY <1>1, <1>3, <1>6, <2>2, <2>3 DEF SendInitial, ControlTypeOK
  <1>7. CASE BatteryAnswer
    BY <1>1, <1>3, <1>7 DEF BatteryAnswer, ControlTypeOK, Stages
  <1>8. CASE BulkAnswer
    <2>1. reported' \in [Motors -> [Readings -> Positions]]
      BY <1>8 DEF BulkAnswer
    <2>2. \A m \in Motors : reported'[m] \in [Readings -> Int]
      BY <1>2, <2>1
    <2>3. lastEncoder' \in [Motors -> [Readings -> Int]]
      BY <1>1, <1>2, <1>8, <2>2, SetEncoderType DEF BulkAnswer
    <2>4. reported' \in [Motors -> [Readings -> Positions \cup {0}]]
      BY <2>1
    <2>5. stage' \in Stages
      BY <1>8 DEF BulkAnswer, Stages
    <2> QED
      BY <1>1, <1>3, <1>8, <2>3, <2>4, <2>5 DEF BulkAnswer, ControlTypeOK
  <1>9. CASE SendCommands
    <2>1. memory' \in [Motors -> Terms]
      <3>1. setup.terms \subseteq Terms
        BY <1>1, SetupTypes DEF ControlTypeOK
      <3> QED
        BY <1>9, <3>1 DEF SendCommands
    <2>2. \A m \in Motors :
              Level(Followed(m, memory')) \in -PowerConversion .. PowerConversion
      BY <1>1, <2>1, FollowedType, LevelFacts DEF IsPower
    <2>3. level' \in [Motors -> -PowerConversion .. PowerConversion]
      BY <1>9, <2>2 DEF SendCommands
    <2>4. stage' \in Stages
      BY <1>9 DEF SendCommands, Stages
    <2> QED
      BY <1>1, <1>3, <1>9, <2>1, <2>3, <2>4 DEF SendCommands, ControlTypeOK
  <1>10. CASE TransactionFails
    <2>1. setup.maxFailures \in Nat
      BY <1>1, SetupTypes DEF ControlTypeOK
    <2>2. failures' \in 0 .. setup.maxFailures
      BY <1>1, <1>10, <2>1 DEF TransactionFails, ControlTypeOK
    <2>3. stage' \in Stages /\ calm' \in BOOLEAN
      BY <1>10 DEF TransactionFails, Stages
    <2> QED
      BY <1>1, <1>3, <1>10, <2>2, <2>3 DEF TransactionFails, ControlTypeOK
  <1> QED
    BY <1>4, <1>5, <1>6, <1>7, <1>8, <1>9, <1>10 DEF Next, Transaction

LEMMA TransactionStep ==
    ASSUME ControlInv, Next
    PROVE  TransactionHolds'
  <1>1. ControlTypeOK /\ TopicsInv /\ TransactionHolds
    BY DEF ControlInv
  <1>2. CASE \E c \in setup.calls : Call(c)
    <2>1. UNCHANGED <<setup, nt, stage, lastBattery, lastEncoder, reported, memory,
                      level, pulse, calm>>
      BY <1>2 DEF Call
    <2> QED
      BY <1>1, <2>1, ReadsSame, FollowedSame DEF TransactionHolds, SetEncoder, Level
  <1>3. CASE Publish \/ TransactionFails
    <2>1. calm' = FALSE
      BY <1>3 DEF Publish, TransactionFails
    <2> QED
      BY <2>1 DEF TransactionHolds
  <1>4. CASE SendInitial
    <2>1. stage' = "started" /\ UNCHANGED <<setup, nt>>
          /\ \A v \in Servos :
                 pulse'[v] = IF PulseWidth(v) = 0 THEN pulse[v] ELSE PulseWidth(v)
      BY <1>4 DEF SendInitial
    <2>2. \A v \in Servos : PulseWidth(v) \in {0, pulse'[v]}
      BY <2>1
    <2> QED
      BY <2>1, <2>2, ReadsSame DEF TransactionHolds
  <1>5. CASE BatteryAnswer
    <2>1. stage' = "battery" /\ UNCHANGED <<setup, nt, pulse, calm>>
      BY <1>5 DEF BatteryAnswer
    <2> QED
      BY <1>1, <2>1, ReadsSame DEF TransactionHolds
  <1>6. CASE BulkAnswer
    <2>1. /\ stage' = "bulk" /\ UNCHANGED <<setup, nt, pulse, calm>>
          /\ lastEncoder' = [m \in Motors |-> SetEncoder(m, reported'[m])]
      BY <1>6 DEF BulkAnswer
    <2>2. lastEncoder' = [m \in Motors' |-> SetEncoder(m, reported[m])']
      BY <2>1, ReadsSame DEF SetEncoder
    <2> QED
      BY <1>1, <2>1, <2>2, ReadsSame DEF TransactionHolds
  <1>7. CASE SendCommands
    <2>1. /\ stage = "bulk" /\ stage' = "idle"
          /\ UNCHANGED <<setup, nt, lastBattery, lastEncoder, reported, pulse, calm>>
          /\ level' = [m \in Motors |-> Level(Followed(m, memory'))]
      BY <1>7 DEF SendCommands
    <2>2. calm => lastEncoder' = [m \in Motors' |-> SetEncoder(m, reported[m])']
      BY <1>1, <2>1, ReadsSame DEF SetEncoder, TransactionHolds
    <2>3. level' = [m \in Motors' |-> Level(Followed(m, memory))']
      BY <2>1, ReadsSame, FollowedSame DEF Level
    <2> QED
      BY <1>1, <2>1, <2>2, <2>3, ReadsSame DEF TransactionHolds
  <1> QED
    BY <1>2, <1>3, <1>4, <1>5, <1>6, <1>7 DEF Next, Transaction

LEMMA ControlStep == ControlInv /\ [Next]_vars => ControlInv'
  <1> SUFFICES ASSUME ControlInv, [Next]_vars PROVE ControlInv'
    OBVIOUS
  <1>1. TopicsInv'
    BY TopicsStep DEF ControlInv
  <1>2. CASE Next
    BY <1>1, <1>2, ControlTypes, TransactionStep DEF ControlInv
  <1>3. CASE UNCHANGED vars
    <2>1. ControlTypeOK'
      BY <1>3 DEF vars, ControlInv, ControlTypeOK, Motors, Servos, Batteries,
                  Positions
    <2>2. TransactionHolds'
      BY <1>3, ReadsSame, FollowedSame
      DEF vars, ControlInv, TransactionHolds, SetEncoder, Level
    <2> QED
      BY <1>1, <2>1, <2>2 DEF ControlInv
  <1> QED
    BY <1>2, <1>3

LEMMA ControlInvariant == Spec => []ControlInv
  BY InitControl, ControlStep, PTL DEF Spec

\* Types: every power that the daemon computes is a fraction with a positive
\* denominator and every level fits the command, for every program; continuous
\* input without a range, negative batteries and whatever a controller remembers
\* included.
THEOREM ControlTypeCorrect == Spec => []ControlTypeOK
  <1>1. ControlInv => ControlTypeOK
    BY DEF ControlInv
  <1> QED
    BY <1>1, ControlInvariant, PTL

(***************************************************************************)
(* The servos.                                                             *)
(***************************************************************************)

\* Is p the pulse of a position x in thousandths, rounded down?
IsPosition(x, p) ==
    /\ x < 0 => p - 600 = 0
    /\ x > 1000 => p - 600 = 1800
    /\ x >= 0 /\ x <= 1000 => x * 1800 - (p - 600) * 1000 \in 0 .. 999

\* Positions in thousandths, cut off and rounded down.
LEMMA PositionFacts ==
    ASSUME NEW x \in Int
    PROVE  LET p == Pulse(x, 1000)
           IN  p \in Int /\ 600 <= p /\ p <= 2400 /\ IsPosition(x, p)
  <1>1. PICK a \in Int :
            /\ a = Clamp(x, 0, 1000) /\ 0 <= a /\ a <= 1000
            /\ x < 0 => a = 0
            /\ x > 1000 => a = 1000
            /\ x >= 0 /\ x <= 1000 => a = x
    BY DEF Clamp
  <1>2. PICK p \in Int : p = (a * 1800) \div 1000
    OBVIOUS
  <1>3. 0 <= a * 1800 - p * 1000 /\ a * 1800 - p * 1000 <= 999
    BY <1>2
  <1>4. Pulse(x, 1000) = 600 + p
    BY <1>1, <1>2 DEF Pulse, MinPwm, MaxPwm
  <1>5. 0 <= p /\ p <= 1800
    BY <1>1, <1>3
  <1>6. (x < 0 => p = 0) /\ (x > 1000 => p = 1800)
    BY <1>1, <1>3
  <1>7. x >= 0 /\ x <= 1000 => 0 <= x * 1800 - p * 1000 /\ x * 1800 - p * 1000 <= 999
    BY <1>1, <1>3
  <1> DEFINE q == Pulse(x, 1000)
  <1>8. q \in Int /\ q - 600 = p /\ 600 <= q /\ q <= 2400
    BY <1>4, <1>5
  <1> HIDE DEF q
  <1>9. x >= 0 /\ x <= 1000 => x * 1800 - (q - 600) * 1000 \in 0 .. 999
    BY <1>7, <1>8
  <1>10. (x < 0 => q - 600 = 0) /\ (x > 1000 => q - 600 = 1800)
    BY <1>6, <1>8
  <1> QED
    BY <1>8, <1>9, <1>10 DEF q, IsPosition

\* Is p the pulse of an angle x?
IsAngle(x, p) ==
    /\ x < 0 => p - 600 = 0
    /\ x > 180 => p - 600 = 1800
    /\ x >= 0 /\ x <= 180 => p - 600 = 10 * x

\* Angles in degrees, cut off.
LEMMA AngleFacts ==
    ASSUME NEW x \in Int
    PROVE  LET p == Angle(x)
           IN  p \in Int /\ 600 <= p /\ p <= 2400 /\ IsAngle(x, p)
  <1>1. PICK b \in Int :
            /\ b = Clamp(Clamp(x, 0, 180), 0, 180) /\ 0 <= b /\ b <= 180
            /\ x < 0 => b = 0
            /\ x > 180 => b = 180
            /\ x >= 0 /\ x <= 180 => b = x
    BY DEF Clamp
  <1>2. (b * 1800) \div 180 = 10 * b
    OBVIOUS
  <1>3. Angle(x) = 600 + 10 * b
    BY <1>1, <1>2 DEF Angle, Pulse, MinPwm, MaxPwm
  <1>4. PICK p \in Int : p = Angle(x) /\ p = 600 + 10 * b
    BY <1>3
  <1>5. 600 <= p /\ p <= 2400 /\ IsAngle(x, p)
    BY <1>1, <1>4 DEF IsAngle
  <1> QED
    BY <1>4, <1>5

LEMMA PulseReads ==
    ASSUME TopicsInv, todo = << >>, NEW v \in Servos
    PROVE  PulseWidth(v) = (IF PulseCall(v).method = "none" THEN 1500
                            ELSE ServoValue(PulseCall(v))) % UInt16
  <1>1. ServoFollows(nt, << >>, v)
    BY DEF TopicsInv
  <1>2. DaemonServo.pulseWidthSubscriber = "pulseWidth"
    BY DEF DaemonServo
  <1> QED
    BY <1>1, <1>2 DEF ServoFollows, Gets, Says, PulseWidth, Get

\* Is w the pulse of a servo after a call with the argument x?
IsPulse(w, method, x) ==
    LET travel == w - 600
    IN  CASE method = "none" -> w = 1500
          [] method = "set" ->
                IF x < 0 THEN travel = 0
                ELSE IF x > 1000 THEN travel = 1800
                ELSE x * 1800 - travel * 1000 \in 0 .. 999
          [] method = "setAngle" ->
                IF x < 0 THEN travel = 0
                ELSE IF x > 180 THEN travel = 1800
                ELSE travel = 10 * x
          [] method = "setPulseWidth" -> x % UInt16 \in {0, w}

\* The width that the servo is sent is its pulse.
LEMMA WidthIsPulse ==
    ASSUME NEW c, NEW w, NEW q \in Int,
           \/ c.method = "none" /\ q = 1500
           \/ c.method \in PulseMethods /\ c.args[1] \in Int /\ q = ServoValue(c),
           q % UInt16 \in {0, w}
    PROVE  IsPulse(w, c.method, c.args[1])
  <1>1. \A y \in Int : y >= 600 /\ y <= 2400 => y % UInt16 = y /\ y # 0
    BY DEF UInt16
  <1>2. q >= 600 /\ q <= 2400 => q = w
    BY <1>1
  <1>3. CASE c.method = "none"
    <2>1. q = 1500
      BY <1>3 DEF PulseMethods
    <2>2. w = 1500
      BY <1>2, <2>1
    <2> QED
      BY <1>3, <2>2 DEF IsPulse
  <1>4. CASE c.method = "set"
    <2>1. c.args[1] \in Int /\ q = Pulse(c.args[1], 1000)
      BY <1>4 DEF PulseMethods, ServoValue
    <2>2. PICK y \in Int : y = c.args[1]
      BY <2>1
    <2>3. q >= 600 /\ q <= 2400 /\ IsPosition(y, q)
      BY <2>1, <2>2, PositionFacts
    <2>4. PICK p \in Int : p = w /\ IsPosition(y, p)
      BY <1>2, <2>3
    <2>5. IF y < 0 THEN p - 600 = 0
          ELSE IF y > 1000 THEN p - 600 = 1800
          ELSE y * 1800 - (p - 600) * 1000 \in 0 .. 999
      BY <2>4 DEF IsPosition
    <2>6. IsPulse(p, "set", y)
      BY <2>5 DEF IsPulse
    <2> QED
      BY <1>4, <2>2, <2>4, <2>6
  <1>5. CASE c.method = "setAngle"
    <2>1. c.args[1] \in Int /\ q = Angle(c.args[1])
      BY <1>5 DEF PulseMethods, ServoValue
    <2>2. PICK y \in Int : y = c.args[1]
      BY <2>1
    <2>3. q >= 600 /\ q <= 2400 /\ IsAngle(y, q)
      BY <2>1, <2>2, AngleFacts
    <2>4. PICK p \in Int : p = w /\ IsAngle(y, p)
      BY <1>2, <2>3
    <2>5. IF y < 0 THEN p - 600 = 0
          ELSE IF y > 180 THEN p - 600 = 1800 ELSE p - 600 = 10 * y
      BY <2>4 DEF IsAngle
    <2>6. IsPulse(p, "setAngle", y)
      BY <2>5 DEF IsPulse
    <2> QED
      BY <1>5, <2>2, <2>4, <2>6
  <1>6. CASE c.method = "setPulseWidth"
    <2>1. q = c.args[1]
      BY <1>6 DEF PulseMethods, ServoValue
    <2> QED
      BY <1>6, <2>1 DEF IsPulse
  <1> QED
    BY <1>3, <1>4, <1>5, <1>6 DEF PulseMethods

\* The pulse of a servo follows the last call that sets one, for every servo and
\* every argument: positions and angles beyond the range saturate, and a pulse
\* width is taken modulo the width of the command's parameter.
THEOREM PulsesFollowCalls == Spec => []PulsesAsAsked
  <1>1. ControlInv => PulsesAsAsked
    <2> SUFFICES ASSUME ControlInv, Calm, NEW v \in Servos
                 PROVE  IsPulse(pulse[v], PulseCall(v).method, PulseCall(v).args[1])
      BY DEF PulsesAsAsked, PulseCall, PulseMethods, IsPulse
    <2>2. TopicsInv /\ todo = << >> /\ PulseWidth(v) \in {0, pulse[v]}
      BY DEF ControlInv, TransactionHolds, Calm
    <2> DEFINE c == PulseCall(v)
               q == IF c.method = "none" THEN 1500 ELSE ServoValue(c)
    <2>3. \/ c.method = "none"
          \/ c.method \in PulseMethods /\ c.args[1] \in Int
      <3>1. \/ c.method = "none"
            \/ IsCall(c) /\ c.device = "servo" /\ c.method \in PulseMethods
        BY <2>2, LastCalls DEF TopicsInv, PulseCall, Asks
      <3> QED
        BY <3>1, CallArgs DEF ServoField, PulseMethods
    <2>4. PulseWidth(v) = q % UInt16
      BY <2>2, PulseReads
    <2> HIDE DEF c
    <2>5. "none" \notin PulseMethods
      BY DEF PulseMethods
    <2>6. q \in Int
      <3>1. c.method # "none" => ServoValue(c) \in Int
        BY <2>3, PositionFacts, AngleFacts DEF ServoValue, PulseMethods
      <3> QED
        BY <3>1
    <2>7. \/ c.method = "none" /\ q = 1500
          \/ c.method \in PulseMethods /\ c.args[1] \in Int /\ q = ServoValue(c)
      BY <2>3, <2>5
    <2> HIDE DEF q
    <2>8. q % UInt16 \in {0, pulse[v]}
      BY <2>2, <2>4
    <2>9. IsPulse(pulse[v], c.method, c.args[1])
      BY <2>6, <2>7, <2>8, WidthIsPulse
    <2> QED
      BY <2>9 DEF c
  <1> QED
    BY <1>1, ControlInvariant, PTL

(***************************************************************************)
(* The motors.                                                             *)
(***************************************************************************)

\* In a calm state everything there is to know about a motor.
LEMMA CalmMotor ==
    ASSUME ControlInv, Calm, NEW m \in Motors
    PROVE  /\ TopicsInv /\ ControlTypeOK /\ todo = << >> /\ m \in MotorNumbers
           /\ level[m] = Level(Followed(m, memory))
           /\ \A r \in Readings :
                  /\ reported[m][r] \in Int /\ Direction(m) \in {-1, 1}
                  /\ Scale(m) \in Int
                  /\ lastEncoder[m][r] = reported[m][r] * Direction(m) * Scale(m) * 1000
           /\ lastBattery \in Int /\ memory \in [Motors -> Terms]
  <1>1. TopicsInv /\ ControlTypeOK /\ todo = << >>
    BY DEF ControlInv, Calm
  <1>2. /\ m \in MotorNumbers /\ Positions \subseteq Int
        /\ lastBattery \in Int /\ memory \in [Motors -> Terms]
    BY <1>1, SetupTypes DEF ControlTypeOK
  <1>3. /\ lastEncoder[m] = SetEncoder(m, reported[m])
        /\ level[m] = Level(Followed(m, memory))
    BY DEF ControlInv, Calm, TransactionHolds
  <1>4. \A r \in Readings : reported[m][r] \in Int
    <2>1. reported \in [Motors -> [Readings -> Positions \cup {0}]]
      BY <1>1 DEF ControlTypeOK
    <2>2. \A r \in Readings : reported[m][r] \in Positions \cup {0}
      BY <2>1
    <2>3. Positions \cup {0} \subseteq Int
      BY <1>2
    <2> QED
      BY <2>2, <2>3
  <1>5. /\ Reversed(m) = Direction(m) /\ DistancePerCount(m) = Scale(m)
        /\ Reversed(m) \in {-1, 1} /\ DistancePerCount(m) \in Int
    BY <1>1, <1>2, MotorReads, ReadTypes
  <1> QED
    BY <1>1, <1>2, <1>3, <1>4, <1>5 DEF SetEncoder

\* The sign of a level is that of its power.
LEMMA LevelSign ==
    ASSUME NEW p, p.n \in Int, p.d \in Nat \ {0}
    PROVE  /\ Level(p) \in Int
           /\ p.n = 0 => Level(p) = 0
           /\ p.n >= 0 => Level(p) >= 0
           /\ p.n <= 0 => Level(p) <= 0
  <1>1. PICK n \in Int, d \in Nat \ {0} : n = p.n /\ d = p.d
    OBVIOUS
  <1>2. PICK l \in Int : l = Level(p) /\ IsLevel(l, n, d)
    <2>1. -PowerConversion .. PowerConversion \subseteq Int
      BY DEF PowerConversion
    <2> QED
      BY <1>1, <2>1, LevelFacts
  <1>3. l * n >= 0
    BY <1>2 DEF IsLevel
  <1>4. n = 0 => l = 0
    <2> SUFFICES ASSUME n = 0 PROVE l = 0
      OBVIOUS
    <2>1. n * Sign(n) = 0
      BY SignFacts
    <2>2. (l * Sign(l)) * d <= 0
      BY <1>2, <2>1 DEF IsLevel, PowerConversion
    <2>3. l * Sign(l) \in Nat
      BY SignFacts
    <2>4. l * Sign(l) = 0
      BY <2>2, <2>3
    <2>5. (l >= 0 => l * Sign(l) = l) /\ (l <= 0 => l * Sign(l) = -l)
      BY SignFacts
    <2> QED
      BY <2>4, <2>5
  <1>5. n > 0 => l >= 0
    <2> SUFFICES ASSUME n > 0, l <= -1 PROVE FALSE
      OBVIOUS
    <2>1. (-l) * n = -(l * n) /\ (-l) * n > 0
      OBVIOUS
    <2> QED
      BY <1>3, <2>1
  <1>6. n < 0 => l <= 0
    <2> SUFFICES ASSUME n < 0, l >= 1 PROVE FALSE
      OBVIOUS
    <2>1. l * (-n) = -(l * n) /\ l * (-n) > 0
      OBVIOUS
    <2> QED
      BY <1>3, <2>1
  <1> QED
    BY <1>1, <1>2, <1>4, <1>5, <1>6

\* A motor is followed by its number.
LEMMA FollowNumber ==
    ASSUME NEW x \in Int, x % 1000 = 0
    PROVE  TruncateToInt(x) = x \div 1000 /\ x \div 1000 \in Int
  <1>1. PICK k \in Int : k = x \div 1000 /\ x = 1000 * k
    OBVIOUS
  <1>2. CASE x >= 0
    <2>1. x * Sign(x) = x /\ (x > 0 => Sign(x) = 1) /\ (x = 0 => Sign(x) = 0)
      BY <1>2, SignFacts
    <2> QED
      BY <1>1, <1>2, <2>1 DEF TruncateToInt
  <1>3. CASE x < 0
    <2>1. x * Sign(x) = -x /\ Sign(x) = -1
      BY <1>3, SignFacts
    <2>2. (-x) \div 1000 = -k
      BY <1>1
    <2> QED
      BY <1>1, <2>1, <2>2 DEF TruncateToInt
  <1> QED
    BY <1>2, <1>3

\* The power of a motor is what its last call asks for.
LEMMA CalmPower ==
    ASSUME ControlInv, Calm, NEW m \in Motors
    PROVE  LET c == PowerCall(m)
               x == c.args[1]
               voltage(type) == Compute(m, type, x, lastEncoder[m][type], memory[m])
               p == ComputeMotorPower(m, memory)
           IN  /\ x \in Int /\ c.method \in {"none"} \cup DOMAIN ModeOf
               /\ c.method = "none" => x = 0
               /\ c.method = "follow" => x % 1000 = 0
               /\ lastBattery = 0 => p = Own(0, 1)
               /\ lastBattery # 0 =>
                      /\ c.method \in {"none", "setPercentagePower"}
                             => p = Own(x * Direction(m), 1000)
                      /\ c.method = "setVoltage"
                             => p = Own(x * Direction(m), lastBattery)
                      /\ c.method = "setPositionSetpoint"
                             => p = Own(voltage("position") * Direction(m), lastBattery)
                      /\ c.method = "setVelocitySetpoint"
                             => p = Own(voltage("velocity") * Direction(m), lastBattery)
                      /\ c.method = "follow"
                             => p = [n |-> 0, d |-> 1, second |-> x \div 1000]
  <1> DEFINE c == PowerCall(m)
             x == c.args[1]
             mode == GetMotor(m, "modeSubscriber", 0)
             setpoint == GetMotor(m, "setpointSubscriber", 0)
             position == Compute(m, "position", setpoint,
                                 lastEncoder[m]["position"], memory[m])
             velocity == Compute(m, "velocity", setpoint,
                                 lastEncoder[m]["velocity"], memory[m])
             p == ComputeMotorPower(m, memory)
  <1>1. TopicsInv /\ ControlTypeOK /\ todo = << >> /\ m \in MotorNumbers
    BY CalmMotor
  <1>2. /\ mode = IF c.method = "none" THEN 0 ELSE ModeOf[c.method]
        /\ setpoint = x /\ Reversed(m) = Direction(m)
    BY <1>1, MotorReads
  <1>3. /\ x \in Int /\ c.method \in {"none"} \cup DOMAIN ModeOf
        /\ c.method = "none" => x = 0
        /\ c.method = "follow" => x % 1000 = 0
    <2>1. \/ c = NoCall
          \/ /\ c.method \in DOMAIN ModeOf /\ x \in Int
             /\ c.method = "follow" => x % 1000 = 0
      BY <1>1, PowerCallKinds DEF TopicsInv
    <2>2. c = NoCall => c.method = "none" /\ x = 0
      BY NoCallArgs
    <2>3. c.method \in DOMAIN ModeOf => c.method # "none"
      BY DEF ModeOf
    <2> HIDE DEF c
    <2> QED
      BY <2>1, <2>2, <2>3
  <1>4. p = IF lastBattery = 0 THEN Own(0, 1)
            ELSE CASE mode = 1 -> Own(setpoint * Reversed(m), lastBattery)
                   [] mode = 2 -> Own(position * Reversed(m), lastBattery)
                   [] mode = 3 -> Own(velocity * Reversed(m), lastBattery)
                   [] mode = 4 ->
                          [n |-> 0, d |-> 1, second |-> TruncateToInt(setpoint)]
                   [] OTHER -> Own(setpoint * Reversed(m), 1000)
    BY DEF ComputeMotorPower
  <1>5. /\ c.method \in {"none", "setPercentagePower"} => mode = 0
        /\ c.method = "setVoltage" => mode = 1
        /\ c.method = "setPositionSetpoint" => mode = 2
        /\ c.method = "setVelocitySetpoint" => mode = 3
        /\ c.method = "follow" => mode = 4
    BY <1>2 DEF ModeOf
  <1> HIDE DEF c, mode, setpoint, position, velocity, p
  <1>6. c.method = "follow" => TruncateToInt(setpoint) = x \div 1000
    BY <1>2, <1>3, FollowNumber
  <1>7. lastBattery = 0 => p = Own(0, 1)
    BY <1>4, Zenon
  <1>8. lastBattery # 0 =>
            /\ mode = 0 => p = Own(setpoint * Reversed(m), 1000)
            /\ mode = 1 => p = Own(setpoint * Reversed(m), lastBattery)
            /\ mode = 2 => p = Own(position * Reversed(m), lastBattery)
            /\ mode = 3 => p = Own(velocity * Reversed(m), lastBattery)
            /\ mode = 4 => p = [n |-> 0, d |-> 1, second |-> TruncateToInt(setpoint)]
    BY <1>4
  <1>9. lastBattery # 0 =>
            /\ c.method \in {"none", "setPercentagePower"}
                   => p = Own(x * Direction(m), 1000)
            /\ c.method = "setVoltage" => p = Own(x * Direction(m), lastBattery)
            /\ c.method = "setPositionSetpoint"
                   => p = Own(position * Direction(m), lastBattery)
            /\ c.method = "setVelocitySetpoint"
                   => p = Own(velocity * Direction(m), lastBattery)
            /\ c.method = "follow" => p = [n |-> 0, d |-> 1, second |-> x \div 1000]
    BY <1>2, <1>5, <1>6, <1>8
  <1>10. /\ position = Compute(m, "position", x, lastEncoder[m]["position"],
                               memory[m])
         /\ velocity = Compute(m, "velocity", x, lastEncoder[m]["velocity"],
                               memory[m])
    BY <1>2 DEF position, velocity
  <1> QED
    BY <1>3, <1>7, <1>9, <1>10 DEF c, p

LEMMA OwnFacts ==
    ASSUME NEW n, NEW d
    PROVE  /\ Own(n, d).second = -1
           /\ ~(d < 0) => Own(n, d).n = n /\ Own(n, d).d = d
  BY DEF Own

\* A motor that does not follow is sent its own power.
LEMMA OwnPower ==
    ASSUME ControlInv, Calm, NEW m \in Motors, PowerCall(m).method # "follow"
    PROVE  Followed(m, memory) = ComputeMotorPower(m, memory)
  <1>1. ComputeMotorPower(m, memory).second = -1
    BY CalmPower, OwnFacts DEF ModeOf
  <1> QED
    BY <1>1 DEF Followed

\* A follower has the level of the motor it follows, and stands still when that
\* one follows too or does not exist, for any number of followers in whatever
\* order of channels.
THEOREM FollowersHaveTheirLeaders == Spec => []FollowersFollow
  <1>1. ControlInv => FollowersFollow
    <2> SUFFICES ASSUME ControlInv, Calm, NEW m \in Motors,
                        PowerCall(m).method = "follow"
                 PROVE  IF Leader(m) \in Motors
                           /\ PowerCall(Leader(m)).method # "follow"
                        THEN level[m] = level[Leader(m)]
                        ELSE level[m] = 0
      BY DEF FollowersFollow
    <2> DEFINE l == Leader(m)
               p == ComputeMotorPower(m, memory)
               q == ComputeMotorPower(l, memory)
    <2>1. l = PowerCall(m).args[1] \div 1000 /\ PowerCall(m).args[1] \in Int
      BY CalmPower DEF Leader
    <2>2. l \in Int
      BY <2>1
    <2>3. level[m] = Level(Followed(m, memory))
      BY CalmMotor
    <2>4. \A w : w.n = 0 /\ w.d = 1 => Level(w) = 0
      BY LevelSign
    <2>5. Own(0, 1).n = 0 /\ Own(0, 1).d = 1 /\ Own(0, 1).second = -1
      BY OwnFacts
    <2>6. l \in Motors /\ PowerCall(l).method # "follow"
              => level[l] = Level(q)
      BY CalmMotor, OwnPower
    <2>7. CASE lastBattery = 0
      <3>1. p = Own(0, 1) /\ (l \in Motors => q = Own(0, 1))
        BY <2>7, CalmPower
      <3>2. Followed(m, memory) = Own(0, 1)
        BY <2>5, <3>1 DEF Followed
      <3> HIDE DEF l, p, q
      <3>3. level[m] = 0
        BY <2>3, <2>4, <2>5, <3>2
      <3>4. l \in Motors /\ PowerCall(l).method # "follow" => level[l] = 0
        BY <2>4, <2>5, <2>6, <3>1
      <3> QED
        BY <3>3, <3>4 DEF l
    <2>8. CASE lastBattery # 0
      <3>1. p = [n |-> 0, d |-> 1, second |-> l]
        BY <2>1, <2>8, CalmPower
      <3>2. p.n = 0 /\ p.d = 1 /\ p.second = l
        BY <3>1
      <3>3. Followed(m, memory) = IF l < 0 THEN p
                          ELSE IF l \in Motors THEN q ELSE Own(0, 1)
        BY <3>2 DEF Followed
      <3>4. l \in Motors => ~(l < 0)
        <4>1. Motors \subseteq MotorNumbers
          BY SetupTypes DEF ControlInv, ControlTypeOK
        <4>2. \A k \in Motors : k >= 0
          BY <4>1 DEF MotorNumbers
        <4> HIDE DEF l
        <4>3. l \in Motors => l >= 0
          BY <4>2
        <4> QED
          BY <2>2, <4>3
      <3>5. CASE l \in Motors /\ PowerCall(l).method # "follow"
        BY <2>3, <2>6, <3>3, <3>4, <3>5
      <3>6. CASE l \in Motors /\ PowerCall(l).method = "follow"
        <4>1. q.n = 0 /\ q.d = 1
          BY <2>8, <3>6, CalmPower
        <4> QED
          BY <2>3, <2>4, <3>3, <3>4, <3>6, <4>1
      <3>7. CASE l \notin Motors
        BY <2>3, <2>4, <2>5, <3>2, <3>3, <3>7
      <3> QED
        BY <3>5, <3>6, <3>7
    <2> QED
      BY <2>7, <2>8
  <1> QED
    BY <1>1, ControlInvariant, PTL

\* Feedback is negative with nothing but a proportional gain, for every such gain
\* and every scale that are not negative, every direction, setpoint and reading,
\* and every battery that is not reported as negative.
THEOREM FeedbackIsNegative == Spec => []DrivesTowardsSetpoint
  <1>1. ControlInv => DrivesTowardsSetpoint
    <2> SUFFICES ASSUME ControlInv, Calm, NEW m \in Motors,
                        PowerCall(m).method = "setPositionSetpoint",
                        FeedCall(m, "position").method = "none",
                        LastOf("pid", m, "position",
                               {"enableContinuousInput"}).method = "none",
                        GainCall(m, "position").args[1] >= 0,
                        GainCall(m, "position").args[2] = 0,
                        GainCall(m, "position").args[3] = 0,
                        Scale(m) > 0, lastBattery >= 0
                 PROVE  level[m] * (PowerCall(m).args[1] * Direction(m)
                                      - reported[m]["position"] * Scale(m) * 1000) >= 0
      BY DEF DrivesTowardsSetpoint, FeedCall, GainCall
    <2> DEFINE x == PowerCall(m).args[1]
               y == lastEncoder[m]["position"]
               gain == GainCall(m, "position").args[1]
    <2>1. /\ TopicsInv /\ todo = << >> /\ m \in MotorNumbers /\ ProgramTyped
          /\ level[m] = Level(ComputeMotorPower(m, memory))
          /\ reported[m]["position"] \in Int /\ Direction(m) \in {-1, 1}
          /\ Scale(m) \in Int /\ lastBattery \in Nat /\ memory[m] \in Terms
          /\ y = reported[m]["position"] * Direction(m) * Scale(m) * 1000
      BY CalmMotor, OwnPower DEF TopicsInv, Readings
    <2>2. PICK l \in Int : l = level[m] /\ l = Level(ComputeMotorPower(m, memory))
      <3>1. level \in [Motors -> -PowerConversion .. PowerConversion]
        BY DEF ControlInv, ControlTypeOK
      <3>2. -PowerConversion .. PowerConversion \subseteq Int
        BY DEF PowerConversion
      <3> QED
        BY <2>1, <3>1, <3>2
    <2>3. PICK X \in Int, D \in {-1, 1}, S \in Int, R \in Int :
              X = x /\ D = Direction(m) /\ S = Scale(m) /\ R = reported[m]["position"]
      BY <2>1, CalmPower
    <2>4. PICK Z \in Int : Z = R * S * 1000
      BY <2>3
    <2>5. y = Z * D /\ Z * D \in Int
      <3>1. y = R * D * S * 1000
        BY <2>1, <2>3
      <3> HIDE DEF y
      <3>2. D = 1 \/ D = -1
        OBVIOUS
      <3>3. CASE D = 1
        BY <2>4, <3>1, <3>3
      <3>4. CASE D = -1
        BY <2>4, <3>1, <3>4
      <3> QED
        BY <3>2, <3>3, <3>4
    <2>6. PICK P \in Nat : P = gain
      <3>1. "position" \in PidTypes
        BY DEF PidTypes
      <3>2. GetPid(m, "position", "pSubscriber", 0) \in Int
        BY <2>1, <3>1, ReadTypes
      <3>3. GetPid(m, "position", "pSubscriber", 0) = gain
        BY <2>1, <3>1, PidReads
      <3>4. gain \in Int
        BY <3>2, <3>3
      <3> QED
        BY <3>4
    <2>7. Error(m, "position", x, y) = x - y
      <3>1. ContinuousCall(m, "position").method # "enableContinuousInput"
        <4>1. \A c \in setup.calls : c.method # "none"
          BY <2>1, SetupTypes DEF ProgramTyped
        <4>2. called \in Seq(setup.calls)
          BY <2>1 DEF ProgramTyped
        <4>3. \/ ContinuousCall(m, "position").method \notin {"enableContinuousInput"}
              \/ ContinuousCall(m, "position") = NoCall
          BY <4>1, <4>2, LastOfOthers DEF ContinuousCall
        <4> QED
          BY <4>3, NoCallArgs
      <3>2. ~GetPid(m, "position", "continuousSubscriber", FALSE)
        <4>1. TopicsInv /\ todo = << >> /\ m \in MotorNumbers /\ "position" \in PidTypes
          BY <2>1 DEF PidTypes
        <4> QED
          BY <3>1, <4>1, ContinuousReads, Zenon
      <3> QED
        BY <3>2, Zenon DEF Error
    <2>8. Compute(m, "position", x, y, memory[m]) = P * (X - Z * D)
      <3>1. FeedCall(m, "position").args[1] = 0 /\ FeedCall(m, "position").args[2] = 0
        BY <2>1, LastCalls, NoCallArgs DEF FeedCall
      <3>2. /\ GetPid(m, "position", "pSubscriber", 0) = P
            /\ GetPid(m, "position", "iSubscriber", 0) = 0
            /\ GetPid(m, "position", "dSubscriber", 0) = 0
            /\ GetPid(m, "position", "sSubscriber", 0) = 0
            /\ GetPid(m, "position", "vSubscriber", 0) = 0
        BY <2>1, <2>6, <3>1, PidReads DEF PidTypes
      <3>3. PICK i \in Int, d \in Int : i = memory[m].total /\ d = memory[m].slope
        BY <2>1 DEF Terms
      <3>4. PICK V \in Int, T \in Int : V = P * (X - Z * D) /\ T = Sign(X)
        BY <2>5, SignFacts
      <3>5. Compute(m, "position", x, y, memory[m]) = 0 * T + 0 * X + V + 0 * i + 0 * d
        BY <2>3, <2>5, <2>7, <3>2, <3>3, <3>4 DEF Compute
      <3> HIDE DEF x, y
      <3> QED
        BY <3>4, <3>5
    <2> HIDE DEF x, y, gain
    <2>9. PICK F \in Int : F = X * D - Z
      BY <2>3, <2>4
    <2>10. (X - Z * D) * D = F
      BY <2>3, <2>4, <2>9
    <2>11. CASE lastBattery = 0
      <3>1. ComputeMotorPower(m, memory) = Own(0, 1)
        BY <2>11, CalmPower
      <3>2. l = 0
        BY <2>2, <3>1, LevelSign, OwnFacts
      <3> QED
        BY <2>2, <2>3, <2>4, <2>9, <3>2 DEF x
    <2>12. CASE lastBattery # 0
      <3>1. ComputeMotorPower(m, memory) = Own(P * (X - Z * D) * D, lastBattery)
        BY <2>3, <2>8, <2>12, CalmPower DEF x, y
      <3>2. P * (X - Z * D) * D = P * F /\ P * F \in Int
        BY <2>3, <2>5, <2>10
      <3>3. PICK n \in Int : n = P * F /\ ComputeMotorPower(m, memory) = Own(n, lastBattery)
        BY <3>1, <3>2
      <3>4. (n >= 0 => l >= 0) /\ (n <= 0 => l <= 0)
        <4>1. PICK w : w = ComputeMotorPower(m, memory) /\ w = Own(n, lastBattery)
          BY <3>3
        <4>2. w.n = n /\ w.d = lastBattery /\ l = Level(w)
          <5>1. ~(lastBattery < 0)
            BY <2>1
          <5> QED
            BY <2>2, <4>1, <5>1, OwnFacts
        <4>3. lastBattery \in Nat \ {0}
          BY <2>1, <2>12
        <4> QED
          BY <4>2, <4>3, LevelSign
      <3>5. (F >= 0 => n >= 0) /\ (F <= 0 => n <= 0)
        BY <3>3
      <3>6. l * F >= 0
        <4>1. CASE F >= 0
          BY <3>4, <3>5, <4>1
        <4>2. CASE F <= 0
          <5>1. -F \in Nat /\ -l \in Nat /\ (-l) * (-F) = l * F
            BY <3>4, <3>5, <4>2
          <5>2. (-l) * (-F) >= 0
            BY <5>1
          <5> QED
            BY <5>1, <5>2
        <4> QED
          BY <4>1, <4>2
      <3> QED
        BY <2>2, <2>3, <2>4, <2>9, <3>6 DEF x
    <2> QED
      BY <2>11, <2>12
  <1> QED
    BY <1>1, ControlInvariant, PTL

\* The distance the controller computes is the one to the setpoint, and with
\* continuous input the short way round.
LEMMA ErrorIsDistance ==
    ASSUME ControlInv, Calm, NEW m \in Motors, NEW type \in PidTypes
    PROVE  LET x == PowerCall(m).args[1]
           IN  Error(m, type, x, lastEncoder[m][type]) \in Distances(m, type, x)
  <1> DEFINE x == PowerCall(m).args[1]
             y == lastEncoder[m][type]
             measured == reported[m][type] * Direction(m) * Scale(m) * 1000
             c == ContinuousCall(m, type)
             low == c.args[1]
             high == c.args[2]
             range == high - low
             up == (x - measured) % range
  <1>1. /\ TopicsInv /\ todo = << >> /\ m \in MotorNumbers
        /\ y = measured /\ measured \in Int
    BY CalmMotor DEF PidTypes, Readings
  <1>2. x \in Int
    BY CalmPower
  <1>0. TopicsInv /\ todo = << >> /\ m \in MotorNumbers
    BY <1>1
  <1>3. Distances(m, type, x) =
            IF c.method = "enableContinuousInput"
            THEN {e \in {up, up - range} : 2 * e \in -range .. range}
            ELSE {x - measured}
    BY DEF Distances, ContinuousCall
  <1>4. /\ GetPid(m, type, "continuousSubscriber", FALSE)
               <=> c.method = "enableContinuousInput"
        /\ c.method = "enableContinuousInput" =>
               /\ GetPid(m, type, "continuousMinimumSubscriber", 0) = low
               /\ GetPid(m, type, "continuousMaximumSubscriber", 0) = high
    BY <1>0, ContinuousReads, Zenon
  <1>5. CASE c.method # "enableContinuousInput"
    <2>1. Error(m, type, x, y) = x - y
      <3>1. ~GetPid(m, type, "continuousSubscriber", FALSE)
        BY <1>4, <1>5
      <3> QED
        BY <3>1, Zenon DEF Error
    <2> HIDE DEF x, y, measured, c
    <2> QED
      BY <1>1, <1>3, <1>5, <2>1 DEF x, y
  <1>6. CASE c.method = "enableContinuousInput"
    <2>1. /\ low \in Int /\ high \in Int /\ low % 2 = 0 /\ high % 2 = 0
          /\ low < high
      <3>1. IsCall(c) /\ c.device = "pid"
        BY <1>1, <1>6, LastCalls DEF TopicsInv, ContinuousCall, Asks
      <3> HIDE DEF c
      <3> QED
        BY <1>6, <3>1, CallArgs
    <2>2. PICK h \in Nat \ {0} : h = (high - low) \div 2 /\ range = 2 * h
      <3>1. PICK L \in Int, H \in Int :
                L = low /\ H = high /\ L % 2 = 0 /\ H % 2 = 0 /\ L < H
        BY <2>1
      <3>2. (H - L) \div 2 \in Nat \ {0} /\ H - L = 2 * ((H - L) \div 2)
        BY <3>1
      <3> QED
        BY <3>1, <3>2
    <2>3. PICK z \in Int : z = x - y /\ z = x - measured
      BY <1>1, <1>2
    <2>4. Error(m, type, x, y) = InputModulus(z, -h, h)
      <3>1. GetPid(m, type, "continuousSubscriber", FALSE)
        BY <1>4, <1>6
      <3>2. /\ GetPid(m, type, "continuousMinimumSubscriber", 0) = low
            /\ GetPid(m, type, "continuousMaximumSubscriber", 0) = high
        BY <1>4, <1>6
      <3>3. Error(m, type, x, y) =
                InputModulus(x - y, -((high - low) \div 2), (high - low) \div 2)
        BY <3>1, <3>2, Zenon DEF Error
      <3> QED
        BY <2>2, <2>3, <3>3
    <2>5. up = z % range
      BY <2>3
    <2>6. /\ InputModulus(z, -h, h) \in {z % range, (z % range) - range}
          /\ 2 * InputModulus(z, -h, h) \in -range .. range
      BY <2>2, InputModulusFacts
    <2> HIDE DEF x, y, measured, c, range, up
    <2> QED
      BY <1>3, <1>6, <2>4, <2>5, <2>6 DEF x, y
  <1> QED
    BY <1>5, <1>6

\* Every motor that does not follow has the power that the last calls ask for,
\* for every program: the right setpoint, all five gains, direction, scale and
\* distance are combined with whatever the controller remembers, related to a
\* battery that is not reported as negative and cut off.
THEOREM PowerFollowsCalls == Spec => []PowerAsAsked
  <1>1. ControlInv => PowerAsAsked
    <2> SUFFICES ASSUME ControlInv, Calm, NEW m \in Motors,
                        PowerCall(m).method # "follow",
                        \/ lastBattery >= 0
                        \/ PowerCall(m).method \in {"none", "setPercentagePower"}
                 PROVE  IsAsked(level[m], m)
      BY DEF PowerAsAsked
    <2> DEFINE c == PowerCall(m)
               x == c.args[1]
               p == ComputeMotorPower(m, memory)
               l == level[m]
               voltage(type) == Compute(m, type, x, lastEncoder[m][type],
                                        memory[m])
    <2>1. /\ TopicsInv /\ ControlTypeOK /\ todo = << >> /\ m \in MotorNumbers
          /\ l = Level(p) /\ lastBattery \in Int /\ memory \in [Motors -> Terms]
      BY CalmMotor, OwnPower
    <2>2. IsPower(p)
      BY <2>1, ComputedPowerType
    <2>3. IsLevel(l, p.n, p.d)
      BY <2>1, <2>2, LevelFacts DEF IsPower
    <2>4. \A type \in PidTypes : voltage(type) \in Voltages(m, type, x)
      <3> SUFFICES ASSUME NEW type \in PidTypes
                   PROVE  voltage(type) \in Voltages(m, type, x)
        OBVIOUS
      <3> DEFINE e == Error(m, type, x, lastEncoder[m][type])
      <3>1. e \in Distances(m, type, x)
        BY ErrorIsDistance
      <3>2. voltage(type) = FeedCall(m, type).args[1] * Sign(x)
                                + FeedCall(m, type).args[2] * x
                                + GainCall(m, type).args[1] * e
                                + GainCall(m, type).args[2] * memory[m].total
                                + GainCall(m, type).args[3] * memory[m].slope
        BY <2>1, PidReads DEF Compute
      <3>3. Voltages(m, type, x) =
                {FeedCall(m, type).args[1] * Sign(x)
                     + FeedCall(m, type).args[2] * x
                     + GainCall(m, type).args[1] * f
                     + GainCall(m, type).args[2] * memory[m].total
                     + GainCall(m, type).args[3] * memory[m].slope :
                        f \in Distances(m, type, x)}
        BY DEF Voltages, FeedCall, GainCall
      <3> HIDE DEF e, voltage, x
      <3> QED
        BY <3>1, <3>2, <3>3
    <2>5. CASE lastBattery = 0 \/ c.method = "none"
      <3>1. p.n = 0 /\ p.d \in Nat \ {0}
        <4>1. lastBattery = 0 => p.n = 0
          BY CalmPower, OwnFacts
        <4>2. lastBattery # 0 => p.n = 0
          <5> SUFFICES ASSUME lastBattery # 0 PROVE p.n = 0
            OBVIOUS
          <5>1. x = 0 /\ p = Own(x * Direction(m), 1000) /\ Direction(m) \in Int
            BY <2>5, CalmPower, CalmMotor DEF Direction
          <5>2. x * Direction(m) = 0
            BY <5>1
          <5> QED
            BY <5>1, <5>2, OwnFacts
        <4> QED
          BY <2>2, <4>1, <4>2 DEF IsPower
      <3>2. l = 0
        BY <2>1, <3>1, LevelSign
      <3> QED
        BY <2>5, <3>2 DEF IsAsked
    <2>6. CASE lastBattery # 0 /\ c.method = "setPercentagePower"
      <3>1. IsLevel(l, x * Direction(m), 1000)
        BY <2>3, <2>6, CalmPower, OwnFacts
      <3> QED
        BY <2>6, <3>1 DEF IsAsked
    <2>7. c.method \notin {"none", "setPercentagePower"} =>
               \A n : Own(n, lastBattery).n = n /\ Own(n, lastBattery).d = lastBattery
      <3>1. c.method \notin {"none", "setPercentagePower"} => ~(lastBattery < 0)
        BY <2>1
      <3> QED
        BY <3>1, OwnFacts
    <2>8. CASE lastBattery # 0 /\ c.method = "setVoltage"
      <3>1. IsLevel(l, x * Direction(m), lastBattery)
        BY <2>3, <2>8, <2>7, CalmPower
      <3> QED
        BY <2>8, <3>1 DEF IsAsked
    <2>9. CASE lastBattery # 0 /\ c.method = "setPositionSetpoint"
      <3>1. IsLevel(l, voltage("position") * Direction(m), lastBattery)
        BY <2>3, <2>9, <2>7, CalmPower
      <3>2. \E v \in Voltages(m, "position", x) :
                IsLevel(l, v * Direction(m), lastBattery)
        BY <2>4, <3>1 DEF PidTypes
      <3> QED
        BY <2>9, <3>2 DEF IsAsked
    <2>10. CASE lastBattery # 0 /\ c.method = "setVelocitySetpoint"
      <3>1. IsLevel(l, voltage("velocity") * Direction(m), lastBattery)
        BY <2>3, <2>10, <2>7, CalmPower
      <3>2. \E v \in Voltages(m, "velocity", x) :
                IsLevel(l, v * Direction(m), lastBattery)
        BY <2>4, <3>1 DEF PidTypes
      <3> QED
        BY <2>10, <3>2 DEF IsAsked
    <2>11. c.method \in {"none", "setPercentagePower", "setVoltage",
                         "setPositionSetpoint", "setVelocitySetpoint"}
      BY CalmPower DEF ModeOf
    <2> QED
      BY <2>5, <2>6, <2>8, <2>9, <2>10, <2>11
  <1> QED
    BY <1>1, ControlInvariant, PTL
=============================================================================
