-------------------------- MODULE ServiceMainProofs --------------------------
(***************************************************************************)
(* Theorems about the main() functions of ServiceMain, for every limit on  *)
(* the tries to open the control data and every number of signals.         *)
(*                                                                         *)
(* The argument is about the list of steps main() still has to take: as    *)
(* long as the loop thread lives, the list stops it before it destructs    *)
(* a variable the loop's functions use, and it destroys the instance of    *)
(* NetworkTables after the stop or directly before it; before the loop     *)
(* exists, the list constructs those objects first.  All this survives     *)
(* every step, the switch to the list of a failed start included.          *)
(***************************************************************************)
EXTENDS ServiceMain, TLAPS

\* What a loop needs when it starts.
Needed(s) == Captured(s) \cup {"instance"}

\* A step the loop thread does not survive unharmed.
Harms(step, s) ==
    \/ step[1] = "initialize"
    \/ step[1] = "destruct" /\ step[2] \in Captured(s)

NoStep(q, name) == \A i \in 1 .. Len(q) : q[i][1] # name

\* The steps from the position k on stop the loop before they harm it.
StopsFirst(q, k, s) ==
    \E i \in k .. Len(q) : /\ q[i][1] = "stop"
                           /\ \A j \in k .. i : ~Harms(q[j], s)

\* The loop starts once, when everything it captures is there.
StartsLast(q, objs, s) ==
    \A n \in 1 .. Len(q) : q[n][1] = "newRunner" =>
        /\ \A x \in Needed(s) :
               x \in objs \/ \E j \in 1 .. n - 1 : q[j] = Construct(x)
        /\ \A j \in 1 .. n - 1 : q[j][1] # "destruct"
        /\ StopsFirst(q, n + 1, s)
        /\ \A j \in n + 1 .. Len(q) : q[j][1] # "newRunner"

\* The loop thread and the steps that are left.
LoopInv ==
    IF loop = "none" THEN StartsLast(todo, objects, service)
    ELSE /\ NoStep(todo, "newRunner")
         /\ loop # "ended" => /\ Captured(service) \subseteq objects
                              /\ StopsFirst(todo, 1, service)

\* A list that goes on with the stop to the end of a service that was told to
\* end, and is not that of the radio service.
StopIsNext(q, s) ==
    /\ s # "Radio" /\ q # << >>
    /\ q[1][1] = "stop" /\ q[Len(q)] = Return("0")

\* The instance is destroyed after the stop, or directly before it.
DestroysLate(q, s) ==
    \A i \in 1 .. Len(q) : q[i] = Destruct("instance") =>
        \/ \E j \in 1 .. i - 1 : q[j][1] = "stop"
        \/ /\ s # "Radio" /\ i + 1 \in 1 .. Len(q)
           /\ q[i + 1][1] = "stop" /\ q[Len(q)] = Return("0")

\* ExecSync waits: the step that starts the function is followed by the one
\* that waits for it.
ExecWaits(q) ==
    \A i \in 1 .. Len(q) : q[i][1] = "exec" =>
        i + 1 \in 1 .. Len(q) /\ q[i + 1][1] = "execDone"

\* The instance lives as long as the loop, but for the step before the stop;
\* and main() does nothing while the loop starts.
InstanceInv ==
    /\ ExecWaits(todo)
    /\ loop = "starting" => todo # << >> /\ Head(todo)[1] = "execDone"
    /\ loop # "ended" => DestroysLate(todo, service)
    /\ loop \notin {"none", "ended"} =>
           "instance" \in objects \/ StopIsNext(todo, service)

\* Every thread is started with the signals blocked, which main() does first.
MaskInv ==
    /\ inherited
    /\ blocked \/ (todo # << >> /\ Head(todo)[1] = "block")

\* The last try is followed by no other.
TriesInv == tries < MaxTries \/ NoStep(todo, "initialize")

MainInv == MainTypeOK /\ LoopInv /\ MaskInv /\ TriesInv /\ InstanceInv

(***************************************************************************)
(* The lists of steps.                                                     *)
(***************************************************************************)

\* The steps by name.
LEMMA StepKinds ==
    ASSUME NEW step \in AllSteps
    PROVE  /\ step[1] = "construct" => step[2] \in Objects
                                       /\ step = Construct(step[2])
           /\ step[1] = "destruct" => step[2] \in Objects
                                      /\ step = Destruct(step[2])
           /\ step[1] = "return" => step[2] \in {"0", "-1"}
  BY DEF AllSteps, Construct, Destruct, Step, Return

LEMMA MainSteps ==
    ASSUME NEW s \in Services
    PROVE  Main(s) \in Seq(AllSteps) /\ Main(s) # << >>
           /\ Head(Main(s))[1] = "block"
  <1>1. /\ \A x \in Objects : Construct(x) \in AllSteps
                              /\ Destruct(x) \in AllSteps
        /\ \A x \in {"block", "initialize", "newRunner", "exec", "execDone",
                     "sigwait", "stop"} : Step(x) \in AllSteps
        /\ Return("0") \in AllSteps /\ Return("-1") \in AllSteps
    BY DEF AllSteps
  <1>2. {"enabledState", "states", "usbMonitor", "ntInst", "instData",
         "instance"} = Objects
    BY DEF Objects
  <1>3. Step("block")[1] = "block"
    BY DEF Step
  <1>4. CASE s = "ExpansionHub"
    <2>1. Main(s) = ExpansionHubMain
      BY <1>4 DEF Main
    <2>2. ExpansionHubMain \in Seq(AllSteps) /\ ExpansionHubMain # << >>
          /\ Head(ExpansionHubMain) = Step("block")
      BY <1>1, <1>2 DEF ExpansionHubMain
    <2> QED
      BY <1>3, <2>1, <2>2
  <1>5. CASE s = "PowerDistribution"
    <2>1. Main(s) = PowerDistributionMain
      BY <1>5 DEF Main
    <2>2. /\ PowerDistributionMain \in Seq(AllSteps)
          /\ PowerDistributionMain # << >>
          /\ Head(PowerDistributionMain) = Step("block")
      BY <1>1, <1>2 DEF PowerDistributionMain
    <2> QED
      BY <1>3, <2>1, <2>2
  <1>6. CASE s = "Radio"
    <2>1. Main(s) = RadioMain
      BY <1>6 DEF Main
    <2>2. RadioMain \in Seq(AllSteps) /\ RadioMain # << >>
          /\ Head(RadioMain) = Step("block")
      BY <1>1, <1>2 DEF RadioMain
    <2> QED
      BY <1>3, <2>1, <2>2
  <1> QED
    BY <1>4, <1>5, <1>6 DEF Services

LEMMA MainStartsLast ==
    ASSUME NEW s \in Services
    PROVE  StartsLast(Main(s), {}, s)
  <1>1. CASE s = "ExpansionHub"
    <2> DEFINE q == ExpansionHubMain
    <2>1. /\ Len(q) = 18 /\ q[13] = Step("stop")
          /\ q[2] = Construct("enabledState")
          /\ q[4] = Construct("states")
          /\ q[5] = Construct("usbMonitor")
          /\ q[6] = Construct("instance")
          /\ q[7] = Construct("ntInst")
      BY DEF ExpansionHubMain
    <2>2. \A n \in 1 .. Len(q) : q[n][1] = "newRunner" => n = 8
      BY DEF ExpansionHubMain, Construct, Destruct, Step, Return
    <2>3. \A j \in 1 .. 13 : j >= 9 => ~Harms(q[j], s)
      BY <1>1 DEF ExpansionHubMain, Construct, Destruct, Step, Return,
                  Harms, Captured
    <2>4. \A j \in 1 .. 7 : q[j][1] # "destruct"
      BY DEF ExpansionHubMain, Construct, Destruct, Step, Return
    <2>5. Step("stop")[1] = "stop"
      BY DEF Step
    <2>6. Needed(s) = {"enabledState", "states", "usbMonitor", "ntInst", "instance"}
          /\ Main(s) = q
      BY <1>1 DEF Needed, Captured, Main
    <2> HIDE DEF q
    <2>7. StopsFirst(q, 9, s)
      BY <2>1, <2>3, <2>5 DEF StopsFirst
    <2>8. \A j \in 9 .. 18 : q[j][1] # "newRunner"
      BY <2>1, <2>2
    <2>9. \A x \in Needed(s) : \E j \in 1 .. 7 : q[j] = Construct(x)
      BY <2>1, <2>6
    <2>10. StartsLast(q, {}, s)
      BY <2>1, <2>2, <2>4, <2>7, <2>8, <2>9 DEF StartsLast
    <2> QED
      BY <2>6, <2>10
  <1>2. CASE s = "PowerDistribution"
    <2> DEFINE q == PowerDistributionMain
    <2>1. /\ Len(q) = 13 /\ q[10] = Step("stop")
          /\ q[2] = Construct("states")
          /\ q[3] = Construct("instance")
          /\ q[4] = Construct("ntInst")
      BY DEF PowerDistributionMain
    <2>2. \A n \in 1 .. Len(q) : q[n][1] = "newRunner" => n = 5
      BY DEF PowerDistributionMain, Construct, Destruct, Step, Return
    <2>3. \A j \in 1 .. 10 : j >= 6 => ~Harms(q[j], s)
      BY <1>2 DEF PowerDistributionMain, Construct, Destruct, Step, Return,
                  Harms, Captured
    <2>4. \A j \in 1 .. 4 : q[j][1] # "destruct"
      BY DEF PowerDistributionMain, Construct, Destruct, Step, Return
    <2>5. Step("stop")[1] = "stop"
      BY DEF Step
    <2>6. Needed(s) = {"states", "ntInst", "instance"} /\ Main(s) = q
      BY <1>2 DEF Needed, Captured, Main
    <2> HIDE DEF q
    <2>7. StopsFirst(q, 6, s)
      BY <2>1, <2>3, <2>5 DEF StopsFirst
    <2>8. \A j \in 6 .. 13 : q[j][1] # "newRunner"
      BY <2>1, <2>2
    <2>9. \A x \in Needed(s) : \E j \in 1 .. 4 : q[j] = Construct(x)
      BY <2>1, <2>6
    <2>10. StartsLast(q, {}, s)
      BY <2>1, <2>2, <2>4, <2>7, <2>8, <2>9 DEF StartsLast
    <2> QED
      BY <2>6, <2>10
  <1>3. CASE s = "Radio"
    <2> DEFINE q == RadioMain
    <2>1. /\ Len(q) = 13 /\ q[9] = Step("stop")
          /\ q[2] = Construct("instance")
          /\ q[4] = Construct("instData")
      BY DEF RadioMain
    <2>2. \A n \in 1 .. Len(q) : q[n][1] = "newRunner" => n = 5
      BY DEF RadioMain, Construct, Destruct, Step, Return
    <2>3. \A j \in 1 .. 9 : j >= 6 => ~Harms(q[j], s)
      BY <1>3 DEF RadioMain, Construct, Destruct, Step, Return,
                  Harms, Captured
    <2>4. \A j \in 1 .. 4 : q[j][1] # "destruct"
      BY DEF RadioMain, Construct, Destruct, Step, Return
    <2>5. Step("stop")[1] = "stop"
      BY DEF Step
    <2>6. Needed(s) = {"instData", "instance"} /\ Main(s) = q
      BY <1>3 DEF Needed, Captured, Main
    <2> HIDE DEF q
    <2>7. StopsFirst(q, 6, s)
      BY <2>1, <2>3, <2>5 DEF StopsFirst
    <2>8. \A j \in 6 .. 13 : q[j][1] # "newRunner"
      BY <2>1, <2>2
    <2>9. \A x \in Needed(s) : \E j \in 1 .. 4 : q[j] = Construct(x)
      BY <2>1, <2>6
    <2>10. StartsLast(q, {}, s)
      BY <2>1, <2>2, <2>4, <2>7, <2>8, <2>9 DEF StartsLast
    <2> QED
      BY <2>6, <2>10
  <1> QED
    BY <1>1, <1>2, <1>3 DEF Services

LEMMA MainDestroysLate ==
    ASSUME NEW s \in Services
    PROVE  ExecWaits(Main(s)) /\ DestroysLate(Main(s), s)
  <1>1. CASE s = "ExpansionHub"
    <2> DEFINE q == ExpansionHubMain
    <2>1. /\ Len(q) = 18 /\ q[18] = Return("0")
          /\ q[10][1] = "execDone" /\ q[13][1] = "stop"
      BY DEF ExpansionHubMain, Step
    <2>2. \A i \in 1 .. Len(q) : q[i][1] = "exec" => i = 9
      BY DEF ExpansionHubMain, Construct, Destruct, Step, Return
    <2>3. \A i \in 1 .. Len(q) : q[i] = Destruct("instance") => i = 12
      BY DEF ExpansionHubMain, Construct, Destruct, Step, Return
    <2>4. Main(s) = q
      BY <1>1 DEF Main
    <2> HIDE DEF q
    <2>5. ExecWaits(q)
      BY <2>1, <2>2 DEF ExecWaits
    <2>6. DestroysLate(q, s)
      BY <1>1, <2>1, <2>3 DEF DestroysLate
    <2> QED
      BY <2>4, <2>5, <2>6
  <1>2. CASE s = "PowerDistribution"
    <2> DEFINE q == PowerDistributionMain
    <2>1. /\ Len(q) = 13 /\ q[13] = Return("0")
          /\ q[7][1] = "execDone" /\ q[10][1] = "stop"
      BY DEF PowerDistributionMain, Step
    <2>2. \A i \in 1 .. Len(q) : q[i][1] = "exec" => i = 6
      BY DEF PowerDistributionMain, Construct, Destruct, Step, Return
    <2>3. \A i \in 1 .. Len(q) : q[i] = Destruct("instance") => i = 9
      BY DEF PowerDistributionMain, Construct, Destruct, Step, Return
    <2>4. Main(s) = q
      BY <1>2 DEF Main
    <2> HIDE DEF q
    <2>5. ExecWaits(q)
      BY <2>1, <2>2 DEF ExecWaits
    <2>6. DestroysLate(q, s)
      BY <1>2, <2>1, <2>3 DEF DestroysLate
    <2> QED
      BY <2>4, <2>5, <2>6
  <1>3. CASE s = "Radio"
    <2> DEFINE q == RadioMain
    <2>1. /\ Len(q) = 13 /\ q[13] = Return("0")
          /\ q[7][1] = "execDone" /\ q[9][1] = "stop"
      BY DEF RadioMain, Step
    <2>2. \A i \in 1 .. Len(q) : q[i][1] = "exec" => i = 6
      BY DEF RadioMain, Construct, Destruct, Step, Return
    <2>3. \A i \in 1 .. Len(q) : q[i] = Destruct("instance") => i = 10
      BY DEF RadioMain, Construct, Destruct, Step, Return
    <2>4. Main(s) = q
      BY <1>3 DEF Main
    <2> HIDE DEF q
    <2>5. ExecWaits(q)
      BY <2>1, <2>2 DEF ExecWaits
    <2>6. DestroysLate(q, s)
      <3>1. 9 \in 1 .. 10 - 1
        OBVIOUS
      <3> QED
        BY <2>1, <2>3, <3>1 DEF DestroysLate
    <2> QED
      BY <2>4, <2>5, <2>6
  <1> QED
    BY <1>1, <1>2, <1>3 DEF Services

\* A list without an exec and a Destroy.
LEMMA NothingToDestroy ==
    ASSUME NEW q, NEW s, NoStep(q, "exec"),
           \A i \in 1 .. Len(q) : q[i] # Destruct("instance")
    PROVE  ExecWaits(q) /\ DestroysLate(q, s)
  BY DEF NoStep, ExecWaits, DestroysLate

\* The list of a failed start stops the loop first.
LEMMA FailedStops ==
    ASSUME NEW s \in Services
    PROVE  /\ Failed(s) \in Seq(AllSteps)
           /\ NoStep(Failed(s), "newRunner") /\ NoStep(Failed(s), "initialize")
           /\ StopsFirst(Failed(s), 1, s)
           /\ ExecWaits(Failed(s)) /\ DestroysLate(Failed(s), s)
  <1> DEFINE q == Failed(s)
             qe == <<Step("stop"), Destruct("ntInst"), Destruct("usbMonitor"),
                     Destruct("states"), Destruct("enabledState"),
                     Return("-1")>>
             qp == <<Step("stop"), Destruct("ntInst"), Destruct("states"),
                     Return("-1")>>
             qr == <<Step("stop"), Destruct("instData"), Destruct("ntInst"),
                     Return("-1")>>
  <1>1. q = qe \/ q = qp \/ q = qr
    BY DEF Failed, Services
  <1>2. /\ Step("stop") \in AllSteps /\ Return("-1") \in AllSteps
        /\ Destruct("usbMonitor") \in AllSteps /\ Destruct("states") \in AllSteps
        /\ Destruct("enabledState") \in AllSteps
        /\ Destruct("instData") \in AllSteps /\ Destruct("ntInst") \in AllSteps
    BY DEF AllSteps, Objects
  <1>3. /\ Step("stop")[1] = "stop" /\ Return("-1")[1] = "return"
        /\ \A x : Destruct(x)[1] = "destruct"
    BY DEF Step, Return, Destruct
  <1>4. q \in Seq(AllSteps) /\ Len(q) >= 1 /\ q[1] = Step("stop")
    <2> HIDE DEF q
    <2>1. CASE q = qe
      BY <1>2, <2>1
    <2>2. CASE q = qp
      BY <1>2, <2>2
    <2>3. CASE q = qr
      BY <1>2, <2>3
    <2> QED
      BY <1>1, <2>1, <2>2, <2>3
  <1>5. \A i \in 1 .. Len(q) : q[i] \in {Step("stop"), Return("-1"),
            Destruct("usbMonitor"), Destruct("states"), Destruct("enabledState"),
            Destruct("instData"), Destruct("ntInst")}
    <2> HIDE DEF q
    <2> QED
      BY <1>1
  <1> HIDE DEF q, qe, qp, qr
  <1>6. \A i \in 1 .. Len(q) : /\ q[i][1] \in {"stop", "destruct", "return"}
                               /\ q[i] # Destruct("instance")
    <2>1. \A x \in {Step("stop"), Return("-1"), Destruct("usbMonitor"),
                    Destruct("states"), Destruct("enabledState"),
                    Destruct("instData"), Destruct("ntInst")} :
              /\ x[1] \in {"stop", "destruct", "return"}
              /\ x # Destruct("instance")
      BY DEF Step, Return, Destruct
    <2> QED
      BY <1>5, <2>1
  <1>7. StopsFirst(q, 1, s)
    <2>1. ~Harms(q[1], s)
      BY <1>3, <1>4 DEF Harms
    <2>2. 1 \in 1 .. Len(q) /\ \A j \in 1 .. 1 : j = 1
      BY <1>4
    <2> QED
      BY <1>3, <1>4, <2>1, <2>2 DEF StopsFirst
  <1>8. NoStep(q, "newRunner") /\ NoStep(q, "initialize") /\ NoStep(q, "exec")
    BY <1>6 DEF NoStep
  <1>9. ExecWaits(q) /\ DestroysLate(q, s)
    BY <1>6, <1>8, NothingToDestroy
  <1> QED
    BY <1>4, <1>7, <1>8, <1>9 DEF q

(***************************************************************************)
(* Taking the first step off a list.                                       *)
(***************************************************************************)

LEMMA TailSteps ==
    ASSUME NEW q \in Seq(AllSteps), q # << >>
    PROVE  /\ Tail(q) \in Seq(AllSteps)
           /\ Len(q) \in Nat \ {0} /\ Len(Tail(q)) = Len(q) - 1
           /\ Head(q) = q[1] /\ Head(q) \in AllSteps
           /\ \A i \in 1 .. Len(Tail(q)) : Tail(q)[i] = q[i + 1]
  OBVIOUS

LEMMA NoStepTail ==
    ASSUME NEW q \in Seq(AllSteps), q # << >>, NEW name, NoStep(q, name)
    PROVE  NoStep(Tail(q), name)
  BY TailSteps DEF NoStep

\* The stop is one step closer, unless it was the step.
LEMMA StopsTail ==
    ASSUME NEW q \in Seq(AllSteps), q # << >>, NEW s, NEW k \in Nat \ {0},
           StopsFirst(q, k + 1, s)
    PROVE  StopsFirst(Tail(q), k, s)
  <1>1. PICK i \in k + 1 .. Len(q) : /\ q[i][1] = "stop"
                                     /\ \A j \in k + 1 .. i : ~Harms(q[j], s)
    BY DEF StopsFirst
  <1>2. i - 1 \in k .. Len(Tail(q)) /\ Tail(q)[i - 1] = q[i]
    BY TailSteps
  <1>3. \A j \in k .. i - 1 : Tail(q)[j] = q[j + 1]
    BY TailSteps
  <1>4. \A j \in k .. i - 1 : ~Harms(Tail(q)[j], s)
    BY <1>1, <1>3
  <1> QED
    BY <1>1, <1>2, <1>4 DEF StopsFirst

LEMMA StopsNext ==
    ASSUME NEW q \in Seq(AllSteps), q # << >>, NEW s, StopsFirst(q, 1, s)
    PROVE  /\ ~Harms(Head(q), s)
           /\ Head(q)[1] # "stop" => StopsFirst(Tail(q), 1, s)
  <1>1. PICK i \in 1 .. Len(q) : /\ q[i][1] = "stop"
                                 /\ \A j \in 1 .. i : ~Harms(q[j], s)
    BY DEF StopsFirst
  <1>2. ~Harms(Head(q), s)
    BY <1>1, TailSteps
  <1>3. Head(q)[1] # "stop" => StopsFirst(q, 1 + 1, s)
    <2> HAVE Head(q)[1] # "stop"
    <2>1. i # 1
      BY <1>1, TailSteps
    <2>2. i \in 1 + 1 .. Len(q) /\ \A j \in 1 + 1 .. i : j \in 1 .. i
      BY <2>1
    <2> QED
      BY <1>1, <2>2 DEF StopsFirst
  <1> QED
    BY <1>2, <1>3, StopsTail

\* The start is one step closer, or is made.
LEMMA StartsTail ==
    ASSUME NEW q \in Seq(AllSteps), q # << >>, NEW s, NEW objs,
           StartsLast(q, objs, s)
    PROVE  /\ Head(q)[1] = "newRunner" =>
                  /\ Needed(s) \subseteq objs /\ StopsFirst(Tail(q), 1, s)
                  /\ NoStep(Tail(q), "newRunner")
           /\ Head(q)[1] = "construct" =>
                  StartsLast(Tail(q), objs \cup {Head(q)[2]}, s)
           /\ Head(q)[1] = "destruct" =>
                  StartsLast(Tail(q), objs \ {Head(q)[2]}, s)
           /\ Head(q)[1] \notin {"newRunner", "construct", "destruct"} =>
                  StartsLast(Tail(q), objs, s)
  <1> DEFINE r == Tail(q)
             h == Head(q)
  <1>1. /\ r \in Seq(AllSteps) /\ Len(q) \in Nat \ {0} /\ Len(r) = Len(q) - 1
        /\ h = q[1] /\ h \in AllSteps
        /\ \A i \in 1 .. Len(r) : r[i] = q[i + 1]
    BY TailSteps
  <1> HIDE DEF r, h
  <1>2. CASE h[1] = "newRunner"
    <2>1. /\ \A x \in Needed(s) :
                 x \in objs \/ \E j \in 1 .. 1 - 1 : q[j] = Construct(x)
          /\ StopsFirst(q, 1 + 1, s)
          /\ \A j \in 1 + 1 .. Len(q) : q[j][1] # "newRunner"
      BY <1>1, <1>2 DEF StartsLast
    <2>2. Needed(s) \subseteq objs
      BY <2>1
    <2>3. StopsFirst(r, 1, s)
      BY <2>1, StopsTail DEF r
    <2>4. NoStep(r, "newRunner")
      BY <1>1, <2>1 DEF NoStep
    <2> QED
      BY <1>2, <2>2, <2>3, <2>4 DEF r, h
  <1>3. ASSUME h[1] # "newRunner", NEW n \in 1 .. Len(r),
               r[n][1] = "newRunner"
        PROVE  /\ h[1] # "destruct"
               /\ \A x \in Needed(s) :
                      \/ x \in objs \/ h = Construct(x)
                      \/ \E j \in 1 .. n - 1 : r[j] = Construct(x)
               /\ \A j \in 1 .. n - 1 : r[j][1] # "destruct"
               /\ StopsFirst(r, n + 1, s)
               /\ \A j \in n + 1 .. Len(r) : r[j][1] # "newRunner"
    <2>1. n + 1 \in 1 .. Len(q) /\ q[n + 1][1] = "newRunner" /\ n \in Nat \ {0}
      BY <1>1, <1>3
    <2>2. /\ \A x \in Needed(s) :
                 x \in objs \/ \E j \in 1 .. (n + 1) - 1 : q[j] = Construct(x)
          /\ \A j \in 1 .. (n + 1) - 1 : q[j][1] # "destruct"
          /\ StopsFirst(q, (n + 1) + 1, s)
          /\ \A j \in (n + 1) + 1 .. Len(q) : q[j][1] # "newRunner"
      BY <2>1 DEF StartsLast
    <2>3. h[1] # "destruct"
      BY <1>1, <2>1, <2>2
    <2>4. \A x \in Needed(s) :
              \/ x \in objs \/ h = Construct(x)
              \/ \E j \in 1 .. n - 1 : r[j] = Construct(x)
      <3> TAKE x \in Needed(s)
      <3> SUFFICES ASSUME x \notin objs, h # Construct(x)
                   PROVE  \E j \in 1 .. n - 1 : r[j] = Construct(x)
        OBVIOUS
      <3>1. PICK j \in 1 .. (n + 1) - 1 : q[j] = Construct(x)
        BY <2>2
      <3>2. j - 1 \in 1 .. n - 1 /\ r[j - 1] = q[j]
        BY <1>1, <1>3, <2>1, <3>1
      <3> QED
        BY <3>1, <3>2
    <2>5. \A j \in 1 .. n - 1 : r[j][1] # "destruct"
      BY <1>1, <1>3, <2>1, <2>2
    <2>6. StopsFirst(r, n + 1, s)
      BY <2>1, <2>2, StopsTail DEF r
    <2>7. \A j \in n + 1 .. Len(r) : r[j][1] # "newRunner"
      BY <1>1, <1>3, <2>1, <2>2
    <2> QED
      BY <2>3, <2>4, <2>5, <2>6, <2>7
  <1>4. CASE h[1] = "construct"
    <2>1. \A x : h = Construct(x) => x = h[2]
      BY DEF Construct
    <2>2. StartsLast(r, objs \cup {h[2]}, s)
      BY <1>3, <1>4, <2>1 DEF StartsLast
    <2> QED
      BY <1>4, <2>2 DEF r, h
  <1>5. CASE h[1] = "destruct"
    <2>1. StartsLast(r, objs \ {h[2]}, s)
      BY <1>3, <1>5 DEF StartsLast
    <2> QED
      BY <1>5, <2>1 DEF r, h
  <1>6. CASE h[1] \notin {"newRunner", "construct", "destruct"}
    <2>1. \A x : h # Construct(x)
      BY <1>6 DEF Construct
    <2>2. StartsLast(r, objs, s)
      BY <1>3, <1>6, <2>1 DEF StartsLast
    <2> QED
      BY <1>6, <2>2 DEF r, h
  <1> QED
    BY <1>2, <1>4, <1>5, <1>6 DEF h

\* An exec and a Destroy keep what follows them.
LEMMA DestroysTail ==
    ASSUME NEW q \in Seq(AllSteps), q # << >>, NEW s, ExecWaits(q)
    PROVE  /\ ExecWaits(Tail(q))
           /\ Head(q)[1] = "exec" => /\ Tail(q) # << >>
                                     /\ Head(Tail(q))[1] = "execDone"
           /\ DestroysLate(q, s) /\ Head(q)[1] # "stop" =>
                  DestroysLate(Tail(q), s)
           /\ DestroysLate(q, s) /\ Head(q) = Destruct("instance") =>
                  StopIsNext(Tail(q), s)
  <1> DEFINE r == Tail(q)
  <1>1. /\ r \in Seq(AllSteps) /\ Len(q) \in Nat \ {0} /\ Len(r) = Len(q) - 1
        /\ Head(q) = q[1]
        /\ \A i \in 1 .. Len(r) : r[i] = q[i + 1]
    BY TailSteps
  <1> HIDE DEF r
  <1>2. Len(r) > 0 => r # << >> /\ Head(r) = r[1]
    <2>1. r \in Seq(AllSteps)
      BY <1>1
    <2>2. r = << >> => Len(r) = 0
      OBVIOUS
    <2> QED
      BY <2>1, <2>2
  <1>3. ExecWaits(r)
    <2> SUFFICES ASSUME NEW i \in 1 .. Len(r), r[i][1] = "exec"
                 PROVE  i + 1 \in 1 .. Len(r) /\ r[i + 1][1] = "execDone"
      BY DEF ExecWaits
    <2>1. i + 1 \in 1 .. Len(q) /\ q[i + 1][1] = "exec"
      BY <1>1
    <2>2. (i + 1) + 1 \in 1 .. Len(q) /\ q[(i + 1) + 1][1] = "execDone"
      BY <2>1 DEF ExecWaits
    <2> QED
      BY <1>1, <2>2
  <1>4. ASSUME q[1][1] = "exec"
        PROVE  r # << >> /\ Head(r)[1] = "execDone"
    <2>1. 1 \in 1 .. Len(q)
      BY <1>1
    <2>2. 1 + 1 \in 1 .. Len(q) /\ q[1 + 1][1] = "execDone"
      BY <1>4, <2>1 DEF ExecWaits
    <2> QED
      BY <1>1, <1>2, <2>2
  <1>5. ASSUME DestroysLate(q, s), q[1][1] # "stop"
        PROVE  DestroysLate(r, s)
    <2> SUFFICES ASSUME NEW i \in 1 .. Len(r), r[i] = Destruct("instance"),
                        ~ \E j \in 1 .. i - 1 : r[j][1] = "stop"
                 PROVE  /\ s # "Radio" /\ i + 1 \in 1 .. Len(r)
                        /\ r[i + 1][1] = "stop" /\ r[Len(r)] = Return("0")
      BY DEF DestroysLate
    <2>1. i + 1 \in 1 .. Len(q) /\ q[i + 1] = Destruct("instance")
      BY <1>1
    <2>2. ~ \E j \in 1 .. (i + 1) - 1 : q[j][1] = "stop"
      <3> SUFFICES ASSUME NEW j \in 1 .. (i + 1) - 1, q[j][1] = "stop"
                   PROVE  FALSE
        OBVIOUS
      <3>1. j # 1
        BY <1>5
      <3>2. j - 1 \in 1 .. i - 1 /\ r[j - 1] = q[j]
        BY <1>1, <3>1
      <3> QED
        BY <3>2
    <2>3. /\ s # "Radio" /\ (i + 1) + 1 \in 1 .. Len(q)
          /\ q[(i + 1) + 1][1] = "stop" /\ q[Len(q)] = Return("0")
      BY <1>5, <2>1, <2>2 DEF DestroysLate
    <2> QED
      BY <1>1, <2>3
  <1>6. ASSUME DestroysLate(q, s), q[1] = Destruct("instance")
        PROVE  StopIsNext(r, s)
    <2>1. 1 \in 1 .. Len(q) /\ ~ \E j \in 1 .. 1 - 1 : q[j][1] = "stop"
      BY <1>1
    <2>2. /\ s # "Radio" /\ 1 + 1 \in 1 .. Len(q)
          /\ q[1 + 1][1] = "stop" /\ q[Len(q)] = Return("0")
      BY <1>6, <2>1 DEF DestroysLate
    <2> QED
      BY <1>1, <1>2, <2>2 DEF StopIsNext
  <1> QED
    BY <1>1, <1>3, <1>4, <1>5, <1>6 DEF r

(***************************************************************************)
(* The invariant holds at first and every step keeps it.                   *)
(***************************************************************************)

LEMMA InitMainInv == Init => MainInv
  <1> SUFFICES ASSUME Init PROVE MainInv
    OBVIOUS
  <1> USE DEF Init
  <1>1. MainTypeOK
    <2>1. todo \in Seq(AllSteps)
      BY MainSteps
    <2>2. tries \in 0 .. MaxTries /\ sent \in 0 .. MaxSignals
      BY ServiceBounds
    <2> QED
      BY <2>1, <2>2 DEF MainTypeOK, LoopStates
  <1>2. LoopInv
    BY MainStartsLast DEF LoopInv
  <1>3. MaskInv
    BY MainSteps DEF MaskInv
  <1>4. TriesInv
    BY ServiceBounds DEF TriesInv
  <1>5. InstanceInv
    BY MainDestroysLate DEF InstanceInv
  <1> QED
    BY <1>1, <1>2, <1>3, <1>4, <1>5 DEF MainInv

\* What every step that takes the next one off the list keeps.
LEMMA StepTaken ==
    ASSUME MainInv, todo # << >>, Advance, UNCHANGED <<service, tries>>
    PROVE  /\ todo' \in Seq(AllSteps) /\ Head(todo) \in AllSteps
           /\ TriesInv'
           /\ Head(todo)[1] # "block" => blocked
  <1>1. todo \in Seq(AllSteps)
    BY DEF MainInv, MainTypeOK
  <1>2. todo' \in Seq(AllSteps) /\ Head(todo) \in AllSteps
    BY <1>1, TailSteps DEF Advance
  <1>3. TriesInv'
    BY <1>1, NoStepTail DEF MainInv, TriesInv, Advance
  <1> QED
    BY <1>2, <1>3 DEF MainInv, MaskInv

\* A step that is about neither the objects nor the loop.
LEMMA PlainStep ==
    ASSUME MainInv, todo # << >>, Advance, UNCHANGED <<service, objects>>,
           Head(todo)[1] \notin {"newRunner", "construct", "destruct", "stop"},
           loop' = loop \/ (loop \notin {"none", "ended"}
                            /\ loop' \notin {"none", "ended"})
    PROVE  LoopInv'
  <1>1. todo \in Seq(AllSteps)
    BY DEF MainInv, MainTypeOK
  <1>2. CASE loop = "none"
    <2>1. StartsLast(Tail(todo), objects, service)
      BY <1>1, <1>2, StartsTail DEF MainInv, LoopInv
    <2> QED
      BY <1>2, <2>1 DEF LoopInv, Advance
  <1>3. CASE loop # "none"
    <2>1. NoStep(Tail(todo), "newRunner")
      BY <1>1, <1>3, NoStepTail DEF MainInv, LoopInv
    <2>2. loop # "ended" => /\ Captured(service) \subseteq objects
                            /\ StopsFirst(Tail(todo), 1, service)
      BY <1>1, <1>3, StopsNext DEF MainInv, LoopInv
    <2> QED
      BY <1>3, <2>1, <2>2 DEF LoopInv, Advance
  <1> QED
    BY <1>2, <1>3

\* The same, for the instance.
LEMMA PlainInstance ==
    ASSUME MainInv, todo # << >>, Advance, UNCHANGED <<service, objects>>,
           Head(todo)[1] \notin {"newRunner", "construct", "destruct", "stop"},
           \/ loop' = loop /\ loop # "starting"
           \/ loop = "idle" /\ loop' = "starting" /\ Head(todo)[1] = "exec"
    PROVE  InstanceInv'
  <1>1. todo \in Seq(AllSteps) /\ ExecWaits(todo) /\ Head(todo) = todo[1]
    BY TailSteps DEF MainInv, MainTypeOK, InstanceInv
  <1>2. /\ ExecWaits(Tail(todo))
        /\ Head(todo)[1] = "exec" => /\ Tail(todo) # << >>
                                     /\ Head(Tail(todo))[1] = "execDone"
        /\ DestroysLate(todo, service) => DestroysLate(Tail(todo), service)
    BY <1>1, DestroysTail
  <1>3. ~StopIsNext(todo, service)
    BY <1>1 DEF StopIsNext
  <1> QED
    BY <1>2, <1>3 DEF MainInv, InstanceInv, Advance

\* A step of main() while its loop starts is none that takes another one off.
LEMMA NotStarting ==
    ASSUME MainInv, todo # << >>, Head(todo)[1] # "execDone"
    PROVE  loop # "starting"
  BY DEF MainInv, InstanceInv

LEMMA BlockSignalsStep == MainInv /\ BlockSignals => MainInv'
  <1> SUFFICES ASSUME MainInv, BlockSignals PROVE MainInv'
    OBVIOUS
  <1>1. todo' \in Seq(AllSteps) /\ TriesInv'
    BY StepTaken DEF BlockSignals, At
  <1>2. LoopInv'
    BY PlainStep DEF BlockSignals, At
  <1>3. MainTypeOK' /\ MaskInv'
    BY <1>1 DEF MainInv, MainTypeOK, MaskInv, BlockSignals
  <1>4. InstanceInv'
    BY PlainInstance, NotStarting DEF BlockSignals, At
  <1> QED
    BY <1>1, <1>2, <1>3, <1>4 DEF MainInv

LEMMA ConstructObjectStep == MainInv /\ ConstructObject => MainInv'
  <1> SUFFICES ASSUME MainInv, ConstructObject PROVE MainInv'
    OBVIOUS
  <1> DEFINE x == Head(todo)[2]
  <1>1. /\ todo # << >> /\ Head(todo)[1] = "construct" /\ Advance
        /\ UNCHANGED <<service, tries, loop, success, armed, blocked, pending,
                       sent, exit>>
        /\ objects' = objects \cup {x}
        /\ inherited' = (inherited /\ (x = "instance" => blocked))
        /\ todo \in Seq(AllSteps)
    BY DEF ConstructObject, At, MainInv, MainTypeOK
  <1>2. /\ todo' \in Seq(AllSteps) /\ Head(todo) \in AllSteps /\ TriesInv'
        /\ blocked
    BY <1>1, StepTaken
  <1>3. x \in Objects
    BY <1>1, <1>2, StepKinds
  <1>4. StartsLast(todo, objects, service)
            => StartsLast(Tail(todo), objects \cup {x}, service)
    BY <1>1, StartsTail
  <1> HIDE DEF x
  <1>5. MainTypeOK' /\ MaskInv'
    BY <1>1, <1>2, <1>3 DEF MainInv, MainTypeOK, MaskInv
  <1>6. LoopInv'
    <2>1. CASE loop = "none"
      BY <1>1, <1>4, <2>1 DEF MainInv, LoopInv, Advance
    <2>2. CASE loop # "none"
      <3>1. NoStep(Tail(todo), "newRunner")
        BY <1>1, <2>2, NoStepTail DEF MainInv, LoopInv
      <3>2. loop # "ended" => /\ Captured(service) \subseteq objects'
                              /\ StopsFirst(Tail(todo), 1, service)
        BY <1>1, <2>2, StopsNext DEF MainInv, LoopInv
      <3> QED
        BY <1>1, <2>2, <3>1, <3>2 DEF LoopInv, Advance
    <2> QED
      BY <2>1, <2>2
  <1>7. InstanceInv'
    <2>1. /\ ExecWaits(Tail(todo)) /\ loop # "starting"
          /\ DestroysLate(todo, service) => DestroysLate(Tail(todo), service)
      BY <1>1, DestroysTail, NotStarting DEF MainInv, InstanceInv
    <2>2. ~StopIsNext(todo, service)
      BY <1>1, TailSteps DEF StopIsNext
    <2> QED
      BY <1>1, <2>1, <2>2 DEF MainInv, InstanceInv, Advance
  <1> QED
    BY <1>2, <1>5, <1>6, <1>7 DEF MainInv

\* The list of a service whose control data cannot be opened.
LEMMA OpenControlDataStep == MainInv /\ OpenControlData => MainInv'
  <1> SUFFICES ASSUME MainInv, OpenControlData PROVE MainInv'
    OBVIOUS
  <1>1. /\ todo # << >> /\ Head(todo)[1] = "initialize"
        /\ UNCHANGED <<service, objects, loop, success, armed, blocked,
                       inherited, pending, sent, exit>>
        /\ todo \in Seq(AllSteps)
    BY DEF OpenControlData, At, MainInv, MainTypeOK
  <1>2. blocked /\ MaskInv'
    BY <1>1 DEF MainInv, MaskInv
  <1>3. CASE Advance /\ UNCHANGED tries
    <2>1. todo' \in Seq(AllSteps) /\ TriesInv'
      BY <1>1, <1>3, StepTaken
    <2>2. LoopInv'
      BY <1>1, <1>3, PlainStep
    <2>3. MainTypeOK'
      BY <1>1, <1>3, <2>1 DEF MainInv, MainTypeOK
    <2>4. InstanceInv'
      BY <1>1, <1>3, PlainInstance, NotStarting
    <2> QED
      BY <1>2, <2>1, <2>2, <2>3, <2>4 DEF MainInv
  <1>4. CASE OpenFails
    <2>1. tries < MaxTries /\ tries \in Nat /\ MaxTries \in Nat
      <3>1. ~NoStep(todo, "initialize")
        BY <1>1, TailSteps DEF NoStep
      <3> QED
        BY <3>1, ServiceBounds DEF MainInv, TriesInv, MainTypeOK
    <2>2. tries' = tries + 1 /\ tries' \in 0 .. MaxTries
      BY <1>4, <2>1 DEF OpenFails
    <2>3. CASE tries + 1 < MaxTries
      <3>1. todo' = todo
        BY <1>4, <2>3 DEF OpenFails
      <3>2. MainTypeOK' /\ TriesInv'
        BY <1>1, <2>2, <2>3, <3>1 DEF MainInv, MainTypeOK, TriesInv
      <3>3. LoopInv'
        BY <1>1, <3>1 DEF MainInv, LoopInv
      <3>4. InstanceInv'
        BY <1>1, <3>1 DEF MainInv, InstanceInv
      <3> QED
        BY <1>2, <3>2, <3>3, <3>4 DEF MainInv
    <2>4. CASE ~(tries + 1 < MaxTries)
      <3> DEFINE q == <<Destruct("enabledState"), Return("-1")>>
      <3>1. todo' = q
        BY <1>4, <2>4 DEF OpenFails
      <3>2. Destruct("enabledState") \in AllSteps /\ Return("-1") \in AllSteps
        BY DEF AllSteps, Objects
      <3>3. q \in Seq(AllSteps)
        BY <3>2
      <3>4. \A i \in 1 .. Len(q) : /\ q[i][1] \in {"destruct", "return"}
                                   /\ q[i] # Destruct("instance")
        BY DEF Destruct, Return
      <3> HIDE DEF q
      <3>5. /\ NoStep(q, "newRunner") /\ NoStep(q, "initialize")
            /\ NoStep(q, "exec")
        BY <3>4 DEF NoStep
      <3>6. StartsLast(q, objects, service)
        BY <3>5 DEF NoStep, StartsLast
      <3>7. loop \in {"none", "ended"}
        <4>1. Harms(Head(todo), service)
          BY <1>1 DEF Harms
        <4> QED
          BY <1>1, <4>1, StopsNext DEF MainInv, LoopInv
      <3>8. MainTypeOK' /\ TriesInv'
        BY <1>1, <2>2, <3>1, <3>3, <3>5 DEF MainInv, MainTypeOK, TriesInv
      <3>9. LoopInv'
        BY <1>1, <3>1, <3>5, <3>6, <3>7 DEF LoopInv
      <3>10. InstanceInv'
        <4>1. ExecWaits(q) /\ DestroysLate(q, service)
          BY <3>4, <3>5, NothingToDestroy
        <4> QED
          BY <1>1, <3>1, <3>7, <4>1 DEF InstanceInv
      <3> QED
        BY <1>2, <3>8, <3>9, <3>10 DEF MainInv
    <2> QED
      BY <2>3, <2>4
  <1> QED
    BY <1>3, <1>4 DEF OpenControlData

\* The loop starts, with everything it captures there.
LEMMA NewRunnerStep == MainInv /\ NewRunner => MainInv'
  <1> SUFFICES ASSUME MainInv, NewRunner PROVE MainInv'
    OBVIOUS
  <1>1. /\ todo # << >> /\ Head(todo)[1] = "newRunner" /\ Advance
        /\ loop' = "idle" /\ inherited' = (inherited /\ blocked)
        /\ UNCHANGED <<service, tries, objects, success, armed, blocked,
                       pending, sent, exit>>
        /\ todo \in Seq(AllSteps)
    BY DEF NewRunner, At, MainInv, MainTypeOK
  <1>2. todo' \in Seq(AllSteps) /\ TriesInv' /\ blocked
    BY <1>1, StepTaken
  <1>3. MainTypeOK' /\ MaskInv'
    BY <1>1, <1>2 DEF MainInv, MainTypeOK, MaskInv, LoopStates
  <1>4. loop = "none"
    <2>1. ~NoStep(todo, "newRunner")
      BY <1>1, TailSteps DEF NoStep
    <2> QED
      BY <2>1 DEF MainInv, LoopInv
  <1>5. /\ Captured(service) \subseteq objects /\ "instance" \in objects
        /\ StopsFirst(Tail(todo), 1, service)
        /\ NoStep(Tail(todo), "newRunner")
    BY <1>1, <1>4, StartsTail DEF MainInv, LoopInv, Needed
  <1>6. LoopInv'
    BY <1>1, <1>5 DEF LoopInv, Advance
  <1>7. InstanceInv'
    <2>1. /\ ExecWaits(Tail(todo))
          /\ DestroysLate(todo, service) => DestroysLate(Tail(todo), service)
      BY <1>1, DestroysTail DEF MainInv, InstanceInv
    <2> QED
      BY <1>1, <1>4, <1>5, <2>1 DEF MainInv, InstanceInv, Advance
  <1> QED
    BY <1>2, <1>3, <1>6, <1>7 DEF MainInv

LEMMA ExecSyncStep == MainInv /\ ExecSync => MainInv'
  <1> SUFFICES ASSUME MainInv, ExecSync PROVE MainInv'
    OBVIOUS
  <1>1. todo' \in Seq(AllSteps) /\ TriesInv' /\ blocked
    BY StepTaken DEF ExecSync, At
  <1>2. LoopInv'
    BY PlainStep DEF ExecSync, At
  <1>3. MainTypeOK' /\ MaskInv'
    BY <1>1 DEF MainInv, MainTypeOK, MaskInv, ExecSync, LoopStates
  <1>4. InstanceInv'
    BY PlainInstance DEF ExecSync, At
  <1> QED
    BY <1>1, <1>2, <1>3, <1>4 DEF MainInv

\* A start that failed changes the list.
LEMMA ExecReturnsStep == MainInv /\ ExecReturns => MainInv'
  <1> SUFFICES ASSUME MainInv, ExecReturns PROVE MainInv'
    OBVIOUS
  <1>1. /\ todo # << >> /\ Head(todo)[1] = "execDone"
        /\ loop # "starting"
        /\ todo' = IF success THEN Tail(todo) ELSE Failed(service)
        /\ UNCHANGED <<service, tries, objects, loop, success, armed, blocked,
                       inherited, pending, sent, exit>>
        /\ todo \in Seq(AllSteps) /\ service \in Services
    BY DEF ExecReturns, At, MainInv, MainTypeOK
  <1>2. blocked /\ MaskInv'
    BY <1>1 DEF MainInv, MaskInv
  <1>3. CASE success
    <2>1. Advance
      BY <1>1, <1>3 DEF Advance
    <2>2. todo' \in Seq(AllSteps) /\ TriesInv'
      BY <1>1, <2>1, StepTaken
    <2>3. LoopInv'
      BY <1>1, <2>1, PlainStep
    <2>4. MainTypeOK'
      BY <1>1, <2>2 DEF MainInv, MainTypeOK
    <2>5. InstanceInv'
      BY <1>1, <2>1, PlainInstance
    <2> QED
      BY <1>2, <2>2, <2>3, <2>4, <2>5 DEF MainInv
  <1>4. CASE ~success
    <2>1. todo' = Failed(service)
      BY <1>1, <1>4
    <2>2. /\ Failed(service) \in Seq(AllSteps)
          /\ NoStep(Failed(service), "newRunner")
          /\ NoStep(Failed(service), "initialize")
          /\ StopsFirst(Failed(service), 1, service)
          /\ ExecWaits(Failed(service))
          /\ DestroysLate(Failed(service), service)
      BY <1>1, FailedStops
    <2>3. StartsLast(Failed(service), objects, service)
      BY <2>2 DEF NoStep, StartsLast
    <2>4. MainTypeOK' /\ TriesInv'
      BY <1>1, <2>1, <2>2 DEF MainInv, MainTypeOK, TriesInv
    <2>5. LoopInv'
      BY <1>1, <2>1, <2>2, <2>3 DEF MainInv, LoopInv
    <2>6. InstanceInv'
      <3>1. ~StopIsNext(todo, service)
        BY <1>1, TailSteps DEF StopIsNext
      <3> QED
        BY <1>1, <2>1, <2>2, <3>1 DEF MainInv, InstanceInv
    <2> QED
      BY <1>2, <2>4, <2>5, <2>6 DEF MainInv
  <1> QED
    BY <1>3, <1>4 DEF MainInv, MainTypeOK

LEMMA SigWaitStep == MainInv /\ SigWait => MainInv'
  <1> SUFFICES ASSUME MainInv, SigWait PROVE MainInv'
    OBVIOUS
  <1>1. todo' \in Seq(AllSteps) /\ TriesInv' /\ blocked
    BY StepTaken DEF SigWait, At
  <1>2. LoopInv'
    BY PlainStep DEF SigWait, At
  <1>3. MainTypeOK' /\ MaskInv'
    BY <1>1 DEF MainInv, MainTypeOK, MaskInv, SigWait
  <1>4. InstanceInv'
    BY PlainInstance, NotStarting DEF SigWait, At
  <1> QED
    BY <1>1, <1>2, <1>3, <1>4 DEF MainInv

LEMMA StopLoopStep == MainInv /\ StopLoop => MainInv'
  <1> SUFFICES ASSUME MainInv, StopLoop PROVE MainInv'
    OBVIOUS
  <1>1. todo' \in Seq(AllSteps) /\ TriesInv' /\ blocked
    BY StepTaken DEF StopLoop, At
  <1>2. LoopInv'
    <2>1. NoStep(Tail(todo), "newRunner")
      BY NoStepTail DEF MainInv, MainTypeOK, LoopInv, StopLoop, At
    <2> QED
      BY <2>1 DEF LoopInv, StopLoop, Advance
  <1>3. MainTypeOK' /\ MaskInv'
    BY <1>1 DEF MainInv, MainTypeOK, MaskInv, StopLoop, LoopStates
  <1>4. InstanceInv'
    <2>1. ExecWaits(Tail(todo))
      BY DestroysTail DEF MainInv, MainTypeOK, InstanceInv, StopLoop, At
    <2> QED
      BY <2>1 DEF InstanceInv, StopLoop, Advance
  <1> QED
    BY <1>1, <1>2, <1>3, <1>4 DEF MainInv

\* As long as the loop lives, the object is none that it captured; when it is
\* the instance, the loop is stopped next.
LEMMA DestructObjectStep == MainInv /\ DestructObject => MainInv'
  <1> SUFFICES ASSUME MainInv, DestructObject PROVE MainInv'
    OBVIOUS
  <1> DEFINE x == Head(todo)[2]
  <1>1. /\ todo # << >> /\ Head(todo)[1] = "destruct" /\ Advance
        /\ objects' = objects \ {x}
        /\ UNCHANGED <<service, tries, loop, success, armed, blocked,
                       inherited, pending, sent, exit>>
        /\ todo \in Seq(AllSteps)
    BY DEF DestructObject, At, MainInv, MainTypeOK
  <1>2. todo' \in Seq(AllSteps) /\ TriesInv' /\ blocked
    BY <1>1, StepTaken
  <1>3. StartsLast(todo, objects, service)
            => StartsLast(Tail(todo), objects \ {x}, service)
    BY <1>1, StartsTail
  <1>4. StopsFirst(todo, 1, service)
            => x \notin Captured(service) /\ StopsFirst(Tail(todo), 1, service)
    BY <1>1, StopsNext DEF Harms
  <1> HIDE DEF x
  <1>5. MainTypeOK' /\ MaskInv'
    BY <1>1, <1>2 DEF MainInv, MainTypeOK, MaskInv
  <1>6. LoopInv'
    <2>1. CASE loop = "none"
      BY <1>1, <1>3, <2>1 DEF MainInv, LoopInv, Advance
    <2>2. CASE loop # "none"
      <3>1. NoStep(Tail(todo), "newRunner")
        BY <1>1, <2>2, NoStepTail DEF MainInv, LoopInv
      <3>2. loop # "ended" => /\ Captured(service) \subseteq objects'
                              /\ StopsFirst(Tail(todo), 1, service)
        BY <1>1, <1>4, <2>2 DEF MainInv, LoopInv
      <3> QED
        BY <1>1, <2>2, <3>1, <3>2 DEF LoopInv, Advance
    <2> QED
      BY <2>1, <2>2
  <1>7. InstanceInv'
    <2>1. /\ ExecWaits(Tail(todo)) /\ loop # "starting"
          /\ DestroysLate(todo, service) => DestroysLate(Tail(todo), service)
          /\ DestroysLate(todo, service) /\ Head(todo) = Destruct("instance")
                => StopIsNext(Tail(todo), service)
      BY <1>1, DestroysTail, NotStarting DEF MainInv, InstanceInv
    <2>2. ~StopIsNext(todo, service)
      BY <1>1, TailSteps DEF StopIsNext
    <2>3. x = "instance" => Head(todo) = Destruct("instance")
      BY <1>1, <1>2, StepKinds DEF x
    <2> QED
      BY <1>1, <2>1, <2>2, <2>3 DEF MainInv, InstanceInv, Advance
  <1> QED
    BY <1>2, <1>5, <1>6, <1>7 DEF MainInv

LEMMA ReturnFromMainStep == MainInv /\ ReturnFromMain => MainInv'
  <1> SUFFICES ASSUME MainInv, ReturnFromMain PROVE MainInv'
    OBVIOUS
  <1>1. /\ todo' \in Seq(AllSteps) /\ Head(todo) \in AllSteps /\ TriesInv'
        /\ blocked
    BY StepTaken DEF ReturnFromMain, At
  <1>2. LoopInv'
    BY PlainStep DEF ReturnFromMain, At
  <1>3. exit' \in {"0", "-1"}
    BY <1>1, StepKinds DEF ReturnFromMain, At
  <1>4. MainTypeOK' /\ MaskInv'
    BY <1>1, <1>3 DEF MainInv, MainTypeOK, MaskInv, ReturnFromMain
  <1>5. InstanceInv'
    BY PlainInstance, NotStarting DEF ReturnFromMain, At
  <1> QED
    BY <1>1, <1>2, <1>4, <1>5 DEF MainInv

\* The loop thread and a signal leave the list alone.
LEMMA OtherThreads ==
    MainInv /\ (LoopThread \/ CallbackBegins \/ Signal) => MainInv'
  <1> SUFFICES ASSUME MainInv, LoopThread \/ CallbackBegins \/ Signal
               PROVE  MainInv'
    OBVIOUS
  <1>1. CASE StartUvLoop
    <2>1. success' \in BOOLEAN /\ armed' \in BOOLEAN
      BY <1>1 DEF StartUvLoop, Armed, MainInv, MainTypeOK, Services
    <2>2. MainTypeOK'
      BY <1>1, <2>1 DEF StartUvLoop, MainInv, MainTypeOK, LoopStates
    <2> QED
      BY <1>1, <2>2 DEF StartUvLoop, MainInv, LoopInv, MaskInv, TriesInv,
                InstanceInv
  <1>2. CASE CallbackEnds
    BY <1>2 DEF CallbackEnds, MainInv, MainTypeOK, LoopStates, LoopInv,
                MaskInv, TriesInv, InstanceInv
  <1>3. CASE CallbackBegins
    BY <1>3 DEF CallbackBegins, MainInv, MainTypeOK, LoopStates, LoopInv,
                MaskInv, TriesInv, InstanceInv
  <1>4. CASE Signal
    <2>1. MainTypeOK'
      <3>1. sent' \in 0 .. MaxSignals
        BY <1>4, ServiceBounds DEF Signal, MainInv, MainTypeOK
      <3>2. pending' \in BOOLEAN /\ exit' \in {"running", "0", "-1", "killed"}
        BY <1>4 DEF Signal, MainInv, MainTypeOK
      <3> QED
        BY <1>4, <3>1, <3>2 DEF Signal, MainInv, MainTypeOK
    <2> QED
      BY <1>4, <2>1 DEF Signal, MainInv, LoopInv, MaskInv, TriesInv,
                InstanceInv
  <1> QED
    BY <1>1, <1>2, <1>3, <1>4 DEF LoopThread

LEMMA NextMainInv == MainInv /\ [Next]_vars => MainInv'
  <1>1. MainInv /\ UNCHANGED vars => MainInv'
    BY DEF vars, MainInv, MainTypeOK, LoopInv, MaskInv, TriesInv,
                InstanceInv
  <1> QED
    BY <1>1, BlockSignalsStep, ConstructObjectStep, OpenControlDataStep,
       NewRunnerStep, ExecSyncStep, ExecReturnsStep, SigWaitStep, StopLoopStep,
       DestructObjectStep, ReturnFromMainStep, OtherThreads
    DEF Next, MainThread

(***************************************************************************)
(* What follows.                                                           *)
(***************************************************************************)

\* The list of what a main() has left to do, the threads and the objects stay
\* in step: the list stops a loop that lives before it destructs what the loop
\* captured, and constructs all of it before it starts the loop.
THEOREM MainInductive == Spec => []MainInv
  BY InitMainInv, NextMainInv, PTL DEF Spec

\* The state of each main() has its type; EnabledState::Initialize in
\* particular never counts past its limit.
THEOREM MainTypeCorrect == Spec => []MainTypeOK
  <1>1. MainInv => MainTypeOK
    BY DEF MainInv
  <1> QED
    BY <1>1, MainInductive, PTL

\* No function of the loop runs on a variable that its main() has not
\* constructed or has destructed already, whichever service it is, whenever the
\* signal comes and whether the start fails or not; nor without the instance of
\* NetworkTables it publishes through, but for a callback between the Destroy
\* and the Stop of a hub or power distribution service that was told to end.
THEOREM CallbacksAreSafe == Spec => []CallbacksSafe
  <1>1. MainInv => CallbacksSafe
    <2> SUFFICES ASSUME MainInv, loop \in {"starting", "callback"}
                 PROVE  /\ Captured(service) \subseteq objects
                        /\ \/ "instance" \in objects
                           \/ loop = "callback" /\ DestroyedFirst
      BY DEF CallbacksSafe
    <2>1. Captured(service) \subseteq objects
      BY DEF MainInv, LoopInv
    <2>2. "instance" \in objects \/ StopIsNext(todo, service)
      BY DEF MainInv, InstanceInv
    <2>3. ASSUME StopIsNext(todo, service)
          PROVE  loop = "callback" /\ DestroyedFirst
      <3>1. todo \in Seq(AllSteps) /\ todo # << >>
        BY <2>3 DEF StopIsNext, MainInv, MainTypeOK
      <3>2. DestroyedFirst
        BY <2>3, <3>1, TailSteps DEF StopIsNext, DestroyedFirst
      <3>3. loop # "starting"
        BY <3>2, NotStarting DEF DestroyedFirst
      <3> QED
        BY <3>2, <3>3
    <2> QED
      BY <2>1, <2>2, <2>3
  <1> QED
    BY <1>1, MainInductive, PTL

\* Once main() has blocked the signals, none of them kills the service: every
\* thread that exists has them blocked.
THEOREM NotKilled == Spec => NeverKilled
  <1>1. MainInv /\ [Next]_vars => [blocked => exit' # "killed"]_vars
    <2> SUFFICES ASSUME MainInv, Next, blocked PROVE exit' # "killed"
      BY DEF vars
    <2>1. CASE MainThread
      <3>1. CASE ReturnFromMain
        <4>1. Head(todo) \in AllSteps
          BY <3>1, TailSteps DEF ReturnFromMain, At, MainInv, MainTypeOK
        <4> QED
          BY <3>1, <4>1, StepKinds DEF ReturnFromMain, At
      <3>2. CASE ~ReturnFromMain
        BY <2>1, <3>2
        DEF MainThread, BlockSignals, ConstructObject, OpenControlData,
            NewRunner, ExecSync, ExecReturns, SigWait, StopLoop,
            DestructObject, At
      <3> QED
        BY <3>1, <3>2
    <2>2. CASE LoopThread \/ CallbackBegins
      BY <2>2 DEF LoopThread, StartUvLoop, CallbackEnds, CallbackBegins
    <2>3. CASE Signal
      BY <2>3 DEF Signal, MainInv, MaskInv
    <2> QED
      BY <2>1, <2>2, <2>3 DEF Next
  <1> QED
    BY <1>1, MainInductive, PTL DEF Spec, NeverKilled
=============================================================================
