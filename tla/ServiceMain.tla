----------------------------- MODULE ServiceMain -----------------------------
(***************************************************************************)
(* The main() functions of the three services: signals are blocked, the    *)
(* objects of the service are constructed, the event loop gets a thread of *)
(* its own, starts up there and runs callbacks, and the main thread waits  *)
(* for a signal and takes everything down again.                           *)
(*                                                                         *)
(* A main() is the sequence of its steps, down to the destructors at its   *)
(* end.  The event loop runner and NetworkTables are in wpilib: ExecSync   *)
(* waits for its function to be done, Stop waits for the loop thread, and  *)
(* both start threads that inherit the signal mask.  The instance of       *)
(* NetworkTables (from Create to Destroy) and the variable ntInst that     *)
(* refers to it (to the end of main()) are two objects.                    *)
(***************************************************************************)
EXTENDS Integers, Sequences

CONSTANTS
    MaxTries,          \* tries of EnabledState::Initialize: 50 in the code
    MaxSignals         \* bound: signals sent to the service

ASSUME ServiceBounds == MaxTries \in Nat \ {0} /\ MaxSignals \in Nat

Services == {"ExpansionHub", "PowerDistribution", "Radio"}

VARIABLES
    service,           \* which service this is
    todo,              \* the steps the main thread still has to take
    tries,             \* failed tries to open the control data
    objects,           \* objects that are alive
    loop,              \* the loop thread
    success,           \* of the function that ExecSync runs
    armed,             \* the loop has timers or pollers that fire
    blocked,           \* signals are blocked in the main thread
    inherited,         \* all other threads have them blocked, too
    pending,           \* a blocked signal waits
    sent,              \* signals sent so far
    exit               \* how the process ended

vars == <<service, todo, tries, objects, loop, success, armed, blocked, inherited,
          pending, sent, exit>>

Objects == {"enabledState", "states", "usbMonitor", "ntInst", "instData",
            "instance"}
LoopStates == {"none", "idle", "starting", "callback", "ended"}

(***************************************************************************)
(* The programs: a pair is a step and what it is about.                    *)
(***************************************************************************)

Construct(x) == <<"construct", x>>
Destruct(x) == <<"destruct", x>>
Step(x) == <<x, x>>
Return(code) == <<"return", code>>

\* Mutant: the signals are blocked once everything runs.
BlocksLate ==
    <<Construct("enabledState"), Step("initialize"), Construct("states"),
      Construct("usbMonitor"), Construct("instance"), Construct("ntInst"),
      Step("newRunner"), Step("block"), Step("exec"), Step("execDone"),
      Step("sigwait"), Destruct("instance"), Step("stop"), Destruct("ntInst"),
      Destruct("usbMonitor"), Destruct("states"), Destruct("enabledState"),
      Return("0")>>

\* Mutant: the loop is declared before the objects its callbacks use, and is
\* not stopped.
LoopOutlivesStates ==
    <<Step("block"), Step("newRunner"), Construct("enabledState"),
      Step("initialize"), Construct("states"), Construct("usbMonitor"),
      Construct("instance"), Construct("ntInst"), Step("exec"),
      Step("execDone"), Step("sigwait"), Destruct("instance"),
      Destruct("ntInst"), Destruct("usbMonitor"), Destruct("states"),
      Destruct("enabledState"), Step("stop"), Return("0")>>

ExpansionHubMain ==
    <<Step("block"), Construct("enabledState"), Step("initialize"),
      Construct("states"), Construct("usbMonitor"), Construct("instance"),
      Construct("ntInst"), Step("newRunner"), Step("exec"), Step("execDone"),
      Step("sigwait"), Destruct("instance"), Step("stop"), Destruct("ntInst"),
      Destruct("usbMonitor"), Destruct("states"), Destruct("enabledState"),
      Return("0")>>

\* The destructor of the loop runner stops it.
PowerDistributionMain ==
    <<Step("block"), Construct("states"), Construct("instance"),
      Construct("ntInst"), Step("newRunner"), Step("exec"), Step("execDone"),
      Step("sigwait"), Destruct("instance"), Step("stop"), Destruct("ntInst"),
      Destruct("states"), Return("0")>>

RadioMain ==
    <<Step("block"), Construct("instance"), Construct("ntInst"),
      Construct("instData"), Step("newRunner"), Step("exec"), Step("execDone"),
      Step("sigwait"), Step("stop"), Destruct("instance"),
      Destruct("instData"), Destruct("ntInst"), Return("0")>>

Main(s) == CASE s = "ExpansionHub" -> ExpansionHubMain
             [] s = "PowerDistribution" -> PowerDistributionMain
             [] s = "Radio" -> RadioMain

\* When the start fails, the loop is stopped, the variables constructed after
\* the signals were blocked are destructed in reverse, and main() returns -1;
\* nobody destroys the instance of NetworkTables, it ends with the process.
Failed(s) ==
    CASE s = "ExpansionHub" ->
            <<Step("stop"), Destruct("ntInst"), Destruct("usbMonitor"),
              Destruct("states"), Destruct("enabledState"), Return("-1")>>
      [] s = "PowerDistribution" ->
            <<Step("stop"), Destruct("ntInst"), Destruct("states"),
              Return("-1")>>
      [] s = "Radio" ->
            <<Step("stop"), Destruct("instData"), Destruct("ntInst"),
              Return("-1")>>

\* The variables of main() that the loop's functions reach by reference: by
\* capture, and ntInst through ExpansionHubState::ntInstance.
Captured(s) ==
    CASE s = "ExpansionHub" ->
            {"enabledState", "states", "usbMonitor", "ntInst"}
      [] s = "PowerDistribution" -> {"states", "ntInst"}
      [] s = "Radio" -> {"instData"}

AllSteps ==
    {Construct(x) : x \in Objects} \cup {Destruct(x) : x \in Objects}
        \cup {Step(x) : x \in {"block", "initialize", "newRunner", "exec",
                               "execDone", "sigwait", "stop"}}
        \cup {Return("0"), Return("-1")}

MainTypeOK ==
    /\ service \in Services
    /\ todo \in Seq(AllSteps)
    /\ tries \in 0 .. MaxTries
    /\ objects \subseteq Objects
    /\ loop \in LoopStates
    /\ success \in BOOLEAN /\ armed \in BOOLEAN /\ blocked \in BOOLEAN
    /\ inherited \in BOOLEAN /\ pending \in BOOLEAN
    /\ sent \in 0 .. MaxSignals
    /\ exit \in {"running", "0", "-1", "killed"}

(***************************************************************************)
(* The main thread.                                                        *)
(***************************************************************************)

At(step) == exit = "running" /\ todo # << >> /\ Head(todo)[1] = step
Advance == todo' = Tail(todo)

BlockSignals ==
    /\ At("block") /\ Advance
    /\ blocked' = TRUE
    /\ UNCHANGED <<service, tries, objects, loop, success, armed, inherited,
                   pending, sent, exit>>

\* StartClient starts the threads of an instance of NetworkTables.
ConstructObject ==
    /\ At("construct") /\ Advance
    /\ objects' = objects \cup {Head(todo)[2]}
    /\ inherited' = (inherited /\ (Head(todo)[2] = "instance" => blocked))
    /\ UNCHANGED <<service, tries, loop, success, armed, blocked, pending, sent,
                   exit>>

\* Mutant: the count wraps before it reaches its limit.
OpenFailsWraps ==
    /\ tries' = (tries + 1) % MaxTries
    /\ todo' = todo

\* Mutant: the tries are counted but not limited.
OpenFailsForEver ==
    /\ tries' = tries + 1
    /\ todo' = todo

\* open() fails: it is tried again, or Initialize returns false and main()
\* returns -1.
OpenFails ==
    /\ tries' = tries + 1
    /\ todo' = IF tries + 1 < MaxTries THEN todo
               ELSE <<Destruct("enabledState"), Return("-1")>>

\* One try of EnabledState::Initialize.
OpenControlData ==
    /\ At("initialize")
    /\ \/ Advance /\ UNCHANGED tries
       \/ OpenFails
    /\ UNCHANGED <<service, objects, loop, success, armed, blocked, inherited,
                   pending, sent, exit>>

NewRunner ==
    /\ At("newRunner") /\ Advance
    /\ loop' = "idle"
    /\ inherited' = (inherited /\ blocked)
    /\ UNCHANGED <<service, tries, objects, success, armed, blocked, pending, sent,
                   exit>>

ExecSync ==
    /\ At("exec") /\ Advance
    /\ loop = "idle"
    /\ loop' = "starting"
    /\ UNCHANGED <<service, tries, objects, success, armed, blocked, inherited,
                   pending, sent, exit>>

\* ExecSync returns once its function is done; a failure ends the service.
ExecReturns ==
    /\ At("execDone")
    /\ loop # "starting"
    /\ todo' = IF success THEN Tail(todo) ELSE Failed(service)
    /\ UNCHANGED <<service, tries, objects, loop, success, armed, blocked,
                   inherited, pending, sent, exit>>

SigWait ==
    /\ At("sigwait") /\ Advance
    /\ pending
    /\ pending' = FALSE
    /\ UNCHANGED <<service, tries, objects, loop, success, armed, blocked,
                   inherited, sent, exit>>

\* Stop, or the destructor of the loop runner: a callback that is running is
\* waited for.
StopLoop ==
    /\ At("stop") /\ Advance
    /\ loop = "idle"
    /\ loop' = "ended"
    /\ UNCHANGED <<service, tries, objects, success, armed, blocked, inherited,
                   pending, sent, exit>>

DestructObject ==
    /\ At("destruct") /\ Advance
    /\ objects' = objects \ {Head(todo)[2]}
    /\ UNCHANGED <<service, tries, loop, success, armed, blocked, inherited,
                   pending, sent, exit>>

ReturnFromMain ==
    /\ At("return") /\ Advance
    /\ exit' = Head(todo)[2]
    /\ UNCHANGED <<service, tries, objects, loop, success, armed, blocked,
                   inherited, pending, sent>>

MainThread ==
    \/ BlockSignals \/ ConstructObject \/ OpenControlData \/ NewRunner
    \/ ExecSync \/ ExecReturns \/ SigWait \/ StopLoop \/ DestructObject
    \/ ReturnFromMain

(***************************************************************************)
(* The loop thread.                                                        *)
(***************************************************************************)

\* What the loop runs after its start: the send timer and the poller of the
\* monitor, or the pollers of the CAN sockets, of which the first is armed
\* when the second fails.  The radio's timer is created and never started.
Armed(s, ok) ==
    CASE s = "ExpansionHub" -> {ok}
      [] s = "PowerDistribution" -> IF ok THEN {TRUE} ELSE BOOLEAN
      [] s = "Radio" -> {FALSE}

StartUvLoop ==
    /\ exit = "running" /\ loop = "starting"
    /\ loop' = "idle"
    /\ success' \in BOOLEAN
    /\ armed' \in Armed(service, success')
    /\ UNCHANGED <<service, todo, tries, objects, blocked, inherited, pending, sent,
                   exit>>

\* A timer or a poller fires.
CallbackBegins ==
    /\ exit = "running" /\ loop = "idle" /\ armed
    /\ loop' = "callback"
    /\ UNCHANGED <<service, todo, tries, objects, success, armed, blocked,
                   inherited, pending, sent, exit>>

CallbackEnds ==
    /\ exit = "running" /\ loop = "callback"
    /\ loop' = "idle"
    /\ UNCHANGED <<service, todo, tries, objects, success, armed, blocked,
                   inherited, pending, sent, exit>>

LoopThread == StartUvLoop \/ CallbackEnds

(***************************************************************************)
(* SIGTERM or SIGINT from outside: it waits when every thread blocks it,   *)
(* and otherwise its default action ends the process.                      *)
(***************************************************************************)
Signal ==
    /\ exit = "running" /\ sent < MaxSignals
    /\ sent' = sent + 1
    /\ IF blocked /\ inherited
       THEN pending' = TRUE /\ UNCHANGED exit
       ELSE exit' = "killed" /\ UNCHANGED pending
    /\ UNCHANGED <<service, todo, tries, objects, loop, success, armed, blocked,
                   inherited>>

Init ==
    /\ service \in Services
    /\ todo = Main(service)
    /\ tries = 0
    /\ objects = {}
    /\ loop = "none"
    /\ success = FALSE
    /\ armed = FALSE
    /\ blocked = FALSE
    /\ inherited = TRUE
    /\ pending = FALSE
    /\ sent = 0
    /\ exit = "running"

Next == MainThread \/ LoopThread \/ CallbackBegins \/ Signal

Spec == Init /\ [][Next]_vars

\* Both threads run.  The main thread asks for an idle loop when it stops it,
\* and gets it although callbacks keep coming.
FairSpec ==
    /\ Spec
    /\ SF_vars(MainThread)
    /\ WF_vars(LoopThread)

(***************************************************************************)
(* Properties.                                                             *)
(***************************************************************************)

\* After a signal, these two main() functions destroy the instance before they
\* stop the loop.
DestroyedFirst ==
    /\ service # "Radio" /\ todo # << >>
    /\ Head(todo)[1] = "stop" /\ todo[Len(todo)] = Return("0")

\* No function of the loop, neither the start nor a callback, runs on a
\* variable that main() has not constructed yet or has destructed, however the
\* signal, the callbacks and a failing start meet; and all they publish goes
\* through an instance that exists, but for one window: in the hub and in the
\* power distribution service a callback may run on after Destroy, until Stop
\* has waited for it.  It never does so in the radio service, while the service
\* starts, serves or waits for a signal, nor when the start has failed.
CallbacksSafe ==
    loop \in {"starting", "callback"} =>
        /\ Captured(service) \subseteq objects
        /\ \/ "instance" \in objects
           \/ loop = "callback" /\ DestroyedFirst

\* Once the signals are blocked, none of them kills the service: each thread
\* started later has them blocked.
NeverKilled == [][blocked => exit' # "killed"]_vars

\* A signal that comes at any time after that, even while the service is
\* starting and nobody waits for signals, ends the service in an orderly way.
SignalEndsService == pending ~> exit \in {"0", "-1"}

\* The start does not hang: it ends with a service that waits for signals, or
\* with an error after a bounded number of tries.
StartEnds == <>(At("sigwait") \/ exit # "running")
=============================================================================
