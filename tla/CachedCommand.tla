---------------------------- MODULE CachedCommand ----------------------------
(***************************************************************************)
(* expansionhub/CachedCommand.h: a setting that is sent to the hub only    *)
(* while the hub has not acknowledged the value the client asks for.       *)
(*                                                                         *)
(* A cache is a record                                                     *)
(*   acked     lastAckedValue, a std::optional: {} or {v}                  *)
(*   attempted lastAttemptedValue: {v}, or {} while the member is still    *)
(*             uninitialised                                               *)
(* Booleans travel as 0 and 1, so every cached value is an integer.        *)
(***************************************************************************)
EXTENDS Integers

Caches(Value) == [acked : SUBSET Value, attempted : SUBSET Value]

\* The cache of a default constructed CachedCommand.
NewCache == [acked |-> {}, attempted |-> {}]

ForceReset(c) == [c EXCEPT !.acked = {}]

Ack(c) == [c EXCEPT !.acked = c.attempted]

\* Get() returns a value (the command must be sent) rather than nullopt.
MustSend(c, newValue) == c.acked # {newValue}

\* Mutant: the value that was acknowledged before is kept.
GetKeepsAcked(c, newValue) ==
    IF MustSend(c, newValue) THEN [c EXCEPT !.attempted = {newValue}] ELSE c

\* Mutant: the attempted value is not recorded.
GetForgetsAttempt(c, newValue) ==
    IF MustSend(c, newValue) THEN [c EXCEPT !.acked = {}] ELSE c

\* What Get() leaves behind.
Get(c, newValue) ==
    IF MustSend(c, newValue) THEN [acked |-> {}, attempted |-> {newValue}]
                             ELSE c

\* Mutant: the transaction's permission to enable is not consulted.
IgnoreCanEnable(canEnable, value) == value

\* The value GetWithCanEnable compares: the client's, or false when the
\* transaction may not enable anything.
WithCanEnable(canEnable, value) == IF canEnable THEN value ELSE 0
=============================================================================
