------------------------------- MODULE Breaker ------------------------------
(***************************************************************************)
(* What a circuit breaker promises its callers: after Threshold strikes,   *)
(* or one while it probes, no call goes out for OpenFor, unless a call     *)
(* that was still out comes back well.  The breaker of the payment gateway *)
(* and the breakers of the mail and WhatsApp channels implement it, each   *)
(* in its own way.                                                         *)
(***************************************************************************)
EXTENDS Integers

CONSTANTS Calls,      \* the calls that may be out at once
          Threshold,  \* strikes that block
          OpenFor     \* how long it blocks

VARIABLES now, out, strikes, probing, blockedUntil

vars == <<now, out, strikes, probing, blockedUntil>>

Init ==
    /\ now = 0 /\ out = {} /\ strikes = 0
    /\ probing = FALSE /\ blockedUntil = 0

Tick == now' = now + 1 /\ UNCHANGED <<out, strikes, probing, blockedUntil>>

\* The first call after the block is over either probes or finds the strikes
\* forgotten.
Admit(c) ==
    /\ c \notin out /\ out' = out \cup {c}
    /\ now >= blockedUntil
    /\ IF blockedUntil = 0 THEN UNCHANGED <<strikes, probing>>
       ELSE \/ probing' = TRUE /\ UNCHANGED strikes
            \/ strikes' = 0 /\ UNCHANGED probing
    /\ blockedUntil' = 0
    /\ UNCHANGED now

ComesBackWell(c) ==
    /\ c \in out /\ out' = out \ {c}
    /\ strikes' = 0 /\ probing' = FALSE
    /\ blockedUntil' \in {0, blockedUntil}
    /\ UNCHANGED now

\* Old strikes may be forgotten when a new one is counted.
Strike(c) ==
    /\ c \in out /\ out' = out \ {c}
    /\ strikes' \in 1..(strikes + 1)
    /\ IF probing \/ strikes' >= Threshold
       THEN blockedUntil' = now + OpenFor /\ probing' = FALSE
       ELSE UNCHANGED <<blockedUntil, probing>>
    /\ UNCHANGED now

Next == Tick \/ \E c \in Calls : Admit(c) \/ ComesBackWell(c) \/ Strike(c)

Spec == Init /\ [][Next]_vars
=============================================================================
