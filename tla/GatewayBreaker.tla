--------------------------- MODULE GatewayBreaker ---------------------------
(***************************************************************************)
(* The circuit breaker inside the Mercado Pago adapter.  It counts the     *)
(* failures of the last minute; five open it for thirty seconds; then it   *)
(* is half open until the next call comes back.  Nothing limits the calls  *)
(* it lets through half open, and a call that went out before it opened    *)
(* still reports to it: a late success closes it, a late failure counts.   *)
(* Any HTTP answer is a success here; only a fetch that rejects fails.     *)
(***************************************************************************)
EXTENDS Integers, Sequences

CONSTANTS GatewayCalls,      \* requests to Mercado Pago that may be out at once
          FailureThreshold, FailureWindow, GatewayOpenFor,
          MaxGatewayTime     \* bound: the clock

ASSUME GatewayAssumption ==
    /\ FailureThreshold \in Nat \ {0}
    /\ FailureWindow \in Nat /\ GatewayOpenFor \in Nat \ {0}
    /\ MaxGatewayTime \in Nat

VARIABLES gatewayNow,
          circuitState,       \* CLOSED, OPEN or HALF_OPEN
          openedUntil,
          failureTimestamps,
          gatewayCall         \* gatewayCall[c]: what became of the request

gatewayVars == <<gatewayNow, circuitState, openedUntil, failureTimestamps, gatewayCall>>

\* Several failures within one unit of time are as many entries.
GatewayTypeOK ==
    /\ gatewayNow \in 0..MaxGatewayTime
    /\ circuitState \in {"CLOSED", "OPEN", "HALF_OPEN"}
    /\ openedUntil \in 0..(MaxGatewayTime + GatewayOpenFor)
    /\ failureTimestamps \in Seq(0..MaxGatewayTime)
    /\ gatewayCall \in [GatewayCalls -> {"idle", "out", "answered", "failed", "refused"}]

GatewayInit ==
    /\ gatewayNow = 0
    /\ circuitState = "CLOSED" /\ openedUntil = 0
    /\ failureTimestamps = <<>>
    /\ gatewayCall = [c \in GatewayCalls |-> "idle"]

GatewayTick ==
    /\ gatewayNow < MaxGatewayTime
    /\ gatewayNow' = gatewayNow + 1
    /\ UNCHANGED <<circuitState, openedUntil, failureTimestamps, gatewayCall>>

-----------------------------------------------------------------------------
\* Mutant of Blocked: half open a moment early.
BlockedBriefly == circuitState = "OPEN" /\ gatewayNow < openedUntil - 1
Blocked == circuitState = "OPEN" /\ gatewayNow < openedUntil

\* generatePaymentLink and verifyTransaction end at once with "gateway not
\* available" while the breaker is open (or the flag MP_ENABLED is off).
GatewayRefuses(c) ==
    /\ gatewayCall[c] # "out"
    /\ Blocked
    /\ gatewayCall' = [gatewayCall EXCEPT ![c] = "refused"]
    /\ UNCHANGED <<gatewayNow, circuitState, openedUntil, failureTimestamps>>

GatewaySends(c) ==
    /\ gatewayCall[c] # "out"
    /\ ~Blocked
    /\ gatewayCall' = [gatewayCall EXCEPT ![c] = "out"]
    /\ circuitState' = IF circuitState = "OPEN" THEN "HALF_OPEN" ELSE circuitState
    /\ UNCHANGED <<gatewayNow, openedUntil, failureTimestamps>>

RecordSuccess(c) ==
    /\ gatewayCall[c] = "out"
    /\ gatewayCall' = [gatewayCall EXCEPT ![c] = "answered"]
    /\ circuitState' = "CLOSED" /\ openedUntil' = 0
    /\ failureTimestamps' = <<>>
    /\ UNCHANGED gatewayNow

\* What is left when the entries at the head are shifted out until one is
\* recent; the last entry always is.
IsRecent(t) == t >= gatewayNow - FailureWindow
FirstRecent(times) == CHOOSE i \in 1..Len(times) :
    IsRecent(times[i]) /\ \A j \in 1..(i - 1) : ~IsRecent(times[j])
Recent(times) == SubSeq(times, FirstRecent(times), Len(times))

RecordFailure(c) ==
    /\ gatewayCall[c] = "out"
    /\ gatewayCall' = [gatewayCall EXCEPT ![c] = "failed"]
    /\ failureTimestamps' = Recent(Append(failureTimestamps, gatewayNow))
    /\ IF circuitState = "HALF_OPEN" \/ Len(failureTimestamps') >= FailureThreshold
       THEN circuitState' = "OPEN" /\ openedUntil' = gatewayNow + GatewayOpenFor
       ELSE UNCHANGED <<circuitState, openedUntil>>
    /\ UNCHANGED gatewayNow

GatewayNext ==
    \/ GatewayTick
    \/ \E c \in GatewayCalls :
           GatewayRefuses(c) \/ GatewaySends(c) \/ RecordSuccess(c) \/ RecordFailure(c)

GatewaySpec == GatewayInit /\ [][GatewayNext]_gatewayVars

-----------------------------------------------------------------------------
\* The adapter keeps a breaker's promise to checkout and webhooks, late
\* answers and failures included.
Promise == INSTANCE Breaker
    WITH Calls <- GatewayCalls, Threshold <- FailureThreshold, OpenFor <- GatewayOpenFor,
         now <- gatewayNow,
         out <- {c \in GatewayCalls : gatewayCall[c] = "out"},
         strikes <- Len(failureTimestamps),
         probing <- circuitState = "HALF_OPEN",
         blockedUntil <- IF circuitState = "OPEN" THEN openedUntil ELSE 0
GatewayImplementsBreaker == Promise!Spec
=============================================================================
