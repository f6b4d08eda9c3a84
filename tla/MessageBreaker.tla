--------------------------- MODULE MessageBreaker ---------------------------
(***************************************************************************)
(* The circuit breaker around the mail service and, the same but for what  *)
(* it does with an exception, around the WhatsApp service.  Five failures  *)
(* without a success in between open it; the first message after thirty    *)
(* seconds closes it and forgets them.  A message that was on its way when *)
(* it opened still reports: a late success forgets the failures but leaves *)
(* it open, a late failure may open it for longer.                         *)
(***************************************************************************)
EXTENDS Integers

CONSTANTS Messages,         \* messages that may be on their way at once
          MessageThreshold, \* opts.failureThreshold
          MessageOpenFor,   \* opts.openMs
          MaxMessageTime    \* bound: the clock

ASSUME MessageAssumption ==
    /\ MessageThreshold \in Nat \ {0} /\ MessageOpenFor \in Nat \ {0}
    /\ MaxMessageTime \in Nat

VARIABLES messageNow,
          breakerOpen,  \* state = OPEN
          openedAt,
          failures,
          message       \* message[m]: what the caller got for it

messageVars == <<messageNow, breakerOpen, openedAt, failures, message>>

MessageTypeOK ==
    /\ messageNow \in 0..MaxMessageTime
    /\ breakerOpen \in BOOLEAN
    /\ openedAt \in 0..MaxMessageTime
    /\ failures \in Nat
    /\ message \in [Messages -> {"idle", "out", "true", "false"}]

MessageInit ==
    /\ messageNow = 0
    /\ breakerOpen = FALSE /\ openedAt = 0 /\ failures = 0
    /\ message = [m \in Messages |-> "idle"]

MessageTick ==
    /\ messageNow < MaxMessageTime
    /\ messageNow' = messageNow + 1
    /\ UNCHANGED <<breakerOpen, openedAt, failures, message>>

-----------------------------------------------------------------------------
Cooling == breakerOpen /\ messageNow - openedAt < MessageOpenFor

OmitMessage(m) ==
    /\ message[m] # "out"
    /\ Cooling
    /\ message' = [message EXCEPT ![m] = "false"]
    /\ UNCHANGED <<messageNow, breakerOpen, openedAt, failures>>

SendMessage(m) ==
    /\ message[m] # "out"
    /\ ~Cooling
    /\ message' = [message EXCEPT ![m] = "out"]
    /\ breakerOpen' = FALSE
    /\ failures' = IF breakerOpen THEN 0 ELSE failures
    /\ UNCHANGED <<messageNow, openedAt>>

MessageSent(m) ==
    /\ message[m] = "out"
    /\ message' = [message EXCEPT ![m] = "true"]
    /\ failures' = 0
    /\ UNCHANGED <<messageNow, breakerOpen, openedAt>>

\* The service answers false or throws.
MessageFails(m) ==
    /\ message[m] = "out"
    /\ message' = [message EXCEPT ![m] = "false"]
    /\ failures' = failures + 1
    /\ IF failures' >= MessageThreshold
       THEN breakerOpen' = TRUE /\ openedAt' = messageNow
       ELSE UNCHANGED <<breakerOpen, openedAt>>
    /\ UNCHANGED messageNow

MessageNext ==
    \/ MessageTick
    \/ \E m \in Messages :
           OmitMessage(m) \/ SendMessage(m) \/ MessageSent(m) \/ MessageFails(m)

MessageSpec == MessageInit /\ [][MessageNext]_messageVars

-----------------------------------------------------------------------------
\* Mail and WhatsApp get a breaker's promise, late answers and failures
\* included.
MessagePromise == INSTANCE Breaker
    WITH Calls <- Messages, Threshold <- MessageThreshold, OpenFor <- MessageOpenFor,
         now <- messageNow,
         out <- {m \in Messages : message[m] = "out"},
         strikes <- failures,
         probing <- FALSE,
         blockedUntil <- IF breakerOpen THEN openedAt + MessageOpenFor ELSE 0
MessageImplementsBreaker == MessagePromise!Spec
=============================================================================
