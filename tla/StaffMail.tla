------------------------------ MODULE StaffMail -----------------------------
(***************************************************************************)
(* The mails that follow an event: a payment, a credit sale, a statement   *)
(* asked for by staff, a password reset, a business alert.  The subscriber *)
(* of the event hands the mail to the mail service behind a breaker; with  *)
(* Redis the service only queues it, and the worker, a process of its own  *)
(* with a breaker of its own, sends it later.  The first three kinds leave *)
(* a NotificationLog row, which is written from what the service answered. *)
(*                                                                         *)
(* Each router builds its own mail service, so each kind has its breaker.  *)
(* How long a breaker stays open is left open: MessageBreaker has the time.*)
(* The payments of an instance are payments of one client.                 *)
(***************************************************************************)
EXTENDS Integers, FiniteSets, Functions

CONSTANTS Mails,           \* bound: the events of an instance
          MaxPerHour,      \* the throttle of payment mails
          MailThreshold,   \* failures that open a breaker
          MaxStalls,       \* how often the queue hands out a stalled job again
          MaxStops         \* bound: restarts of the two processes

ASSUME StaffMailAssumption ==
    /\ IsFiniteSet(Mails) /\ MaxStops \in Nat
    /\ MaxPerHour \in Nat /\ MailThreshold \in Nat \ {0} /\ MaxStalls \in Nat

VARIABLES redis,          \* whether REDIS_URL is set
          mail,           \* mail[m]: what the subscriber is doing for the event
          slots,          \* times of payment mails that canSend keeps of the client
          mailBreaker,    \* mailBreaker[k]: in the web process
          job,            \* job[m]: in the queue
          stalls,         \* stalls[m]: workers that stopped with the job
          workerBreaker,
          row,            \* row[m]: NotificationLog.status
          delivered,      \* delivered[m]: copies that reached the mailbox
          answerLost,     \* mails that the web process was told failed and did not
          webStops

mailVars == <<redis, mail, slots, mailBreaker, job, stalls, workerBreaker, row,
              delivered, answerLost, webStops>>

Kinds == {"payment", "sale", "statement", "reset", "alert"}
Logged == {"payment", "sale", "statement"}
\* Alerts go to the mail server without a breaker or the queue.
Guarded == Kinds \ {"alert"}
Shut == [open |-> FALSE, failures |-> 0]
NoMail == [kind |-> "none", pc |-> "idle", ok |-> FALSE]

MailTypeOK ==
    /\ redis \in BOOLEAN
    /\ mail \in [Mails -> [kind : Kinds \cup {"none"}, ok : BOOLEAN,
                           pc : {"idle", "send", "smtp", "log", "done"}]]
    /\ slots \in 0..MaxPerHour
    /\ \A k \in Guarded : mailBreaker[k] \in [open : BOOLEAN, failures : Nat]
    /\ job \in [Mails -> {"none", "waiting", "active", "sent", "finished", "failed"}]
    /\ stalls \in [Mails -> 0..MaxStalls + 1]
    /\ workerBreaker \in [open : BOOLEAN, failures : Nat]
    /\ row \in [Mails -> {"none", "SENT", "FAILED"}]
    /\ delivered \in [Mails -> Nat]
    /\ answerLost \subseteq Mails
    /\ webStops \in 0..MaxStops

MailInit ==
    /\ redis \in BOOLEAN
    /\ mail = [m \in Mails |-> NoMail]
    /\ slots = 0
    /\ mailBreaker = [k \in Guarded |-> Shut] /\ workerBreaker = Shut
    /\ job = [m \in Mails |-> "none"]
    /\ stalls = [m \in Mails |-> 0] /\ delivered = [m \in Mails |-> 0]
    /\ row = [m \in Mails |-> "none"]
    /\ answerLost = {} /\ webStops = 0

-----------------------------------------------------------------------------
At(m, pc) == mail[m].pc = pc
Move(m, pc) == mail' = [mail EXCEPT ![m].pc = pc]
Ended == [NoMail EXCEPT !.pc = "done"]

Begin(m, kind, pc) ==
    /\ At(m, "idle")
    /\ mail' = [mail EXCEPT ![m] = [kind |-> kind, pc |-> pc, ok |-> FALSE]]
    /\ UNCHANGED <<redis, mailBreaker, job, stalls, workerBreaker, row, delivered,
                   answerLost, webStops>>

Omit(m) ==
    /\ At(m, "idle")
    /\ mail' = [mail EXCEPT ![m] = Ended]
    /\ UNCHANGED <<redis, mailBreaker, job, stalls, workerBreaker, row, delivered,
                   answerLost, webStops>>

\* Mutant of PaymentRegistered: no throttle.
PaymentUnthrottled(m) == (Begin(m, "payment", "send") \/ Omit(m)) /\ slots' = slots + 1

\* canSend forgets the places that are an hour old and takes one, before anything
\* is known of the client; a refusal writes nothing.  There may be no such
\* client, no address, or no answer from the database; a statement that cannot
\* be drawn up only leaves the mail without it.
PaymentRegistered(m) ==
    \E recent \in 0..slots :
        IF recent < MaxPerHour
        THEN (Begin(m, "payment", "send") \/ Omit(m)) /\ slots' = recent + 1
        ELSE Omit(m) /\ UNCHANGED slots

CreditSaleCreated(m) == (Begin(m, "sale", "send") \/ Omit(m)) /\ UNCHANGED slots
ClientNotifyRequested(m) == (Begin(m, "statement", "send") \/ Omit(m)) /\ UNCHANGED slots
CustomerPasswordReset(m) == Begin(m, "reset", "send") /\ UNCHANGED slots
BusinessAlertTriggered(m) == Begin(m, "alert", "smtp") /\ UNCHANGED slots

-----------------------------------------------------------------------------
\* A breaker that has been open long enough closes for the next mail.
Passed(b) == IF b.open THEN Shut ELSE b
After(b, ok) ==
    IF ok THEN [b EXCEPT !.failures = 0]
    ELSE [open |-> b.open \/ b.failures + 1 >= MailThreshold, failures |-> b.failures + 1]

Answer(m, ok) ==
    mail' = [mail EXCEPT ![m] = IF @.kind \in Logged THEN [@ EXCEPT !.ok = ok, !.pc = "log"]
                                ELSE Ended]

OmitWhileOpen(m) ==
    /\ At(m, "send") /\ mailBreaker[mail[m].kind].open
    /\ Answer(m, FALSE)
    /\ UNCHANGED <<redis, slots, mailBreaker, job, stalls, workerBreaker, row, delivered,
                   answerLost, webStops>>

\* Mutant of Enqueue: it does not return, and sends the mail itself as well.
EnqueueAndSend(m) ==
    /\ At(m, "send") /\ redis
    /\ job' = [job EXCEPT ![m] = "waiting"]
    /\ Move(m, "smtp")
    /\ mailBreaker' = [mailBreaker EXCEPT ![mail[m].kind] = After(Passed(@), TRUE)]
    /\ UNCHANGED <<redis, slots, stalls, workerBreaker, row, delivered, answerLost, webStops>>

\* The answer is that the mail was sent as soon as it is in the queue.
Enqueue(m) ==
    /\ At(m, "send") /\ redis
    /\ job' = [job EXCEPT ![m] = "waiting"]
    /\ Answer(m, TRUE)
    /\ mailBreaker' = [mailBreaker EXCEPT ![mail[m].kind] = After(Passed(@), TRUE)]
    /\ UNCHANGED <<redis, slots, stalls, workerBreaker, row, delivered, answerLost, webStops>>

\* Without Redis, or when the queue cannot be written, the web process sends
\* the mail itself; the queue may have it all the same.
SendInline(m) ==
    /\ At(m, "send")
    /\ \/ UNCHANGED <<job, answerLost>>
       \/ /\ redis
          /\ job' = [job EXCEPT ![m] = "waiting"]
          /\ answerLost' = answerLost \cup {m}
    /\ Move(m, "smtp")
    /\ mailBreaker' = [mailBreaker EXCEPT ![mail[m].kind] = Passed(@)]
    /\ UNCHANGED <<redis, slots, stalls, workerBreaker, row, delivered, webStops>>

\* taken: the server has the mail; told: its answer came through.
SmtpAnswers(m, taken, told) ==
    LET ok == taken /\ told IN
    /\ At(m, "smtp")
    /\ delivered' = [delivered EXCEPT ![m] = @ + (IF taken THEN 1 ELSE 0)]
    /\ answerLost' = IF taken /\ ~told THEN answerLost \cup {m} ELSE answerLost
    /\ Answer(m, ok)
    /\ mailBreaker' = IF mail[m].kind \notin Guarded THEN mailBreaker
                      ELSE [mailBreaker EXCEPT ![mail[m].kind] = After(@, ok)]
    /\ UNCHANGED <<redis, slots, job, stalls, workerBreaker, row, webStops>>

StatusOf(ok) == IF ok THEN "SENT" ELSE "FAILED"

WriteRow(m) ==
    /\ At(m, "log")
    /\ mail' = [mail EXCEPT ![m] = Ended]
    /\ row' = [row EXCEPT ![m] = StatusOf(mail[m].ok)]
    /\ UNCHANGED <<redis, slots, mailBreaker, job, stalls, workerBreaker, delivered,
                   answerLost, webStops>>

\* An error of the insert is swallowed with the others.
RowFails(m) ==
    /\ At(m, "log")
    /\ mail' = [mail EXCEPT ![m] = Ended]
    /\ UNCHANGED <<redis, slots, mailBreaker, job, stalls, workerBreaker, row, delivered,
                   answerLost, webStops>>

MayStop == webStops + SumFunctionOnSet(stalls, Mails) < MaxStops

\* Events, throttle and breakers live in memory.
WebStops ==
    /\ MayStop /\ webStops' = webStops + 1
    /\ mail' = [m \in Mails |-> IF mail[m].pc \in {"send", "smtp", "log"} THEN Ended
                                ELSE mail[m]]
    /\ \E taken \in SUBSET {m \in Mails : At(m, "smtp")} :
           delivered' = [m \in Mails |-> delivered[m] + (IF m \in taken THEN 1 ELSE 0)]
    /\ slots' = 0
    /\ mailBreaker' = [k \in Guarded |-> Shut]
    /\ UNCHANGED <<redis, job, stalls, workerBreaker, row, answerLost>>

-----------------------------------------------------------------------------
\* The worker takes one job at a time.
WorkerIdle == \A m \in Mails : job[m] \notin {"active", "sent"}

WorkerMoves(m, before, after) ==
    /\ job[m] = before
    /\ job' = [job EXCEPT ![m] = after]
    /\ UNCHANGED <<redis, mail, slots, mailBreaker, row, answerLost, webStops>>

TakeJob(m) ==
    /\ WorkerIdle
    /\ WorkerMoves(m, "waiting", "active")
    /\ workerBreaker' = Passed(workerBreaker)
    /\ UNCHANGED <<stalls, delivered>>

\* The worker does not look at the answer false: a job met by an open breaker,
\* or refused by the mail server, is finished and removed like any other, and
\* the four attempts it has left are not made, nor is it kept as a failed one.
AfterFailure == "finished"

WorkerOmits(m) ==
    /\ WorkerIdle /\ workerBreaker.open
    /\ WorkerMoves(m, "waiting", AfterFailure)
    /\ UNCHANGED <<stalls, workerBreaker, delivered>>

WorkerDelivers(m) ==
    /\ WorkerMoves(m, "active", "sent")
    /\ delivered' = [delivered EXCEPT ![m] = @ + 1]
    /\ UNCHANGED <<stalls, workerBreaker>>

WorkerFails(m) ==
    /\ WorkerMoves(m, "active", AfterFailure) \/ WorkerMoves(m, "sent", AfterFailure)
    /\ workerBreaker' = After(workerBreaker, FALSE)
    /\ UNCHANGED <<stalls, delivered>>

WorkerFinishes(m) ==
    /\ WorkerMoves(m, "sent", "finished")
    /\ workerBreaker' = After(workerBreaker, TRUE)
    /\ UNCHANGED <<stalls, delivered>>

\* The queue hands out the job of a worker that stopped again, up to a limit;
\* then it is a failed job, and those are kept.
WorkerStops(m) ==
    /\ MayStop
    /\ \E before \in {"active", "sent"} :
           WorkerMoves(m, before, IF stalls[m] < MaxStalls THEN "waiting" ELSE "failed")
    /\ stalls' = [stalls EXCEPT ![m] = @ + 1]
    /\ workerBreaker' = Shut
    /\ UNCHANGED delivered

MailNext ==
    \/ WebStops
    \/ \E m \in Mails :
           \/ PaymentRegistered(m) \/ CreditSaleCreated(m) \/ ClientNotifyRequested(m)
           \/ CustomerPasswordReset(m) \/ BusinessAlertTriggered(m)
           \/ OmitWhileOpen(m) \/ Enqueue(m) \/ SendInline(m)
           \/ \E taken, told \in BOOLEAN : SmtpAnswers(m, taken, told)
           \/ WriteRow(m) \/ RowFails(m)
           \/ TakeJob(m) \/ WorkerOmits(m) \/ WorkerDelivers(m) \/ WorkerFails(m)
           \/ WorkerFinishes(m) \/ WorkerStops(m)

MailSpec == MailInit /\ [][MailNext]_mailVars

-----------------------------------------------------------------------------
\* A customer gets a mail twice only for a worker that stopped with it or an
\* answer of the queue that was lost.
CopiesExplained ==
    \A m \in Mails : delivered[m] <= 1 + stalls[m] + (IF m \in answerLost THEN 1 ELSE 0)

\* What the web process logs of the handover of a mail, unless an answer was
\* lost: FAILED was not and will not be delivered; SENT is a mail that it
\* queued, or one that the mail server took.  SENT says nothing of what the
\* worker does with a queued mail.
HandoverLogged ==
    \A m \in Mails \ answerLost :
        /\ row[m] = "FAILED" => delivered[m] = 0 /\ job[m] = "none"
        /\ row[m] = "SENT" /\ job[m] = "none" => delivered[m] = 1

\* Copies and handovers are accounted for, whatever breaker, queue, mail server
\* and restarts do between the event and its row.
HandoversAccounted == CopiesExplained /\ HandoverLogged

\* "A separate background worker ... consumes these jobs, applying retries"
\* (README.md:655): a job that the worker is done with, and that is not kept as
\* a failed one, has reached its mailbox.
UndeliveredJobsKept == \A m \in Mails : job[m] = "finished" => delivered[m] > 0
=============================================================================
