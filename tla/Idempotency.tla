---------------------------- MODULE Idempotency -----------------------------
(***************************************************************************)
(* The Idempotency-Key middleware in front of POST /sales, /payments and   *)
(* /online-orders.                                                         *)
(*                                                                         *)
(* An attempt is one HTTP request as it arrives; a client that repeats a   *)
(* request sends another attempt with the same key.  Every query of the    *)
(* middleware and the handler behind it is a step of its own.  A key here  *)
(* is the pair of the header and the operation (method, route, actor), the *)
(* hash of the body is the body, and the answer an execution produces is   *)
(* named after the attempt that executed it: two executions never produce  *)
(* the same sale, payment or order.                                        *)
(***************************************************************************)
CONSTANTS Attempts, Keys, Bodies,
          NoKey,     \* the header is missing or blank
          LongKey,   \* a header of more than 128 characters
          NoRecord   \* no IdempotencyRecord row

ASSUME IdempotencyAssumption ==
    /\ NoKey \notin Keys /\ LongKey \notin Keys /\ NoKey # LongKey
    /\ Attempts \cap {"none", "refused", "conflict", "failed", "lost"} = {}
    /\ NoRecord \notin [body : Bodies, answer : Attempts]
    /\ Bodies # {}

VARIABLES record,   \* record[k]: the IdempotencyRecord row of key k
          attempt   \* attempt[a]: where attempt a stands

idempotencyVars == <<record, attempt>>

Replies == Attempts \cup {"none", "refused", "conflict", "failed", "lost"}
IdempotencyRow == [body : Bodies, answer : Attempts]

\* executed: its handler has committed; afterReply: when it arrived, a
\* client had already received a successful answer to its key.
Attempt == [pc : {"idle", "find", "handle", "record", "reread", "reply", "done"},
            key : Keys \cup {NoKey, LongKey}, body : Bodies,
            executed : BOOLEAN, afterReply : BOOLEAN, reply : Replies]

IdempotencyTypeOK ==
    /\ record \in [Keys -> IdempotencyRow \cup {NoRecord}]
    /\ attempt \in [Attempts -> Attempt]

IdempotencyInit ==
    /\ record = [k \in Keys |-> NoRecord]
    /\ attempt = [a \in Attempts |->
           [pc |-> "idle", key |-> NoKey, body |-> CHOOSE b \in Bodies : TRUE,
            executed |-> FALSE, afterReply |-> FALSE, reply |-> "none"]]

-----------------------------------------------------------------------------
\* The attempts with key k that were answered with success.
Answered(k) == {a \in Attempts : attempt[a].key = k /\ attempt[a].reply \in Attempts}

Finish(a, reply) ==
    attempt' = [attempt EXCEPT ![a].pc = "done", ![a].reply = reply]

Go(a, pc) == attempt' = [attempt EXCEPT ![a].pc = pc]

\* The row answers the attempt: same body, same answer; else a conflict.
Replay(a, row) ==
    IF row.body = attempt[a].body THEN Finish(a, row.answer) ELSE Finish(a, "conflict")

Arrive(a, k, b) ==
    /\ attempt[a].pc = "idle"
    /\ attempt' = [attempt EXCEPT ![a] =
           [pc |-> CASE k = NoKey -> "handle" [] k = LongKey -> "done" [] OTHER -> "find",
            key |-> k, body |-> b, executed |-> FALSE,
            afterReply |-> Answered(k) # {},
            reply |-> IF k = LongKey THEN "refused" ELSE "none"]]
    /\ UNCHANGED record

\* The first query: replay, conflict, or on to the handler.
FindNothing(a) ==
    /\ attempt[a].pc = "find"
    /\ Go(a, "handle")
    /\ UNCHANGED record
Find(a) ==
    /\ attempt[a].pc = "find"
    /\ LET row == record[attempt[a].key]
       IN  IF row = NoRecord THEN Go(a, "handle") ELSE Replay(a, row)
    /\ UNCHANGED record

\* The handler commits its transaction and answers with 2xx, which the
\* middleware intercepts when there is a key.
Execute(a) ==
    /\ attempt[a].pc = "handle"
    /\ attempt' = [attempt EXCEPT ![a] =
           IF attempt[a].key = NoKey
           THEN [@ EXCEPT !.executed = TRUE, !.pc = "done", !.reply = a]
           ELSE [@ EXCEPT !.executed = TRUE, !.pc = "record"]]
    /\ UNCHANGED record

\* The handler refuses: nothing is written, and no record either.
ExecuteRefused(a) ==
    /\ attempt[a].pc = "handle"
    /\ Finish(a, "failed")
    /\ UNCHANGED record

\* The handler has committed and fails afterwards: a checkout whose payment
\* link cannot be created, a sale whose initial payment is refused.
ExecuteThenFail(a) ==
    /\ attempt[a].pc = "handle"
    /\ attempt' = [attempt EXCEPT ![a].executed = TRUE, ![a].pc = "done",
                                  ![a].reply = "failed"]
    /\ UNCHANGED record

\* res.json was intercepted: the row is created before the answer leaves; a
\* row that another attempt created first is a unique violation.
RecordAnswer(a) ==
    /\ attempt[a].pc = "record"
    /\ LET k == attempt[a].key
       IN  IF record[k] = NoRecord
           THEN /\ record' = [record EXCEPT ![k] = [body |-> attempt[a].body,
                                                    answer |-> a]]
                /\ Go(a, "reply")
           ELSE Go(a, "reread") /\ UNCHANGED record

\* Any other error of that insert is passed to the error handler.
RecordFails(a) ==
    /\ attempt[a].pc = "record"
    /\ Finish(a, "failed")
    /\ UNCHANGED record

\* After a unique violation the row is read and answers instead.
RereadOwn(a) ==
    /\ attempt[a].pc = "reread"
    /\ Finish(a, a)
    /\ UNCHANGED record
Reread(a) ==
    /\ attempt[a].pc = "reread"
    /\ Replay(a, record[attempt[a].key])
    /\ UNCHANGED record

Reply(a) ==
    /\ attempt[a].pc = "reply"
    /\ Finish(a, a)
    /\ UNCHANGED record

\* The process stops, or the connection or a query of the middleware fails.
Stop(a) ==
    /\ attempt[a].pc \in {"find", "handle", "record", "reread", "reply"}
    /\ Finish(a, "lost")
    /\ UNCHANGED record

IdempotencyNext ==
    \E a \in Attempts :
        \/ \E k \in Keys \cup {NoKey, LongKey}, b \in Bodies : Arrive(a, k, b)
        \/ Find(a) \/ Execute(a) \/ ExecuteRefused(a) \/ ExecuteThenFail(a)
        \/ RecordAnswer(a) \/ RecordFails(a) \/ Reread(a) \/ Reply(a) \/ Stop(a)

IdempotencySpec == IdempotencyInit /\ [][IdempotencyNext]_idempotencyVars

-----------------------------------------------------------------------------
(***************************************************************************)
(* Properties.                                                             *)
(***************************************************************************)

\* The middleware implements the ledger of answers: a row is written once,
\* and every successful answer to a key is its row's, for that row's body,
\* however many attempts overlap, fail or are lost.
Replays == INSTANCE ReplayLedger
    WITH Answers <- Attempts,
         table <- record,
         given <- {[key |-> attempt[a].key, body |-> attempt[a].body,
                    answer |-> attempt[a].reply] :
                   a \in UNION {Answered(k) : k \in Keys}}
ImplementsReplays == Replays!Spec

\* A repetition sent after a successful answer was received never executes
\* the work again.  (One sent before may: see ExecutedOnce.)
RetryAfterReplyHarmless ==
    \A a \in Attempts : attempt[a].key \in Keys /\ attempt[a].afterReply =>
        ~attempt[a].executed

\* What the README promises of the middleware: one key, one execution.
ExecutedOnce ==
    \A a, b \in Attempts :
        attempt[a].executed /\ attempt[b].executed
        /\ attempt[a].key = attempt[b].key /\ attempt[a].key \in Keys => a = b
=============================================================================
