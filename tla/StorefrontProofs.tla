-------------------------- MODULE StorefrontProofs ---------------------------
(***************************************************************************)
(* Theorems about the parts of the storefront that have a specification of *)
(* their own, the carts aside: the Idempotency-Key middleware, the coupon  *)
(* and the stock at checkout, a customer's addresses, what an order costs  *)
(* and risks, and the breakers in front of the payment gateway and of the  *)
(* message services; and, at the end, about the types of all of them side  *)
(* by side, the carts too.  For any numbers of requests, calls, customers, *)
(* products and rows, and any prices, quantities, rates and counts.        *)
(***************************************************************************)
EXTENDS MCStorefront, CartProofs, Sums, SequenceTheorems

-----------------------------------------------------------------------------
(* The Idempotency-Key middleware.                                         *)

\* What one attempt's step, answer and history say of the row of its key.
AttemptSound(a) ==
    LET t == attempt[a] IN
    /\ t.pc \in {"find", "record", "reread", "reply"} => t.key \in Keys
    /\ t.pc = "handle" => t.key # LongKey
    /\ t.pc \in {"idle", "find", "handle"} => ~t.executed
    /\ t.pc # "done" => t.reply = "none"
    /\ t.pc = "idle" => ~t.afterReply
    /\ t.pc = "reread" => record[t.key] # NoRecord
    /\ t.pc = "reply" => record[t.key] = [body |-> t.body, answer |-> a]
    /\ t.key \in Keys /\ t.reply \in Attempts =>
           record[t.key] = [body |-> t.body, answer |-> t.reply]
    /\ t.key \in Keys /\ t.afterReply =>
           record[t.key] # NoRecord /\ ~t.executed /\ t.pc \in {"find", "done"}

IdempotencyInv == IdempotencyTypeOK /\ \A a \in Attempts : AttemptSound(a)

\* A step of one attempt that leaves the rows alone needs to be looked at
\* for that attempt only.
LEMMA AttemptMoves ==
    ASSUME IdempotencyInv, NEW a \in Attempts, NEW t \in Attempt,
           attempt' = [attempt EXCEPT ![a] = t], UNCHANGED record,
           AttemptSound(a)'
    PROVE  IdempotencyInv'
<1>1. \A b \in Attempts : attempt'[b] = IF b = a THEN t ELSE attempt[b]
  BY DEF IdempotencyInv, IdempotencyTypeOK
<1>2. IdempotencyTypeOK'
  BY DEF IdempotencyInv, IdempotencyTypeOK
<1>3. ASSUME NEW b \in Attempts PROVE AttemptSound(b)'
  <2>1. CASE b = a
    BY <2>1
  <2>2. CASE b # a
    BY <2>2, <1>1 DEF IdempotencyInv, AttemptSound
  <2> QED
    BY <2>1, <2>2
<1> QED
  BY <1>2, <1>3 DEF IdempotencyInv

LEMMA FinishSound ==
    ASSUME IdempotencyInv, NEW a \in Attempts, NEW reply \in Replies,
           Finish(a, reply), UNCHANGED record,
           attempt[a].key \in Keys /\ reply \in Attempts =>
               record[attempt[a].key] = [body |-> attempt[a].body, answer |-> reply]
    PROVE  IdempotencyInv'
<1> DEFINE t == [attempt[a] EXCEPT !.pc = "done", !.reply = reply]
<1>1. attempt[a] \in Attempt
  BY DEF IdempotencyInv, IdempotencyTypeOK
<1>2. t \in Attempt /\ attempt' = [attempt EXCEPT ![a] = t]
  BY <1>1 DEF Finish, Attempt
<1>3. attempt'[a] = t
  BY <1>2 DEF IdempotencyInv, IdempotencyTypeOK
<1>4. /\ t.pc = "done" /\ t.reply = reply /\ t.key = attempt[a].key /\ t.body = attempt[a].body
      /\ t.executed = attempt[a].executed /\ t.afterReply = attempt[a].afterReply
  BY <1>1 DEF Attempt
<1>5. AttemptSound(a)
  BY DEF IdempotencyInv
<1> HIDE DEF t
<1>6. AttemptSound(a)'
  BY <1>3, <1>4, <1>5 DEF AttemptSound
<1> QED
  BY <1>2, <1>6, AttemptMoves

LEMMA GoSound ==
    ASSUME IdempotencyInv, NEW a \in Attempts,
           NEW pc \in {"handle", "reread"},
           Go(a, pc), UNCHANGED record, attempt[a].pc # "done",
           pc = "handle" => attempt[a].key \in Keys /\ ~attempt[a].executed /\ ~(attempt[a].key \in Keys /\ attempt[a].afterReply),
           pc = "reread" => /\ attempt[a].key \in Keys /\ record[attempt[a].key] # NoRecord
                            /\ ~attempt[a].afterReply
    PROVE  IdempotencyInv'
<1> DEFINE t == [attempt[a] EXCEPT !.pc = pc]
<1>1. attempt[a] \in Attempt
  BY DEF IdempotencyInv, IdempotencyTypeOK
<1>2. t \in Attempt /\ attempt' = [attempt EXCEPT ![a] = t]
  BY <1>1 DEF Go, Attempt
<1>3. attempt'[a] = t
  BY <1>2 DEF IdempotencyInv, IdempotencyTypeOK
<1>4. /\ t.pc = pc /\ t.reply = attempt[a].reply /\ t.key = attempt[a].key
      /\ t.body = attempt[a].body
      /\ t.executed = attempt[a].executed /\ t.afterReply = attempt[a].afterReply
  BY <1>1 DEF Attempt
<1>5. AttemptSound(a)
  BY DEF IdempotencyInv
<1> HIDE DEF t
<1>6. AttemptSound(a)'
  BY <1>3, <1>4, <1>5, IdempotencyAssumption DEF AttemptSound
<1> QED
  BY <1>2, <1>6, AttemptMoves

\* A row and the attempt it answers.
LEMMA ReplaySound ==
    ASSUME IdempotencyInv, NEW a \in Attempts, attempt[a].key \in Keys,
           record[attempt[a].key] # NoRecord,
           Replay(a, record[attempt[a].key]), UNCHANGED record
    PROVE  IdempotencyInv'
<1> DEFINE row == record[attempt[a].key]
<1>1. row \in IdempotencyRow
  BY DEF IdempotencyInv, IdempotencyTypeOK
<1>2. row.answer \in Attempts /\ row = [body |-> row.body, answer |-> row.answer]
  BY <1>1 DEF IdempotencyRow
<1>3. CASE row.body = attempt[a].body
  <2>1. Finish(a, row.answer)
    BY <1>3 DEF Replay
  <2> QED
    BY <2>1, <1>2, <1>3, FinishSound DEF Replies
<1>4. CASE row.body # attempt[a].body
  <2>1. Finish(a, "conflict")
    BY <1>4 DEF Replay
  <2> QED
    BY <2>1, FinishSound, IdempotencyAssumption DEF Replies
<1> QED
  BY <1>3, <1>4

LEMMA ArriveSound ==
    ASSUME IdempotencyInv, NEW a \in Attempts, NEW k \in Keys \cup {NoKey, LongKey},
           NEW b \in Bodies, Arrive(a, k, b)
    PROVE  IdempotencyInv'
<1> DEFINE t == [pc |-> CASE k = NoKey -> "handle" [] k = LongKey -> "done" [] OTHER -> "find",
            key |-> k, body |-> b, executed |-> FALSE,
            afterReply |-> Answered(k) # {},
            reply |-> IF k = LongKey THEN "refused" ELSE "none"]
<1>1. t \in Attempt
  BY DEF Attempt, Replies
<1>2. attempt' = [attempt EXCEPT ![a] = t] /\ UNCHANGED record
  BY DEF Arrive
<1>3. attempt'[a] = t
  BY <1>2 DEF IdempotencyInv, IdempotencyTypeOK
<1>4. /\ t.key = k /\ t.body = b /\ t.executed = FALSE /\ t.afterReply = (Answered(k) # {})
      /\ t.reply \notin Attempts
      /\ k \in Keys => t.pc = "find" /\ t.reply = "none"
      /\ k = NoKey => t.pc = "handle" /\ t.reply = "none"
      /\ k = LongKey => t.pc = "done"
  BY IdempotencyAssumption
<1>5. k \in Keys /\ Answered(k) # {} => record[k] # NoRecord
  <2> SUFFICES ASSUME k \in Keys, NEW c \in Answered(k) PROVE record[k] # NoRecord
    OBVIOUS
  <2>1. /\ record[k] = [body |-> attempt[c].body, answer |-> attempt[c].reply]
        /\ attempt[c] \in Attempt /\ attempt[c].reply \in Attempts
    BY DEF Answered, IdempotencyInv, IdempotencyTypeOK, AttemptSound
  <2>2. attempt[c].body \in Bodies
    BY <2>1 DEF Attempt
  <2> QED
    BY <2>1, <2>2, IdempotencyAssumption
<1> HIDE DEF t
<1>6. AttemptSound(a)'
  BY <1>2, <1>3, <1>4, <1>5, IdempotencyAssumption DEF AttemptSound
<1> QED
  BY <1>1, <1>2, <1>6, AttemptMoves

LEMMA ExecuteSound ==
    ASSUME IdempotencyInv, NEW a \in Attempts, Execute(a)
    PROVE  IdempotencyInv'
<1> DEFINE t == IF attempt[a].key = NoKey
                THEN [attempt[a] EXCEPT !.executed = TRUE, !.pc = "done", !.reply = a]
                ELSE [attempt[a] EXCEPT !.executed = TRUE, !.pc = "record"]
<1>1. attempt[a] \in Attempt /\ AttemptSound(a)
  BY DEF IdempotencyInv, IdempotencyTypeOK
<1>2. t \in Attempt /\ attempt' = [attempt EXCEPT ![a] = t] /\ UNCHANGED record
  BY <1>1 DEF Execute, Attempt, Replies
<1>3. attempt'[a] = t
  BY <1>2 DEF IdempotencyInv, IdempotencyTypeOK
<1>4. /\ t.key = attempt[a].key /\ t.body = attempt[a].body /\ t.executed
      /\ t.afterReply = attempt[a].afterReply
      /\ t.key = NoKey => t.pc = "done" /\ t.reply = a
      /\ t.key # NoKey => t.pc = "record" /\ t.reply = attempt[a].reply
      /\ t.key \in Keys \cup {NoKey, LongKey}
  BY <1>1 DEF Attempt
<1> HIDE DEF t
<1>6. AttemptSound(a)'
  BY <1>1, <1>2, <1>3, <1>4, IdempotencyAssumption DEF AttemptSound, Execute
<1> QED
  BY <1>2, <1>6, AttemptMoves

LEMMA ExecuteThenFailSound ==
    ASSUME IdempotencyInv, NEW a \in Attempts, ExecuteThenFail(a)
    PROVE  IdempotencyInv'
<1> DEFINE t == [attempt[a] EXCEPT !.executed = TRUE, !.pc = "done", !.reply = "failed"]
<1>1. attempt[a] \in Attempt /\ AttemptSound(a)
  BY DEF IdempotencyInv, IdempotencyTypeOK
<1>2. t \in Attempt /\ attempt' = [attempt EXCEPT ![a] = t] /\ UNCHANGED record
  BY <1>1 DEF ExecuteThenFail, Attempt, Replies
<1>3. attempt'[a] = t
  BY <1>2 DEF IdempotencyInv, IdempotencyTypeOK
<1>4. /\ t.key = attempt[a].key /\ t.body = attempt[a].body /\ t.executed
      /\ t.afterReply = attempt[a].afterReply /\ t.pc = "done" /\ t.reply = "failed"
  BY <1>1 DEF Attempt
<1> HIDE DEF t
<1>6. AttemptSound(a)'
  BY <1>1, <1>2, <1>3, <1>4, IdempotencyAssumption DEF AttemptSound, ExecuteThenFail
<1> QED
  BY <1>2, <1>6, AttemptMoves

\* The row of a key is written where there was none: no other attempt has
\* been answered by one yet.
LEMMA RecordAnswerSound ==
    ASSUME IdempotencyInv, NEW a \in Attempts, RecordAnswer(a)
    PROVE  IdempotencyInv'
<1> DEFINE k == attempt[a].key
           row == [body |-> attempt[a].body, answer |-> a]
           t == [attempt[a] EXCEPT !.pc = "reply"]
<1>1. attempt[a] \in Attempt /\ AttemptSound(a) /\ attempt[a].pc = "record"
  BY DEF IdempotencyInv, IdempotencyTypeOK, RecordAnswer
<1>2. k \in Keys /\ ~attempt[a].afterReply
  BY <1>1 DEF AttemptSound
<1>3. CASE record[k] # NoRecord
  BY <1>1, <1>2, <1>3, GoSound DEF RecordAnswer
<1>4. CASE record[k] = NoRecord
  <2>1. record' = [record EXCEPT ![k] = row] /\ attempt' = [attempt EXCEPT ![a] = t]
    BY <1>4, <1>1 DEF RecordAnswer, Go
  <2>2. row \in IdempotencyRow /\ t \in Attempt
    BY <1>1 DEF Attempt, IdempotencyRow
  <2>3. IdempotencyTypeOK'
    BY <2>1, <2>2 DEF IdempotencyInv, IdempotencyTypeOK
  <2>4. /\ \A b \in Attempts : attempt'[b] = IF b = a THEN t ELSE attempt[b]
        /\ \A l \in Keys : record'[l] = IF l = k THEN row ELSE record[l]
    BY <2>1 DEF IdempotencyInv, IdempotencyTypeOK
  <2>5. row # NoRecord
    BY <2>2, IdempotencyAssumption DEF IdempotencyRow
  <2>6. /\ t.pc = "reply" /\ t.reply = attempt[a].reply /\ t.key = k /\ t.body = attempt[a].body
        /\ t.executed = attempt[a].executed /\ t.afterReply = attempt[a].afterReply
    BY <1>1 DEF Attempt
  <2>7. ASSUME NEW b \in Attempts PROVE AttemptSound(b)'
    <3>1. CASE b = a
      <4>1. record'[k] = [body |-> attempt[a].body, answer |-> a]
        BY <1>2, <2>4
      <4> HIDE DEF t, row
      <4> QED
        BY <3>1, <4>1, <1>1, <1>2, <2>4, <2>6, IdempotencyAssumption DEF AttemptSound
    <3>2. CASE b # a
      <4>1. AttemptSound(b) /\ attempt[b] \in Attempt /\ attempt'[b] = attempt[b]
        BY <2>4, <3>2 DEF IdempotencyInv, IdempotencyTypeOK
      <4>2. [body |-> attempt[b].body, answer |-> b] # NoRecord
        BY <4>1, IdempotencyAssumption DEF Attempt
      <4>3. attempt[b].reply \in Attempts =>
                [body |-> attempt[b].body, answer |-> attempt[b].reply] # NoRecord
        BY <4>1, IdempotencyAssumption DEF Attempt
      <4>4. CASE attempt[b].key = k
        <5> HIDE DEF t, row
        <5> QED
          BY <4>1, <4>2, <4>3, <4>4, <1>2, <1>4, <2>4, <2>5 DEF AttemptSound
      <4>5. CASE attempt[b].key # k
        <5>1. attempt[b].key \in Keys => record'[attempt[b].key] = record[attempt[b].key]
          BY <4>5, <2>4
        <5> HIDE DEF t, row
        <5> QED
          BY <4>1, <5>1 DEF AttemptSound
      <4> QED
        BY <4>4, <4>5
    <3> QED
      BY <3>1, <3>2
  <2> QED
    BY <2>3, <2>7 DEF IdempotencyInv
<1> QED
  BY <1>3, <1>4

LEMMA IdempotencyStep ==
    ASSUME IdempotencyInv, [IdempotencyNext]_idempotencyVars
    PROVE  IdempotencyInv'
<1>1. CASE UNCHANGED idempotencyVars
  BY <1>1 DEF idempotencyVars, IdempotencyInv, IdempotencyTypeOK, AttemptSound
<1>2. ASSUME NEW a \in Attempts, NEW k \in Keys \cup {NoKey, LongKey}, NEW b \in Bodies,
             Arrive(a, k, b)
      PROVE  IdempotencyInv'
  BY <1>2, ArriveSound
<1>3. ASSUME NEW a \in Attempts, Find(a) PROVE IdempotencyInv'
  <2>1. attempt[a].key \in Keys /\ AttemptSound(a) /\ attempt[a].pc = "find"
    BY <1>3 DEF IdempotencyInv, AttemptSound, Find
  <2>2. CASE record[attempt[a].key] = NoRecord
    <3>1. Go(a, "handle") /\ UNCHANGED record
      BY <1>3, <2>2 DEF Find
    <3> QED
      BY <2>1, <2>2, <3>1, GoSound DEF AttemptSound
  <2>3. CASE record[attempt[a].key] # NoRecord
    BY <1>3, <2>1, <2>3, ReplaySound DEF Find
  <2> QED
    BY <2>2, <2>3
<1>4. ASSUME NEW a \in Attempts, Execute(a) PROVE IdempotencyInv'
  BY <1>4, ExecuteSound
<1>5. ASSUME NEW a \in Attempts, ExecuteRefused(a) PROVE IdempotencyInv'
  BY <1>5, FinishSound, IdempotencyAssumption DEF ExecuteRefused, Replies
<1>6. ASSUME NEW a \in Attempts, ExecuteThenFail(a) PROVE IdempotencyInv'
  BY <1>6, ExecuteThenFailSound
<1>7. ASSUME NEW a \in Attempts, RecordAnswer(a) PROVE IdempotencyInv'
  BY <1>7, RecordAnswerSound
<1>8. ASSUME NEW a \in Attempts, RecordFails(a) PROVE IdempotencyInv'
  BY <1>8, FinishSound, IdempotencyAssumption DEF RecordFails, Replies
<1>9. ASSUME NEW a \in Attempts, Reread(a) PROVE IdempotencyInv'
  BY <1>9, ReplaySound DEF Reread, IdempotencyInv, AttemptSound
<1>10. ASSUME NEW a \in Attempts, Reply(a) PROVE IdempotencyInv'
  BY <1>10, FinishSound DEF Reply, Replies, IdempotencyInv, AttemptSound
<1>11. ASSUME NEW a \in Attempts, Stop(a) PROVE IdempotencyInv'
  BY <1>11, FinishSound, IdempotencyAssumption DEF Stop, Replies
<1> QED
  BY <1>1, <1>2, <1>3, <1>4, <1>5, <1>6, <1>7, <1>8, <1>9, <1>10, <1>11
  DEF IdempotencyNext

LEMMA IdempotencyStart == IdempotencyInit => IdempotencyInv
<1> SUFFICES ASSUME IdempotencyInit PROVE IdempotencyInv
  OBVIOUS
<1>1. (CHOOSE b \in Bodies : TRUE) \in Bodies
  BY IdempotencyAssumption
<1>2. IdempotencyTypeOK
  BY <1>1 DEF IdempotencyInit, IdempotencyTypeOK, Attempt, Replies
<1>3. \A a \in Attempts : AttemptSound(a)
  BY IdempotencyAssumption DEF IdempotencyInit, AttemptSound
<1> QED
  BY <1>2, <1>3 DEF IdempotencyInv

LEMMA IdempotencyInvariant == IdempotencySpec => []IdempotencyInv
  BY IdempotencyStart, IdempotencyStep, PTL DEF IdempotencySpec

\* A request that is repeated after its first successful answer was received
\* does no work again, however many attempts overlap, fail or are lost: the
\* row is there, so its first query answers it.
THEOREM RepetitionHarmless == IdempotencySpec => []RetryAfterReplyHarmless
<1>1. IdempotencyInv => RetryAfterReplyHarmless
  BY DEF IdempotencyInv, AttemptSound, RetryAfterReplyHarmless
<1> QED
  BY <1>1, IdempotencyInvariant, PTL

-----------------------------------------------------------------------------
(* The middleware implements the ledger of answers.                        *)

\* The answers given, as the refinement sees them.
GivenTo(a) == [key |-> attempt[a].key, body |-> attempt[a].body, answer |-> attempt[a].reply]
GivenAnswers == {GivenTo(a) : a \in UNION {Answered(k) : k \in Keys}}

\* An answer is among those given when some attempt with a key received it.
LEMMA GivenMeans ==
    \A g : g \in GivenAnswers <=>
        \E a \in Attempts : /\ attempt[a].key \in Keys
                            /\ attempt[a].reply \in Attempts
                            /\ g = GivenTo(a)
  BY DEF GivenAnswers, Answered

\* A step that changes one attempt, which had no successful answer and gets
\* none, gives no answer.
LEMMA NothingGiven ==
    ASSUME IdempotencyInv, NEW a \in Attempts, NEW t,
           attempt' = [attempt EXCEPT ![a] = t],
           attempt[a].key \notin Keys \/ attempt[a].reply \notin Attempts,
           t.key \notin Keys \/ t.reply \notin Attempts
    PROVE  GivenAnswers' = GivenAnswers
<1>1. \A b \in Attempts : attempt'[b] = IF b = a THEN t ELSE attempt[b]
  BY DEF IdempotencyInv, IdempotencyTypeOK
<1>2. \A b \in Attempts : b # a => GivenTo(b)' = GivenTo(b)
  BY <1>1 DEF GivenTo
<1>3. \A g : g \in GivenAnswers' <=>
        \E b \in Attempts : /\ attempt'[b].key \in Keys
                            /\ attempt'[b].reply \in Attempts
                            /\ g = GivenTo(b)'
  BY DEF GivenAnswers, Answered, GivenTo
<1>4. \A g : g \in GivenAnswers' <=> g \in GivenAnswers
  BY <1>1, <1>2, <1>3, GivenMeans
<1> QED
  BY <1>4

\* A first successful answer to an attempt is the row of its key, given.
LEMMA RowGiven ==
    ASSUME IdempotencyInv, NEW a \in Attempts, NEW reply \in Attempts,
           attempt[a].pc # "done", attempt[a].key \in Keys,
           record[attempt[a].key] = [body |-> attempt[a].body, answer |-> reply],
           Finish(a, reply), UNCHANGED record
    PROVE  Replays!Next
<1> PICK k \in Keys : k = attempt[a].key
  OBVIOUS
<1> DEFINE t == [attempt[a] EXCEPT !.pc = "done", !.reply = reply]
           given == [key |-> k, body |-> attempt[a].body, answer |-> reply]
<1>1. attempt[a] \in Attempt /\ AttemptSound(a)
  BY DEF IdempotencyInv, IdempotencyTypeOK
<1>2. \A b \in Attempts : attempt'[b] = IF b = a THEN t ELSE attempt[b]
  BY DEF IdempotencyInv, IdempotencyTypeOK, Finish
<1>3. t.key = k /\ t.body = attempt[a].body /\ t.reply = reply
  BY <1>1 DEF Attempt
<1>4. attempt[a].reply \notin Attempts
  BY <1>1, IdempotencyAssumption DEF AttemptSound
<1>5. \A b \in Attempts : b # a => GivenTo(b)' = GivenTo(b)
  BY <1>2 DEF GivenTo
<1>6. \A g : g \in GivenAnswers' <=>
        \E b \in Attempts : /\ attempt'[b].key \in Keys
                            /\ attempt'[b].reply \in Attempts
                            /\ g = GivenTo(b)'
  BY DEF GivenAnswers, Answered, GivenTo
<1>7. GivenTo(a)' = given
  BY <1>2, <1>3 DEF GivenTo
<1>8. \A g : g \in GivenAnswers' <=> g \in GivenAnswers \cup {given}
  <2> HIDE DEF t, given
  <2> QED
    BY <1>2, <1>3, <1>4, <1>5, <1>6, <1>7, GivenMeans
<1>9. GivenAnswers' = GivenAnswers \cup {given}
  BY <1>8
<1>10. /\ record[k].body = attempt[a].body /\ record[k].answer = reply
       /\ record[k] # NoRecord
  BY <1>1, IdempotencyAssumption DEF Attempt
<1>11. Replays!Give(k)
  BY <1>9, <1>10 DEF Replays!Give, GivenAnswers, GivenTo
<1> QED
  BY <1>11 DEF Replays!Next

\* An attempt that ends without a successful answer gives none.
LEMMA EndsWithout ==
    ASSUME IdempotencyInv, NEW a \in Attempts,
           attempt[a].pc # "done",
           NEW reply \in {"refused", "conflict", "failed", "lost"},
           Finish(a, reply)
    PROVE  GivenAnswers' = GivenAnswers
<1> DEFINE t == [attempt[a] EXCEPT !.pc = "done", !.reply = reply]
<1>1. attempt[a] \in Attempt /\ AttemptSound(a)
  BY DEF IdempotencyInv, IdempotencyTypeOK
<1>2. t.reply = reply
  BY <1>1 DEF Attempt
<1>3. attempt' = [attempt EXCEPT ![a] = t]
  BY DEF Finish
<1> HIDE DEF t
<1> QED
  BY <1>1, <1>2, <1>3, NothingGiven, IdempotencyAssumption DEF AttemptSound

LEMMA GoesOnWithout ==
    ASSUME IdempotencyInv, NEW a \in Attempts, NEW pc, attempt[a].pc # "done", Go(a, pc)
    PROVE  GivenAnswers' = GivenAnswers
<1> DEFINE t == [attempt[a] EXCEPT !.pc = pc]
<1>1. attempt[a] \in Attempt /\ AttemptSound(a)
  BY DEF IdempotencyInv, IdempotencyTypeOK
<1>2. t.reply = attempt[a].reply
  BY <1>1 DEF Attempt
<1>3. attempt' = [attempt EXCEPT ![a] = t]
  BY DEF Go
<1> HIDE DEF t
<1> QED
  BY <1>1, <1>2, <1>3, NothingGiven, IdempotencyAssumption DEF AttemptSound

\* A replay gives the row or a conflict.
LEMMA ReplayGives ==
    ASSUME IdempotencyInv, NEW a \in Attempts,
           attempt[a].pc # "done", attempt[a].key \in Keys,
           record[attempt[a].key] # NoRecord,
           Replay(a, record[attempt[a].key]), UNCHANGED record
    PROVE  Replays!Next \/ GivenAnswers' = GivenAnswers
<1> DEFINE row == record[attempt[a].key]
<1>1. row \in IdempotencyRow
  BY DEF IdempotencyInv, IdempotencyTypeOK
<1>2. row.answer \in Attempts /\ row = [body |-> row.body, answer |-> row.answer]
  BY <1>1 DEF IdempotencyRow
<1>3. CASE row.body = attempt[a].body
  <2>1. Finish(a, row.answer)
    BY <1>3 DEF Replay
  <2> QED
    BY <2>1, <1>2, <1>3, RowGiven
<1>4. CASE row.body # attempt[a].body
  <2>1. Finish(a, "conflict")
    BY <1>4 DEF Replay
  <2> QED
    BY <2>1, EndsWithout
<1> QED
  BY <1>3, <1>4

LEMMA ReplaysStep ==
    ASSUME IdempotencyInv, [IdempotencyNext]_idempotencyVars
    PROVE  [Replays!Next]_<<record, GivenAnswers>>
<1>1. CASE UNCHANGED idempotencyVars
  BY <1>1 DEF idempotencyVars, GivenAnswers, GivenTo, Answered
<1>2. ASSUME NEW a \in Attempts, NEW k \in Keys \cup {NoKey, LongKey}, NEW b \in Bodies,
             Arrive(a, k, b)
      PROVE  UNCHANGED <<record, GivenAnswers>>
  <2> DEFINE t == [pc |-> CASE k = NoKey -> "handle" [] k = LongKey -> "done" [] OTHER -> "find",
            key |-> k, body |-> b, executed |-> FALSE,
            afterReply |-> Answered(k) # {},
            reply |-> IF k = LongKey THEN "refused" ELSE "none"]
  <2>1. t.reply \notin Attempts
    BY IdempotencyAssumption
  <2>2. attempt' = [attempt EXCEPT ![a] = t] /\ attempt[a].pc = "idle" /\ UNCHANGED record
    BY <1>2 DEF Arrive
  <2>3. attempt[a].reply \notin Attempts
    BY <2>2, IdempotencyAssumption DEF IdempotencyInv, AttemptSound
  <2> HIDE DEF t
  <2> QED
    BY <2>1, <2>2, <2>3, NothingGiven
<1>3. ASSUME NEW a \in Attempts, Find(a) PROVE [Replays!Next]_<<record, GivenAnswers>>
  <2>1. attempt[a].key \in Keys /\ attempt[a].pc = "find"
    BY <1>3 DEF IdempotencyInv, AttemptSound, Find
  <2> QED
    BY <1>3, <2>1, ReplayGives, GoesOnWithout DEF Find
<1>4. ASSUME NEW a \in Attempts, Execute(a) PROVE UNCHANGED <<record, GivenAnswers>>
  <2> DEFINE t == IF attempt[a].key = NoKey
                  THEN [attempt[a] EXCEPT !.executed = TRUE, !.pc = "done", !.reply = a]
                  ELSE [attempt[a] EXCEPT !.executed = TRUE, !.pc = "record"]
  <2>1. attempt[a] \in Attempt /\ AttemptSound(a)
    BY DEF IdempotencyInv, IdempotencyTypeOK
  <2>2. attempt' = [attempt EXCEPT ![a] = t] /\ UNCHANGED record
    BY <1>4 DEF Execute
  <2>3. t.key = attempt[a].key /\ (t.key # NoKey => t.reply = attempt[a].reply)
    BY <2>1 DEF Attempt
  <2> HIDE DEF t
  <2> QED
    BY ZenonT(60), <1>4, <2>1, <2>2, <2>3, NothingGiven, IdempotencyAssumption DEF AttemptSound, Execute
<1>5. ASSUME NEW a \in Attempts, ExecuteRefused(a) PROVE UNCHANGED <<record, GivenAnswers>>
  BY <1>5, EndsWithout DEF ExecuteRefused
<1>6. ASSUME NEW a \in Attempts, ExecuteThenFail(a) PROVE UNCHANGED <<record, GivenAnswers>>
  <2> DEFINE t == [attempt[a] EXCEPT !.executed = TRUE, !.pc = "done", !.reply = "failed"]
  <2>1. attempt[a] \in Attempt /\ AttemptSound(a)
    BY DEF IdempotencyInv, IdempotencyTypeOK
  <2>2. attempt' = [attempt EXCEPT ![a] = t] /\ UNCHANGED record
    BY <1>6 DEF ExecuteThenFail
  <2>3. t.reply = "failed"
    BY <2>1 DEF Attempt
  <2> HIDE DEF t
  <2> QED
    BY <1>6, <2>1, <2>2, <2>3, NothingGiven, IdempotencyAssumption
    DEF AttemptSound, ExecuteThenFail
<1>7. ASSUME NEW a \in Attempts, RecordAnswer(a)
      PROVE  [Replays!Next]_<<record, GivenAnswers>>
  <2>1. /\ attempt[a] \in Attempt /\ AttemptSound(a)
        /\ attempt[a].pc = "record" /\ attempt[a].key \in Keys
    BY <1>7 DEF IdempotencyInv, IdempotencyTypeOK, RecordAnswer, AttemptSound
  <2>2. GivenAnswers' = GivenAnswers
    BY <1>7, <2>1, GoesOnWithout DEF RecordAnswer
  <2>3. CASE record[attempt[a].key] # NoRecord
    BY <1>7, <2>2, <2>3 DEF RecordAnswer
  <2>4. CASE record[attempt[a].key] = NoRecord
    <3> DEFINE row == [body |-> attempt[a].body, answer |-> a]
    <3>1. row \in Replays!Row
      BY <2>1 DEF Attempt, Replays!Row
    <3>2. Replays!WriteDown(attempt[a].key, row)
      BY <1>7, <2>2, <2>4 DEF RecordAnswer, Replays!WriteDown, GivenAnswers, GivenTo
    <3> QED
      BY <2>1, <3>1, <3>2 DEF Replays!Next
  <2> QED
    BY <2>3, <2>4
<1>8. ASSUME NEW a \in Attempts, RecordFails(a) PROVE UNCHANGED <<record, GivenAnswers>>
  BY <1>8, EndsWithout DEF RecordFails
<1>9. ASSUME NEW a \in Attempts, Reread(a) PROVE [Replays!Next]_<<record, GivenAnswers>>
  BY <1>9, ReplayGives DEF Reread, IdempotencyInv, AttemptSound
<1>10. ASSUME NEW a \in Attempts, Reply(a) PROVE Replays!Next
  BY <1>10, RowGiven DEF Reply, IdempotencyInv, AttemptSound
<1>11. ASSUME NEW a \in Attempts, Stop(a) PROVE UNCHANGED <<record, GivenAnswers>>
  BY <1>11, EndsWithout DEF Stop
<1> QED
  BY <1>1, <1>2, <1>3, <1>4, <1>5, <1>6, <1>7, <1>8, <1>9, <1>10, <1>11
  DEF IdempotencyNext

\* The middleware implements the ledger of answers: a row is written once, and
\* every successful answer to a key is its row's, for that row's body.
THEOREM MiddlewareImplementsReplays == IdempotencySpec => ImplementsReplays
<1>1. IdempotencyInit => Replays!Init
  <2> SUFFICES ASSUME IdempotencyInit PROVE Replays!Init
    OBVIOUS
  <2>1. GivenAnswers = {}
    BY IdempotencyAssumption DEF GivenAnswers, Answered, IdempotencyInit
  <2> QED
    BY <2>1 DEF IdempotencyInit, Replays!Init, GivenAnswers, GivenTo
<1>2. IdempotencyInv /\ [IdempotencyNext]_idempotencyVars
        => [Replays!Next]_<<record, GivenAnswers>>
  BY ReplaysStep
<1> QED
  BY <1>1, <1>2, IdempotencyInvariant, PTL
  DEF IdempotencySpec, ImplementsReplays, Replays!Spec, GivenAnswers, GivenTo

-----------------------------------------------------------------------------
(* The coupon at checkout.                                                 *)

\* What a request still has to reserve and what it holds make up its items,
\* and it holds rows only inside its transaction.
LocksSound ==
    /\ \A k \in Checkouts :
         /\ checkout[k].pc \in {"lookup", "reserve"} =>
                checkout[k].items = checkout[k].locked \cup ItemsOf(checkout[k].goods)
         /\ checkout[k].pc \in {"count", "redeem"} =>
                checkout[k].items = checkout[k].locked
         /\ checkout[k].pc \notin {"reserve", "count", "redeem"} => checkout[k].locked = {}
    /\ \A j, k \in Checkouts : j # k => checkout[j].locked \cap checkout[k].locked = {}

\* The redemptions of k's customer by orders that share a product with k.
SharedWith(k) ==
    {j \in RedeemedBy(checkout[k].buyer) : checkout[j].items \cap checkout[k].items # {}}

\* Between its count and its commit a request's count stays good as far as
\* its own products go: whoever shares one waits for the lock.
CountStands ==
    \A k \in Checkouts :
        checkout[k].pc = "redeem" /\ checkout[k].coupon /\ checkout[k].buyer # Guest
        => Cardinality(SharedWith(k)) < CustomerUses

CheckoutInv == CheckoutTypeOK /\ CouponCounterExact /\ LocksSound
               /\ CountStands /\ SharedGoodsKeepLimit

LEMMA RedemptionsFinite ==
    /\ IsFiniteSet(Redemptions)
    /\ \A T \in SUBSET Redemptions : IsFiniteSet(T) /\ Cardinality(T) \in Nat
<1>1. Redemptions \subseteq Checkouts
  BY DEF Redemptions
<1> QED
  BY <1>1, CheckoutAssumption, FS_Subset, FS_CardinalityType

LEMMA ItemsOfTail ==
    ASSUME NEW s \in Seq(Goods), s # <<>>
    PROVE  /\ ItemsOf(s) = {Head(s)} \cup ItemsOf(Tail(s))
           /\ Tail(s) \in Seq(Goods) /\ Head(s) \in Goods
<1>1. /\ Tail(s) \in Seq(Goods) /\ Head(s) \in Goods
      /\ Len(s) \in Nat /\ Len(s) > 0 /\ Head(s) = s[1] /\ Len(Tail(s)) = Len(s) - 1
      /\ DOMAIN s = 1..Len(s) /\ DOMAIN Tail(s) = 1..(Len(s) - 1)
      /\ \A i \in 1..(Len(s) - 1) : Tail(s)[i] = s[i + 1]
  OBVIOUS
<1>2. ASSUME NEW i \in DOMAIN s PROVE s[i] \in {Head(s)} \cup ItemsOf(Tail(s))
  <2>1. CASE i = 1
    BY <2>1, <1>1
  <2>2. CASE i # 1
    <3>1. i - 1 \in DOMAIN Tail(s) /\ Tail(s)[i - 1] = s[i]
      BY <2>2, <1>1
    <3> QED
      BY <3>1 DEF ItemsOf
  <2> QED
    BY <2>1, <2>2
<1>3. ASSUME NEW i \in DOMAIN Tail(s) PROVE Tail(s)[i] \in ItemsOf(s)
  <2>1. i + 1 \in DOMAIN s /\ Tail(s)[i] = s[i + 1]
    BY <1>1
  <2> QED
    BY <2>1 DEF ItemsOf
<1>4. Head(s) \in ItemsOf(s)
  BY <1>1 DEF ItemsOf
<1> QED
  BY <1>1, <1>2, <1>3, <1>4 DEF ItemsOf

\* The products of a request, as a sequence.
LEMMA CartsTyped ==
    ASSUME NEW s \in Carts
    PROVE  s \in Seq(Goods) /\ ItemsOf(s) \in SUBSET Goods
<1>1. s \in [1..1 -> Goods] \cup [1..2 -> Goods]
  BY DEF Carts
<1>2. s \in Seq(Goods)
  BY <1>1, SeqDef
<1> QED
  BY <1>1, <1>2 DEF ItemsOf

\* A step of one request that leaves its order as it was, if it has one, and
\* the counter alone.
LEMMA CheckoutMoves ==
    ASSUME CheckoutInv, NEW k \in Checkouts, NEW r \in CheckoutRow,
           checkout' = [checkout EXCEPT ![k] = r], UNCHANGED usedCount,
           \/ /\ checkout[k].pc \notin Committed /\ r.pc \notin Committed
           \/ /\ checkout[k].pc \in Committed /\ r.pc \in Committed
              /\ r.coupon = checkout[k].coupon /\ r.buyer = checkout[k].buyer
              /\ r.items = checkout[k].items,
           LocksSound',
           r.pc = "redeem" /\ r.coupon /\ r.buyer # Guest =>
               Cardinality({j \in RedeemedBy(r.buyer) :
                                checkout[j].items \cap r.items # {}}) < CustomerUses
    PROVE  CheckoutInv'
<1>1. \A j \in Checkouts : checkout'[j] = IF j = k THEN r ELSE checkout[j]
  BY DEF CheckoutInv, CheckoutTypeOK
<1>2. CheckoutTypeOK'
  BY DEF CheckoutInv, CheckoutTypeOK
<1>3. /\ Redemptions' = Redemptions
      /\ \A j \in Redemptions : /\ checkout'[j].items = checkout[j].items
                                /\ checkout'[j].buyer = checkout[j].buyer
  BY <1>1 DEF Redemptions
<1>4. \A b : RedeemedBy(b)' = RedeemedBy(b)
  BY <1>3 DEF RedeemedBy
<1>5. CouponCounterExact'
  BY <1>3 DEF CheckoutInv, CouponCounterExact
<1>6. SharedGoodsKeepLimit'
  <2> SUFFICES ASSUME NEW b \in Buyers, NEW R \in SUBSET RedeemedBy(b),
                      \A i, j \in R : checkout'[i].items \cap checkout'[j].items # {}
               PROVE  Cardinality(R) <= CustomerUses
    BY <1>4 DEF SharedGoodsKeepLimit
  <2>1. \A j \in R : checkout'[j].items = checkout[j].items
    BY <1>3 DEF RedeemedBy
  <2> QED
    BY <2>1 DEF CheckoutInv, SharedGoodsKeepLimit
<1>7. ASSUME NEW j \in Checkouts, checkout'[j].pc = "redeem", checkout'[j].coupon,
             checkout'[j].buyer # Guest
      PROVE  Cardinality(SharedWith(j)') < CustomerUses
  <2> PICK b, I : b = checkout'[j].buyer /\ I = checkout'[j].items
    OBVIOUS
  <2> DEFINE S == {i \in RedeemedBy(b) : checkout[i].items \cap I # {}}
  <2>1. SharedWith(j)' = S
    <3>1. SharedWith(j)' = {i \in RedeemedBy(b)' : checkout'[i].items \cap I # {}}
      BY DEF SharedWith, RedeemedBy
    <3>2. \A i \in RedeemedBy(b) : checkout'[i].items = checkout[i].items
      BY <1>3 DEF RedeemedBy
    <3> QED
      BY <3>1, <3>2, <1>4
  <2>2. CASE j = k
    <3>1. b = r.buyer /\ I = r.items /\ r.pc = "redeem" /\ r.coupon
      BY <2>2, <1>1, <1>7
    <3> QED
      BY <2>1, <3>1, <1>7
  <2>3. CASE j # k
    <3>1. checkout'[j] = checkout[j]
      BY <2>3, <1>1
    <3>2. S = SharedWith(j)
      BY <3>1 DEF SharedWith, RedeemedBy
    <3> QED
      BY <2>1, <3>1, <3>2, <1>7 DEF CheckoutInv, CountStands
  <2> QED
    BY <2>2, <2>3
<1>8. CountStands'
  BY <1>7 DEF CountStands
<1> QED
  BY <1>2, <1>5, <1>6, <1>8 DEF CheckoutInv

\* The locks stay sound when one request's row is sound and holds nothing
\* that another one holds.
LEMMA LocksMove ==
    ASSUME CheckoutInv, NEW k \in Checkouts, NEW r,
           checkout' = [checkout EXCEPT ![k] = r],
           r.pc \in {"lookup", "reserve"} => r.items = r.locked \cup ItemsOf(r.goods),
           r.pc \in {"count", "redeem"} => r.items = r.locked,
           r.pc \notin {"reserve", "count", "redeem"} => r.locked = {},
           \A j \in Checkouts : j # k => checkout[j].locked \cap r.locked = {}
    PROVE  LocksSound'
<1>1. \A j \in Checkouts : checkout'[j] = IF j = k THEN r ELSE checkout[j]
  BY DEF CheckoutInv, CheckoutTypeOK
<1> QED
  BY <1>1 DEF CheckoutInv, LocksSound, ItemsOf

\* A request that goes on to another step, other than "redeem".
LEMMA AdvanceSound ==
    ASSUME CheckoutInv, NEW k \in Checkouts, NEW pc \in CheckoutSteps \ {"redeem"},
           AdvanceTo(k, pc), UNCHANGED usedCount,
           checkout[k].pc \in Committed <=> pc \in Committed,
           pc \in {"lookup", "reserve"} => checkout[k].pc \in {"lookup", "reserve"},
           pc = "count" => checkout[k].pc = "reserve" /\ checkout[k].goods = <<>>,
           pc \notin {"reserve", "count"} =>
               checkout[k].pc \notin {"reserve", "count", "redeem"}
    PROVE  CheckoutInv'
<1> DEFINE r == [checkout[k] EXCEPT !.pc = pc]
<1>1. checkout[k] \in CheckoutRow
  BY DEF CheckoutInv, CheckoutTypeOK
<1>2. r \in CheckoutRow /\ checkout' = [checkout EXCEPT ![k] = r]
  BY <1>1 DEF AdvanceTo, CheckoutRow
<1>3. /\ r.pc = pc /\ r.locked = checkout[k].locked /\ r.items = checkout[k].items
      /\ r.goods = checkout[k].goods /\ r.coupon = checkout[k].coupon
      /\ r.buyer = checkout[k].buyer
  BY <1>1 DEF CheckoutRow
<1>4. ItemsOf(<<>>) = {}
  BY DEF ItemsOf
<1> HIDE DEF r
<1>5. LocksSound'
  <2>1. LocksSound
    BY DEF CheckoutInv
  <2>2. \A j \in Checkouts : j # k => checkout[j].locked \cap r.locked = {}
    BY <1>3, <2>1 DEF LocksSound
  <2>3. /\ r.pc \in {"lookup", "reserve"} => r.items = r.locked \cup ItemsOf(r.goods)
        /\ r.pc \in {"count", "redeem"} => r.items = r.locked
        /\ r.pc \notin {"reserve", "count", "redeem"} => r.locked = {}
    BY <1>3, <1>4, <2>1 DEF LocksSound
  <2> QED
    BY <1>2, <2>2, <2>3, LocksMove
<1> QED
  BY <1>2, <1>3, <1>5, CheckoutMoves

LEMMA EndSound ==
    ASSUME CheckoutInv, NEW k \in Checkouts, checkout[k].pc \notin Committed,
           End(k, "refused"), UNCHANGED usedCount
    PROVE  CheckoutInv'
<1> DEFINE r == NoOrder("refused")
<1>1. r \in CheckoutRow /\ checkout' = [checkout EXCEPT ![k] = r]
  BY DEF End, NoOrder, CheckoutRow, CheckoutSteps
<1>2. r.pc = "refused" /\ r.locked = {}
  BY DEF NoOrder
<1> HIDE DEF r
<1>3. LocksSound'
  BY <1>1, <1>2, LocksMove
<1> QED
  BY <1>1, <1>2, <1>3, CheckoutMoves DEF Committed

LEMMA SubmitSound ==
    ASSUME CheckoutInv, NEW k \in Checkouts, NEW b \in Buyers \cup {Guest},
           NEW s \in Carts, NEW coupon \in BOOLEAN, Submit(k, b, s, coupon)
    PROVE  CheckoutInv'
<1> DEFINE r == [pc |-> "lookup", buyer |-> b, items |-> ItemsOf(s), goods |-> s,
                 locked |-> {}, coupon |-> coupon]
<1>1. r \in CheckoutRow
  BY CartsTyped DEF CheckoutRow, CheckoutSteps
<1>2. checkout' = [checkout EXCEPT ![k] = r] /\ checkout[k].pc = "idle" /\ UNCHANGED usedCount
  BY DEF Submit
<1>3. r.pc = "lookup" /\ r.locked = {} /\ r.items = ItemsOf(r.goods)
  OBVIOUS
<1> HIDE DEF r
<1>4. LocksSound'
  BY <1>2, <1>3, LocksMove
<1> QED
  BY <1>1, <1>2, <1>3, <1>4, CheckoutMoves DEF Committed

LEMMA ReserveSound ==
    ASSUME CheckoutInv, NEW k \in Checkouts, Reserve(k)
    PROVE  CheckoutInv'
<1> DEFINE p == Head(checkout[k].goods)
           r == [checkout[k] EXCEPT !.goods = Tail(@), !.locked = @ \cup {p}]
<1>1. checkout[k] \in CheckoutRow /\ checkout[k].pc = "reserve" /\ checkout[k].goods # <<>>
  BY DEF CheckoutInv, CheckoutTypeOK, Reserve
<1>2. /\ checkout[k].goods \in Seq(Goods)
      /\ ItemsOf(checkout[k].goods) = {p} \cup ItemsOf(Tail(checkout[k].goods))
      /\ Tail(checkout[k].goods) \in Seq(Goods) /\ p \in Goods
  BY <1>1, ItemsOfTail DEF CheckoutRow
<1>3. r \in CheckoutRow /\ checkout' = [checkout EXCEPT ![k] = r] /\ UNCHANGED usedCount
  BY <1>1, <1>2 DEF Reserve, CheckoutRow
<1>4. /\ r.pc = "reserve" /\ r.locked = checkout[k].locked \cup {p}
      /\ r.goods = Tail(checkout[k].goods) /\ r.items = checkout[k].items
  BY <1>1 DEF CheckoutRow
<1>5. \A j \in Checkouts : p \notin checkout[j].locked
  BY DEF Reserve, Unlocked
<1> HIDE DEF r
<1>6. r.items = r.locked \cup ItemsOf(r.goods)
  BY <1>1, <1>2, <1>4 DEF CheckoutInv, LocksSound
<1>7. \A j \in Checkouts : j # k => checkout[j].locked \cap r.locked = {}
  BY <1>4, <1>5 DEF CheckoutInv, LocksSound
<1>8. LocksSound'
  BY <1>3, <1>4, <1>6, <1>7, LocksMove
<1> QED
  BY <1>1, <1>3, <1>4, <1>8, CheckoutMoves DEF Committed

\* The count is taken with the locks held.
LEMMA CountSound ==
    ASSUME CheckoutInv, NEW k \in Checkouts, checkout[k].pc \in {"reserve", "count"},
           checkout[k].pc = "reserve" => checkout[k].goods = <<>>,
           checkout[k].coupon => MayRedeem(checkout[k].buyer),
           AdvanceTo(k, "redeem"), UNCHANGED usedCount
    PROVE  CheckoutInv'
<1> DEFINE r == [checkout[k] EXCEPT !.pc = "redeem"]
<1>1. checkout[k] \in CheckoutRow
  BY DEF CheckoutInv, CheckoutTypeOK
<1>2. r \in CheckoutRow /\ checkout' = [checkout EXCEPT ![k] = r]
  BY <1>1 DEF AdvanceTo, CheckoutRow, CheckoutSteps
<1>3. /\ r.pc = "redeem" /\ r.locked = checkout[k].locked /\ r.items = checkout[k].items
      /\ r.coupon = checkout[k].coupon /\ r.buyer = checkout[k].buyer
  BY <1>1 DEF CheckoutRow
<1>4. ItemsOf(<<>>) = {}
  BY DEF ItemsOf
<1> HIDE DEF r
<1>5. LocksSound'
  <2>1. LocksSound
    BY DEF CheckoutInv
  <2>2. \A j \in Checkouts : j # k => checkout[j].locked \cap r.locked = {}
    BY <1>3, <2>1 DEF LocksSound
  <2>3. r.items = r.locked
    BY <1>3, <1>4, <2>1 DEF LocksSound
  <2> QED
    BY <1>2, <1>3, <2>2, <2>3, LocksMove
<1>6. ASSUME r.coupon, r.buyer # Guest
      PROVE  Cardinality({j \in RedeemedBy(r.buyer) :
                            checkout[j].items \cap r.items # {}}) < CustomerUses
  <2> PICK b : b = r.buyer
    OBVIOUS
  <2> DEFINE S == {j \in RedeemedBy(b) : checkout[j].items \cap r.items # {}}
  <2>1. Cardinality(RedeemedBy(b)) < CustomerUses
    BY <1>3, <1>6 DEF MayRedeem, RedeemedBy
  <2>2. RedeemedBy(b) \in SUBSET Redemptions /\ S \in SUBSET RedeemedBy(b)
    BY DEF RedeemedBy
  <2>3. /\ Cardinality(S) <= Cardinality(RedeemedBy(b))
        /\ Cardinality(S) \in Nat /\ Cardinality(RedeemedBy(b)) \in Nat
    BY <2>2, RedemptionsFinite, FS_Subset
  <2>4. Cardinality(S) < CustomerUses
    BY <2>1, <2>3, CheckoutAssumption
  <2> QED
    BY <2>4
<1> QED
  BY <1>2, <1>3, <1>5, <1>6, CheckoutMoves DEF Committed

\* The commit adds one redemption.  Whoever else stands between its count and
\* its commit shares no product with it; and what the committing request
\* shares products with was there when it counted.
LEMMA CommitSound ==
    ASSUME CheckoutInv, NEW k \in Checkouts, CommitCheckout(k)
    PROVE  CheckoutInv'
<1> DEFINE r == [checkout[k] EXCEPT !.pc = "committed", !.locked = {}]
<1>1. checkout[k] \in CheckoutRow /\ checkout[k].pc = "redeem"
  BY DEF CheckoutInv, CheckoutTypeOK, CommitCheckout
<1>2. r \in CheckoutRow /\ checkout' = [checkout EXCEPT ![k] = r]
  BY <1>1 DEF CommitCheckout, CheckoutRow, CheckoutSteps
<1>3. /\ r.pc = "committed" /\ r.locked = {} /\ r.items = checkout[k].items
      /\ r.coupon = checkout[k].coupon /\ r.buyer = checkout[k].buyer
      /\ r.buyer \in Buyers \cup {Guest} /\ r.coupon \in BOOLEAN
  BY <1>1 DEF CheckoutRow
<1> HIDE DEF r
<1>4. \A j \in Checkouts : checkout'[j] = IF j = k THEN r ELSE checkout[j]
  BY <1>2 DEF CheckoutInv, CheckoutTypeOK
<1>5. /\ LocksSound /\ CountStands /\ CheckoutTypeOK /\ CouponCounterExact
      /\ SharedGoodsKeepLimit
  BY DEF CheckoutInv
<1>16. /\ r.coupon => usedCount' = usedCount + 1 /\ usedCount < CouponUses
       /\ ~r.coupon => usedCount' = usedCount
       /\ usedCount \in Nat
  BY <1>3, <1>5 DEF CheckoutTypeOK, CommitCheckout, StillUsable
<1>6. CheckoutTypeOK'
  BY <1>2, <1>16, <1>5 DEF CheckoutTypeOK
<1>7. LocksSound'
  BY <1>2, <1>3, <1>5, LocksMove DEF LocksSound
<1>8. k \in Checkouts /\ k \notin Redemptions
  BY <1>1 DEF Redemptions, Committed
<1>9. /\ r.coupon => Redemptions' = Redemptions \cup {k}
      /\ ~r.coupon => Redemptions' = Redemptions
  BY <1>3, <1>4, <1>8 DEF Redemptions, Committed
<1>10. CouponCounterExact'
  <2>1. Cardinality(Redemptions \cup {k}) = Cardinality(Redemptions) + 1
    BY <1>8, RedemptionsFinite, FS_AddElement
  <2> QED
    <3>1. usedCount = Cardinality(Redemptions) /\ usedCount <= CouponUses
      BY <1>5 DEF CouponCounterExact
    <3>2. CASE r.coupon
      <4>1. Cardinality(Redemptions') = usedCount + 1
        BY <2>1, <3>1, <3>2, <1>9
      <4>2. usedCount' = usedCount + 1 /\ usedCount + 1 <= CouponUses
        BY <3>2, <1>16, CheckoutAssumption
      <4> QED
        BY <4>1, <4>2 DEF CouponCounterExact
    <3>3. CASE ~r.coupon
      BY <3>1, <3>3, <1>9, <1>16 DEF CouponCounterExact
    <3> QED
      BY <3>2, <3>3
<1>11. \A j \in Redemptions : checkout'[j] = checkout[j]
  BY <1>4, <1>8 DEF Redemptions
<1>12. \A b : RedeemedBy(b)' = IF r.coupon /\ b = r.buyer
                               THEN RedeemedBy(b) \cup {k} ELSE RedeemedBy(b)
  BY <1>3, <1>4, <1>8, <1>9, <1>11 DEF RedeemedBy
<1>13. SharedGoodsKeepLimit'
  <2> SUFFICES ASSUME NEW b \in Buyers, NEW R \in SUBSET (RedeemedBy(b)'),
                      \A i, j \in R : checkout'[i].items \cap checkout'[j].items # {}
               PROVE  Cardinality(R) <= CustomerUses
    BY DEF SharedGoodsKeepLimit
  <2>1. R \ {k} \in SUBSET RedeemedBy(b)
    BY <1>12
  <2>2. \A i \in R \ {k} : checkout'[i].items = checkout[i].items
    BY <2>1, <1>11 DEF RedeemedBy
  <2>3. CASE k \notin R
    <3>1. R \in SUBSET RedeemedBy(b) /\ \A i \in R : checkout'[i].items = checkout[i].items
      BY <2>1, <2>2, <2>3
    <3> QED
      BY <3>1, <1>5 DEF SharedGoodsKeepLimit
  <2>4. CASE k \in R
    <3>1. r.coupon /\ b = r.buyer
      BY <2>4, <1>8, <1>12 DEF RedeemedBy
    <3>2. checkout[k].coupon /\ checkout[k].buyer = b /\ b # Guest
      BY <3>1, <1>3, CheckoutAssumption
    <3>3. Cardinality(SharedWith(k)) < CustomerUses
      BY <3>2, <1>1, <1>5 DEF CountStands
    <3>4. R \ {k} \subseteq SharedWith(k)
      <4>1. checkout'[k].items = checkout[k].items
        BY <1>3, <1>4
      <4>2. \A i \in R \ {k} : checkout[i].items \cap checkout[k].items # {}
        BY <4>1, <2>2, <2>4
      <4> QED
        BY <4>2, <2>1, <3>2 DEF SharedWith
    <3>5. SharedWith(k) \in SUBSET Redemptions
      BY DEF SharedWith, RedeemedBy
    <3>6. /\ IsFiniteSet(SharedWith(k)) /\ Cardinality(SharedWith(k)) \in Nat
          /\ IsFiniteSet(R \ {k})
          /\ Cardinality(R \ {k}) \in Nat
          /\ Cardinality(R \ {k}) <= Cardinality(SharedWith(k))
      BY <3>4, <3>5, RedemptionsFinite, FS_Subset, FS_CardinalityType
    <3>7. R = (R \ {k}) \cup {k}
      BY <2>4
    <3>8. Cardinality(R) = Cardinality(R \ {k}) + 1
      BY <3>6, <3>7, FS_AddElement
    <3> QED
      BY <3>3, <3>6, <3>8, CheckoutAssumption
  <2> QED
    BY <2>3, <2>4
<1>14. ASSUME NEW j \in Checkouts, checkout'[j].pc = "redeem", checkout'[j].coupon,
              checkout'[j].buyer # Guest
       PROVE  Cardinality(SharedWith(j)') < CustomerUses
  <2>1. j # k
    BY <1>3, <1>4, <1>14
  <2>2. checkout'[j] = checkout[j]
    BY <2>1, <1>4
  <2>3. checkout[j].items \cap checkout[k].items = {}
    BY <2>1, <2>2, <1>1, <1>5, <1>14 DEF LocksSound
  <2>4. SharedWith(j)' = SharedWith(j)
    <3>1. SharedWith(j)' = {i \in Redemptions' : /\ checkout'[i].buyer = checkout[j].buyer
                                                /\ checkout'[i].items \cap checkout[j].items # {}}
      BY <2>2 DEF SharedWith, RedeemedBy
    <3>2. SharedWith(j) = {i \in Redemptions : /\ checkout[i].buyer = checkout[j].buyer
                                              /\ checkout[i].items \cap checkout[j].items # {}}
      BY DEF SharedWith, RedeemedBy
    <3>3. checkout'[k].items \cap checkout[j].items = {}
      BY <2>3, <1>3, <1>4
    <3> QED
      BY <3>1, <3>2, <3>3, <1>3, <1>9, <1>11
  <2> QED
    BY <2>2, <2>4, <1>5, <1>14 DEF CountStands
<1>15. CountStands'
  BY <1>14 DEF CountStands
<1> QED
  BY <1>6, <1>7, <1>10, <1>13, <1>15 DEF CheckoutInv

LEMMA CheckoutStep ==
    ASSUME CheckoutInv, [CheckoutNext]_checkoutVars
    PROVE  CheckoutInv'
<1>1. CASE UNCHANGED checkoutVars
  BY <1>1 DEF checkoutVars, CheckoutInv, CheckoutTypeOK, CouponCounterExact, LocksSound,
       CountStands, SharedGoodsKeepLimit, SharedWith, RedeemedBy, Redemptions
<1>2. ASSUME NEW k \in Checkouts, NEW b \in Buyers \cup {Guest}, NEW s \in Carts,
             NEW coupon \in BOOLEAN, Submit(k, b, s, coupon)
      PROVE  CheckoutInv'
  BY <1>2, SubmitSound
<1>3. ASSUME NEW k \in Checkouts, LookUp(k) PROVE CheckoutInv'
  BY <1>3, EndSound, AdvanceSound DEF LookUp, Committed, CheckoutSteps
<1>4. ASSUME NEW k \in Checkouts, RefuseOrder(k) PROVE CheckoutInv'
  BY <1>4, EndSound DEF RefuseOrder, Committed
<1>5. ASSUME NEW k \in Checkouts, Reserve(k) PROVE CheckoutInv'
  BY <1>5, ReserveSound
<1>6. ASSUME NEW k \in Checkouts, Reserved(k) PROVE CheckoutInv'
  <2>1. CASE checkout[k].coupon
    BY <1>6, <2>1, AdvanceSound DEF Reserved, AfterReserve, Committed, CheckoutSteps
  <2>2. CASE ~checkout[k].coupon
    BY <1>6, <2>2, CountSound DEF Reserved, AfterReserve
  <2> QED
    BY <2>1, <2>2
<1>7. ASSUME NEW k \in Checkouts, CountRedemptions(k) PROVE CheckoutInv'
  BY <1>7, CountSound, EndSound DEF CountRedemptions, Committed
<1>8. ASSUME NEW k \in Checkouts, CommitCheckout(k) PROVE CheckoutInv'
  BY <1>8, CommitSound
<1>9. ASSUME NEW k \in Checkouts, AbortCheckout(k) PROVE CheckoutInv'
  BY <1>9, EndSound DEF AbortCheckout, Committed
<1>10. ASSUME NEW k \in Checkouts, PlaceOrder(k) PROVE CheckoutInv'
  BY <1>10, AdvanceSound DEF PlaceOrder, Committed, CheckoutSteps
<1>11. ASSUME NEW k \in Checkouts, LinkFails(k) PROVE CheckoutInv'
  BY <1>11, AdvanceSound DEF LinkFails, Committed, CheckoutSteps
<1> QED
  BY <1>1, <1>2, <1>3, <1>4, <1>5, <1>6, <1>7, <1>8, <1>9, <1>10, <1>11 DEF CheckoutNext

LEMMA CheckoutStart == CheckoutInit => CheckoutInv
<1> SUFFICES ASSUME CheckoutInit PROVE CheckoutInv
  OBVIOUS
<1>1. \A k \in Checkouts : checkout[k] = NoOrder("idle")
  BY DEF CheckoutInit
<1>2. /\ NoOrder("idle") \in CheckoutRow
      /\ NoOrder("idle").pc = "idle" /\ NoOrder("idle").locked = {}
  BY DEF NoOrder, CheckoutRow, CheckoutSteps
<1>3. CheckoutTypeOK
  BY <1>2 DEF CheckoutInit, CheckoutTypeOK
<1>4. Redemptions = {} /\ \A b : RedeemedBy(b) = {}
  BY <1>1, <1>2 DEF Redemptions, RedeemedBy, Committed
<1>5. CouponCounterExact
  BY <1>4, FS_EmptySet, CheckoutAssumption DEF CouponCounterExact, CheckoutInit
<1>6. LocksSound /\ CountStands
  BY <1>1, <1>2 DEF LocksSound, CountStands
<1>7. SharedGoodsKeepLimit
  BY <1>4, FS_EmptySet, CheckoutAssumption DEF SharedGoodsKeepLimit
<1> QED
  BY <1>3, <1>5, <1>6, <1>7 DEF CheckoutInv

LEMMA CheckoutInvariant == CheckoutSpec => []CheckoutInv
  BY CheckoutStart, CheckoutStep, PTL DEF CheckoutSpec

\* However many checkouts read the coupon before it was used up, its counter
\* is the number of its redemptions and never passes maxUses.
THEOREM CouponCounted == CheckoutSpec => []CouponCounterExact
<1>1. CheckoutInv => CouponCounterExact
  BY DEF CheckoutInv
<1> QED
  BY <1>1, CheckoutInvariant, PTL

\* The limit per customer holds among orders that pairwise share a product:
\* the lock on the product orders their counts, although nothing else does.
THEOREM SharedGoodsLimited == CheckoutSpec => []SharedGoodsKeepLimit
<1>1. CheckoutInv => SharedGoodsKeepLimit
  BY DEF CheckoutInv
<1> QED
  BY <1>1, CheckoutInvariant, PTL

-----------------------------------------------------------------------------
(* A customer's default address.                                           *)

AtMostOneDefault ==
    \A o \in AddressOwners : o \notin mixed => \A r, s \in DefaultsOf(o) : r = s

\* What a request under way has read is still so, but for other customers'
\* rows and for requests that overlapped: its address is the customer's, the
\* rows it clears are all the customer's rows, and the address to be deleted
\* is the default if it was.
EditSound(u) ==
    \A o \in AddressOwners : edit[u].op # "none" /\ edit[u].owner = o =>
        /\ edit[u].makes \in MayMake(edit[u].op)
        /\ edit[u].op # "create" =>
               /\ edit[u].row \in AddressRows
               /\ address[edit[u].row].state # "unused"
               /\ address[edit[u].row].owner = o
        /\ \A r \in edit[u].cleared : address[r].state # "unused" /\ address[r].owner = o
        /\ o \notin mixed =>
               /\ edit[u].cleared = IF edit[u].makes = "default" THEN AddressesOf(o) ELSE {}
               /\ edit[u].op = "delete" => (edit[u].wasDefault <=> edit[u].row \in DefaultsOf(o))

\* Requests of one customer overlap unmixed only if they all change defaults.
OverlapsMixed ==
    \A u, w \in AddressUsers :
        u # w /\ edit[u].op # "none" /\ edit[w].op # "none"
        /\ edit[u].owner = edit[w].owner /\ edit[u].owner \notin mixed
        => edit[u].op \notin {"create", "delete"}

AddressInv == AddressTypeOK /\ AtMostOneDefault /\ OverlapsMixed
              /\ \A u \in AddressUsers : EditSound(u)

LEMMA NoEditType == NoEdit \in Edit /\ NoEdit.op = "none"
<1>1. (CHOOSE o \in AddressOwners : TRUE) \in AddressOwners
  BY AddressesAssumption
<1> QED
  BY <1>1 DEF NoEdit, Edit, EditOps

\* What a commit by request u may do to the rows, and what follows.
LEMMA CommitMoves ==
    ASSUME AddressInv, NEW u \in AddressUsers, NEW o \in AddressOwners,
           edit[u].op # "none", edit[u].owner = o,
           EndEdit(u), UNCHANGED <<edits, mixed>>,
           address' \in [AddressRows -> AddressRow],
           \A r \in AddressRows : address[r].state # "unused" =>
               address'[r].state # "unused" /\ address'[r].owner = address[r].owner,
           \A r \in AddressRows : address'[r] # address[r] => address'[r].owner = o,
           edit[u].op \notin {"create", "delete"} =>
               \A r \in AddressRows : address'[r].state = address[r].state,
           o \notin mixed => \A r, s \in DefaultsOf(o)' : r = s
    PROVE  AddressInv'
<1>1. \A w \in AddressUsers : edit'[w] = IF w = u THEN NoEdit ELSE edit[w]
  BY DEF AddressInv, AddressTypeOK, EndEdit
<1>2. AddressTypeOK'
  BY NoEditType DEF AddressInv, AddressTypeOK, EndEdit
<1>3. ASSUME NEW p \in AddressOwners, p # o
      PROVE  AddressesOf(p)' = AddressesOf(p) /\ DefaultsOf(p)' = DefaultsOf(p)
  <2>1. \A r \in AddressRows : address'[r] = address[r] \/ (r \notin AddressesOf(p) /\ r \notin AddressesOf(p)')
    BY <1>3 DEF AddressesOf
  <2>2. AddressesOf(p)' = AddressesOf(p)
    BY <2>1 DEF AddressesOf
  <2>3. \A r \in AddressesOf(p) : address'[r] = address[r]
    BY <2>1 DEF AddressesOf
  <2> QED
    BY <2>2, <2>3 DEF DefaultsOf
<1>4. AtMostOneDefault'
  BY <1>3 DEF AddressInv, AtMostOneDefault
<1>5. OverlapsMixed'
  BY <1>1, NoEditType DEF AddressInv, OverlapsMixed
<1>6. ASSUME NEW w \in AddressUsers, NEW p \in AddressOwners,
             edit'[w].op # "none", edit'[w].owner = p
      PROVE  /\ edit'[w].makes \in MayMake(edit'[w].op)
             /\ edit'[w].op # "create" =>
                    /\ edit'[w].row \in AddressRows
                    /\ address'[edit'[w].row].state # "unused"
                    /\ address'[edit'[w].row].owner = p
             /\ \A r \in edit'[w].cleared : address'[r].state # "unused" /\ address'[r].owner = p
             /\ p \notin mixed' =>
                    /\ edit'[w].cleared =
                           IF edit'[w].makes = "default" THEN AddressesOf(p)' ELSE {}
                    /\ edit'[w].op = "delete" =>
                           (edit'[w].wasDefault <=> edit'[w].row \in DefaultsOf(p)')
  <2>1. w # u /\ edit'[w] = edit[w] /\ edit[w] \in Edit
    BY <1>1, <1>6, NoEditType DEF AddressInv, AddressTypeOK
  <2>2. edit[w].cleared \subseteq AddressRows
    BY <2>1 DEF Edit
  <2>3. /\ edit[w].makes \in MayMake(edit[w].op)
        /\ edit[w].op # "create" =>
               /\ edit[w].row \in AddressRows
               /\ address[edit[w].row].state # "unused"
               /\ address[edit[w].row].owner = p
        /\ \A r \in edit[w].cleared : address[r].state # "unused" /\ address[r].owner = p
        /\ p \notin mixed =>
               /\ edit[w].cleared = IF edit[w].makes = "default" THEN AddressesOf(p) ELSE {}
               /\ edit[w].op = "delete" => (edit[w].wasDefault <=> edit[w].row \in DefaultsOf(p))
    BY <1>6, <2>1 DEF AddressInv, EditSound
  <2>4. ASSUME p \notin mixed
        PROVE  /\ AddressesOf(p)' = AddressesOf(p)
               /\ edit[w].op = "delete" => DefaultsOf(p)' = DefaultsOf(p)
    <3>1. CASE p # o
      BY <3>1, <1>3
    <3>2. CASE p = o
      <4>1. edit[u].op \notin {"create", "delete"} /\ edit[w].op \notin {"create", "delete"}
        BY <2>1, <2>4, <3>2, <1>6 DEF AddressInv, OverlapsMixed
      <4>2. AddressesOf(p)' = AddressesOf(p)
        <5>1. \A r \in AddressRows : address'[r].state = address[r].state
          BY <4>1
        <5>2. \A r \in AddressRows : address[r].state = "live" =>
                  address'[r].owner = address[r].owner
          OBVIOUS
        <5> QED
          BY <5>1, <5>2 DEF AddressesOf
      <4> QED
        BY <4>1, <4>2
    <3> QED
      BY <3>1, <3>2
  <2>5. /\ edit'[w].op # "create" =>
               /\ address'[edit[w].row].state # "unused"
               /\ address'[edit[w].row].owner = p
        /\ \A r \in edit[w].cleared : address'[r].state # "unused" /\ address'[r].owner = p
    BY <2>1, <2>2, <2>3
  <2> QED
    BY <2>1, <2>3, <2>4, <2>5
<1>7. ASSUME NEW w \in AddressUsers PROVE EditSound(w)'
  BY <1>6 DEF EditSound
<1> QED
  BY <1>2, <1>4, <1>5, <1>7 DEF AddressInv

LEMMA BeginEditSound ==
    ASSUME AddressInv, NEW u \in AddressUsers, NEW op \in EditOps \ {"none"},
           NEW o \in AddressOwners, NEW row \in AddressRows \cup {NoAddress},
           NEW makes \in {"default", "plain", "keep"}, BeginEdit(u, op, o, row, makes)
    PROVE  AddressInv'
<1> DEFINE e == [op |-> op, owner |-> o, row |-> row, makes |-> makes,
                 cleared |-> ToClear(o, makes),
                 wasDefault |-> row # NoAddress /\ row \in DefaultsOf(o)]
<1>1. e \in Edit
  BY DEF Edit, ToClear, AddressesOf
<1>2. edit' = [edit EXCEPT ![u] = e] /\ UNCHANGED address
  BY DEF BeginEdit
<1>3. /\ e.op = op /\ e.owner = o /\ e.row = row /\ e.makes = makes
      /\ e.cleared = ToClear(o, makes)
      /\ e.wasDefault = (row # NoAddress /\ row \in DefaultsOf(o))
  OBVIOUS
<1> HIDE DEF e
<1>4. \A w \in AddressUsers : edit'[w] = IF w = u THEN e ELSE edit[w]
  BY <1>2 DEF AddressInv, AddressTypeOK
<1>5. mixed \subseteq mixed' /\ mixed' \in SUBSET AddressOwners
      /\ (o \notin mixed' => ~Mixes(op, o))
  BY DEF BeginEdit, AddressInv, AddressTypeOK
<1>6. AddressTypeOK'
  <2>1. edits' \in 0..MaxEdits
    BY AddressesAssumption DEF BeginEdit, AddressInv, AddressTypeOK
  <2> QED
    BY <1>1, <1>2, <1>5, <2>1 DEF AddressInv, AddressTypeOK
<1>7. \A p : AddressesOf(p)' = AddressesOf(p) /\ DefaultsOf(p)' = DefaultsOf(p)
  BY <1>2 DEF AddressesOf, DefaultsOf
<1>8. AtMostOneDefault'
  BY <1>5, <1>7 DEF AddressInv, AtMostOneDefault
<1>9. OverlapsMixed'
  <2>1. ASSUME NEW w \in AddressUsers, w # u, edit[w].op # "none", edit[w].owner = o,
               o \notin mixed'
        PROVE  op \notin {"create", "delete"} /\ edit[w].op \notin {"create", "delete"}
    BY <2>1, <1>5 DEF Mixes
  <2>2. OverlapsMixed
    BY DEF AddressInv
  <2> QED
    BY <2>1, <2>2, <1>3, <1>4, <1>5 DEF OverlapsMixed
<1>10. ASSUME NEW w \in AddressUsers PROVE EditSound(w)'
  <2>1. CASE w = u
    <3>1. edit'[w] = e
      BY <2>1, <1>4
    <3>2. op # "create" => row \in AddressRows /\ row \in AddressesOf(o)
      BY AddressesAssumption DEF BeginEdit
    <3>3. makes \in MayMake(op)
      BY DEF BeginEdit
    <3>4. \A r \in AddressesOf(o) : address[r].state # "unused" /\ address[r].owner = o
      BY DEF AddressesOf
    <3>5. e.cleared = IF makes = "default" THEN AddressesOf(o) ELSE {}
      BY <1>3 DEF ToClear
    <3>6. op = "delete" => row # NoAddress
      BY AddressesAssumption DEF BeginEdit
    <3> QED
      BY <3>1, <3>2, <3>3, <3>4, <3>5, <3>6, <1>2, <1>3, <1>7 DEF EditSound
  <2>2. CASE w # u
    <3>1. edit'[w] = edit[w] /\ EditSound(w)
      BY <2>2, <1>4 DEF AddressInv
    <3> QED
      BY <3>1, <1>2, <1>5, <1>7 DEF EditSound
  <2> QED
    BY <2>1, <2>2
<1> QED
  BY <1>6, <1>8, <1>9, <1>10 DEF AddressInv

\* The rows once a request's clearing has been written.
LEMMA ClearedRows ==
    ASSUME AddressInv, NEW S \in SUBSET AddressRows
    PROVE  /\ Cleared(S) \in [AddressRows -> AddressRow]
           /\ \A r \in AddressRows :
                /\ Cleared(S)[r].state = address[r].state
                /\ Cleared(S)[r].owner = address[r].owner
                /\ r \in S => ~Cleared(S)[r].isDefault
                /\ r \notin S => Cleared(S)[r] = address[r]
<1>1. \A r \in AddressRows : address[r] \in AddressRow
  BY DEF AddressInv, AddressTypeOK
<1>2. \A r \in AddressRows :
          /\ [address[r] EXCEPT !.isDefault = FALSE] \in AddressRow
          /\ [address[r] EXCEPT !.isDefault = FALSE].state = address[r].state
          /\ [address[r] EXCEPT !.isDefault = FALSE].owner = address[r].owner
          /\ ~[address[r] EXCEPT !.isDefault = FALSE].isDefault
  BY <1>1 DEF AddressRow
<1> QED
  BY <1>1, <1>2 DEF Cleared

\* A commit that writes one row after its clearing: the rows it clears and
\* the row it writes are its customer's, so nobody else's change; and when
\* the row becomes a default, every other one of the customer was cleared.
LEMMA WriteMoves ==
    ASSUME AddressInv, NEW u \in AddressUsers, NEW o \in AddressOwners,
           edit[u].op # "none", edit[u].owner = o,
           EndEdit(u), UNCHANGED <<edits, mixed>>,
           NEW row \in AddressRows, NEW new \in AddressRow,
           address' = [Cleared(edit[u].cleared) EXCEPT ![row] = new],
           new.owner = o, new.state = "live",
           \/ edit[u].op = "create" /\ address[row].state = "unused"
           \/ edit[u].op # "create" /\ address[row].state = "live" /\ address[row].owner = o,
           edit[u].makes = "default" => new.isDefault,
           new.isDefault => \/ edit[u].makes = "default"
                            \/ address[row].state = "live" /\ address[row].isDefault
    PROVE  /\ AddressInv'
           /\ o \notin mixed /\ DefaultsOf(o) # {}
                => DefaultsOf(o)' # {} \/ AddressesOf(o)' = AddressesOf(o)
<1> DEFINE S == edit[u].cleared
<1>1. S \in SUBSET AddressRows /\ \A r \in S : address[r].state # "unused" /\ address[r].owner = o
  BY DEF AddressInv, AddressTypeOK, Edit, EditSound
<1>2. \A r \in AddressRows : address'[r] = IF r = row THEN new ELSE Cleared(S)[r]
  BY <1>1, ClearedRows
<1>3. address' \in [AddressRows -> AddressRow]
  BY <1>1, ClearedRows
<1>4. \A r \in AddressRows : address[r].state # "unused" =>
          address'[r].state # "unused" /\ address'[r].owner = address[r].owner
  BY <1>1, <1>2, ClearedRows
<1>5. \A r \in AddressRows : address'[r] # address[r] => address'[r].owner = o
  BY <1>1, <1>2, ClearedRows
<1>6. edit[u].op \notin {"create", "delete"} =>
          \A r \in AddressRows : address'[r].state = address[r].state
  BY <1>1, <1>2, ClearedRows
<1>7. o \notin mixed => S = IF edit[u].makes = "default" THEN AddressesOf(o) ELSE {}
  BY DEF AddressInv, EditSound
<1>8. ASSUME o \notin mixed PROVE \A r, s \in DefaultsOf(o)' : r = s
  <2>1. CASE edit[u].makes = "default"
    <3>1. \A r \in DefaultsOf(o)' : r = row
      <4> SUFFICES ASSUME NEW r \in AddressRows, r # row, address'[r].state = "live",
                          address'[r].owner = o, address'[r].isDefault
                   PROVE  FALSE
        BY DEF DefaultsOf, AddressesOf
      <4>1. r \in S
        BY <2>1, <1>1, <1>2, <1>7, <1>8, ClearedRows DEF AddressesOf
      <4> QED
        BY <4>1, <1>1, <1>2, ClearedRows
    <3> QED
      BY <3>1
  <2>2. CASE edit[u].makes # "default"
    <3>1. S = {}
      BY <2>2, <1>7, <1>8
    <3>2. \A r \in AddressRows : r # row => address'[r] = address[r]
      BY <3>1, <1>1, <1>2, ClearedRows
    <3>3. DefaultsOf(o)' \subseteq DefaultsOf(o)
      <4>1. row \in DefaultsOf(o)' => row \in DefaultsOf(o)
        BY <2>2, <1>2 DEF DefaultsOf, AddressesOf
      <4> QED
        BY <3>2, <4>1 DEF DefaultsOf, AddressesOf
    <3> QED
      BY <3>3, <1>8 DEF AddressInv, AtMostOneDefault
  <2> QED
    BY <2>1, <2>2
<1>9. AddressInv'
  BY <1>3, <1>4, <1>5, <1>6, <1>8, CommitMoves
<1>10. ASSUME o \notin mixed, DefaultsOf(o) # {}, edit[u].makes # "default"
       PROVE  DefaultsOf(o)' # {} \/ AddressesOf(o)' = AddressesOf(o)
  <2>1. S = {}
    BY <1>7, <1>10
  <2>2. \A r \in AddressRows : r # row => address'[r] = address[r]
    BY <2>1, <1>1, <1>2, ClearedRows
  <2>3. CASE edit[u].op = "create"
    <3>1. \A r \in DefaultsOf(o) : r # row /\ r \in DefaultsOf(o)'
      BY <2>2, <2>3 DEF DefaultsOf, AddressesOf
    <3> QED
      BY <3>1, <1>10
  <2>4. CASE edit[u].op # "create"
    BY <2>2, <2>4, <1>2 DEF AddressesOf
  <2> QED
    BY <2>3, <2>4
<1>11. edit[u].makes = "default" => row \in DefaultsOf(o)'
  BY <1>2 DEF DefaultsOf, AddressesOf
<1> QED
  BY <1>9, <1>10, <1>11

\* Nobody else's addresses change with a commit.
LEMMA OthersKept ==
    ASSUME NEW o \in AddressOwners,
           \A r \in AddressRows : address[r].state # "unused" =>
               address'[r].state # "unused" /\ address'[r].owner = address[r].owner,
           \A r \in AddressRows : address'[r] # address[r] => address'[r].owner = o
    PROVE  \A p \in AddressOwners : p # o => AddressesOf(p)' = AddressesOf(p)
  BY DEF AddressesOf

Spared(p) ==
    p \notin mixed /\ DefaultsOf(p) # {} /\ AddressesOf(p)' # {}
    /\ AddressesOf(p)' # AddressesOf(p) => DefaultsOf(p)' # {}

LEMMA CreateAddressSound ==
    ASSUME AddressInv, NEW u \in AddressUsers, CreateAddress(u)
    PROVE  AddressInv' /\ \A p \in AddressOwners : Spared(p)
<1> PICK o : o = edit[u].owner
  OBVIOUS
<1> DEFINE row == CHOOSE r \in FreshRows : TRUE
           new == [state |-> "live", owner |-> o, isDefault |-> edit[u].makes = "default"]
<1>1. edit[u] \in Edit /\ edit[u].op = "create"
  BY DEF AddressInv, AddressTypeOK, CreateAddress
<1>2. o \in AddressOwners /\ edit[u].cleared \in SUBSET AddressRows
  BY <1>1 DEF Edit
<1>3. row \in AddressRows /\ address[row].state = "unused"
  BY DEF CreateAddress, FreshRows
<1>4. new \in AddressRow
  BY <1>2 DEF AddressRow
<1>5. address' = [Cleared(edit[u].cleared) EXCEPT ![row] = new]
  BY DEF CreateAddress
<1>6. EndEdit(u) /\ UNCHANGED <<edits, mixed>>
  BY DEF CreateAddress
<1>7. /\ new.state = "live" /\ new.owner = o
      /\ new.isDefault = (edit[u].makes = "default")
  OBVIOUS
<1> HIDE DEF new, row
<1>8. /\ AddressInv'
      /\ o \notin mixed /\ DefaultsOf(o) # {}
           => DefaultsOf(o)' # {} \/ AddressesOf(o)' = AddressesOf(o)
  BY <1>1, <1>2, <1>3, <1>4, <1>5, <1>6, <1>7, WriteMoves
<1>9. \A p \in AddressOwners : p # o => AddressesOf(p)' = AddressesOf(p)
  <2>1. \A r \in AddressRows : address'[r] = IF r = row THEN new ELSE Cleared(edit[u].cleared)[r]
    BY <1>2, <1>5, ClearedRows
  <2>2. \A r \in edit[u].cleared : address[r].state # "unused" /\ address[r].owner = o
    BY <1>1, <1>2 DEF AddressInv, EditSound
  <2> QED
    BY <1>2, <1>3, <1>7, <2>1, <2>2, ClearedRows, OthersKept
<1> QED
  BY <1>8, <1>9, <1>2 DEF Spared

LEMMA ChangeSound ==
    ASSUME AddressInv, NEW u \in AddressUsers, UpdateAddress(u) \/ SetDefault(u)
    PROVE  AddressInv' /\ \A p \in AddressOwners : AddressesOf(p)' = AddressesOf(p)
<1> DEFINE row == edit[u].row
           o == edit[u].owner
           S == edit[u].cleared
           new == [Cleared(S)[row] EXCEPT
                      !.isDefault = IF edit[u].makes = "keep" THEN @
                                    ELSE edit[u].makes = "default"]
<1>1. edit[u] \in Edit /\ edit[u].op \in {"update", "setDefault"}
  BY DEF AddressInv, AddressTypeOK, UpdateAddress, SetDefault
<1>2. o \in AddressOwners /\ S \in SUBSET AddressRows
  BY <1>1 DEF Edit
<1>3. /\ row \in AddressRows /\ address[row].state = "live" /\ address[row].owner = o
      /\ edit[u].makes \in MayMake(edit[u].op)
      /\ \A r \in S : address[r].state # "unused" /\ address[r].owner = o
  BY <1>1, <1>2 DEF AddressInv, EditSound, UpdateAddress, SetDefault
<1>4. Cleared(S)[row] \in AddressRow /\ Cleared(S)[row].state = "live"
      /\ Cleared(S)[row].owner = o
  BY <1>2, <1>3, ClearedRows
<1>5. /\ new \in AddressRow /\ new.state = "live" /\ new.owner = o
      /\ new.isDefault = IF edit[u].makes = "keep" THEN Cleared(S)[row].isDefault
                         ELSE edit[u].makes = "default"
  BY <1>4 DEF AddressRow
<1>6. address' = [Cleared(S) EXCEPT ![row] = new]
  <2>1. CASE UpdateAddress(u)
    BY <2>1 DEF UpdateAddress
  <2>2. CASE SetDefault(u)
    <3>1. edit[u].makes = "default"
      BY <2>2, <1>3 DEF SetDefault, MayMake
    <3> QED
      BY <2>2, <3>1 DEF SetDefault
  <2> QED
    BY <2>1, <2>2
<1>7. EndEdit(u) /\ UNCHANGED <<edits, mixed>>
  BY DEF UpdateAddress, SetDefault
<1>8. new.isDefault => \/ edit[u].makes = "default"
                       \/ address[row].state = "live" /\ address[row].isDefault
  BY <1>2, <1>3, <1>5, ClearedRows
<1> HIDE DEF new
<1>9. AddressInv'
  BY <1>1, <1>2, <1>3, <1>5, <1>6, <1>7, <1>8, WriteMoves
<1>10. \A r \in AddressRows : address'[r].state = address[r].state
                              /\ address'[r].owner = address[r].owner
  <2>1. \A r \in AddressRows : address'[r] = IF r = row THEN new ELSE Cleared(S)[r]
    BY <1>2, <1>6, ClearedRows
  <2> QED
    BY <2>1, <1>2, <1>3, <1>5, ClearedRows
<1>11. \A p \in AddressOwners : AddressesOf(p)' = AddressesOf(p)
  BY <1>10 DEF AddressesOf
<1> QED
  BY <1>9, <1>11

\* The deletion: when the address was the only default, one other becomes it.
LEMMA DeleteSound ==
    ASSUME AddressInv, NEW u \in AddressUsers, DeleteAddress(u)
    PROVE  AddressInv' /\ \A p \in AddressOwners : Spared(p)
<1> PICK o, row : o = edit[u].owner /\ row = edit[u].row
  OBVIOUS
<1> DEFINE others == AddressesOf(o) \ {row}
           gone == [address EXCEPT ![row].state = "deleted"]
<1>1. edit[u] \in Edit /\ edit[u].op = "delete" /\ o \in AddressOwners
  BY DEF AddressInv, AddressTypeOK, DeleteAddress, Edit
<1>2. /\ row \in AddressRows /\ address[row].state = "live" /\ address[row].owner = o
      /\ o \notin mixed => (edit[u].wasDefault <=> row \in DefaultsOf(o))
  BY <1>1 DEF AddressInv, EditSound, DeleteAddress
<1>3. \A r \in AddressRows : address[r] \in AddressRow
  BY DEF AddressInv, AddressTypeOK
<1>4. /\ gone \in [AddressRows -> AddressRow]
      /\ gone[row].state = "deleted" /\ gone[row].owner = o
      /\ \A r \in AddressRows : r # row => gone[r] = address[r]
  BY <1>2, <1>3 DEF AddressInv, AddressTypeOK, AddressRow
<1>5. EndEdit(u) /\ UNCHANGED <<edits, mixed>>
  BY DEF DeleteAddress
<1>6. \/ /\ edit[u].wasDefault
         /\ \E next \in others : address' = [gone EXCEPT ![next].isDefault = TRUE]
      \/ (~edit[u].wasDefault \/ others = {}) /\ address' = gone
  BY DEF DeleteAddress, Promotes
<1>7. PICK next \in AddressRows \cup {NoAddress} :
         /\ next # NoAddress => next \in others /\ edit[u].wasDefault
         /\ next = NoAddress => (~edit[u].wasDefault \/ others = {})
         /\ address' \in [AddressRows -> AddressRow]
         /\ \A r \in AddressRows :
              IF r = next THEN /\ address'[r].state = address[r].state
                               /\ address'[r].owner = address[r].owner
                               /\ address'[r].isDefault
                          ELSE address'[r] = gone[r]
  <2> HIDE DEF gone
  <2>1. CASE (~edit[u].wasDefault \/ others = {}) /\ address' = gone
    BY <2>1, <1>4, AddressesAssumption
  <2>2. ASSUME edit[u].wasDefault, NEW next \in others,
               address' = [gone EXCEPT ![next].isDefault = TRUE]
        PROVE  /\ next \in AddressRows /\ next # NoAddress
               /\ address' \in [AddressRows -> AddressRow]
               /\ \A r \in AddressRows :
                    IF r = next THEN /\ address'[r].state = address[r].state
                                     /\ address'[r].owner = address[r].owner
                                     /\ address'[r].isDefault
                                ELSE address'[r] = gone[r]
    <3>1. next \in AddressRows /\ next # row
      BY <2>2 DEF AddressesOf
    <3>2. gone[next] = address[next] /\ address[next] \in AddressRow
      BY <3>1, <1>3, <1>4
    <3> DEFINE n == [address[next] EXCEPT !.isDefault = TRUE]
    <3>3. n \in AddressRow /\ n.state = address[next].state /\ n.owner = address[next].owner
          /\ n.isDefault
      BY <3>2 DEF AddressRow
    <3>4. address' = [gone EXCEPT ![next] = n]
      BY <2>2, <3>2
    <3> HIDE DEF n
    <3> QED
      BY <3>1, <3>3, <3>4, <1>4, AddressesAssumption
  <2> QED
    BY <2>1, <2>2, <1>6
<1> HIDE DEF gone
<1>8. \A r \in AddressRows : /\ address'[r].owner = address[r].owner
                             /\ r = row => address'[r].state = "deleted"
                             /\ r # row => address'[r].state = address[r].state
  <2>1. next # row
    BY <1>7, <1>2, AddressesAssumption
  <2> QED
    BY <2>1, <1>2, <1>4, <1>7
<1>9. \A r \in AddressRows : address'[r] # address[r] => address'[r].owner = o
  BY <1>2, <1>4, <1>7, <1>8, AddressesAssumption DEF AddressesOf
<1>10. AddressesOf(o)' = AddressesOf(o) \ {row}
  BY <1>8 DEF AddressesOf
<1>11. \A r \in AddressesOf(o)' : address'[r].isDefault <=> r = next \/ address[r].isDefault
  BY <1>4, <1>7, <1>10 DEF AddressesOf
<1>12. ASSUME o \notin mixed PROVE \A r, s \in DefaultsOf(o)' : r = s
  <2>1. CASE next = NoAddress
    <3>1. DefaultsOf(o)' \subseteq DefaultsOf(o)
      BY <2>1, <1>10, <1>11, AddressesAssumption DEF DefaultsOf, AddressesOf
    <3> QED
      BY <3>1, <1>1, <1>12 DEF AddressInv, AtMostOneDefault
  <2>2. CASE next # NoAddress
    <3>1. row \in DefaultsOf(o)
      BY <2>2, <1>2, <1>7, <1>12
    <3>2. \A r \in DefaultsOf(o) : r = row
      BY <3>1, <1>1, <1>12 DEF AddressInv, AtMostOneDefault
    <3>3. \A r \in DefaultsOf(o)' : r = next
      BY <3>2, <1>10, <1>11 DEF DefaultsOf
    <3> QED
      BY <3>3
  <2> QED
    BY <2>1, <2>2
<1>13. AddressInv'
  BY <1>1, <1>2, <1>5, <1>7, <1>8, <1>9, <1>12, CommitMoves
<1>14. Spared(o)
  <2> SUFFICES ASSUME o \notin mixed, DefaultsOf(o) # {}, AddressesOf(o)' # {}
               PROVE  DefaultsOf(o)' # {}
    BY DEF Spared
  <2>1. CASE next # NoAddress
    <3>1. next \in AddressesOf(o)'
      BY <2>1, <1>7, <1>10
    <3> QED
      BY <3>1, <1>11 DEF DefaultsOf
  <2>2. CASE next = NoAddress
    <3>1. others # {}
      BY <1>10
    <3>2. row \notin DefaultsOf(o)
      BY <2>2, <3>1, <1>2, <1>7
    <3>3. \A r \in DefaultsOf(o) : r \in DefaultsOf(o)'
      BY <3>2, <1>10, <1>11 DEF DefaultsOf
    <3> QED
      BY <3>3
  <2> QED
    BY <2>1, <2>2
<1>15. \A p \in AddressOwners : p # o => AddressesOf(p)' = AddressesOf(p)
  <2>1. \A r \in AddressRows : address[r].state # "unused" =>
            address'[r].state # "unused" /\ address'[r].owner = address[r].owner
    BY <1>8
  <2> QED
    BY <2>1, <1>1, <1>9, OthersKept
<1> QED
  BY <1>13, <1>14, <1>15 DEF Spared

LEMMA FailSound ==
    ASSUME AddressInv, NEW u \in AddressUsers, FailEdit(u)
    PROVE  AddressInv' /\ \A p \in AddressOwners : AddressesOf(p)' = AddressesOf(p)
<1> PICK o : o = edit[u].owner
  OBVIOUS
<1>1. o \in AddressOwners /\ edit[u].op # "none"
  BY DEF AddressInv, AddressTypeOK, Edit, FailEdit
<1>2. EndEdit(u) /\ UNCHANGED <<address, edits, mixed>>
  BY DEF FailEdit
<1>3. \A p \in AddressOwners : AddressesOf(p)' = AddressesOf(p) /\ DefaultsOf(p)' = DefaultsOf(p)
  BY <1>2 DEF AddressesOf, DefaultsOf
<1>4. o \notin mixed => \A r, s \in DefaultsOf(o)' : r = s
  BY <1>1, <1>3 DEF AddressInv, AtMostOneDefault
<1>5. address' \in [AddressRows -> AddressRow]
  BY <1>2 DEF AddressInv, AddressTypeOK
<1> QED
  BY <1>1, <1>2, <1>3, <1>4, <1>5, CommitMoves

LEMMA AddressStep ==
    ASSUME AddressInv, [AddressNext]_addressVars
    PROVE  AddressInv' /\ \A p \in AddressOwners : Spared(p)
<1>1. CASE UNCHANGED addressVars
  <2>1. UNCHANGED <<address, edit, edits, mixed>>
    BY <1>1 DEF addressVars
  <2>2. \A p : AddressesOf(p)' = AddressesOf(p) /\ DefaultsOf(p)' = DefaultsOf(p)
    BY <2>1 DEF AddressesOf, DefaultsOf
  <2>3. AddressTypeOK' /\ AtMostOneDefault' /\ OverlapsMixed'
    BY <2>1, <2>2 DEF AddressInv, AddressTypeOK, AtMostOneDefault, OverlapsMixed
  <2>4. \A u \in AddressUsers : EditSound(u)'
    BY <2>1, <2>2 DEF AddressInv, EditSound
  <2> QED
    BY <2>2, <2>3, <2>4 DEF AddressInv, Spared
<1>2. ASSUME NEW u \in AddressUsers, NEW op \in EditOps \ {"none"},
             NEW o \in AddressOwners, NEW row \in AddressRows \cup {NoAddress},
             NEW makes \in {"default", "plain", "keep"}, BeginEdit(u, op, o, row, makes)
      PROVE  AddressInv' /\ \A p \in AddressOwners : Spared(p)
  <2>1. AddressInv'
    BY <1>2, BeginEditSound
  <2>2. UNCHANGED address
    BY <1>2 DEF BeginEdit
  <2> QED
    BY <2>1, <2>2 DEF Spared, AddressesOf
<1>3. ASSUME NEW u \in AddressUsers, CreateAddress(u)
      PROVE  AddressInv' /\ \A p \in AddressOwners : Spared(p)
  BY <1>3, CreateAddressSound
<1>4. ASSUME NEW u \in AddressUsers, UpdateAddress(u) \/ SetDefault(u)
      PROVE  AddressInv' /\ \A p \in AddressOwners : Spared(p)
  BY <1>4, ChangeSound DEF Spared
<1>5. ASSUME NEW u \in AddressUsers, DeleteAddress(u)
      PROVE  AddressInv' /\ \A p \in AddressOwners : Spared(p)
  BY <1>5, DeleteSound
<1>6. ASSUME NEW u \in AddressUsers, FailEdit(u)
      PROVE  AddressInv' /\ \A p \in AddressOwners : Spared(p)
  BY <1>6, FailSound DEF Spared
<1> QED
  BY <1>1, <1>2, <1>3, <1>4, <1>5, <1>6 DEF AddressNext

LEMMA AddressStart == AddressInit => AddressInv
<1> SUFFICES ASSUME AddressInit PROVE AddressInv
  OBVIOUS
<1>1. (CHOOSE o \in AddressOwners : TRUE) \in AddressOwners
  BY AddressesAssumption
<1>2. AddressTypeOK
  BY <1>1, NoEditType, AddressesAssumption DEF AddressInit, AddressTypeOK, AddressRow
<1>3. AtMostOneDefault
  BY DEF AddressInit, AtMostOneDefault, DefaultsOf, AddressesOf
<1>4. OverlapsMixed /\ \A u \in AddressUsers : EditSound(u)
  BY NoEditType DEF AddressInit, OverlapsMixed, EditSound
<1> QED
  BY <1>2, <1>3, <1>4 DEF AddressInv

\* A customer's address is the only default, or the default is spared by a
\* deletion, unless a creation or a deletion overlapped with another request
\* of that customer; changes of the default alone may overlap as they like.
THEOREM DefaultsAreKept == AddressSpec => DefaultsKept
<1>1. AddressInv => OneDefault
  <2> SUFFICES ASSUME AddressInv, NEW o \in AddressOwners, o \notin mixed
               PROVE  Cardinality(DefaultsOf(o)) <= 1
    BY DEF OneDefault
  <2>1. \A r, s \in DefaultsOf(o) : r = s
    BY DEF AddressInv, AtMostOneDefault
  <2>2. CASE DefaultsOf(o) = {}
    BY <2>2, FS_EmptySet
  <2>3. ASSUME NEW r \in DefaultsOf(o) PROVE Cardinality(DefaultsOf(o)) <= 1
    <3>1. DefaultsOf(o) = {r}
      BY <2>1
    <3> QED
      BY <3>1, FS_Singleton
  <2> QED
    BY <2>2, <2>3
<1>2. AddressInv /\ [AddressNext]_addressVars => AddressInv' /\ DeletionSparesADefault
  BY AddressStep DEF Spared, DeletionSparesADefault
<1>3. AddressInv' => OneDefault'
  BY <1>1, PTL
<1> QED
  BY <1>1, <1>2, AddressStart, PTL DEF AddressSpec, DefaultsKept

-----------------------------------------------------------------------------
(* Prices and risk.  Every rounding leaves at most half of its unit, and    *)
(* net and tax of a request add up to its gross price until the coupon      *)
(* scales both with the rounded ratio; from these alone the bound on what   *)
(* is charged follows.                                                      *)

Quotes ==
    [pc : {"lines", "priced"}, request : PriceRequests, next : Int, net : Int, tax : Int,
     gross : Int, grams : Int, discount : Int, fee : Int, total : Int]
Risks == [pc : {"new", "scored"}, signals : RiskSignals, ordinary : Int, strict : Int]

PricingInv ==
    /\ quote \in Quotes /\ quote.next >= 1
    /\ quote.pc = "lines" => quote.gross >= 0 /\ quote.net + quote.tax = quote.gross
    /\ DiscountCharged
    /\ risk \in Risks
    /\ RiskTiersConsistent

LEMMA NearestWithinHalf ==
    ASSUME NEW a \in Int, NEW b \in Int, b > 0, NEW n \in Nearest(a, b)
    PROVE  n \in Int /\ 2 * (b * n) <= 2 * a + b /\ 2 * a <= 2 * (b * n) + b
<1> DEFINE q == a \div b
           r == a % b
<1>1. q \in Int /\ r \in Int /\ 0 <= r /\ r < b /\ a = b * q + r
  OBVIOUS
<1>2. n \in {q, q + 1}
  BY DEF Nearest
<1>3. 2 * r < b => n = q
  BY DEF Nearest
<1>4. 2 * r > b => n = q + 1
  BY DEF Nearest
<1> HIDE DEF q, r
<1>5. n \in Int
  BY <1>1, <1>2
<1>6. b * (q + 1) = b * q + b
  BY <1>1
<1>7. b * q \in Int
  BY <1>1
<1>8. CASE n = q
  <2>1. 2 * r <= b
    BY <1>1, <1>4, <1>8
  <2> QED
    BY <2>1, <1>1, <1>5, <1>7, <1>8
<1>9. CASE n = q + 1
  <2>1. 2 * r >= b
    BY <1>1, <1>3, <1>9
  <2> QED
    BY <2>1, <1>1, <1>5, <1>6, <1>7, <1>9
<1> QED
  BY <1>2, <1>8, <1>9

\* The discount of a coupon is never more than the goods, and that of a whole
\* percentage is that of the goods, to half a cent, or all of them.
LEMMA DiscountIs ==
    ASSUME NEW type \in {"NONE", "PERCENT", "FIXED"}, NEW value \in Nat, NEW gross \in Nat,
           NEW coupon, coupon.type = type, coupon.value = value,
           NEW d \in Discounts(coupon, gross)
    PROVE  /\ d \in Int /\ 0 <= d /\ d <= gross
           /\ type = "PERCENT" /\ value % 100 = 0 /\ gross > 0 =>
                \/ d = gross
                \/ \E p \in Nat : 100 * d <= gross * p + 50 /\ gross * p <= 100 * d + 50
<1>1. CASE type = "NONE" \/ gross = 0
  <2>1. Discounts(coupon, gross) = {0}
    BY <1>1 DEF Discounts
  <2> QED
    BY <2>1, <1>1
<1>2. CASE type = "FIXED" /\ gross > 0
  BY <1>2 DEF Discounts, Smaller
<1>3. CASE type = "PERCENT" /\ gross > 0
  <2>1. PICK n \in Nearest(gross * value, 10000) : d = Smaller(gross, n)
    BY <1>3 DEF Discounts
  <2>2. gross * value \in Nat
    OBVIOUS
  <2>3. n \in Int /\ 2 * (10000 * n) <= 2 * (gross * value) + 10000
                  /\ 2 * (gross * value) <= 2 * (10000 * n) + 10000
    BY <2>2, NearestWithinHalf
  <2>4. n >= 0
    BY <2>2, <2>3
  <2>5. d \in Int /\ 0 <= d /\ d <= gross /\ (d = gross \/ d = n)
    BY <2>1, <2>3, <2>4 DEF Smaller
  <2>6. ASSUME value % 100 = 0, d = n
        PROVE  \E p \in Nat : 100 * d <= gross * p + 50 /\ gross * p <= 100 * d + 50
    <3>1. PICK p \in Nat : value = 100 * p
      BY <2>6
    <3>2. gross * value = 100 * (gross * p) /\ gross * p \in Nat
      BY <3>1
    <3> QED
      BY <3>2, <2>3, <2>6
  <2> QED
    BY <2>5, <2>6
<1> QED
  BY <1>1, <1>2, <1>3

\* Two amounts rounded to hundredths one by one: what they make together.
LEMMA ScaledWithinOne ==
    ASSUME NEW a \in Int, NEW b \in Int, NEW n \in Nearest(a, 100), NEW t \in Nearest(b, 100)
    PROVE  /\ n \in Int /\ t \in Int
           /\ 100 * (n + t) <= a + b + 100 /\ a + b <= 100 * (n + t) + 100
<1>1. n \in Int /\ 2 * (100 * n) <= 2 * a + 100 /\ 2 * a <= 2 * (100 * n) + 100
  BY NearestWithinHalf
<1>2. t \in Int /\ 2 * (100 * t) <= 2 * b + 100 /\ 2 * b <= 2 * (100 * t) + 100
  BY NearestWithinHalf
<1> QED
  BY <1>1, <1>2

LEMMA RatioIs ==
    ASSUME NEW gross \in Nat, NEW d \in Int, 0 <= d, d <= gross, NEW ratio \in Ratios(gross, d)
    PROVE  /\ ratio \in Int
           /\ 2 * (gross * ratio) <= 200 * (gross - d) + gross
           /\ 200 * (gross - d) <= 2 * (gross * ratio) + gross
<1>1. CASE gross = 0
  BY <1>1 DEF Ratios
<1>2. CASE gross > 0
  <2>1. ratio \in Nearest((gross - d) * 100, gross)
    BY <1>2 DEF Ratios
  <2>2. (gross - d) * 100 \in Int
    OBVIOUS
  <2>3. ratio \in Int /\ 2 * (gross * ratio) <= 2 * ((gross - d) * 100) + gross
                      /\ 2 * ((gross - d) * 100) <= 2 * (gross * ratio) + gross
    BY <1>2, <2>1, <2>2, NearestWithinHalf
  <2> QED
    BY <2>3
<1> QED
  BY <1>1, <1>2

\* The bound for any coupon: half a percent of the goods for the ratio, a cent
\* for the two parts.
LEMMA ChargedNearDue ==
    ASSUME NEW gross \in Nat, NEW d \in Int, 0 <= d, d <= gross, NEW c \in Int, NEW g \in Int,
           2 * g <= 200 * (gross - d) + gross, 200 * (gross - d) <= 2 * g + gross,
           100 * c <= g + 100, g <= 100 * c + 100
    PROVE  200 * Distance(c, gross - d) <= gross + 200
  BY DEF Distance

\* For a whole percentage the ratio is exact, unless the goods are so cheap
\* that the bound for any coupon says it all.
LEMMA WholePercentNearDue ==
    ASSUME NEW gross \in Nat, NEW d \in Int, 0 <= d, d <= gross, NEW c \in Int, NEW ratio \in Int,
           2 * (gross * ratio) <= 200 * (gross - d) + gross,
           200 * (gross - d) <= 2 * (gross * ratio) + gross,
           100 * c <= gross * ratio + 100, gross * ratio <= 100 * c + 100,
           \/ d = gross
           \/ \E p \in Nat : 100 * d <= gross * p + 50 /\ gross * p <= 100 * d + 50
    PROVE  Distance(c, gross - d) <= 1
<1>0. PICK g \in Int : g = gross * ratio
  OBVIOUS
<1>1. CASE gross <= 100
  <2>0. /\ 2 * g <= 200 * (gross - d) + gross /\ 200 * (gross - d) <= 2 * g + gross
        /\ 100 * c <= g + 100 /\ g <= 100 * c + 100
    BY <1>0
  <2>1. 200 * Distance(c, gross - d) <= gross + 200
    BY <1>1, <2>0 DEF Distance
  <2>2. Distance(c, gross - d) \in Int
    BY DEF Distance
  <2> QED
    BY <2>1, <2>2, <1>1
<1>2. CASE d = gross /\ gross > 100
  <2>1. ratio = 0
    <3>1. 2 * g <= gross /\ -gross <= 2 * g
      BY <1>0, <1>2
    <3>2. ratio >= 1 => g >= gross
      BY <1>0, <1>2
    <3>3. ratio <= -1 => g <= -gross
      BY <1>0, <1>2
    <3> QED
      BY <3>1, <3>2, <3>3, <1>2
  <2>2. g = 0
    BY <2>1, <1>0
  <2> QED
    BY <2>2, <1>0, <1>2 DEF Distance
<1>3. CASE gross > 100 /\ \E p \in Nat : 100 * d <= gross * p + 50 /\ gross * p <= 100 * d + 50
  <2>1. PICK p \in Nat : 100 * d <= gross * p + 50 /\ gross * p <= 100 * d + 50
    BY <1>3
  <2>2. PICK h \in Int : h = gross * p
    OBVIOUS
  <2>3. PICK k \in Int : k = ratio - (100 - p)
    OBVIOUS
  <2>4. PICK m \in Int : m = gross * k
    OBVIOUS
  <2>5. m = g - 100 * gross + h
    BY <2>2, <2>3, <2>4, <1>0
  <2>6. m < gross /\ -gross < m
    BY <2>1, <2>2, <2>5, <1>0, <1>3
  <2>7. (k >= 1 => m >= gross) /\ (k <= -1 => m <= -gross)
    BY <2>4, <1>3
  <2>8. m = 0
    BY <2>6, <2>7, <2>4
  <2> QED
    BY <2>1, <2>2, <2>5, <2>8, <1>0 DEF Distance
<1> QED
  BY <1>1, <1>2, <1>3


-----------------------------------------------------------------------------
(* The steps.                                                               *)

\* The bodies as the proofs below use them.
LEMMA RequestsAre ==
    ASSUME NEW request \in PriceRequests
    PROVE  /\ request.lines \in Seq(PriceLines)
           /\ request.coupon.type \in {"NONE", "PERCENT", "FIXED"} /\ request.coupon.value \in Nat
           /\ request.estimate \in Int
           /\ request.rate.base \in Nat /\ request.rate.perKg \in Int /\ request.rate.freeAbove \in Int
  BY DEF PriceRequests

\* The first requests and signals have the form of any others.
LEMMA NobodyAsks == NoRequest \in PriceRequests /\ NoSignals \in RiskSignals
<1>1. <<>> \in Seq(PriceLines)
  OBVIOUS
<1>2. [type |-> "NONE", value |-> 0] \in [type : {"NONE", "PERCENT", "FIXED"}, value : Nat]
      /\ [base |-> 0, perKg |-> 0, freeAbove |-> -1] \in [base : Nat, perKg : Int, freeAbove : Int]
  OBVIOUS
<1>3. NoRequest \in PriceRequests
  BY <1>1, <1>2 DEF NoRequest, PriceRequests
<1>4. NoSignals \in RiskSignals
  BY DEF NoSignals, RiskSignals
<1> QED
  BY <1>3, <1>4

\* A request that is not priced yet, or is the one of nothing.
LEMMA UnpricedIs ==
    ASSUME NEW request \in PriceRequests
    PROVE  /\ Unpriced(request) \in Quotes
           /\ Unpriced(request).pc = "lines" /\ Unpriced(request).next = 1
           /\ Unpriced(request).net = 0 /\ Unpriced(request).tax = 0 /\ Unpriced(request).gross = 0
           /\ Unpriced(request).discount = 0 /\ Unpriced(request).request = request
  BY DEF Unpriced, Quotes

LEMMA UnscoredIs ==
    ASSUME NEW signals \in RiskSignals
    PROVE  /\ Unscored(signals) \in Risks
           /\ Unscored(signals).pc = "new" /\ Unscored(signals).signals = signals
           /\ Unscored(signals).ordinary = 0 /\ Unscored(signals).strict = 0
  BY DEF Unscored, Risks

LEMMA PricingBegins == PricingInit => PricingInv
<1> SUFFICES ASSUME PricingInit PROVE PricingInv
  OBVIOUS
<1>1. CASE /\ \E request \in PriceCases : quote = Unpriced(request)
           /\ risk = [Unscored(NoSignals) EXCEPT !.pc = "scored"]
  <2>1. PICK request \in PriceCases : quote = Unpriced(request)
    BY <1>1
  <2>2. request \in PriceRequests
    BY PricingAssumption
  <2>3. /\ quote \in Quotes /\ quote.pc = "lines" /\ quote.next = 1
        /\ quote.net = 0 /\ quote.tax = 0 /\ quote.gross = 0
    BY <2>1, <2>2, UnpricedIs
  <2>4. /\ risk \in Risks /\ risk.signals = NoSignals
        /\ risk.ordinary = 0 /\ risk.strict = 0
    BY <1>1, NobodyAsks, UnscoredIs DEF Risks
  <2>5. ~NoSignals.guest
    BY DEF NoSignals
  <2>6. RiskTiersConsistent
    <3>1. risk.strict >= risk.ordinary
      BY <2>4
    <3> QED
      BY Zenon, <2>4, <2>5, <3>1 DEF RiskTiersConsistent
  <2> QED
    BY <2>3, <2>4, <2>6 DEF PricingInv, DiscountCharged
<1>2. CASE /\ quote = [Unpriced(NoRequest) EXCEPT !.pc = "priced"]
           /\ \E signals \in RiskCases : risk = Unscored(signals)
  <2>1. PICK signals \in RiskCases : risk = Unscored(signals)
    BY <1>2
  <2>2. signals \in RiskSignals
    BY PricingAssumption
  <2>3. risk \in Risks /\ risk.pc = "new"
    BY <2>1, <2>2, UnscoredIs
  <2>4. /\ quote \in Quotes /\ quote.pc = "priced" /\ quote.next = 1
        /\ quote.net = 0 /\ quote.tax = 0 /\ quote.gross = 0 /\ quote.discount = 0
    BY <1>2, NobodyAsks, UnpricedIs DEF Quotes
  <2>5. DiscountCharged
    BY <2>4 DEF DiscountCharged, Distance
  <2> QED
    BY <2>3, <2>4, <2>5 DEF PricingInv, RiskTiersConsistent
<1> QED
  BY <1>1, <1>2 DEF PricingInit

\* What a step makes of a quote and of a risk, field by field.
LEMMA LineAdded ==
    \A q \in Quotes : \A next, net, tax, gross, grams \in Int : \A new :
        new = [q EXCEPT !.next = next, !.net = net, !.tax = tax, !.gross = gross,
                        !.grams = grams] =>
            /\ new \in Quotes /\ new.pc = q.pc /\ new.next = next
            /\ new.net = net /\ new.tax = tax /\ new.gross = gross
<1> TAKE q \in Quotes
<1> TAKE next, net, tax, gross, grams \in Int
<1> TAKE new
<1> HAVE new = [q EXCEPT !.next = next, !.net = net, !.tax = tax, !.gross = gross,
                         !.grams = grams]
<1> QED
  BY DEF Quotes

LEMMA OrderPriced ==
    \A q \in Quotes : \A net, tax, fee, discount, total \in Int : \A new :
        new = [q EXCEPT !.pc = "priced", !.net = net, !.tax = tax, !.fee = fee,
                        !.discount = discount, !.total = total] =>
            /\ new \in Quotes /\ new.pc = "priced" /\ new.next = q.next
            /\ new.net = net /\ new.tax = tax /\ new.gross = q.gross
            /\ new.discount = discount /\ new.request = q.request
<1> TAKE q \in Quotes
<1> TAKE net, tax, fee, discount, total \in Int
<1> TAKE new
<1> HAVE new = [q EXCEPT !.pc = "priced", !.net = net, !.tax = tax, !.fee = fee,
                         !.discount = discount, !.total = total]
<1> QED
  BY DEF Quotes

LEMMA RiskScored ==
    \A k \in Risks : \A ordinary, strict \in Int : \A new :
        new = [k EXCEPT !.pc = "scored", !.ordinary = ordinary, !.strict = strict] =>
            /\ new \in Risks /\ new.signals = k.signals
            /\ new.ordinary = ordinary /\ new.strict = strict
<1> TAKE k \in Risks
<1> TAKE ordinary, strict \in Int
<1> TAKE new
<1> HAVE new = [k EXCEPT !.pc = "scored", !.ordinary = ordinary, !.strict = strict]
<1> QED
  BY DEF Risks

LEMMA PriceLineKeeps ==
    ASSUME PricingInv, PriceLine
    PROVE  PricingInv'
<1>1. quote \in Quotes /\ quote.pc = "lines" /\ quote.next >= 1
      /\ quote.gross >= 0 /\ quote.net + quote.tax = quote.gross
  BY DEF PricingInv, PriceLine
<1>2. /\ quote.request \in PriceRequests /\ quote.next \in Int /\ quote.net \in Int
      /\ quote.tax \in Int /\ quote.gross \in Int /\ quote.grams \in Int
  BY <1>1 DEF Quotes
<1>3. PICK line : line = quote.request.lines[quote.next]
  OBVIOUS
<1>4. line \in PriceLines
  BY <1>1, <1>2, <1>3, RequestsAre DEF PriceLine
<1>5. /\ line.price \in Nat /\ line.quantity \in Nat /\ line.productIva \in Int
      /\ line.categoryIva \in Int /\ line.grams \in Int
  BY <1>4 DEF PriceLines
<1>6. Gross(line) \in Nat /\ line.grams * line.quantity \in Int
  BY <1>5 DEF Gross
<1>7. Iva(line) \in Int
  BY <1>5 DEF Iva, DefaultIva
<1>8. PICK net \in Nets(line) :
          quote' = [quote EXCEPT !.next = @ + 1, !.net = @ + net,
                        !.tax = @ + Gross(line) - net, !.gross = @ + Gross(line),
                        !.grams = @ + line.grams * line.quantity]
  BY <1>3 DEF PriceLine
<1>9. net \in Int
  <2>1. CASE Iva(line) <= 0
    BY <2>1, <1>6 DEF Nets
  <2>2. CASE Iva(line) > 0
    <3>1. /\ net \in Nearest(Gross(line) * 100, 100 + Iva(line))
          /\ Gross(line) * 100 \in Int /\ 100 + Iva(line) \in Int /\ 100 + Iva(line) > 0
      BY <2>2, <1>6, <1>7 DEF Nets
    <3> QED
      BY <3>1, NearestWithinHalf
  <2> QED
    BY <2>1, <2>2, <1>7
<1> DEFINE g == Gross(line)
           w == line.grams * line.quantity
<1>10. g \in Nat /\ w \in Int
  BY <1>6
<1>11. quote' = [quote EXCEPT !.next = quote.next + 1, !.net = quote.net + net,
                     !.tax = quote.tax + g - net, !.gross = quote.gross + g,
                     !.grams = quote.grams + w]
  BY <1>8
<1> HIDE DEF g, w
<1>15. /\ quote.next + 1 \in Int /\ quote.net + net \in Int /\ quote.tax + g - net \in Int
       /\ quote.gross + g \in Int /\ quote.grams + w \in Int
  BY <1>2, <1>9, <1>10
<1>12. /\ quote' \in Quotes /\ quote'.pc = "lines" /\ quote'.next = quote.next + 1
       /\ quote'.net = quote.net + net /\ quote'.tax = quote.tax + g - net
       /\ quote'.gross = quote.gross + g
  <2>1. PICK next \in Int, net1 \in Int, tax \in Int, gross \in Int, grams \in Int :
            /\ next = quote.next + 1 /\ net1 = quote.net + net /\ tax = quote.tax + g - net
            /\ gross = quote.gross + g /\ grams = quote.grams + w
    BY <1>15
  <2>2. quote' = [quote EXCEPT !.next = next, !.net = net1, !.tax = tax, !.gross = gross,
                               !.grams = grams]
    BY Zenon, <2>1, <1>11
  <2>3. PICK q \in Quotes : q = quote
    BY <1>1
  <2>4. PICK new : new = quote'
    OBVIOUS
  <2>5. new = [q EXCEPT !.next = next, !.net = net1, !.tax = tax, !.gross = gross,
                        !.grams = grams]
    BY Zenon, <2>2, <2>3, <2>4
  <2>6. /\ new \in Quotes /\ new.pc = q.pc /\ new.next = next
        /\ new.net = net1 /\ new.tax = tax /\ new.gross = gross
    BY <2>5 DEF Quotes
  <2> QED
    BY <2>1, <2>3, <2>4, <2>6, <1>1
<1>13. /\ quote'.gross >= 0 /\ quote'.net + quote'.tax = quote'.gross /\ quote'.next >= 1
  BY <1>1, <1>2, <1>9, <1>10, <1>12
<1>14. risk' = risk
  BY DEF PriceLine
<1> QED
  BY <1>12, <1>13, <1>14 DEF PricingInv, DiscountCharged, RiskTiersConsistent

LEMMA PriceOrderKeeps ==
    ASSUME PricingInv, PriceOrder
    PROVE  PricingInv'
<1>1. quote \in Quotes /\ quote.pc = "lines" /\ quote.next >= 1
      /\ quote.gross >= 0 /\ quote.net + quote.tax = quote.gross
  BY DEF PricingInv, PriceOrder
<1>2. /\ quote.request \in PriceRequests /\ quote.next \in Int /\ quote.net \in Int
      /\ quote.tax \in Int /\ quote.gross \in Nat /\ quote.grams \in Int
  BY <1>1 DEF Quotes
<1> DEFINE gross == quote.gross
           coupon == quote.request.coupon
           weight == Weight(quote.grams, quote.request.estimate)
<1>3. PICK discount \in Discounts(coupon, gross) :
        \E ratio \in Ratios(gross, discount) :
        \E n \in Nearest(quote.net * ratio, 100), t \in Nearest(quote.tax * ratio, 100),
           fee \in Fees(quote.request.rate, weight, gross) :
           quote' = [quote EXCEPT !.pc = "priced", !.net = n, !.tax = t, !.fee = fee,
                        !.discount = discount, !.total = n + t + fee]
  BY DEF PriceOrder
<1>4. PICK ratio \in Ratios(gross, discount) :
        \E n \in Nearest(quote.net * ratio, 100), t \in Nearest(quote.tax * ratio, 100),
           fee \in Fees(quote.request.rate, weight, gross) :
           quote' = [quote EXCEPT !.pc = "priced", !.net = n, !.tax = t, !.fee = fee,
                        !.discount = discount, !.total = n + t + fee]
  BY <1>3
<1>5. PICK n \in Nearest(quote.net * ratio, 100), t \in Nearest(quote.tax * ratio, 100),
           fee \in Fees(quote.request.rate, weight, gross) :
           quote' = [quote EXCEPT !.pc = "priced", !.net = n, !.tax = t, !.fee = fee,
                        !.discount = discount, !.total = n + t + fee]
  BY <1>4
<1>6. coupon.type \in {"NONE", "PERCENT", "FIXED"} /\ coupon.value \in Nat
  BY <1>2, RequestsAre
<1>7. /\ discount \in Int /\ 0 <= discount /\ discount <= gross
      /\ coupon.type = "PERCENT" /\ coupon.value % 100 = 0 /\ gross > 0 =>
             \/ discount = gross
             \/ \E p \in Nat : 100 * discount <= gross * p + 50 /\ gross * p <= 100 * discount + 50
  BY <1>2, <1>6, DiscountIs
<1>8. /\ ratio \in Int
      /\ 2 * (gross * ratio) <= 200 * (gross - discount) + gross
      /\ 200 * (gross - discount) <= 2 * (gross * ratio) + gross
  BY <1>2, <1>7, RatioIs
<1>9. /\ n \in Int /\ t \in Int
      /\ 100 * (n + t) <= gross * ratio + 100 /\ gross * ratio <= 100 * (n + t) + 100
  <2>1. PICK net \in Int, tax \in Int : net = quote.net /\ tax = quote.tax
    BY <1>2
  <2>2. PICK g \in Nat : g = gross
    BY <1>2
  <2>3. n \in Nearest(net * ratio, 100) /\ t \in Nearest(tax * ratio, 100) /\ net + tax = g
    BY <2>1, <2>2, <1>1
  <2>4. PICK a \in Int, b \in Int, w \in Int :
            a = net * ratio /\ b = tax * ratio /\ w = g * ratio
    BY <1>8
  <2>5. n \in Nearest(a, 100) /\ t \in Nearest(b, 100)
    BY <2>3, <2>4
  <2>6. /\ n \in Int /\ t \in Int
        /\ 100 * (n + t) <= a + b + 100 /\ a + b <= 100 * (n + t) + 100
    BY <2>5, ScaledWithinOne
  <2>7. w = a + b
    <3>1. (net + tax) * ratio = net * ratio + tax * ratio
      BY <1>8
    <3> QED
      BY <3>1, <2>3, <2>4
  <2>8. w = gross * ratio
    BY <2>2, <2>4
  <2> QED
    BY <2>6, <2>7, <2>8
<1>10. fee \in Int
  <2>1. quote.request.rate.base \in Int /\ quote.request.rate.perKg \in Int
    BY <1>2, RequestsAre
  <2>2. weight \in Int
    BY <1>2, RequestsAre DEF Weight, OneKilo
  <2>3. quote.request.rate.perKg * weight \in Int
    BY <2>1, <2>2
  <2>4. \A f \in Nearest(quote.request.rate.perKg * weight, 1000) : f \in Int
    BY <2>3, NearestWithinHalf
  <2> QED
    BY <2>1, <2>4 DEF Fees
<1> HIDE DEF gross, coupon, weight
<1>11. /\ quote' \in Quotes /\ quote'.pc = "priced" /\ quote'.next = quote.next
       /\ quote'.net = n /\ quote'.tax = t /\ quote'.gross = quote.gross
       /\ quote'.discount = discount /\ quote'.request = quote.request
  <2>1. PICK total \in Int : total = n + t + fee
    BY <1>9, <1>10
  <2>2. quote' = [quote EXCEPT !.pc = "priced", !.net = n, !.tax = t, !.fee = fee,
                               !.discount = discount, !.total = total]
    BY <2>1, <1>5
  <2>3. PICK q \in Quotes : q = quote
    BY <1>1
  <2>4. PICK new : new = quote'
    OBVIOUS
  <2>5. new = [q EXCEPT !.pc = "priced", !.net = n, !.tax = t, !.fee = fee,
                        !.discount = discount, !.total = total]
    BY Zenon, <2>2, <2>3, <2>4
  <2>7. n \in Int /\ t \in Int /\ fee \in Int /\ discount \in Int
    BY <1>7, <1>9, <1>10
  <2>6. /\ new \in Quotes /\ new.pc = "priced" /\ new.next = q.next
        /\ new.net = n /\ new.tax = t /\ new.gross = q.gross
        /\ new.discount = discount /\ new.request = q.request
    BY <2>5, <2>7 DEF Quotes
  <2> QED
    BY <2>3, <2>4, <2>6
<1>12. gross \in Nat
  BY <1>2 DEF gross
<1>13. 200 * Distance(n + t, gross - discount) <= gross + 200
  <2>1. PICK g \in Int, x \in Nat, c \in Int : g = gross * ratio /\ x = gross /\ c = n + t
    BY <1>8, <1>9, <1>12
  <2>2. /\ 2 * g <= 200 * (x - discount) + x /\ 200 * (x - discount) <= 2 * g + x
        /\ 100 * c <= g + 100 /\ g <= 100 * c + 100
    BY <2>1, <1>8, <1>9
  <2>3. discount \in Int /\ 0 <= discount /\ discount <= x
    BY <2>1, <1>7
  <2>4. 200 * Distance(c, x - discount) <= x + 200
    BY ZenonT(60), <2>2, <2>3, ChargedNearDue
  <2> QED
    BY <2>1, <2>4
<1>14. coupon.type = "PERCENT" /\ coupon.value % 100 = 0 => Distance(n + t, gross - discount) <= 1
  <2> SUFFICES ASSUME coupon.type = "PERCENT", coupon.value % 100 = 0
               PROVE  Distance(n + t, gross - discount) <= 1
    OBVIOUS
  <2>1. n + t \in Int
    BY <1>9
  <2>2. CASE gross > 0
    BY ZenonT(60), <2>1, <2>2, <1>7, <1>8, <1>9, <1>12, WholePercentNearDue
  <2>3. CASE gross = 0
    <3>1. Distance(n + t, gross - discount) \in Int
      BY <2>1, <1>7, <1>12 DEF Distance
    <3> QED
      BY <3>1, <2>3, <1>13
  <2> QED
    BY <2>2, <2>3, <1>12
<1>15. DiscountCharged'
  BY <1>11, <1>13, <1>14 DEF DiscountCharged, gross, coupon
<1>16. risk' = risk
  BY DEF PriceOrder
<1> QED
  BY <1>1, <1>11, <1>15, <1>16 DEF PricingInv, RiskTiersConsistent

\* The thresholds of the strict mode are below the others, and a guest reaches
\* 80 points only with all four of the signals that count for one.
LEMMA ScoresAre ==
    ASSUME NEW s \in RiskSignals
    PROVE  /\ Score(s, FALSE) \in Int /\ Score(s, TRUE) \in Int
           /\ Score(s, TRUE) >= Score(s, FALSE)
           /\ s.guest /\ Tier(Score(s, FALSE)) = "HIGH" =>
                 s.ip > 5 /\ s.email > 3 /\ s.phone > 3 /\ s.gross > Large(FALSE)
<1>1. /\ s.ip \in Nat /\ s.email \in Nat /\ s.phone \in Nat /\ s.customer \in Nat
      /\ s.young \in BOOLEAN /\ s.gross \in Nat
      /\ s.guest => s.customer = 0 /\ ~s.young
  BY DEF RiskSignals
<1>2. Large(TRUE) \in Nat /\ Large(FALSE) \in Nat /\ Large(TRUE) <= Large(FALSE)
  BY SMT DEF Large
<1>3. PICK i \in Int, j \in Int :
          /\ i = Points(s.ip, 3, 30) /\ j = Points(s.ip, 5, 30)
          /\ i >= j /\ 0 <= j /\ j <= 30 /\ (s.ip > 5 \/ j = 0)
  <2>1. /\ Points(s.ip, 3, 30) \in Int /\ Points(s.ip, 5, 30) \in Int
        /\ Points(s.ip, 3, 30) >= Points(s.ip, 5, 30)
        /\ 0 <= Points(s.ip, 5, 30) /\ Points(s.ip, 5, 30) <= 30
        /\ s.ip > 5 \/ Points(s.ip, 5, 30) = 0
    BY <1>1 DEF Points
  <2> QED
    BY <2>1
<1>4. PICK e \in Int, f \in Int :
          /\ e = Points(s.email, 2, 20) /\ f = Points(s.email, 3, 20)
          /\ e >= f /\ 0 <= f /\ f <= 20 /\ (s.email > 3 \/ f = 0)
  <2>1. /\ Points(s.email, 2, 20) \in Int /\ Points(s.email, 3, 20) \in Int
        /\ Points(s.email, 2, 20) >= Points(s.email, 3, 20)
        /\ 0 <= Points(s.email, 3, 20) /\ Points(s.email, 3, 20) <= 20
        /\ s.email > 3 \/ Points(s.email, 3, 20) = 0
    BY <1>1 DEF Points
  <2> QED
    BY <2>1
<1>5. PICK p \in Int, q \in Int :
          /\ p = Points(s.phone, 2, 20) /\ q = Points(s.phone, 3, 20)
          /\ p >= q /\ 0 <= q /\ q <= 20 /\ (s.phone > 3 \/ q = 0)
  <2>1. /\ Points(s.phone, 2, 20) \in Int /\ Points(s.phone, 3, 20) \in Int
        /\ Points(s.phone, 2, 20) >= Points(s.phone, 3, 20)
        /\ 0 <= Points(s.phone, 3, 20) /\ Points(s.phone, 3, 20) <= 20
        /\ s.phone > 3 \/ Points(s.phone, 3, 20) = 0
    BY <1>1 DEF Points
  <2> QED
    BY <2>1
<1>6. PICK c \in Int, d \in Int :
          /\ c = Points(s.customer, 2, 15) /\ d = Points(s.customer, 3, 15)
          /\ c >= d /\ 0 <= d /\ d <= 15 /\ (s.customer > 3 \/ d = 0)
  <2>1. /\ Points(s.customer, 2, 15) \in Int /\ Points(s.customer, 3, 15) \in Int
        /\ Points(s.customer, 2, 15) >= Points(s.customer, 3, 15)
        /\ 0 <= Points(s.customer, 3, 15) /\ Points(s.customer, 3, 15) <= 15
        /\ s.customer > 3 \/ Points(s.customer, 3, 15) = 0
    BY <1>1 DEF Points
  <2> QED
    BY <2>1
<1>7. PICK g \in Int, h \in Int :
          /\ g = Points(s.gross, Large(TRUE), 20) /\ h = Points(s.gross, Large(FALSE), 20)
          /\ g >= h /\ 0 <= h /\ h <= 20 /\ (s.gross > Large(FALSE) \/ h = 0)
  <2>1. /\ Points(s.gross, Large(TRUE), 20) \in Int /\ Points(s.gross, Large(FALSE), 20) \in Int
        /\ Points(s.gross, Large(TRUE), 20) >= Points(s.gross, Large(FALSE), 20)
        /\ 0 <= Points(s.gross, Large(FALSE), 20) /\ Points(s.gross, Large(FALSE), 20) <= 20
        /\ s.gross > Large(FALSE) \/ Points(s.gross, Large(FALSE), 20) = 0
    <3>1. PICK a \in Nat, b \in Nat : a = Large(TRUE) /\ b = Large(FALSE)
      BY <1>2
    <3>2. PICK gross \in Nat : gross = s.gross
      BY <1>1
    <3>3. /\ Points(gross, a, 20) \in Int /\ Points(gross, b, 20) \in Int
          /\ Points(gross, a, 20) >= Points(gross, b, 20)
          /\ 0 <= Points(gross, b, 20) /\ Points(gross, b, 20) <= 20
          /\ gross > b \/ Points(gross, b, 20) = 0
      <4>1. a <= b
        BY <1>2, <3>1
      <4> QED
        BY <4>1 DEF Points
    <3> QED
      BY Zenon, <3>1, <3>2, <3>3
  <2> QED
    BY <2>1
<1>8. PICK y \in Int : y = (IF s.young THEN 15 ELSE 0) /\ 0 <= y
  OBVIOUS
<1>9. /\ Score(s, FALSE) = j + f + q + d + y + h
      /\ Score(s, TRUE) = i + e + p + c + y + g
  BY <1>3, <1>4, <1>5, <1>6, <1>7, <1>8 DEF Score
<1>12. /\ i \in Int /\ e \in Int /\ p \in Int /\ c \in Int /\ g \in Int /\ y \in Int
       /\ j \in Int /\ f \in Int /\ q \in Int /\ d \in Int /\ h \in Int
       /\ j <= 30 /\ f <= 20 /\ q <= 20 /\ h <= 20
       /\ i >= j /\ e >= f /\ p >= q /\ c >= d /\ g >= h
  BY <1>3, <1>4, <1>5, <1>6, <1>7, <1>8
<1>10. /\ Score(s, FALSE) \in Int /\ Score(s, TRUE) \in Int
       /\ Score(s, TRUE) >= Score(s, FALSE)
  <2>1. PICK a \in Int, b \in Int : a = j + f + q + d + y + h /\ b = i + e + p + c + y + g
    BY <1>12
  <2>2. b >= a
    BY <2>1, <1>12
  <2> QED
    BY Zenon, <2>1, <2>2, <1>9
<1>11. ASSUME s.guest, Tier(Score(s, FALSE)) = "HIGH"
       PROVE  s.ip > 5 /\ s.email > 3 /\ s.phone > 3 /\ s.gross > Large(FALSE)
  <2>1. Score(s, FALSE) >= 80
    BY <1>10, <1>11 DEF Tier
  <2>2. s.customer = 0 /\ ~s.young
    BY <1>1, <1>11
  <2>3. y = 0 /\ d = 0
    BY <2>2, <1>6, <1>8
  <2>5. PICK a : a = Score(s, FALSE)
    OBVIOUS
  <2>6. a >= 80 /\ a = j + f + q + d + y + h
    BY Zenon, <2>1, <2>5, <1>9
  <2>4. j # 0 /\ f # 0 /\ q # 0 /\ h # 0
    BY <2>3, <2>6, <1>12
  <2> QED
    BY <2>4, <1>3, <1>4, <1>5, <1>7
<1> QED
  BY <1>10, <1>11

LEMMA EvaluateKeeps ==
    ASSUME PricingInv, Evaluate
    PROVE  PricingInv'
<1>1. risk \in Risks /\ risk.signals \in RiskSignals
  BY DEF PricingInv, Risks
<1> DEFINE ordinary == Score(risk.signals, FALSE)
           strict == Score(risk.signals, TRUE)
<1>2. /\ ordinary \in Int /\ strict \in Int /\ strict >= ordinary
      /\ risk.signals.guest /\ Tier(ordinary) = "HIGH" =>
             risk.signals.ip > 5 /\ risk.signals.email > 3 /\ risk.signals.phone > 3
             /\ risk.signals.gross > Large(FALSE)
  <2>1. PICK s \in RiskSignals : s = risk.signals
    BY <1>1
  <2> QED
    BY <2>1, ScoresAre
<1>3. risk' = [risk EXCEPT !.pc = "scored", !.ordinary = ordinary, !.strict = strict]
  BY DEF Evaluate
<1> HIDE DEF ordinary, strict
<1>4. /\ risk' \in Risks /\ risk'.signals = risk.signals
      /\ risk'.ordinary = ordinary /\ risk'.strict = strict
  <2>1. PICK k \in Risks : k = risk
    BY <1>1
  <2>2. PICK new : new = risk'
    OBVIOUS
  <2>3. PICK o \in Int, t \in Int : o = ordinary /\ t = strict
    BY <1>2
  <2>4. new = [k EXCEPT !.pc = "scored", !.ordinary = o, !.strict = t]
    BY Zenon, <2>1, <2>2, <2>3, <1>3
  <2>5. new \in Risks /\ new.signals = k.signals /\ new.ordinary = o /\ new.strict = t
    BY <2>4 DEF Risks
  <2> QED
    BY <2>1, <2>2, <2>3, <2>5
<1>5. RiskTiersConsistent'
  BY <1>2, <1>4 DEF RiskTiersConsistent
<1>6. quote' = quote
  BY DEF Evaluate
<1> QED
  BY <1>4, <1>5, <1>6 DEF PricingInv, DiscountCharged

LEMMA PricingStep == PricingInv /\ [PricingNext]_pricingVars => PricingInv'
<1> SUFFICES ASSUME PricingInv, [PricingNext]_pricingVars PROVE PricingInv'
  OBVIOUS
<1>1. CASE PricingNext
  BY <1>1, PriceLineKeeps, PriceOrderKeeps, EvaluateKeeps DEF PricingNext
<1>2. CASE UNCHANGED pricingVars
  BY <1>2 DEF pricingVars, PricingInv, DiscountCharged, RiskTiersConsistent
<1> QED
  BY <1>1, <1>2

\* What is charged for the goods differs from what the coupon leaves of them by
\* at most half a percent and a cent, and by a cent for whole percentages; the
\* strict mode scores no request lower, and a guest is refused only for all
\* four signals (CreateOnlineOrderUseCase and the risk evaluation).  For every
\* price, quantity, rate, coupon and count.
THEOREM PricesAndRiskSound == PricingSpec => []PricingSound
<1>1. PricingInv => PricingSound
  BY DEF PricingInv, PricingSound
<1> QED
  BY <1>1, PricingStep, PricingBegins, PTL DEF PricingSpec

-----------------------------------------------------------------------------
(* The amounts of a quote never fall below zero: a net is at most its gross, *)
(* a discount at most the goods, and a share of them at least nothing.       *)

LEMMA NearestNat ==
    ASSUME NEW a \in Nat, NEW b \in Nat \ {0}, NEW n \in Nearest(a, b)
    PROVE  n \in Nat
<1>1. a \div b \in Nat
  OBVIOUS
<1> QED
  BY <1>1 DEF Nearest

LEMMA NetWithin ==
    ASSUME NEW line \in PriceLines, NEW net \in Nets(line)
    PROVE  Gross(line) \in Nat /\ net \in Nat /\ net <= Gross(line)
<1>1. PICK g \in Nat, i \in Int : g = Gross(line) /\ i = Iva(line)
  <2>1. line.price \in Nat /\ line.quantity \in Nat
        /\ line.productIva \in Int /\ line.categoryIva \in Int
    BY DEF PriceLines
  <2> QED
    BY <2>1 DEF Gross, Iva, DefaultIva
<1>2. CASE i <= 0
  BY <1>1, <1>2 DEF Nets
<1>3. CASE i > 0
  <2>1. net \in Nearest(100 * g, 100 + i)
    BY <1>1, <1>3 DEF Nets
  <2>2. 100 * g \in Nat /\ 100 + i \in Nat \ {0}
    BY <1>3
  <2>3. net \in Nat
    BY <2>1, <2>2, NearestNat
  <2>4. 2 * ((100 + i) * net) <= 2 * (100 * g) + (100 + i)
    BY <2>1, <2>2, NearestWithinHalf
  <2>5. ASSUME net > g PROVE FALSE
    <3>1. PICK k \in Nat : net = g + 1 + k
      BY <2>3, <2>5
    <3>2. PICK e \in Nat, f \in Nat, h \in Nat : e = i * g /\ f = i * k /\ h = (100 + i) * net
      BY <1>3, <2>3
    <3>3. h = 100 * g + 100 + 100 * k + e + i + f
      BY <3>1, <3>2
    <3>4. 2 * h <= 200 * g + 100 + i
      BY <2>4, <3>2
    <3> QED
      BY <3>2, <3>3, <3>4, <1>3
  <2> QED
    BY <1>1, <2>3, <2>5
<1> QED
  BY <1>1, <1>2, <1>3

LEMMA RatioNat ==
    ASSUME NEW gross \in Nat, NEW d \in Nat, d <= gross, NEW ratio \in Ratios(gross, d)
    PROVE  ratio \in Nat
<1>1. CASE gross = 0
  BY <1>1 DEF Ratios
<1>2. CASE gross > 0
  <2>1. ratio \in Nearest((gross - d) * 100, gross) /\ (gross - d) * 100 \in Nat
    BY <1>2 DEF Ratios
  <2> QED
    BY <2>1, <1>2, NearestNat
<1> QED
  BY <1>1, <1>2

LEMMA FeeNat ==
    ASSUME NEW request \in PriceRequests, NEW grams \in Nat, NEW gross \in Nat,
           NEW fee \in Fees(request.rate, Weight(grams, request.estimate), gross)
    PROVE  fee \in Nat
<1>1. PICK base \in Nat, per \in Int, free \in Int, weight \in Nat :
          /\ base = request.rate.base /\ per = request.rate.perKg
          /\ free = request.rate.freeAbove /\ weight = Weight(grams, request.estimate)
  BY RequestsAre DEF Weight, OneKilo
<1>2. ASSUME per > 0, NEW f \in Nearest(per * weight, 1000) PROVE f \in Nat
  <2>1. per * weight \in Nat
    BY <1>2
  <2> QED
    BY <1>2, <2>1, NearestNat
<1> QED
  BY <1>1, <1>2 DEF Fees

Tags == {"net", "tax", "gross", "grams", "discount", "fee", "total"}
AmountsNat == \A f \in Tags : quote[f] \in Nat

LEMMA LineAmounts ==
    ASSUME PricingInv, AmountsNat, PriceLine
    PROVE  AmountsNat' /\ quote'.pc = quote.pc /\ quote'.request = quote.request
<1>1. quote \in Quotes /\ quote.next >= 1 /\ quote.request \in PriceRequests
  BY DEF PricingInv, Quotes
<1>2. PICK line : line = quote.request.lines[quote.next]
  OBVIOUS
<1>3. line \in PriceLines
  BY <1>1, <1>2, RequestsAre DEF PriceLine, Quotes
<1>4. PICK net \in Nets(line) :
          quote' = [quote EXCEPT !.next = @ + 1, !.net = @ + net,
                        !.tax = @ + Gross(line) - net, !.gross = @ + Gross(line),
                        !.grams = @ + line.grams * line.quantity]
  BY <1>2 DEF PriceLine
<1>5. PICK g \in Nat, n \in Nat, w \in Nat :
          g = Gross(line) /\ n = net /\ w = line.grams * line.quantity /\ n <= g
  BY <1>3, NetWithin DEF PriceLines
<1>6. PICK q \in Quotes : q = quote
  BY <1>1
<1>0. PICK new : new = quote'
  OBVIOUS
<1>7. new = [q EXCEPT !.next = q.next + 1, !.net = q.net + n, !.tax = q.tax + g - n,
                      !.gross = q.gross + g, !.grams = q.grams + w]
  BY Zenon, <1>0, <1>4, <1>5, <1>6
<1>8. /\ q.net \in Nat /\ q.tax \in Nat /\ q.gross \in Nat /\ q.grams \in Nat
      /\ q.discount \in Nat /\ q.fee \in Nat /\ q.total \in Nat
  BY <1>6 DEF AmountsNat, Tags
<1>9. /\ new.net = q.net + n /\ new.tax = q.tax + g - n /\ new.gross = q.gross + g
      /\ new.grams = q.grams + w /\ new.discount = q.discount /\ new.fee = q.fee
      /\ new.total = q.total /\ new.pc = q.pc /\ new.request = q.request
  BY <1>7 DEF Quotes
<1>10. \A f \in Tags : new[f] \in Nat
  BY <1>5, <1>8, <1>9 DEF Tags
<1> QED
  BY <1>0, <1>6, <1>9, <1>10 DEF AmountsNat

LEMMA OrderAmounts ==
    ASSUME PricingInv, AmountsNat, PriceOrder
    PROVE  AmountsNat' /\ quote'.pc = "priced" /\ quote'.request = quote.request
<1>1. quote \in Quotes /\ quote.request \in PriceRequests
  BY DEF PricingInv, Quotes
<1>2. PICK q \in Quotes : q = quote
  BY <1>1
<1>0. PICK new : new = quote'
  OBVIOUS
<1>14. /\ quote.net \in Nat /\ quote.tax \in Nat /\ quote.gross \in Nat /\ quote.grams \in Nat
      /\ quote.request \in PriceRequests
  BY <1>1 DEF AmountsNat, Tags
<1>3. /\ q.net \in Nat /\ q.tax \in Nat /\ q.gross \in Nat /\ q.grams \in Nat
      /\ q.request \in PriceRequests
  BY <1>2, <1>14
<1>4. PICK discount \in Discounts(quote.request.coupon, quote.gross) :
      \E ratio \in Ratios(quote.gross, discount) :
      \E n \in Nearest(quote.net * ratio, 100), t \in Nearest(quote.tax * ratio, 100),
         fee \in Fees(quote.request.rate, Weight(quote.grams, quote.request.estimate), quote.gross) :
         quote' = [quote EXCEPT !.pc = "priced", !.net = n, !.tax = t, !.fee = fee,
                      !.discount = discount, !.total = n + t + fee]
  BY DEF PriceOrder
<1>13. PICK ratio \in Ratios(quote.gross, discount) :
      \E n \in Nearest(quote.net * ratio, 100), t \in Nearest(quote.tax * ratio, 100),
         fee \in Fees(quote.request.rate, Weight(quote.grams, quote.request.estimate), quote.gross) :
         quote' = [quote EXCEPT !.pc = "priced", !.net = n, !.tax = t, !.fee = fee,
                      !.discount = discount, !.total = n + t + fee]
  BY <1>4
<1>5. PICK n \in Nearest(quote.net * ratio, 100), t \in Nearest(quote.tax * ratio, 100),
           fee \in Fees(quote.request.rate, Weight(quote.grams, quote.request.estimate), quote.gross) :
         quote' = [quote EXCEPT !.pc = "priced", !.net = n, !.tax = t, !.fee = fee,
                      !.discount = discount, !.total = n + t + fee]
  BY <1>13
<1>6. discount \in Nat /\ discount <= quote.gross
  <2>1. quote.request.coupon.type \in {"NONE", "PERCENT", "FIXED"} /\ quote.request.coupon.value \in Nat
    BY <1>14, RequestsAre
  <2> QED
    BY <1>14, <2>1, DiscountIs
<1>7. ratio \in Nat
  BY <1>14, <1>6, RatioNat
<1>8. n \in Nat /\ t \in Nat
  BY <1>14, <1>7, NearestNat
<1>9. fee \in Nat
  BY <1>14, FeeNat
<1>10. new = [q EXCEPT !.pc = "priced", !.net = n, !.tax = t, !.fee = fee,
                       !.discount = discount, !.total = n + t + fee]
  BY Zenon, <1>0, <1>2, <1>5
<1>11. /\ new.net = n /\ new.tax = t /\ new.gross = q.gross /\ new.grams = q.grams
       /\ new.discount = discount /\ new.fee = fee /\ new.total = n + t + fee
       /\ new.pc = "priced" /\ new.request = q.request
  BY <1>10 DEF Quotes
<1>12. \A f \in Tags : new[f] \in Nat
  BY <1>3, <1>6, <1>8, <1>9, <1>11 DEF Tags
<1> QED
  BY <1>0, <1>2, <1>11, <1>12 DEF AmountsNat

LEMMA ScoreNat ==
    ASSUME NEW s, NEW strict \in BOOLEAN
    PROVE  Score(s, strict) \in Nat
<1> DEFINE i == Points(s.ip, IF strict THEN 3 ELSE 5, 30)
           e == Points(s.email, IF strict THEN 2 ELSE 3, 20)
           p == Points(s.phone, IF strict THEN 2 ELSE 3, 20)
           c == Points(s.customer, IF strict THEN 2 ELSE 3, 15)
           y == IF s.young THEN 15 ELSE 0
           g == Points(s.gross, Large(strict), 20)
<1>1. /\ i \in Nat /\ e \in Nat /\ p \in Nat /\ c \in Nat /\ y \in Nat /\ g \in Nat
  BY DEF Points
<1>2. Score(s, strict) = i + e + p + c + y + g
  BY DEF Score
<1> HIDE DEF i, e, p, c, y, g
<1> QED
  BY <1>1, <1>2

PricingTyped == PricingInv /\ PricingTypeOK

LEMMA TypedIs == PricingTypeOK <=> /\ quote.pc \in {"lines", "priced"} /\ AmountsNat
                                   /\ quote.request \in PriceCases \cup {NoRequest}
                                   /\ risk.pc \in {"new", "scored"}
                                   /\ risk.ordinary \in Nat /\ risk.strict \in Nat
  BY DEF PricingTypeOK, AmountsNat, Tags

LEMMA UnpricedTyped ==
    ASSUME NEW request, NEW pc,
           quote = Unpriced(request) \/ quote = [Unpriced(request) EXCEPT !.pc = pc]
    PROVE  AmountsNat /\ quote.request = request /\ quote.pc \in {"lines", pc}
  BY DEF Unpriced, AmountsNat, Tags

LEMMA UnscoredTyped ==
    ASSUME NEW signals, risk = Unscored(signals) \/ risk = [Unscored(signals) EXCEPT !.pc = "scored"]
    PROVE  risk.pc \in {"new", "scored"} /\ risk.ordinary \in Nat /\ risk.strict \in Nat
  BY DEF Unscored

LEMMA PricingTypedBegins == PricingInit => PricingTyped
<1> SUFFICES ASSUME PricingInit PROVE PricingTypeOK
  BY PricingBegins DEF PricingTyped
<1>1. CASE /\ \E request \in PriceCases : quote = Unpriced(request)
           /\ risk = [Unscored(NoSignals) EXCEPT !.pc = "scored"]
  BY <1>1, UnpricedTyped, UnscoredTyped, TypedIs
<1>2. CASE /\ quote = [Unpriced(NoRequest) EXCEPT !.pc = "priced"]
           /\ \E signals \in RiskCases : risk = Unscored(signals)
  BY <1>2, UnpricedTyped, UnscoredTyped, TypedIs
<1> QED
  BY <1>1, <1>2 DEF PricingInit

LEMMA PricingTypedStep == PricingTyped /\ [PricingNext]_pricingVars => PricingTyped'
<1> SUFFICES ASSUME PricingTyped, [PricingNext]_pricingVars PROVE PricingTyped'
  OBVIOUS
<1>1. PricingInv /\ AmountsNat
  BY TypedIs DEF PricingTyped
<1>2. PricingInv'
  BY <1>1, PricingStep
<1> SUFFICES PricingTypeOK'
  BY <1>2 DEF PricingTyped
<1>3. CASE PriceLine
  BY <1>1, <1>3, LineAmounts DEF PricingTyped, PricingTypeOK, AmountsNat, Tags, PriceLine
<1>4. CASE PriceOrder
  BY <1>1, <1>4, OrderAmounts DEF PricingTyped, PricingTypeOK, AmountsNat, Tags, PriceOrder
<1>5. CASE Evaluate
  <2>1. quote' = quote
    BY <1>5 DEF Evaluate
  <2>2. risk \in Risks
    BY <1>1 DEF PricingInv
  <2>3. PICK o \in Nat, s \in Nat :
            o = Score(risk.signals, FALSE) /\ s = Score(risk.signals, TRUE)
    BY ScoreNat
  <2>4. risk' = [risk EXCEPT !.pc = "scored", !.ordinary = o, !.strict = s]
    BY <1>5, <2>3 DEF Evaluate
  <2>5. risk'.pc = "scored" /\ risk'.ordinary = o /\ risk'.strict = s
    BY <2>2, <2>4 DEF Risks
  <2> QED
    BY <2>1, <2>3, <2>5 DEF PricingTyped, PricingTypeOK
<1>6. CASE UNCHANGED pricingVars
  BY <1>6 DEF PricingTyped, PricingTypeOK, pricingVars
<1> QED
  BY <1>3, <1>4, <1>5, <1>6 DEF PricingNext

-----------------------------------------------------------------------------
(* The circuit breakers.                                                   *)

\* The first of the entries from which on they are kept, when the last one is
\* recent: one is kept, and none is added.
LEMMA RecentKept ==
    ASSUME NEW s \in Seq(Nat), gatewayNow \in Nat, s # <<>>, IsRecent(s[Len(s)])
    PROVE  /\ Len(Recent(s)) \in 1..Len(s)
           /\ \A T : (\A i \in 1..Len(s) : s[i] \in T) => Recent(s) \in Seq(T)
<1> DEFINE n == Len(s)
           R == {i \in 1..n : IsRecent(s[i])}
<1>1. n \in Nat /\ n > 0 /\ n \in R
  BY EmptySeq
<1>2. PICK i \in R : \A j \in R : i <= j
  <2>1. R \subseteq 1..n /\ R # {}
    BY <1>1
  <2> HIDE DEF R, n
  <2> QED
    BY <1>1, <2>1, LeastIndex
<1>3. i \in 1..n /\ IsRecent(s[i]) /\ \A j \in 1..(i - 1) : ~IsRecent(s[j])
  <2>1. ASSUME NEW j \in 1..(i - 1), IsRecent(s[j]) PROVE FALSE
    <3>1. j \in 1..n /\ ~(i <= j)
      BY <1>1
    <3> QED
      BY <1>2, <2>1, <3>1
  <2> QED
    BY <2>1
<1>4. FirstRecent(s) \in 1..n
  BY <1>3 DEF FirstRecent
<1> HIDE DEF n
<1>5. PICK m \in 1..n : m = FirstRecent(s)
  BY <1>4
<1>6. Recent(s) = SubSeq(s, m, n)
  BY <1>5 DEF Recent, n
<1>7. ASSUME NEW T, \A k \in 1..n : s[k] \in T
      PROVE  SubSeq(s, m, n) \in Seq(T) /\ Len(SubSeq(s, m, n)) = n - m + 1
  BY <1>1, <1>5, <1>7, SubSeqProperties
<1>8. \A k \in 1..n : s[k] \in Nat
  BY DEF n
<1> QED
  BY <1>1, <1>6, <1>7, <1>8 DEF n

\* An open breaker was opened for a while.
GatewayInv ==
    GatewayTypeOK /\ (circuitState = "OPEN" => openedUntil > 0)

GatewayOut == {c \in GatewayCalls : gatewayCall[c] = "out"}
GatewayBlockedUntil == IF circuitState = "OPEN" THEN openedUntil ELSE 0
gatewayPromiseVars ==
    <<gatewayNow, GatewayOut, Len(failureTimestamps), circuitState = "HALF_OPEN",
      GatewayBlockedUntil>>

\* What is out when one request's outcome changes.
LEMMA OneOut ==
    ASSUME GatewayInv, NEW c \in GatewayCalls, NEW outcome,
           gatewayCall' = [gatewayCall EXCEPT ![c] = outcome]
    PROVE  /\ outcome = "out" => GatewayOut' = GatewayOut \cup {c}
           /\ outcome # "out" => GatewayOut' = GatewayOut \ {c}
<1>1. \A d \in GatewayCalls : gatewayCall'[d] = IF d = c THEN outcome ELSE gatewayCall[d]
  BY DEF GatewayInv, GatewayTypeOK
<1> QED
  BY <1>1 DEF GatewayOut

\* The list after a failure.
LEMMA FailureCounted ==
    ASSUME GatewayInv, NEW c \in GatewayCalls, RecordFailure(c)
    PROVE  /\ failureTimestamps' \in Seq(0..MaxGatewayTime)
           /\ Len(failureTimestamps) \in Nat
           /\ Len(failureTimestamps') \in 1..(Len(failureTimestamps) + 1)
<1> DEFINE s == Append(failureTimestamps, gatewayNow)
<1>1. /\ failureTimestamps \in Seq(0..MaxGatewayTime) /\ gatewayNow \in 0..MaxGatewayTime
      /\ MaxGatewayTime \in Nat /\ FailureWindow \in Nat
  BY GatewayAssumption DEF GatewayInv, GatewayTypeOK
<1>2. /\ s \in Seq(0..MaxGatewayTime) /\ Len(s) = Len(failureTimestamps) + 1
      /\ s[Len(s)] = gatewayNow /\ s # <<>> /\ Len(failureTimestamps) \in Nat
  BY <1>1
<1>3. failureTimestamps' = Recent(s)
  BY DEF RecordFailure
<1>4. s \in Seq(Nat) /\ \A i \in 1..Len(s) : s[i] \in 0..MaxGatewayTime
  <2> HIDE DEF s
  <2>1. \A i \in 1..Len(s) : s[i] \in 0..MaxGatewayTime
    BY <1>2, ElementOfSeq
  <2>2. 0..MaxGatewayTime \subseteq Nat
    BY <1>1
  <2> QED
    BY <1>2, <2>1, <2>2, SeqMonotonic
<1>5. IsRecent(s[Len(s)])
  BY <1>1, <1>2 DEF IsRecent
<1> HIDE DEF s
<1>6. Len(Recent(s)) \in 1..Len(s) /\ Recent(s) \in Seq(0..MaxGatewayTime)
  BY SMTT(30), <1>1, <1>2, <1>4, <1>5, RecentKept
<1> QED
  BY <1>2, <1>3, <1>6

LEMMA GatewayStep ==
    ASSUME GatewayInv, [GatewayNext]_gatewayVars
    PROVE  GatewayInv' /\ [Promise!Next]_gatewayPromiseVars
<1> USE DEF GatewayBlockedUntil
<1>1. CASE UNCHANGED gatewayVars
  BY <1>1 DEF gatewayVars, GatewayInv, GatewayTypeOK, gatewayPromiseVars, GatewayOut
<1>2. CASE GatewayTick
  <2>1. GatewayInv'
    BY <1>2, GatewayAssumption DEF GatewayTick, GatewayInv, GatewayTypeOK
  <2>2. Promise!Tick
    BY <1>2 DEF GatewayTick, Promise!Tick
  <2> QED
    BY <2>1, <2>2 DEF Promise!Next
<1>3. ASSUME NEW c \in GatewayCalls, GatewayRefuses(c)
      PROVE  GatewayInv' /\ [Promise!Next]_gatewayPromiseVars
  <2>1. GatewayInv'
    BY <1>3 DEF GatewayRefuses, GatewayInv, GatewayTypeOK
  <2>2. GatewayOut' = GatewayOut
    BY <1>3, OneOut DEF GatewayRefuses, GatewayOut
  <2> QED
    BY <1>3, <2>1, <2>2 DEF GatewayRefuses, gatewayPromiseVars
<1>4. ASSUME NEW c \in GatewayCalls, GatewaySends(c)
      PROVE  GatewayInv' /\ [Promise!Next]_gatewayPromiseVars
  <2>1. GatewayInv'
    BY <1>4 DEF GatewaySends, GatewayInv, GatewayTypeOK
  <2>2. GatewayOut' = GatewayOut \cup {c} /\ c \notin GatewayOut
    BY <1>4, OneOut DEF GatewaySends, GatewayOut
  <2>3. gatewayNow \in Nat /\ openedUntil \in Nat
    BY GatewayAssumption DEF GatewayInv, GatewayTypeOK
  <2>4. Promise!Admit(c)
    BY <1>4, <2>2, <2>3 DEF GatewaySends, Blocked, GatewayInv, GatewayTypeOK,
       Promise!Admit, GatewayOut
  <2> QED
    BY <2>1, <2>4 DEF Promise!Next
<1>5. ASSUME NEW c \in GatewayCalls, RecordSuccess(c)
      PROVE  GatewayInv' /\ [Promise!Next]_gatewayPromiseVars
  <2>1. GatewayInv'
    BY <1>5, GatewayAssumption DEF RecordSuccess, GatewayInv, GatewayTypeOK
  <2>2. GatewayOut' = GatewayOut \ {c} /\ c \in GatewayOut
    <3>1. c \in GatewayOut
      BY <1>5 DEF RecordSuccess, GatewayOut
    <3>2. GatewayOut' = GatewayOut \ {c}
      <4>1. gatewayCall' = [gatewayCall EXCEPT ![c] = "answered"]
        BY <1>5 DEF RecordSuccess
      <4> QED
        BY <4>1 DEF GatewayOut, GatewayInv, GatewayTypeOK
    <3> QED
      BY <3>1, <3>2
  <2>3. Len(failureTimestamps') = 0
    BY <1>5 DEF RecordSuccess
  <2>4. Promise!ComesBackWell(c)
    BY <1>5, <2>2, <2>3 DEF RecordSuccess, Promise!ComesBackWell, GatewayOut
  <2> QED
    BY <2>1, <2>4 DEF Promise!Next
<1>6. ASSUME NEW c \in GatewayCalls, RecordFailure(c)
      PROVE  GatewayInv' /\ [Promise!Next]_gatewayPromiseVars
  <2>1. /\ failureTimestamps' \in Seq(0..MaxGatewayTime)
        /\ Len(failureTimestamps) \in Nat
        /\ Len(failureTimestamps') \in 1..(Len(failureTimestamps) + 1)
    BY <1>6, FailureCounted
  <2>2. GatewayOut' = GatewayOut \ {c} /\ c \in GatewayOut
    <3>1. c \in GatewayOut
      BY <1>6 DEF RecordFailure, GatewayOut
    <3>2. GatewayOut' = GatewayOut \ {c}
      <4>1. gatewayCall' = [gatewayCall EXCEPT ![c] = "failed"]
        BY <1>6 DEF RecordFailure
      <4> QED
        BY <4>1 DEF GatewayOut, GatewayInv, GatewayTypeOK
    <3> QED
      BY <3>1, <3>2
  <2>3. GatewayInv'
    BY <1>6, <2>1, GatewayAssumption DEF RecordFailure, GatewayInv, GatewayTypeOK
  <2>4. Promise!Strike(c)
    BY <1>6, <2>1, <2>2 DEF RecordFailure, Promise!Strike, GatewayOut
  <2> QED
    BY <2>3, <2>4 DEF Promise!Next
<1> QED
  BY <1>1, <1>2, <1>3, <1>4, <1>5, <1>6 DEF GatewayNext

LEMMA GatewayStart == GatewayInit => GatewayInv /\ Promise!Init
<1>1. GatewayInit => GatewayInv
  BY GatewayAssumption DEF GatewayInit, GatewayInv, GatewayTypeOK
<1>2. GatewayInit => Promise!Init
  BY DEF GatewayInit, Promise!Init
<1> QED
  BY <1>1, <1>2

\* The adapter's breaker keeps a breaker's promise, its window of failures and
\* the answers that come late included.
LEMMA GatewayImplements == GatewaySpec => GatewayImplementsBreaker
<1>1. GatewayInv /\ [GatewayNext]_gatewayVars => GatewayInv' /\ [Promise!Next]_gatewayPromiseVars
  BY GatewayStep
<1> QED
  BY <1>1, GatewayStart, PTL
  DEF GatewaySpec, GatewayImplementsBreaker, Promise!Spec, Promise!vars, gatewayPromiseVars,
      GatewayOut, GatewayBlockedUntil

MessagesOut == {m \in Messages : message[m] = "out"}
MessageBlockedUntil == IF breakerOpen THEN openedAt + MessageOpenFor ELSE 0
messagePromiseVars == <<messageNow, MessagesOut, failures, FALSE, MessageBlockedUntil>>

\* A strike and a probe are never one here: the breaker forgets its failures
\* when it lets the first message through again.
LEMMA MessageStep ==
    ASSUME MessageTypeOK, [MessageNext]_messageVars
    PROVE  MessageTypeOK' /\ [MessagePromise!Next]_messagePromiseVars
<1> USE DEF MessageBlockedUntil
<1>1. CASE UNCHANGED messageVars
  BY <1>1 DEF messageVars, MessageTypeOK, messagePromiseVars, MessagesOut
<1>2. CASE MessageTick
  <2>1. MessageTypeOK'
    BY <1>2, MessageAssumption DEF MessageTick, MessageTypeOK
  <2>2. MessagePromise!Tick
    BY <1>2 DEF MessageTick, MessagePromise!Tick
  <2> QED
    BY <2>1, <2>2 DEF MessagePromise!Next
<1>3. ASSUME NEW m \in Messages, OmitMessage(m)
      PROVE  MessageTypeOK' /\ [MessagePromise!Next]_messagePromiseVars
  <2>1. MessageTypeOK'
    BY <1>3 DEF OmitMessage, MessageTypeOK
  <2>2. MessagesOut' = MessagesOut
    BY <1>3 DEF OmitMessage, MessagesOut, MessageTypeOK
  <2> QED
    BY <1>3, <2>1, <2>2 DEF OmitMessage, messagePromiseVars
<1>4. ASSUME NEW m \in Messages, SendMessage(m)
      PROVE  MessageTypeOK' /\ [MessagePromise!Next]_messagePromiseVars
  <2>1. MessageTypeOK'
    BY <1>4 DEF SendMessage, MessageTypeOK
  <2>2. MessagesOut' = MessagesOut \cup {m} /\ m \notin MessagesOut
    BY <1>4 DEF SendMessage, MessagesOut, MessageTypeOK
  <2>3. MessagePromise!Admit(m)
    BY <1>4, <2>2, MessageAssumption
    DEF SendMessage, Cooling, MessageTypeOK, MessagePromise!Admit, MessagesOut
  <2> QED
    BY <2>1, <2>3 DEF MessagePromise!Next
<1>5. ASSUME NEW m \in Messages, MessageSent(m)
      PROVE  MessageTypeOK' /\ [MessagePromise!Next]_messagePromiseVars
  <2>1. MessageTypeOK'
    BY <1>5 DEF MessageSent, MessageTypeOK
  <2>2. MessagesOut' = MessagesOut \ {m} /\ m \in MessagesOut
    BY <1>5 DEF MessageSent, MessagesOut, MessageTypeOK
  <2>3. MessagePromise!ComesBackWell(m)
    BY <1>5, <2>2 DEF MessageSent, MessagePromise!ComesBackWell, MessagesOut
  <2> QED
    BY <2>1, <2>3 DEF MessagePromise!Next
<1>6. ASSUME NEW m \in Messages, MessageFails(m)
      PROVE  MessageTypeOK' /\ [MessagePromise!Next]_messagePromiseVars
  <2>1. MessageTypeOK'
    <3>1. /\ message' = [message EXCEPT ![m] = "false"] /\ failures' = failures + 1
          /\ messageNow' = messageNow
          /\ \/ breakerOpen' = TRUE /\ openedAt' = messageNow
             \/ breakerOpen' = breakerOpen /\ openedAt' = openedAt
      BY <1>6 DEF MessageFails
    <3>2. message' \in [Messages -> {"idle", "out", "true", "false"}]
      BY <3>1 DEF MessageTypeOK
    <3>3. breakerOpen' \in BOOLEAN
      BY <3>1 DEF MessageTypeOK
    <3>4. failures' \in Nat /\ openedAt' \in 0..MaxMessageTime
      BY <3>1 DEF MessageTypeOK
    <3> QED
      BY <3>1, <3>2, <3>3, <3>4 DEF MessageTypeOK
  <2>2. MessagesOut' = MessagesOut \ {m} /\ m \in MessagesOut
    BY <1>6 DEF MessageFails, MessagesOut, MessageTypeOK
  <2>3. failures \in Nat /\ failures' = failures + 1
    BY <1>6 DEF MessageFails, MessageTypeOK
  <2>4. MessagePromise!Strike(m)
    BY <1>6, <2>2, <2>3 DEF MessageFails, MessagePromise!Strike, MessagesOut
  <2> QED
    BY <2>1, <2>4 DEF MessagePromise!Next
<1> QED
  BY <1>1, <1>2, <1>3, <1>4, <1>5, <1>6 DEF MessageNext

LEMMA MessageStart == MessageInit => MessageTypeOK /\ MessagePromise!Init
<1>1. ASSUME MessageInit PROVE MessageTypeOK
  <2>1. 0 \in 0..MaxMessageTime /\ 0 \in Nat
    BY MessageAssumption
  <2>2. breakerOpen \in BOOLEAN
    BY <1>1 DEF MessageInit
  <2>3. message \in [Messages -> {"idle", "out", "true", "false"}]
    BY <1>1 DEF MessageInit
  <2> QED
    BY <1>1, <2>1, <2>2, <2>3 DEF MessageInit, MessageTypeOK
<1>2. MessageInit => MessagePromise!Init
  BY DEF MessageInit, MessagePromise!Init
<1> QED
  BY <1>1, <1>2

\* Mail and WhatsApp get a breaker's promise, late answers and failures
\* included.
LEMMA MessageImplements == MessageSpec => MessageImplementsBreaker
<1>1. MessageTypeOK /\ [MessageNext]_messageVars
        => MessageTypeOK' /\ [MessagePromise!Next]_messagePromiseVars
  BY MessageStep
<1> QED
  BY <1>1, MessageStart, PTL
  DEF MessageSpec, MessageImplementsBreaker, MessagePromise!Spec, MessagePromise!vars,
      messagePromiseVars, MessagesOut, MessageBlockedUntil

\* Both kinds of breaker implement the abstract one: after the failures that
\* they count no call goes out until the time they wait is over, whichever
\* calls are still out and come back well or badly meanwhile.
THEOREM BreakersImplement == GatewaySpec /\ MessageSpec => BreakersKeepPromise
  BY GatewayImplements, MessageImplements DEF BreakersKeepPromise

-----------------------------------------------------------------------------
(* All the parts, as MCStorefront puts them side by side.                    *)

PartTyped(p) ==
    /\ p = "idempotency" => IdempotencyInv
    /\ p = "cart" => CartSound
    /\ p = "addresses" => AddressInv
    /\ p = "checkout" => CheckoutInv
    /\ p = "pricing" => PricingTyped
    /\ p = "gateway" => GatewayInv
    /\ p = "messages" => MessageTypeOK

\* Every part keeps the types of its rows and requests, alone as beside the
\* others, for any numbers of requests, rows and customers.
THEOREM StorefrontTypeCorrect == Spec => []TypeOK
<1>1. Init => PartTyped(part)
  BY IdempotencyStart, CartStart, AddressStart, CheckoutStart, PricingTypedBegins,
     GatewayStart, MessageStart
  DEF Init, PartTyped
<1>2. PartTyped(part) /\ [Next]_vars => PartTyped(part)'
  <2> SUFFICES ASSUME PartTyped(part), [Next]_vars PROVE PartTyped(part)'
    OBVIOUS
  <2>1. part' = part
    BY DEF Next, vars
  <2>2. part = "idempotency" => IdempotencyInv'
    BY IdempotencyStep DEF PartTyped, Next, vars
  <2>3. part = "cart" => CartSound'
    BY CartSteady DEF PartTyped, Next, vars
  <2>4. part = "addresses" => AddressInv'
    BY AddressStep DEF PartTyped, Next, vars
  <2>5. part = "checkout" => CheckoutInv'
    BY CheckoutStep DEF PartTyped, Next, vars
  <2>6. part = "pricing" => PricingTyped'
    BY PricingTypedStep DEF PartTyped, Next, vars
  <2>7. part = "gateway" => GatewayInv'
    BY GatewayStep DEF PartTyped, Next, vars
  <2>8. part = "messages" => MessageTypeOK'
    BY MessageStep DEF PartTyped, Next, vars
  <2> QED
    BY <2>1, <2>2, <2>3, <2>4, <2>5, <2>6, <2>7, <2>8 DEF PartTyped
<1>3. PartTyped(part) => TypeOK
  BY DEF PartTyped, TypeOK, IdempotencyInv, CartSound, AddressInv, CheckoutInv, PricingTyped,
         GatewayInv
<1> QED
  BY <1>1, <1>2, <1>3, PTL DEF Spec
=============================================================================
