---------------------------- MODULE ReplayLedger ----------------------------
(***************************************************************************)
(* What an Idempotency-Key promises about answers: the first successful    *)
(* answer to a key is written down together with the body it belongs to,   *)
(* it is never written again, and whoever asks with that key and that body *)
(* and gets a successful answer gets this one.  Nothing is promised about  *)
(* how often the work behind an answer is done.                            *)
(***************************************************************************)
CONSTANTS Keys, Bodies, Answers, NoRecord

VARIABLES table,  \* table[k]: what is written down for key k
          given   \* the successful answers clients have received

Row == [body : Bodies, answer : Answers]
Given == [key : Keys, body : Bodies, answer : Answers]

Init ==
    /\ table = [k \in Keys |-> NoRecord]
    /\ given = {}

WriteDown(k, row) ==
    /\ table[k] = NoRecord
    /\ table' = [table EXCEPT ![k] = row]
    /\ UNCHANGED given

Give(k) ==
    /\ table[k] # NoRecord
    /\ given' = given \cup {[key |-> k, body |-> table[k].body,
                             answer |-> table[k].answer]}
    /\ UNCHANGED table

Next == \E k \in Keys : Give(k) \/ \E row \in Row : WriteDown(k, row)

Spec == Init /\ [][Next]_<<table, given>>
=============================================================================
