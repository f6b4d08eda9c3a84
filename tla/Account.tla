------------------------------ MODULE Account ------------------------------
(***************************************************************************)
(* What the credit ledger promises, whatever the requests and however they *)
(* interleave: a client's balance moves only by posting one entry to that  *)
(* client's book, and the entry records both the signed movement and the   *)
(* balance it leads to ("append-only accounting book storing signed client *)
(* balance adjustments").  CreditLedger implements this specification.     *)
(***************************************************************************)
EXTENDS Integers, Sequences

CONSTANTS Clients,   \* the client accounts
          Kinds,     \* the kinds of ledger entries
          Deltas     \* the signed amounts an entry may carry

VARIABLES balance,   \* balance[c]: what client c owes
          book       \* book[c]: the entries posted for c, oldest first

vars == <<balance, book>>

Entry == [kind : Kinds, delta : Deltas, balanceAfter : Int]

Init ==
    /\ balance = [c \in Clients |-> 0]
    /\ book = [c \in Clients |-> <<>>]

Post(c, k, d) ==
    LET entry == [kind |-> k, delta |-> d, balanceAfter |-> balance[c] + d]
    IN  /\ balance' = [balance EXCEPT ![c] = entry.balanceAfter]
        /\ book' = [book EXCEPT ![c] = Append(@, entry)]

Next == \E c \in Clients, k \in Kinds, d \in Deltas : Post(c, k, d)

Spec == Init /\ [][Next]_vars
=============================================================================
