----------------------------- MODULE Addresses ------------------------------
(***************************************************************************)
(* A customer's saved addresses and which of them is the default.          *)
(*                                                                         *)
(* Every operation is one prisma.$transaction of two steps here: it reads  *)
(* the address and starts the statement that clears the defaults, which    *)
(* touches the rows that exist at that moment; then it writes and commits. *)
(* The rows it clears stay locked in between, which orders two operations  *)
(* that clear the same rows, but a row inserted meanwhile is neither       *)
(* locked nor cleared, and no unique index backs the default.  Fields      *)
(* other than isDefault are left out; which of the other addresses was     *)
(* updated last is left open.                                              *)
(***************************************************************************)
EXTENDS Integers, FiniteSets

CONSTANTS AddressOwners,  \* customers
          AddressRows,    \* bound: the rows there may ever be
          AddressUsers,   \* requests that may be under way at once
          MaxEdits,       \* bound: the requests of an instance
          NoAddress

ASSUME AddressesAssumption ==
    /\ MaxEdits \in Nat /\ NoAddress \notin AddressRows
    /\ AddressOwners # {}

VARIABLES address,  \* address[r]: the CustomerAddress rows
          edit,     \* edit[u]: what request u has read and writes next
          edits,    \* how many requests there have been
          mixed     \* customers for whom a creation or a deletion overlapped

addressVars == <<address, edit, edits, mixed>>

AddressRow == [state : {"unused", "live", "deleted"}, owner : AddressOwners,
               isDefault : BOOLEAN]
EditOps == {"none", "create", "update", "delete", "setDefault"}
\* makes: the default it writes ("keep": an update that does not say).
Edit == [op : EditOps, owner : AddressOwners, row : AddressRows \cup {NoAddress},
         makes : {"default", "plain", "keep"}, cleared : SUBSET AddressRows,
         wasDefault : BOOLEAN]

AddressTypeOK ==
    /\ address \in [AddressRows -> AddressRow]
    /\ edit \in [AddressUsers -> Edit]
    /\ edits \in 0..MaxEdits
    /\ mixed \in SUBSET AddressOwners

NoEdit == [op |-> "none", owner |-> CHOOSE o \in AddressOwners : TRUE, row |-> NoAddress,
           makes |-> "keep", cleared |-> {}, wasDefault |-> FALSE]

AddressInit ==
    /\ address = [r \in AddressRows |-> [state |-> "unused", isDefault |-> FALSE,
                                         owner |-> CHOOSE o \in AddressOwners : TRUE]]
    /\ edit = [u \in AddressUsers |-> NoEdit]
    /\ edits = 0
    /\ mixed = {}

AddressesOf(o) == {r \in AddressRows : address[r].state = "live" /\ address[r].owner = o}
DefaultsOf(o) == {r \in AddressesOf(o) : address[r].isDefault}

\* The rows that the statement clearing the other defaults touches.
ClearNone(o, makes) == {}
ToClear(o, makes) == IF makes = "default" THEN AddressesOf(o) ELSE {}

\* Requests of o under way, of which one inserts or deletes.
Mixes(op, o) == \E u \in AddressUsers :
    edit[u].op # "none" /\ edit[u].owner = o /\ {op, edit[u].op} \cap {"create", "delete"} # {}

\* What a request may say about the default: a new address says it, a PATCH
\* that does not leaves it as it is.
MayMake(op) ==
    CASE op = "create" -> {"default", "plain"}
      [] op = "update" -> {"default", "plain", "keep"}
      [] op = "setDefault" -> {"default"}
      [] op = "delete" -> {"keep"}

\* findFirst of the address (a customer's own only) and the clearing.
BeginEdit(u, op, o, row, makes) ==
    /\ edit[u].op = "none"
    /\ edits < MaxEdits
    /\ op = "create" <=> row = NoAddress
    /\ op # "create" => row \in AddressesOf(o)
    /\ makes \in MayMake(op)
    /\ edits' = edits + 1
    /\ mixed' = IF Mixes(op, o) THEN mixed \cup {o} ELSE mixed
    /\ edit' = [edit EXCEPT ![u] =
           [op |-> op, owner |-> o, row |-> row, makes |-> makes,
            cleared |-> ToClear(o, makes),
            wasDefault |-> row # NoAddress /\ row \in DefaultsOf(o)]]
    /\ UNCHANGED address

EndEdit(u) == edit' = [edit EXCEPT ![u] = NoEdit]

\* The defaults once the rows of S are cleared and row, if any, is set.
Cleared(S) == [r \in AddressRows |->
    IF r \in S THEN [address[r] EXCEPT !.isDefault = FALSE] ELSE address[r]]

FreshRows == {r \in AddressRows : address[r].state = "unused"}

CreateAddress(u) ==
    /\ edit[u].op = "create"
    /\ FreshRows # {}
    /\ address' = [Cleared(edit[u].cleared) EXCEPT
           ![CHOOSE r \in FreshRows : TRUE] =
               [state |-> "live", owner |-> edit[u].owner,
                isDefault |-> edit[u].makes = "default"]]
    /\ EndEdit(u)
    /\ UNCHANGED <<edits, mixed>>

\* PATCH of an address, which may say whether it is the default: the row
\* must be there.
UpdateAddress(u) ==
    /\ edit[u].op = "update"
    /\ address[edit[u].row].state = "live"
    /\ address' = [Cleared(edit[u].cleared) EXCEPT
           ![edit[u].row].isDefault = IF edit[u].makes = "keep" THEN @
                                      ELSE edit[u].makes = "default"]
    /\ EndEdit(u)
    /\ UNCHANGED <<edits, mixed>>

\* PATCH of the default.
SetDefault(u) ==
    /\ edit[u].op = "setDefault"
    /\ address[edit[u].row].state = "live"
    /\ address' = [Cleared(edit[u].cleared) EXCEPT ![edit[u].row].isDefault = TRUE]
    /\ EndEdit(u)
    /\ UNCHANGED <<edits, mixed>>

\* The deletion of the default makes another address the default, when the
\* address was the default as the transaction first read it.
Promotes(u) == edit[u].wasDefault

DeleteAddress(u) ==
    /\ edit[u].op = "delete"
    /\ address[edit[u].row].state = "live"
    /\ LET others == AddressesOf(edit[u].owner) \ {edit[u].row}
           gone == [address EXCEPT ![edit[u].row].state = "deleted"]
       IN  IF Promotes(u) /\ others # {}
           THEN \E next \in others : address' = [gone EXCEPT ![next].isDefault = TRUE]
           ELSE address' = gone
    /\ EndEdit(u)
    /\ UNCHANGED <<edits, mixed>>

\* The transaction is rolled back: its row is gone, or the process stops.
FailEdit(u) ==
    /\ edit[u].op # "none"
    /\ EndEdit(u)
    /\ UNCHANGED <<address, edits, mixed>>

AddressNext ==
    \E u \in AddressUsers :
        \/ \E op \in EditOps \ {"none"}, o \in AddressOwners,
              row \in AddressRows \cup {NoAddress},
              makes \in {"default", "plain", "keep"} : BeginEdit(u, op, o, row, makes)
        \/ CreateAddress(u) \/ UpdateAddress(u) \/ SetDefault(u)
        \/ DeleteAddress(u) \/ FailEdit(u)

AddressSpec == AddressInit /\ [][AddressNext]_addressVars

-----------------------------------------------------------------------------
(***************************************************************************)
(* Properties.                                                             *)
(***************************************************************************)

\* A customer has two defaults only after a creation or a deletion of an
\* address overlapped with another operation of that customer: changes of
\* the default alone, however many at once, never leave two.
OneDefault ==
    \A o \in AddressOwners : o \notin mixed => Cardinality(DefaultsOf(o)) <= 1

\* A deletion never takes the only default away and leaves addresses
\* without one, unless operations of that customer overlapped.
DeletionSparesADefault ==
    \A o \in AddressOwners :
        o \notin mixed /\ DefaultsOf(o) # {} /\ AddressesOf(o)' # {}
        /\ AddressesOf(o)' # AddressesOf(o) => DefaultsOf(o)' # {}

\* One default for a customer with addresses: neither two nor none.
DefaultsKept == [][OneDefault' /\ DeletionSparesADefault]_addressVars
=============================================================================
