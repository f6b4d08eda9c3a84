------------------------------ MODULE Accounts ------------------------------
(***************************************************************************)
(* The people of the system: the accounts of staff and of customers, and   *)
(* the clients of the credit book that customers may claim.                *)
(*                                                                         *)
(* A request reads, decides, and writes with a later statement.  E-mails   *)
(* of accounts and the client of a customer are unique keys; those of      *)
(* clients are not.  A password is named after the request that set it,    *)
(* and a Google account after the e-mail it has at Google.                 *)
(***************************************************************************)
EXTENDS Integers, FiniteSets

CONSTANTS StaffRows,     \* rows of User
          CustomerRows,  \* rows of Customer
          ClientRows,    \* rows of Client, each with a document of its own
          Emails,
          People,        \* requests: each is made once
          NoEmail,       \* null, or a row that is not there
          NoOne

ASSUME AccountsAssumption ==
    /\ StaffRows \cap CustomerRows = {}
    /\ NoEmail \notin Emails
    /\ NoOne \notin StaffRows \cup CustomerRows \cup ClientRows \cup People

VARIABLES account,    \* account[k]: the rows of User and Customer
          client,     \* client[n]: the rows of Client
          mailed,     \* mailed[k]: the last temporary password sent to k
          request,    \* request[r]: what r has read and does next
          entangled   \* accounts and clients with requests that overlapped

accountVars == <<account, client, mailed, request, entangled>>

Accounts == StaffRows \cup CustomerRows
NoAccount == [email |-> NoEmail, google |-> NoEmail, password |-> NoOne,
            mustChange |-> FALSE, active |-> TRUE, client |-> NoOne]
NoClientRow == [email |-> NoEmail, state |-> "absent"]
NotSent == [pc |-> "new", kind |-> "none", row |-> NoOne, email |-> NoEmail, client |-> NoOne]

CustomerKinds == {"create", "email", "google", "googleNew", "temporary", "password",
                  "activate", "deactivate", "claim"}
ClientKinds == {"clientCreate", "clientEmail", "clientDelete"}

AccountsTypeOK ==
    /\ account \in [Accounts ->
           [email : Emails \cup {NoEmail}, google : Emails \cup {NoEmail},
            password : People \cup {NoOne}, mustChange : BOOLEAN, active : BOOLEAN,
            client : ClientRows \cup {NoOne}]]
    /\ client \in [ClientRows -> [email : Emails \cup {NoEmail},
                                  state : {"absent", "active", "deleted"}]]
    /\ mailed \in [Accounts -> People \cup {NoOne}]
    /\ request \in [People ->
           [pc : {"new", "write", "mail", "done"}, kind : CustomerKinds \cup ClientKinds \cup {"none"},
            row : Accounts \cup ClientRows \cup {NoOne}, email : Emails \cup {NoEmail},
            client : ClientRows \cup {NoOne}]]
    /\ entangled \subseteq Accounts \cup ClientRows

AccountsInit ==
    /\ account = [k \in Accounts |-> NoAccount]
    /\ client = [n \in ClientRows |-> NoClientRow]
    /\ mailed = [k \in Accounts |-> NoOne]
    /\ request = [r \in People |-> NotSent]
    /\ entangled = {}

-----------------------------------------------------------------------------
Table(k) == IF k \in StaffRows THEN StaffRows ELSE CustomerRows
There(k) == account[k].email # NoEmail
Taken(k, e) == \E j \in Table(k) : account[j].email = e
ActiveClients == {n \in ClientRows : client[n].state = "active"}

\* The requests that have read and not yet written, or not yet mailed.
UnderWay == {r \in People : request[r].pc \in {"write", "mail"}}
Touching(rows) == {r \in UnderWay : request[r].row \in rows}

\* The request that is made next: requests differ in nothing but their names.
MadeNext(r) == request[r].pc = "new" /\ r = CHOOSE q \in People : request[q].pc = "new"

\* A request that has passed its checks; rows are those it may disturb.
Checked(r, kind, k, e, n, rows) ==
    /\ MadeNext(r)
    /\ request' = [request EXCEPT ![r] = [pc |-> "write", kind |-> kind, row |-> k,
                                          email |-> e, client |-> n]]
    /\ entangled' = IF Touching(rows) = {} THEN entangled
                    ELSE entangled \cup rows
    /\ UNCHANGED <<account, client, mailed>>

Over(r) == request' = [request EXCEPT ![r] = [NotSent EXCEPT !.pc = "done"]]

-----------------------------------------------------------------------------
(* What each handler reads before it writes.                               *)

\* An e-mail that is not there yet, for a new account...
AskCreate(r, k, e) ==
    ~There(k) /\ ~Taken(k, e) /\ Checked(r, "create", k, e, NoOne, {k})

CreateUser(r, k, e) == k \in StaffRows /\ AskCreate(r, k, e)
RegisterCustomer(r, k, e) == k \in CustomerRows /\ AskCreate(r, k, e)

\* ...or for an old one: PUT /users/:id, PATCH /customers/me by the customer,
\* who must be active, and PATCH /customers/:id by staff.
AskEmail(r, k, e) ==
    There(k) /\ account[k].email # e /\ ~Taken(k, e) /\ Checked(r, "email", k, e, NoOne, {k})

UpdateUser(r, k, e) == k \in StaffRows /\ AskEmail(r, k, e)
UpdateCustomerProfile(r, k, e) == k \in CustomerRows /\ account[k].active /\ AskEmail(r, k, e)
UpdateCustomer(r, k, e) == k \in CustomerRows /\ AskEmail(r, k, e)

\* POST /customer-auth/google by who has no account with that Google account
\* yet: it is linked to the one with the same e-mail, or one is created.
GoogleAuth(r, k, e) ==
    /\ k \in CustomerRows
    /\ \A j \in CustomerRows : account[j].google # e
    /\ IF Taken(k, e) THEN account[k].email = e ELSE ~There(k)
    /\ Checked(r, IF There(k) THEN "google" ELSE "googleNew", k, e, NoOne, {k})

\* Forgotten by an active customer, or reset by staff whatever the customer.
AskTemporary(r, k) ==
    k \in CustomerRows /\ There(k) /\ Checked(r, "temporary", k, NoEmail, NoOne, {k})

ForgotCustomerPassword(r, k) == account[k].active /\ AskTemporary(r, k)
ResetCustomerPassword(r, k) == AskTemporary(r, k)

\* Customers give their password, if they have one, and must be active; the
\* user of /users/:id/password is not asked to be.
AskPassword(r, k) ==
    /\ There(k) /\ account[k].password # NoOne
    /\ Checked(r, "password", k, NoEmail, NoOne, {k})

ChangePassword(r, k) == k \in StaffRows /\ AskPassword(r, k)
ChangeCustomerPassword(r, k) ==
    k \in CustomerRows /\ account[k].active /\ AskPassword(r, k)

\* A user is not switched to what it is; a customer may be.
SetAccountActive(r, k, active) ==
    /\ There(k)
    /\ k \in StaffRows => account[k].active # active
    /\ Checked(r, IF active THEN "activate" ELSE "deactivate", k, NoEmail, NoOne, {k})

\* A client is claimed by document, by a customer who is active, unless it is
\* linked already.
ClaimClient(r, k, n) ==
    /\ k \in CustomerRows /\ There(k) /\ account[k].active
    /\ n \in ActiveClients /\ \A j \in CustomerRows : account[j].client # n
    /\ Checked(r, "claim", k, NoEmail, n, {k})

\* Mutant of ClientEmailFree: the unique key is relied on, and there is none.
ClientEmailUnasked(e) == TRUE

\* Clients: an e-mail is looked for among the active ones; no e-mail will do.
ClientEmailFree(e) == e # NoEmail => \A m \in ActiveClients : client[m].email # e

CreateClient(r, n, e) ==
    /\ client[n].state = "absent" /\ ClientEmailFree(e)
    /\ Checked(r, "clientCreate", n, e, NoOne, ClientRows)

UpdateClient(r, n, e) ==
    /\ n \in ActiveClients /\ e \notin {NoEmail, client[n].email} /\ ClientEmailFree(e)
    /\ Checked(r, "clientEmail", n, e, NoOne, ClientRows)

DeleteClient(r, n) ==
    /\ n \in ActiveClients
    /\ Checked(r, "clientDelete", n, NoEmail, NoOne, ClientRows)

-----------------------------------------------------------------------------
(* What it writes.                                                         *)

WrittenAccount(r) ==
    LET k == request[r].row
        e == request[r].email
    IN CASE request[r].kind = "create" -> [NoAccount EXCEPT !.email = e, !.password = r]
         [] request[r].kind = "email" -> [account[k] EXCEPT !.email = e]
         [] request[r].kind = "google" -> [account[k] EXCEPT !.google = e]
         [] request[r].kind = "googleNew" -> [NoAccount EXCEPT !.email = e, !.google = e]
         [] request[r].kind = "temporary" ->
                [account[k] EXCEPT !.password = r, !.mustChange = TRUE]
         [] request[r].kind = "password" ->
                [account[k] EXCEPT !.password = r, !.mustChange = FALSE]
         [] request[r].kind = "activate" -> [account[k] EXCEPT !.active = TRUE]
         [] request[r].kind = "deactivate" -> [account[k] EXCEPT !.active = FALSE]
         [] request[r].kind = "claim" -> [account[k] EXCEPT !.client = request[r].client]

\* The unique keys: email, googleId and clientId.
KeysFree(k, row) ==
    \A j \in Table(k) \ {k} :
        /\ account[j].email # row.email
        /\ row.google # NoEmail => account[j].google # row.google
        /\ row.client # NoOne => account[j].client # row.client

WriteAccount(r) ==
    LET k == request[r].row IN
    /\ request[r].pc = "write" /\ request[r].kind \in CustomerKinds
    /\ request[r].kind \in {"create", "googleNew"} => ~There(k)
    /\ KeysFree(k, WrittenAccount(r))
    /\ account' = [account EXCEPT ![k] = WrittenAccount(r)]
    /\ IF request[r].kind = "temporary" THEN request' = [request EXCEPT ![r].pc = "mail"]
       ELSE Over(r)
    /\ UNCHANGED <<client, mailed, entangled>>

WrittenClient(r) ==
    LET n == request[r].row IN
    CASE request[r].kind = "clientCreate" -> [email |-> request[r].email, state |-> "active"]
      [] request[r].kind = "clientEmail" -> [client[n] EXCEPT !.email = request[r].email]
      [] request[r].kind = "clientDelete" -> [client[n] EXCEPT !.state = "deleted"]

WriteClient(r) ==
    LET n == request[r].row IN
    /\ request[r].pc = "write" /\ request[r].kind \in ClientKinds
    /\ request[r].kind = "clientCreate" => client[n].state = "absent"
    /\ client' = [client EXCEPT ![n] = WrittenClient(r)]
    /\ Over(r)
    /\ UNCHANGED <<account, mailed, entangled>>

\* The event after the temporary password is stored: the mail goes out.
MailTemporary(r) ==
    /\ request[r].pc = "mail"
    /\ mailed' = [mailed EXCEPT ![request[r].row] = r]
    /\ Over(r)
    /\ UNCHANGED <<account, client, entangled>>

\* A unique key is taken, the query fails or the process stops.
Fails(r) ==
    /\ request[r].pc \in {"write", "mail"}
    /\ entangled' = IF request[r].pc = "mail" THEN entangled \cup {request[r].row}
                    ELSE entangled
    /\ Over(r)
    /\ UNCHANGED <<account, client, mailed>>

AccountsNext ==
    \E r \in People :
        \/ \E k \in Accounts :
               \/ \E e \in Emails :
                      \/ CreateUser(r, k, e) \/ RegisterCustomer(r, k, e) \/ UpdateUser(r, k, e)
                      \/ UpdateCustomerProfile(r, k, e) \/ UpdateCustomer(r, k, e)
                      \/ GoogleAuth(r, k, e)
               \/ ForgotCustomerPassword(r, k) \/ ResetCustomerPassword(r, k)
               \/ ChangePassword(r, k) \/ ChangeCustomerPassword(r, k)
               \/ \E active \in BOOLEAN : SetAccountActive(r, k, active)
               \/ \E n \in ClientRows : ClaimClient(r, k, n)
        \/ \E n \in ClientRows :
               \/ \E e \in Emails \cup {NoEmail} : CreateClient(r, n, e)
               \/ \E e \in Emails : UpdateClient(r, n, e)
               \/ DeleteClient(r, n)
        \/ WriteAccount(r) \/ WriteClient(r) \/ MailTemporary(r) \/ Fails(r)

AccountsSpec == AccountsInit /\ [][AccountsNext]_accountVars

-----------------------------------------------------------------------------
\* A customer who must change the password was mailed the one that is
\* stored, once no request is under way, unless requests for the customer
\* overlapped or one stopped before the mail.
MailedPasswordWorks ==
    \A k \in CustomerRows \ entangled :
        account[k].mustChange /\ Touching({k}) = {} => mailed[k] = account[k].password

\* Two active clients have the same e-mail only if requests about clients
\* overlapped; nothing in the database keeps them apart.
ClientEmailsDistinct ==
    \A m, n \in ActiveClients \ entangled :
        client[m].email = client[n].email /\ client[m].email # NoEmail => m = n

\* A client is the client of one customer, however many claim it at once.
ClaimedOnce ==
    \A j, k \in CustomerRows :
        account[j].client = account[k].client /\ account[j].client # NoOne => j = k

\* Requests about people that overlap, fail or stop leave passwords, e-mails
\* and claims that agree with each other.
PeopleConsistent == MailedPasswordWorks /\ ClientEmailsDistinct /\ ClaimedOnce
=============================================================================
