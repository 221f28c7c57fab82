------------------------------- MODULE Ledger -------------------------------
(***************************************************************************)
(* What registrations, seed-admin and the administrator's requests promise *)
(* together, without transactions, statements and locks: each takes effect *)
(* at one point or not at all, and is judged by what is there at that      *)
(* point.                                                                  *)
(*                                                                         *)
(* Left out: that an invite expires, since a registration is held to the   *)
(* time at which it began.                                                 *)
(***************************************************************************)
EXTENDS Integers

CONSTANTS Registrations, Seeds, AdminRequests, Emails, Codes, MaxUses,
          Blank  \* no e-mail

VARIABLES
    standing,  \* of the user each request brings: "none", "active" or "deleted"
    address,   \* the user's e-mail, Blank before there is one
    clients,   \* by the request that created them
    issued,    \* the invites there are
    left       \* how many uses of them are left

vars == <<standing, address, clients, issued, left>>

Users  == Registrations \cup Seeds
Admins == {s \in Seeds : standing[s] = "active"}

Free(e) == \A u \in Users : standing[u] = "active" => address[u] # e

Init ==
    /\ standing = [u \in Users |-> "none"]
    /\ address = [u \in Users |-> Blank]
    /\ clients = {}
    /\ issued = {}
    /\ left = [i \in Codes |-> 0]

\* A user enters, in place of the ones who leave.
Enter(u, e, leaving) ==
    /\ standing[u] = "none" /\ Free(e)
    /\ standing' = [v \in Users |-> IF v = u THEN "active"
                                    ELSE IF v \in leaving THEN "deleted" ELSE standing[v]]
    /\ address' = [address EXCEPT ![u] = e]

\* One use of an invite is one user.
Register(q, e, i) ==
    /\ left[i] > 0
    /\ Enter(q, e, {})
    /\ left' = [left EXCEPT ![i] = @ - 1]
    /\ UNCHANGED <<clients, issued>>

\* The first administrator comes with the first client.
SeedFirst(s, e) ==
    /\ Admins = {} /\ clients = {}
    /\ Enter(s, e, {})
    /\ clients' = {s}
    /\ UNCHANGED <<issued, left>>

\* A later one takes the place of the one there is.
Replace(s, a, e) ==
    /\ Admins = {a}
    /\ Enter(s, e, {a})
    /\ UNCHANGED <<clients, issued, left>>

\* Both while there is an administrator.
AddClient(h) ==
    /\ Admins # {} /\ h \notin clients
    /\ clients' = clients \cup {h}
    /\ UNCHANGED <<standing, address, issued, left>>

Issue(i, n) ==
    /\ Admins # {} /\ clients # {} /\ i \notin issued
    /\ issued' = issued \cup {i}
    /\ left' = [left EXCEPT ![i] = n]
    /\ UNCHANGED <<standing, address, clients>>

\* What changes nothing is not a step.
Next ==
    /\ vars' # vars
    /\ \/ \E e \in Emails :
            \/ \E q \in Registrations, i \in Codes : Register(q, e, i)
            \/ \E s \in Seeds : SeedFirst(s, e) \/ \E a \in Seeds : Replace(s, a, e)
       \/ \E h \in AdminRequests : AddClient(h)
       \/ \E i \in Codes, n \in 1..MaxUses : Issue(i, n)

Spec == Init /\ [][Next]_vars
=============================================================================
