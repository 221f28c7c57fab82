------------------------- MODULE AccountsProperties -------------------------
(***************************************************************************)
(* What registrations, seed-admin and the administrator's requests may not *)
(* do together.  Those about committed rows say nothing of open            *)
(* transactions: their rows are not there yet.                             *)
(***************************************************************************)
EXTENDS Accounts

PlacesOK ==
    /\ \A q \in Registrations : pc[q] \in {"none", "begun", "consumed", "inserted", "done"}
    /\ \A s \in Seeds : pc[s] \in {"none", "found", "updated", "cleared", "chosen", "inserted", "done"}
    /\ \A h \in AdminRequests : pc[h] \in {"none", "authorized", "done"}

RequestsOK ==
    /\ pc \in [Requests -> {"none", "begun", "consumed", "inserted", "found", "updated",
                            "cleared", "chosen", "authorized", "done"}]
    /\ email \in [Users -> Emails \cup {Blank}] /\ code \in [Users -> Codes \cup {Blank}]
    /\ onTime \in [Users -> BOOLEAN] /\ brings \in [Users -> BOOLEAN]
    /\ old \in [Users -> Seeds \cup {Nobody}]
    /\ \A u \in Users : /\ email[u] = Blank <=> pc[u] = "none"
                        /\ brings[u] => pc[u] \in {"chosen", "inserted"}
    /\ \A q \in Registrations : old[q] = Nobody /\ (code[q] = Blank <=> pc[q] = "none")

RowsOK ==
    /\ user \in [Users -> {"none", "active", "deleted"}]
    /\ clients \subseteq Seeds \cup AdminRequests
    /\ maxUses \in [Codes -> 0..MaxUses] /\ used \in [Codes -> 0..MaxUses]
    /\ expired \in [Codes -> BOOLEAN]
    /\ \A u \in Users : /\ user[u] # "none" <=> pc[u] = "done"
                        /\ old[u] # Nobody => user[old[u]] # "none"

\* Types, and rows only of requests that have ended, among them
\* the administrator to replace.
TypeOK == PlacesOK /\ RequestsOK /\ RowsOK

RegisteredWith(i) == {q \in Registrations : user[q] # "none" /\ code[q] = i}

\* used_count is the number of users registered with the invite and never more
\* than max_uses, whatever registrations run at once, clash or are aborted
\* (handleRegister).
InvitesBalance ==
    \A i \in Codes : used[i] = Cardinality(RegisteredWith(i)) /\ used[i] <= maxUses[i]

\* No two active users share an e-mail, whether they registered or were seeded
\* (handleRegister, seed-admin, users_email_unique_active).
ActiveEmailsDistinct ==
    \A u, v \in Users :
        user[u] = "active" /\ user[v] = "active" /\ email[u] = email[v] => u = v

\* There is one active administrator at most, also when several runs of
\* seed-admin create or replace one at once (users_single_active_admin).
SingleAdmin == \A s, t \in Seeds : s \in ActiveAdmins /\ t \in ActiveAdmins => s = t

\* A system that has an administrator keeps having one: a replacement that
\* fails after it deleted the old one leaves the old one (seed-admin).
AdminKept == [][ActiveAdmins # {} => ActiveAdmins' # {}]_vars

\* Concurrent first runs of seed-admin leave one base client at most, although
\* each looks for a client before it inserts its own (seed-admin).
OneBaseClient == \A s, t \in clients \cap Seeds : s = t

Open(u) == pc[u] \notin {"none", "done"}

Waits(u) ==
    \/ pc[u] = "begun" /\ InviteLocked(code[u], u)
    \/ pc[u] = "found" /\ LockedByOther(old[u], u)
    \/ pc[u] \in {"consumed", "chosen"} /\ InsertWaits(u)

\* As long as transactions are open one of them can go on: registrations that
\* hold an invite and wait for an e-mail, and runs of seed-admin that hold the
\* administrator's row and wait for their keys, never wait in a circle
\* (handleRegister, seed-admin).
NoStandstill == (\E u \in Users : Open(u)) => \E u \in Users : Open(u) /\ ~Waits(u)

-----------------------------------------------------------------------------
(* The abstract accounts *)

Committed == INSTANCE Ledger WITH
    standing <- user,
    address <- [u \in Users |-> IF user[u] = "none" THEN Blank ELSE email[u]],
    issued <- {i \in Codes : maxUses[i] > 0},
    left <- [i \in Codes |-> maxUses[i] - used[i]]

\* What is committed at any time came about one request after the other, each
\* judged by what those before it left: the tests that a transaction made on
\* what it then saw still hold where it commits (handleRegister, seed-admin,
\* handleCreateClient, handleCreateInvite).
ImplementsLedger == Committed!Spec

-----------------------------------------------------------------------------
(* What makes the invariants above inductive. *)

\* A transaction that has inserted the administrator is the only one, and the
\* administrator it replaces is the only one left.
InsertedAlone ==
    \A s \in Seeds : pc[s] = "inserted" =>
        /\ \A t \in Seeds : pc[t] = "inserted" => s = t
        /\ \A a \in ActiveAdmins : a = old[s]

\* Nor does the e-mail of a row inserted clash with another's, but for the
\* administrator it replaces.
InsertedEmails ==
    \A u, v \in Users :
        /\ pc[u] = "inserted" /\ v \notin {u, old[u]}
        /\ pc[v] = "inserted" \/ user[v] = "active"
        => email[u] # email[v]

AdminInv == InsertedAlone /\ InsertedEmails /\ SingleAdmin /\ ActiveEmailsDistinct

\* Only one registration at a time has consumed an invite, and one that has
\* leaves room for its use.
HeldInvites ==
    \A q \in Registrations : pc[q] \in {"consumed", "inserted"} =>
        /\ used[code[q]] < maxUses[code[q]]
        /\ \A p \in Registrations :
              pc[p] \in {"consumed", "inserted"} /\ code[p] = code[q] => p = q

\* There is a client as soon as there is an administrator, and no longer
\* than that without one.
ClientsWithAdmin ==
    /\ clients # {} <=> ActiveAdmins # {}
    /\ \A h \in AdminRequests : pc[h] = "authorized" => clients # {}
    /\ \A s \in Seeds : /\ brings[s] => old[s] = Nobody
                        /\ old[s] # Nobody => clients # {}
                        /\ pc[s] \in {"chosen", "inserted"} /\ ~brings[s] => clients # {}

\* For the ledger: only an open transaction replaces an administrator, by one
\* with another e-mail, and the request that created a client has ended.
OpenReplaces == \A u \in Users : pc[u] = "none" => old[u] = Nobody

OtherEmail ==
    \A s \in Seeds : old[s] # Nobody /\ pc[s] \in {"cleared", "chosen", "inserted"}
                     => email[old[s]] # email[s]

ClientsEnded == \A h \in AdminRequests : h \in clients => pc[h] = "done"

LedgerInv == OpenReplaces /\ OtherEmail /\ ClientsEnded
=============================================================================
