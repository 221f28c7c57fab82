------------------------------ MODULE Accounts ------------------------------
(***************************************************************************)
(* Who may use the system: POST /auth/register against the uses left on an *)
(* invite, the seed-admin command that creates or replaces the single      *)
(* administrator, and the administrator's requests for invites and         *)
(* clients.  All of them run concurrently, each as a READ COMMITTED        *)
(* transaction of several statements; a statement is one action.           *)
(*                                                                         *)
(* A variable holds what is committed; what a transaction has written and  *)
(* not committed is told by its pc, and so are the locks it holds until it *)
(* ends.  A statement that waits for a lock is not enabled.  A request     *)
(* that leaves no row is forgotten and its id left to a later one: nothing *)
(* bounds the requests that fail.                                          *)
(*                                                                         *)
(* Abstracted: passwords and their hashes, tokens (a request is authorized *)
(* if the sender is the administrator then), ids, texts and their checks.  *)
(***************************************************************************)
EXTENDS Naturals, FiniteSets

CONSTANTS
    Registrations,  \* POST /auth/register requests, each with the id of its user
    Seeds,          \* runs of seed-admin, each with the ids of its user and client
    AdminRequests,  \* POST /admin/clients and /admin/invites, with the client's id
    Emails,         \* e-mail addresses, up to case
    Codes,          \* invite codes
    Nobody,         \* no user
    Blank,          \* no e-mail and no code
    MaxUses         \* bound: the largest invites.max_uses

ASSUME RequestsFinite == IsFiniteSet(Registrations)
ASSUME RequestsDiffer ==
    /\ Registrations \cap Seeds = {} /\ Seeds \cap AdminRequests = {}
    /\ Registrations \cap AdminRequests = {} /\ Nobody \notin Registrations \cup Seeds
    /\ Blank \notin Emails \cup Codes
ASSUME MaxUsesAssumption == MaxUses \in Nat \ {0}

VARIABLES
    pc,        \* the statement each request has come to
    email,     \* the e-mail in a request, later in its user's row
    code,      \* the invite code in a registration (in none of seed-admin's)
    onTime,    \* expires_at > now(), the start of the registration's transaction
    old,       \* the administrator a run of seed-admin found
    brings,    \* it found no client, and inserts one
    user,      \* row in users: "none", "active" or "deleted" (deleted_at is set)
    clients,   \* rows in clients, by the request that created them
    maxUses,   \* invites.max_uses, or 0 if there is no row
    used,      \* invites.used_count
    expired    \* expires_at <= now()

requestVars == <<email, code, onTime, old, brings>>
inviteVars  == <<maxUses, used, expired>>
vars        == <<pc, requestVars, user, clients, inviteVars>>

Users    == Registrations \cup Seeds
Requests == Users \cup AdminRequests

\* users.role = 'admin' is what distinguishes the users that seed-admin creates.
ActiveAdmins == {s \in Seeds : user[s] = "active"}

\* Transactions that have inserted their user's row and not committed it.
Inserting == {u \in Users : pc[u] = "inserted"}

\* Runs of seed-admin that have updated the row of the administrator they found.
HoldsOldAdmin(s) == old[s] # Nobody /\ pc[s] \in {"updated", "cleared", "chosen", "inserted"}

\* A row another transaction has updated cannot be updated, nor the keys it has be inserted.
LockedByOther(u, q) == \E s \in Seeds \ {q} : HoldsOldAdmin(s) /\ old[s] = u

\* Variants of InviteLocked: no lock at all, and one already held from a SELECT ... FOR SHARE.
InviteNeverLocked(i, q) == FALSE
InviteLockedEarly(i, q) ==
    \E p \in Registrations \ {q} : pc[p] \in {"begun", "consumed", "inserted"} /\ code[p] = i

\* Registrations that have updated the invite hold its row.
InviteLocked(i, q) ==
    \E p \in Registrations \ {q} : pc[p] \in {"consumed", "inserted"} /\ code[p] = i

\* Variant of SameKey: without users_single_active_admin.
SameEmail(q, u) == email[u] = email[q]

\* users_email_unique_active and users_single_active_admin: q's row and u's would clash.
SameKey(q, u) == email[u] = email[q] \/ (q \in Seeds /\ u \in Seeds)

Clashing(q) == {u \in Users \ {q, old[q]} : user[u] = "active" /\ SameKey(q, u)}

\* Variant of InsertWaits: a SELECT before the INSERT, in place of the unique indexes.
InsertGoesOn(q) == FALSE

\* The rows the insert must wait for: inserted, or updated, by a transaction still open.
InsertWaits(q) ==
    \/ \E u \in Inserting \ {q} : SameKey(q, u)
    \/ \E u \in Clashing(q) : LockedByOther(u, q)

-----------------------------------------------------------------------------
Init ==
    /\ pc = [q \in Requests |-> "none"]
    /\ email = [u \in Users |-> Blank]
    /\ code = [u \in Users |-> Blank]
    /\ onTime = [u \in Users |-> FALSE]
    /\ old = [u \in Users |-> Nobody]
    /\ brings = [u \in Users |-> FALSE]
    /\ user = [u \in Users |-> "none"]
    /\ clients = {}
    /\ maxUses = [i \in Codes |-> 0]
    /\ used = [i \in Codes |-> 0]
    /\ expired = [i \in Codes |-> FALSE]

Goto(q, place) == pc' = [pc EXCEPT ![q] = place] /\ UNCHANGED requestVars

\* A transaction is over, and what its request's variables held is gone, but for
\* the e-mail and the code of a row that stays.
Leave(u, place) ==
    /\ pc' = [pc EXCEPT ![u] = place]
    /\ onTime' = [onTime EXCEPT ![u] = FALSE]
    /\ old' = [old EXCEPT ![u] = Nobody]
    /\ brings' = [brings EXCEPT ![u] = FALSE]

Commit(u) == Leave(u, "done") /\ UNCHANGED <<email, code>>

Rollback(u) ==
    /\ Leave(u, "none")
    /\ email' = [email EXCEPT ![u] = Blank]
    /\ code' = [code EXCEPT ![u] = Blank]

-----------------------------------------------------------------------------
\* POST /auth/register: the transaction begins, which is what now() says in it.
BeginRegister(q, e, i) ==
    /\ pc[q] = "none"
    /\ pc' = [pc EXCEPT ![q] = "begun"]
    /\ email' = [email EXCEPT ![q] = e]
    /\ code' = [code EXCEPT ![q] = i]
    /\ onTime' = [onTime EXCEPT ![q] = ~expired[i]]
    /\ UNCHANGED <<old, brings, user, clients, inviteVars>>

UsableInvite(q) == onTime[q] /\ used[code[q]] < maxUses[code[q]]

\* UPDATE invites SET used_count = used_count + 1 ... : waits for the row, and tests the
\* values it then has; with no row to return the request is refused.
ConsumeInvite(q) ==
    /\ pc[q] = "begun"
    /\ ~InviteLocked(code[q], q)
    /\ \/ UsableInvite(q) /\ Goto(q, "consumed")
       \/ ~UsableInvite(q) /\ Rollback(q)
    /\ UNCHANGED <<user, clients, inviteVars>>

\* INSERT INTO users; a unique violation rolls the transaction back.
Insert(u) ==
    /\ ~InsertWaits(u)
    /\ \/ Clashing(u) = {} /\ Goto(u, "inserted")
       \/ Clashing(u) # {} /\ Rollback(u)
    /\ UNCHANGED <<user, clients, inviteVars>>

InsertUser(q) == pc[q] = "consumed" /\ Insert(q)

CommitUser(q) ==
    /\ pc[q] = "inserted"
    /\ Commit(q)
    /\ user' = [user EXCEPT ![q] = "active"]
    /\ used' = [used EXCEPT ![code[q]] = @ + 1]
    /\ UNCHANGED <<clients, maxUses, expired>>

-----------------------------------------------------------------------------
\* seed-admin: the transaction's first statement looks for the administrator.
\* One found is an error without --replace, and then nothing has changed.
SelectAdmin(s, e) ==
    /\ pc[s] = "none"
    /\ email' = [email EXCEPT ![s] = e]
    /\ \/ /\ ActiveAdmins = {}
          /\ pc' = [pc EXCEPT ![s] = "cleared"]
          /\ UNCHANGED old
       \/ \E a \in ActiveAdmins :
             /\ pc' = [pc EXCEPT ![s] = "found"]
             /\ old' = [old EXCEPT ![s] = a]
    /\ UNCHANGED <<code, onTime, brings, user, clients, inviteVars>>

\* The same e-mail: UPDATE users SET password_hash.
UpdatePassword(s) ==
    /\ pc[s] = "found" /\ email[old[s]] = email[s]
    /\ ~LockedByOther(old[s], s)
    /\ Goto(s, "updated")
    /\ UNCHANGED <<user, clients, inviteVars>>

\* Variant of DeleteOldAdmin: outside of the transaction, committed at once.
DeleteOldAdminAtOnce(s) ==
    /\ pc[s] = "found" /\ email[old[s]] # email[s]
    /\ ~LockedByOther(old[s], s)
    /\ Goto(s, "cleared")
    /\ user' = [user EXCEPT ![old[s]] = "deleted"]
    /\ UNCHANGED <<clients, inviteVars>>

\* Variant of DeleteOldAdmin: also where the e-mail is the same.
DeleteOldAdminAnyway(s) ==
    /\ pc[s] = "found"
    /\ ~LockedByOther(old[s], s)
    /\ Goto(s, "cleared")
    /\ UNCHANGED <<user, clients, inviteVars>>

\* Another: UPDATE users SET deleted_at = now() WHERE id, whether or not it is set.
DeleteOldAdmin(s) ==
    /\ pc[s] = "found" /\ email[old[s]] # email[s]
    /\ ~LockedByOther(old[s], s)
    /\ Goto(s, "cleared")
    /\ UNCHANGED <<user, clients, inviteVars>>

\* The first client there is, or else INSERT INTO clients.
ChooseClient(s) ==
    /\ pc[s] = "cleared"
    /\ pc' = [pc EXCEPT ![s] = "chosen"]
    /\ brings' = [brings EXCEPT ![s] = clients = {}]
    /\ UNCHANGED <<email, code, onTime, old, user, clients, inviteVars>>

InsertAdmin(s) == pc[s] = "chosen" /\ Insert(s)

\* After the password alone has changed there is no row to keep.
CommitPassword(s) ==
    /\ pc[s] = "updated"
    /\ Rollback(s)
    /\ UNCHANGED <<user, clients, inviteVars>>

\* Variant of CommitAdmin: DELETE FROM users, in place of setting deleted_at.
CommitAdminErasing(s) ==
    /\ pc[s] = "inserted"
    /\ Commit(s)
    /\ user' = [u \in Users |-> IF u = s THEN "active"
                                ELSE IF u = old[s] THEN "none" ELSE user[u]]
    /\ clients' = IF brings[s] THEN clients \cup {s} ELSE clients
    /\ UNCHANGED inviteVars

CommitAdmin(s) ==
    /\ pc[s] = "inserted"
    /\ Commit(s)
    /\ user' = [u \in Users |-> IF u = s THEN "active"
                                ELSE IF u = old[s] THEN "deleted" ELSE user[u]]
    /\ clients' = IF brings[s] THEN clients \cup {s} ELSE clients
    /\ UNCHANGED inviteVars

-----------------------------------------------------------------------------
\* RequireAuth and RequireAdmin, once at the beginning of the request.
Authorize(h) ==
    /\ pc[h] = "none"
    /\ ActiveAdmins # {}
    /\ Goto(h, "authorized")
    /\ UNCHANGED <<user, clients, inviteVars>>

\* POST /admin/clients.
CreateClient(h) ==
    /\ pc[h] = "authorized"
    /\ Goto(h, "done")
    /\ clients' = clients \cup {h}
    /\ UNCHANGED <<user, inviteVars>>

\* POST /admin/invites, for a client that exists and with a code that does not.
CreateInvite(h) ==
    /\ pc[h] = "authorized"
    /\ clients # {}
    /\ \E i \in Codes, n \in 1..MaxUses :
          /\ maxUses[i] = 0
          /\ maxUses' = [maxUses EXCEPT ![i] = n]
    /\ Goto(h, "none")
    /\ UNCHANGED <<user, clients, used, expired>>

\* An error, a deadlock the database breaks, a request cancelled, a manager or a
\* command that dies: the transaction is rolled back.
Abort(u) ==
    /\ pc[u] \notin {"none", "done"}
    /\ Rollback(u)
    /\ UNCHANGED <<user, clients, inviteVars>>

Refuse(h) ==
    /\ pc[h] = "authorized"
    /\ Goto(h, "none")
    /\ UNCHANGED <<user, clients, inviteVars>>

InviteExpires(i) ==
    /\ maxUses[i] > 0 /\ ~expired[i]
    /\ expired' = [expired EXCEPT ![i] = TRUE]
    /\ UNCHANGED <<pc, requestVars, user, clients, maxUses, used>>

-----------------------------------------------------------------------------
Register(q) == ConsumeInvite(q) \/ InsertUser(q) \/ CommitUser(q)

SeedAdmin(s) == UpdatePassword(s) \/ DeleteOldAdmin(s) \/ ChooseClient(s)
                \/ InsertAdmin(s) \/ CommitPassword(s) \/ CommitAdmin(s)

Administer(h) == CreateClient(h) \/ CreateInvite(h) \/ Refuse(h)

Next ==
    \/ \E q \in Registrations : Register(q) \/ \E e \in Emails, i \in Codes : BeginRegister(q, e, i)
    \/ \E s \in Seeds : SeedAdmin(s) \/ \E e \in Emails : SelectAdmin(s, e)
    \/ \E h \in AdminRequests : Authorize(h) \/ Administer(h)
    \/ \E u \in Users : Abort(u)
    \/ \E i \in Codes : InviteExpires(i)

Spec == Init /\ [][Next]_vars

=============================================================================
