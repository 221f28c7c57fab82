------------------------ MODULE AccountsLedgerProofs ------------------------
(***************************************************************************)
(* The accounts implement the ledger: concurrent transactions of several   *)
(* statements leave what one request after the other would.                *)
(***************************************************************************)
EXTENDS AccountsProofs

USE RequestsDiffer, MaxUsesAssumption
USE DEF requestVars, inviteVars, Users, Requests

\* The invariant of the refinement.
ServedInv == TypeInv /\ AdminInv /\ ClientsWithAdmin /\ OneBaseClient /\ LedgerInv

LEMMA LedgerInit == Init => LedgerInv
BY DEF Init, LedgerInv, OpenReplaces, OtherEmail, ClientsEnded

\* What a step that creates no client and lets no run of seed-admin on must leave.
LEMMA LedgerUntouched ==
    ASSUME LedgerInv, UNCHANGED clients,
           \A u \in Users : pc'[u] = "none" => (pc[u] = "none" /\ old'[u] = old[u]) \/ old'[u] = Nobody,
           \A h \in AdminRequests : pc[h] = "done" => pc'[h] = "done",
           \A s \in Seeds : old'[s] # Nobody /\ pc'[s] \in {"cleared", "chosen", "inserted"} =>
               /\ old[s] # Nobody /\ pc[s] \in {"cleared", "chosen", "inserted"}
               /\ email'[s] = email[s] /\ email'[old'[s]] = email[old[s]]
    PROVE  LedgerInv'
BY DEF LedgerInv, OpenReplaces, OtherEmail, ClientsEnded

LEMMA LedgerStep == ASSUME TypeInv, LedgerInv, [Next]_vars PROVE LedgerInv'
<1> USE DEF TypeInv, TypeOK
<1>0. /\ RequestsOK /\ OpenReplaces
      /\ \A s \in Seeds : old[s] # Nobody => old[s] \in Seeds /\ pc[old[s]] = "done"
  BY DEF RowsOK, RequestsOK, LedgerInv
<1> USE <1>0 DEF RequestsOK
<1>a. ASSUME NEW u \in Users, pc[u] # "done", Rollback(u), UNCHANGED clients
      PROVE  LedgerInv'
  BY <1>a, LedgerUntouched DEF Rollback, Leave
<1>b. ASSUME NEW u \in Requests, pc[u] # "done", NEW place, Goto(u, place), UNCHANGED clients,
             place = "none" => u \notin Users,
             place \in {"cleared", "chosen", "inserted"} =>
                 u \notin Seeds \/ pc[u] \in {"cleared", "chosen", "inserted"}
      PROVE  LedgerInv'
  BY <1>b, LedgerUntouched DEF Goto
<1>1. CASE Registering
  <2>1. ASSUME NEW q \in Registrations, NEW e \in Emails, NEW i \in Codes, BeginRegister(q, e, i)
        PROVE  LedgerInv'
    BY <2>1, LedgerUntouched DEF BeginRegister
  <2>2. ASSUME NEW q \in Registrations, ConsumeInvite(q) PROVE LedgerInv'
    BY <1>a, <1>b, <2>2 DEF ConsumeInvite
  <2>3. ASSUME NEW q \in Registrations, InsertUser(q) PROVE LedgerInv'
    BY <1>a, <1>b, <2>3 DEF InsertUser, Insert
  <2>4. ASSUME NEW q \in Registrations, CommitUser(q) PROVE LedgerInv'
    BY <2>4, LedgerUntouched DEF CommitUser, Commit, Leave
  <2> QED BY <1>1, <2>1, <2>2, <2>3, <2>4 DEF Registering, Register
<1>2. CASE Seeding
  <2>1. ASSUME NEW s \in Seeds, NEW e \in Emails, SelectAdmin(s, e) PROVE LedgerInv'
    <3>1. old[s] = Nobody BY <2>1 DEF SelectAdmin, OpenReplaces
    <3>2. /\ pc'[s] = "found" \/ (pc'[s] = "cleared" /\ old'[s] = Nobody)
          /\ \A u \in Requests \ {s} : pc'[u] = pc[u]
          /\ \A u \in Users \ {s} : old'[u] = old[u] /\ email'[u] = email[u]
          /\ UNCHANGED clients
      BY <2>1, <3>1 DEF SelectAdmin
    <3>3. \A t \in Seeds \ {s} : old[t] # s BY <2>1 DEF SelectAdmin
    <3> QED BY <3>2, <3>3, LedgerUntouched
  <2>2. ASSUME NEW s \in Seeds, UpdatePassword(s) PROVE LedgerInv'
    BY <1>b, <2>2 DEF UpdatePassword
  <2>3. ASSUME NEW s \in Seeds, DeleteOldAdmin(s) PROVE LedgerInv'
    BY <2>3 DEF DeleteOldAdmin, Goto, LedgerInv, OpenReplaces, OtherEmail, ClientsEnded
  <2>4. ASSUME NEW s \in Seeds, ChooseClient(s) PROVE LedgerInv'
    BY <2>4, LedgerUntouched DEF ChooseClient
  <2>5. ASSUME NEW s \in Seeds, InsertAdmin(s) PROVE LedgerInv'
    BY <1>a, <1>b, <2>5 DEF InsertAdmin, Insert
  <2>6. ASSUME NEW s \in Seeds, CommitPassword(s) PROVE LedgerInv'
    BY <1>a, <2>6 DEF CommitPassword
  <2>7. ASSUME NEW s \in Seeds, CommitAdmin(s) PROVE LedgerInv'
    <3>1. clients' \cap AdminRequests = clients \cap AdminRequests BY <2>7 DEF CommitAdmin
    <3> QED BY <2>7, <3>1
        DEF CommitAdmin, Commit, Leave, LedgerInv, OpenReplaces, OtherEmail, ClientsEnded
  <2> QED BY <1>2, <2>1, <2>2, <2>3, <2>4, <2>5, <2>6, <2>7 DEF Seeding, SeedAdmin
<1>3. CASE Administering
  <2>1. ASSUME NEW h \in AdminRequests, CreateClient(h) PROVE LedgerInv'
    BY <2>1 DEF CreateClient, Goto, LedgerInv, OpenReplaces, OtherEmail, ClientsEnded
  <2>2. ASSUME NEW h \in AdminRequests, Authorize(h) \/ CreateInvite(h) \/ Refuse(h)
        PROVE  LedgerInv'
    BY <1>b, <2>2 DEF Authorize, CreateInvite, Refuse
  <2> QED BY <1>3, <2>1, <2>2 DEF Administering, Administer
<1>4. CASE Aborting BY <1>4, <1>a DEF Aborting, Abort
<1>5. CASE Expiring BY <1>5, LedgerUntouched DEF Expiring, InviteExpires, OpenReplaces
<1>6. CASE UNCHANGED vars BY <1>6, LedgerUntouched DEF vars, OpenReplaces
<1> QED BY <1>1, <1>2, <1>3, <1>4, <1>5, <1>6, NextActs

LEMMA ServedInvariant == Spec => []ServedInv
<1>1. Init => ServedInv
  BY TypeInit, AdminInit, ClientsInit, LedgerInit DEF ServedInv
<1>2. ServedInv /\ [Next]_vars => ServedInv'
  BY RequestsStep, RowsStep, HeldStep, AdminStep, ClientsStep, LedgerStep DEF ServedInv, TypeInv, TypeOK
<1> QED BY <1>1, <1>2, PTL DEF Spec

-----------------------------------------------------------------------------
(* Each commit is a step of the ledger. *)

LEMMA SameUsers == Committed!Users = Users /\ Committed!Admins = ActiveAdmins
BY DEF Committed!Users, Committed!Admins, ActiveAdmins

\* An e-mail no active user has is free.
LEMMA IsFree ==
    ASSUME NEW e, \A u \in Users : user[u] = "active" => email[u] # e
    PROVE  Committed!Free(e)
BY SameUsers DEF Committed!Free

\* A user's row appears, and those in leaving are marked deleted.
LEMMA Enters ==
    ASSUME TypeOK, NEW u \in Users, user[u] = "none", UNCHANGED email,
           \A v \in Users : user[v] = "active" => email[v] # email[u],
           NEW leaving \in SUBSET Users, \A v \in leaving : user[v] # "none",
           user' = [v \in Users |-> IF v = u THEN "active"
                                    ELSE IF v \in leaving THEN "deleted" ELSE user[v]]
    PROVE  Committed!Enter(u, email[u], leaving)
<1>1. Committed!Free(email[u]) BY IsFree
<1> QED BY <1>1, SameUsers DEF Committed!Enter

LEMMA UserImplements ==
    ASSUME ServedInv, NEW q \in Registrations, CommitUser(q)
    PROVE  \E e \in Emails, i \in Codes : Committed!Register(q, e, i)
<1> USE DEF ServedInv, TypeInv, TypeOK
<1>1. /\ pc[q] = "inserted" /\ user[q] = "none" /\ old[q] = Nobody
      /\ email[q] \in Emails /\ code[q] \in Codes
  BY DEF CommitUser, RequestsOK, RowsOK
<1>2. PICK e \in Emails, i \in Codes : e = email[q] /\ i = code[q] BY <1>1
<1>3. \A v \in Users : user[v] = "active" => email[v] # email[q]
  BY <1>1 DEF AdminInv, InsertedEmails
<1>4. user' = [v \in Users |-> IF v = q THEN "active"
                               ELSE IF v \in {} THEN "deleted" ELSE user[v]]
  BY DEF CommitUser, RowsOK
<1>5. Committed!Enter(q, e, {})
  BY <1>1, <1>2, <1>3, <1>4, Enters DEF CommitUser, Commit
<1>6. /\ used[i] < maxUses[i] /\ used[i] \in Int /\ maxUses[i] \in Int
      /\ UNCHANGED <<clients, maxUses>>
      /\ \A c \in Codes : used'[c] = IF c = i THEN used[i] + 1 ELSE used[c]
  BY <1>1, <1>2 DEF CommitUser, HeldInvites, RowsOK
<1>7. [c \in Codes |-> maxUses'[c] - used'[c]]
      = [[c \in Codes |-> maxUses[c] - used[c]] EXCEPT ![i] = @ - 1]
  <2>1. \A c \in Codes : maxUses'[c] - used'[c]
                         = IF c = i THEN maxUses[i] - used[i] - 1 ELSE maxUses[c] - used[c]
    BY <1>6
  <2> QED BY <2>1
<1>8. Committed!Register(q, e, i) BY <1>5, <1>6, <1>7 DEF Committed!Register
<1> QED BY <1>8

\* An administrator that replaces none is the first, and so is its client; one
\* that replaces another replaces the one there is.
LEMMA AdminImplements ==
    ASSUME ServedInv, NEW s \in Seeds, CommitAdmin(s)
    PROVE  \E e \in Emails : \/ Committed!SeedFirst(s, e)
                            \/ \E a \in Seeds : Committed!Replace(s, a, e)
<1> USE DEF ServedInv, TypeInv, TypeOK
<1>1. /\ pc[s] = "inserted" /\ user[s] = "none" /\ email[s] \in Emails
      /\ old[s] \in Seeds \cup {Nobody}
  BY DEF CommitAdmin, RequestsOK, RowsOK
<1>2. PICK e \in Emails : e = email[s] BY <1>1
<1>3. \A a \in ActiveAdmins : a = old[s] BY <1>1 DEF AdminInv, InsertedAlone
<1>4. \A v \in Users : v # old[s] /\ user[v] = "active" => email[v] # email[s]
  BY <1>1 DEF AdminInv, InsertedEmails
<1>5. CASE old[s] = Nobody
  <2>1. ActiveAdmins = {} BY <1>3, <1>5 DEF ActiveAdmins
  <2>2. clients = {} /\ brings[s] BY <1>1, <2>1 DEF ClientsWithAdmin
  <2>3. user' = [v \in Users |-> IF v = s THEN "active"
                                 ELSE IF v \in {} THEN "deleted" ELSE user[v]]
    BY <1>5 DEF CommitAdmin
  <2>4. \A v \in Users : user[v] = "active" => email[v] # email[s]
    BY <1>4, <1>5
  <2>5. Committed!Enter(s, e, {})
    BY <1>1, <1>2, <2>3, <2>4, Enters DEF CommitAdmin, Commit
  <2>6. clients' = {s} /\ UNCHANGED inviteVars BY <2>2 DEF CommitAdmin
  <2>7. Committed!SeedFirst(s, e)
    BY <2>1, <2>2, <2>5, <2>6, SameUsers DEF Committed!SeedFirst
  <2> QED BY <2>7
<1>6. CASE old[s] # Nobody
  <2>1. PICK a \in Seeds : a = old[s] BY <1>1, <1>6
  <2>2. clients # {} /\ ~brings[s] BY <1>6 DEF ClientsWithAdmin
  <2>3. ActiveAdmins = {a} BY <1>3, <2>1, <2>2 DEF ClientsWithAdmin
  <2>4. user' = [v \in Users |-> IF v = s THEN "active"
                                 ELSE IF v \in {a} THEN "deleted" ELSE user[v]]
    BY <2>1 DEF CommitAdmin
  <2>5. \A v \in Users : user[v] = "active" => email[v] # email[s]
    BY <1>1, <1>4, <1>6 DEF LedgerInv, OtherEmail
  <2>6. user[a] # "none" BY <2>3 DEF ActiveAdmins
  <2>7. Committed!Enter(s, e, {a})
    BY <1>1, <1>2, <2>4, <2>5, <2>6, Enters DEF CommitAdmin, Commit
  <2>8. UNCHANGED <<clients, inviteVars>> BY <2>2 DEF CommitAdmin
  <2>9. Committed!Replace(s, a, e) BY <2>3, <2>7, <2>8, SameUsers DEF Committed!Replace
  <2> QED BY <2>9
<1> QED BY <1>5, <1>6

\* Rows keep their e-mails, so users that do not change do not either.
LEMMA RowsKept ==
    ASSUME UNCHANGED user, \A u \in Users : user[u] # "none" => email'[u] = email[u]
    PROVE  [u \in Users |-> IF user'[u] = "none" THEN Blank ELSE email'[u]]
           = [u \in Users |-> IF user[u] = "none" THEN Blank ELSE email[u]]
OBVIOUS

LEMMA ClientImplements ==
    ASSUME ServedInv, NEW h \in AdminRequests, CreateClient(h)
    PROVE  Committed!AddClient(h)
<1>1. ActiveAdmins # {} /\ h \notin clients
  BY DEF CreateClient, ServedInv, ClientsWithAdmin, LedgerInv, ClientsEnded
<1> QED BY <1>1, SameUsers DEF CreateClient, Goto, Committed!AddClient

LEMMA InviteImplements ==
    ASSUME ServedInv, InvitesBalance, NEW h \in AdminRequests, CreateInvite(h)
    PROVE  \E i \in Codes, n \in 1..MaxUses : Committed!Issue(i, n)
<1> USE DEF ServedInv, TypeInv, TypeOK
<1>1. PICK i \in Codes, n \in 1..MaxUses :
          maxUses[i] = 0 /\ maxUses' = [maxUses EXCEPT ![i] = n]
  BY DEF CreateInvite
<1>2. ActiveAdmins # {} /\ clients # {} BY DEF CreateInvite, ClientsWithAdmin
<1>3. /\ maxUses \in [Codes -> Nat] /\ used \in [Codes -> Nat] /\ n \in Nat \ {0}
      /\ used[i] = 0
  BY <1>1 DEF RowsOK, InvitesBalance
<1>4. {c \in Codes : maxUses'[c] > 0} = {c \in Codes : maxUses[c] > 0} \cup {i}
  BY <1>1, <1>3
<1>5. [c \in Codes |-> maxUses'[c] - used[c]]
      = [[c \in Codes |-> maxUses[c] - used[c]] EXCEPT ![i] = n]
  <2>1. \A c \in Codes : maxUses'[c] - used[c] = IF c = i THEN n ELSE maxUses[c] - used[c]
    BY <1>1, <1>3
  <2> QED BY <2>1
<1>6. Committed!Issue(i, n)
  BY <1>1, <1>2, <1>4, <1>5, SameUsers DEF CreateInvite, Goto, Committed!Issue
<1> QED BY <1>6

-----------------------------------------------------------------------------
(* Everything else is invisible. *)

Shown == <<user, clients, maxUses, used>>

LEMMA Invisible ==
    ASSUME UNCHANGED Shown, \A u \in Users : user[u] # "none" => email'[u] = email[u]
    PROVE  UNCHANGED Committed!vars
BY RowsKept DEF Shown, Committed!vars

LEMMA StepImplements ==
    ASSUME ServedInv, InvitesBalance, [Next]_vars
    PROVE  [Committed!Next]_(Committed!vars)
<1> USE DEF ServedInv, TypeInv, TypeOK
<1>0. RequestsOK /\ \A u \in Users : user[u] # "none" <=> pc[u] = "done" BY DEF RowsOK
<1> USE <1>0 DEF RequestsOK, inviteVars, Shown
<1>a. ASSUME NEW u \in Users, pc[u] # "done", Rollback(u), UNCHANGED Shown
      PROVE  UNCHANGED Committed!vars
  BY <1>a, Invisible DEF Rollback
<1>b. ASSUME NEW u \in Requests, NEW place, Goto(u, place), UNCHANGED Shown
      PROVE  UNCHANGED Committed!vars
  BY <1>b, Invisible DEF Goto
<1>1. CASE Registering
  <2>1. ASSUME NEW q \in Registrations, NEW e \in Emails, NEW i \in Codes, BeginRegister(q, e, i)
        PROVE  UNCHANGED Committed!vars
    BY <2>1, Invisible DEF BeginRegister
  <2>2. ASSUME NEW q \in Registrations, ConsumeInvite(q) \/ InsertUser(q)
        PROVE  UNCHANGED Committed!vars
    BY <1>a, <1>b, <2>2 DEF ConsumeInvite, InsertUser, Insert
  <2>3. ASSUME NEW q \in Registrations, CommitUser(q) PROVE [Committed!Next]_(Committed!vars)
    BY <2>3, UserImplements DEF Committed!Next
  <2> QED BY <1>1, <2>1, <2>2, <2>3 DEF Registering, Register
<1>2. CASE Seeding
  <2>1. ASSUME NEW s \in Seeds, NEW e \in Emails, SelectAdmin(s, e)
        PROVE  UNCHANGED Committed!vars
    BY <2>1, Invisible DEF SelectAdmin
  <2>2. ASSUME NEW s \in Seeds, ChooseClient(s) PROVE UNCHANGED Committed!vars
    BY <2>2, Invisible DEF ChooseClient
  <2>3. ASSUME NEW s \in Seeds,
               UpdatePassword(s) \/ DeleteOldAdmin(s) \/ InsertAdmin(s) \/ CommitPassword(s)
        PROVE  UNCHANGED Committed!vars
    BY <1>a, <1>b, <2>3 DEF UpdatePassword, DeleteOldAdmin, InsertAdmin, Insert, CommitPassword
  <2>4. ASSUME NEW s \in Seeds, CommitAdmin(s) PROVE [Committed!Next]_(Committed!vars)
    BY <2>4, AdminImplements DEF Committed!Next
  <2> QED BY <1>2, <2>1, <2>2, <2>3, <2>4 DEF Seeding, SeedAdmin
<1>3. CASE Administering
  <2>1. ASSUME NEW h \in AdminRequests, CreateClient(h) PROVE [Committed!Next]_(Committed!vars)
    BY <2>1, ClientImplements DEF Committed!Next
  <2>2. ASSUME NEW h \in AdminRequests, CreateInvite(h) PROVE [Committed!Next]_(Committed!vars)
    BY <2>2, InviteImplements DEF Committed!Next
  <2>3. ASSUME NEW h \in AdminRequests, Authorize(h) \/ Refuse(h)
        PROVE  UNCHANGED Committed!vars
    BY <1>b, <2>3 DEF Authorize, Refuse
  <2> QED BY <1>3, <2>1, <2>2, <2>3 DEF Administering, Administer
<1>4. CASE Aborting BY <1>4, <1>a DEF Aborting, Abort
<1>5. CASE Expiring BY <1>5, Invisible DEF Expiring, InviteExpires
<1>6. CASE UNCHANGED vars BY <1>6, Invisible DEF vars
<1> QED BY <1>1, <1>2, <1>3, <1>4, <1>5, <1>6, NextActs

\* Whatever requests run at once, wait for each other, clash and are rolled
\* back: what is committed came about one request after the other.
THEOREM AccountsImplementLedger == Spec => ImplementsLedger
<1>1. Init => Committed!Init
  BY SameUsers DEF Init, Committed!Init
<1>2. ServedInv /\ InvitesBalance /\ [Next]_vars => [Committed!Next]_(Committed!vars)
  BY StepImplements
<1> QED BY <1>1, <1>2, ServedInvariant, InvitesBalanced, PTL DEF Spec, Committed!Spec, ImplementsLedger
=============================================================================
