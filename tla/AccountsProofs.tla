--------------------------- MODULE AccountsProofs ---------------------------
(***************************************************************************)
(* Proofs about the accounts, for any number of registrations, runs of     *)
(* seed-admin, e-mails, invites and uses.                                  *)
(***************************************************************************)
EXTENDS AccountsProperties, FiniteSetTheorems, TLAPS

USE RequestsDiffer, MaxUsesAssumption
USE DEF requestVars, inviteVars, Users, Requests

\* The actions, by who takes them; a rollback is the end of each that fails.
Registering == \E q \in Registrations : Register(q) \/ \E e \in Emails, i \in Codes : BeginRegister(q, e, i)
Seeding == \E s \in Seeds : SeedAdmin(s) \/ \E e \in Emails : SelectAdmin(s, e)
Administering == \E h \in AdminRequests : Authorize(h) \/ Administer(h)
Aborting == \E u \in Users : Abort(u)
Expiring == \E i \in Codes : InviteExpires(i)

LEMMA NextActs ==
    [Next]_vars <=> Registering \/ Seeding \/ Administering \/ Aborting \/ Expiring \/ UNCHANGED vars
BY DEF Next, Registering, Seeding, Administering, Aborting, Expiring

-----------------------------------------------------------------------------
(* Types *)

TypeInv == TypeOK /\ HeldInvites

LEMMA TypeInit == Init => TypeInv
BY DEF Init, TypeInv, TypeOK, PlacesOK, RequestsOK, RowsOK, HeldInvites

LEMMA RollbackTypes ==
    ASSUME TypeOK, NEW u \in Users, Rollback(u)
    PROVE  PlacesOK' /\ RequestsOK'
BY DEF TypeOK, PlacesOK, RequestsOK, Rollback, Leave

LEMMA RequestsStep == ASSUME TypeOK, [Next]_vars PROVE PlacesOK' /\ RequestsOK'
<1> USE DEF TypeOK, PlacesOK, RequestsOK
<1>1. CASE Registering
  <2>1. ASSUME NEW q \in Registrations, NEW e \in Emails, NEW i \in Codes, BeginRegister(q, e, i)
        PROVE  PlacesOK' /\ RequestsOK'
    BY <2>1 DEF BeginRegister
  <2>2. ASSUME NEW q \in Registrations, ConsumeInvite(q) PROVE PlacesOK' /\ RequestsOK'
    BY <2>2, RollbackTypes DEF ConsumeInvite, Goto
  <2>3. ASSUME NEW q \in Registrations, InsertUser(q) PROVE PlacesOK' /\ RequestsOK'
    BY <2>3, RollbackTypes DEF InsertUser, Insert, Goto
  <2>4. ASSUME NEW q \in Registrations, CommitUser(q) PROVE PlacesOK' /\ RequestsOK'
    BY <2>4 DEF CommitUser, Commit, Leave
  <2> QED BY <1>1, <2>1, <2>2, <2>3, <2>4 DEF Registering, Register
<1>2. CASE Seeding
  <2>1. ASSUME NEW s \in Seeds, NEW e \in Emails, SelectAdmin(s, e) PROVE PlacesOK' /\ RequestsOK'
    BY <2>1 DEF SelectAdmin, ActiveAdmins
  <2>2. ASSUME NEW s \in Seeds, UpdatePassword(s) \/ DeleteOldAdmin(s) PROVE PlacesOK' /\ RequestsOK'
    BY <2>2 DEF UpdatePassword, DeleteOldAdmin, Goto
  <2>3. ASSUME NEW s \in Seeds, ChooseClient(s) PROVE PlacesOK' /\ RequestsOK'
    BY <2>3 DEF ChooseClient
  <2>4. ASSUME NEW s \in Seeds, InsertAdmin(s) PROVE PlacesOK' /\ RequestsOK'
    BY <2>4, RollbackTypes DEF InsertAdmin, Insert, Goto
  <2>5. ASSUME NEW s \in Seeds, CommitPassword(s) PROVE PlacesOK' /\ RequestsOK'
    BY <2>5, RollbackTypes DEF CommitPassword
  <2>6. ASSUME NEW s \in Seeds, CommitAdmin(s) PROVE PlacesOK' /\ RequestsOK'
    BY <2>6 DEF CommitAdmin, Commit, Leave
  <2> QED BY <1>2, <2>1, <2>2, <2>3, <2>4, <2>5, <2>6 DEF Seeding, SeedAdmin
<1>3. CASE Administering
  BY <1>3 DEF Administering, Authorize, Administer, CreateClient, CreateInvite, Refuse, Goto
<1>4. CASE Aborting BY <1>4, RollbackTypes DEF Aborting, Abort
<1>5. CASE Expiring BY <1>5 DEF Expiring, InviteExpires
<1>6. CASE UNCHANGED vars BY <1>6 DEF vars
<1> QED BY <1>1, <1>2, <1>3, <1>4, <1>5, <1>6, NextActs

LEMMA RowsStep == ASSUME TypeInv, [Next]_vars PROVE RowsOK'
<1> USE DEF TypeInv, TypeOK, RowsOK
<1>0. PlacesOK /\ RequestsOK OBVIOUS
<1>1. CASE Registering
  <2> USE DEF PlacesOK, RequestsOK
  <2>1. ASSUME NEW q \in Registrations, NEW e \in Emails, NEW i \in Codes, BeginRegister(q, e, i)
        PROVE  RowsOK'
    BY <1>0, <2>1 DEF BeginRegister
  <2>2. ASSUME NEW q \in Registrations, ConsumeInvite(q) PROVE RowsOK'
    BY <1>0, <2>2 DEF ConsumeInvite, Goto, Rollback, Leave
  <2>3. ASSUME NEW q \in Registrations, InsertUser(q) PROVE RowsOK'
    BY <1>0, <2>3 DEF InsertUser, Insert, Goto, Rollback, Leave
  <2>4. ASSUME NEW q \in Registrations, CommitUser(q) PROVE RowsOK'
    <3>1. code[q] \in Codes BY <1>0, <2>4 DEF CommitUser
    <3>2. used[code[q]] < maxUses[code[q]] BY <2>4 DEF CommitUser, HeldInvites
    <3>3. used' \in [Codes -> 0..MaxUses] BY <2>4, <3>1, <3>2 DEF CommitUser
    <3> QED BY <1>0, <2>4, <3>3 DEF CommitUser, Commit, Leave
  <2> QED BY <1>1, <2>1, <2>2, <2>3, <2>4 DEF Registering, Register
<1>2. CASE Seeding
  <2> USE DEF PlacesOK, RequestsOK
  <2>1. ASSUME NEW s \in Seeds, NEW e \in Emails, SelectAdmin(s, e) PROVE RowsOK'
    BY <1>0, <2>1 DEF SelectAdmin, ActiveAdmins
  <2>2. ASSUME NEW s \in Seeds, UpdatePassword(s) \/ DeleteOldAdmin(s) PROVE RowsOK'
    BY <1>0, <2>2 DEF UpdatePassword, DeleteOldAdmin, Goto
  <2>3. ASSUME NEW s \in Seeds, ChooseClient(s) PROVE RowsOK'
    BY <1>0, <2>3 DEF ChooseClient
  <2>4. ASSUME NEW s \in Seeds, InsertAdmin(s) PROVE RowsOK'
    BY <1>0, <2>4 DEF InsertAdmin, Insert, Goto, Rollback, Leave
  <2>5. ASSUME NEW s \in Seeds, CommitPassword(s) PROVE RowsOK'
    BY <1>0, <2>5 DEF CommitPassword, Rollback, Leave
  <2>6. ASSUME NEW s \in Seeds, CommitAdmin(s) PROVE RowsOK'
    <3>1. /\ pc' = [pc EXCEPT ![s] = "done"] /\ pc[s] = "inserted"
          /\ old' = [old EXCEPT ![s] = Nobody]
      BY <2>6 DEF CommitAdmin, Commit, Leave
    <3>2. \A u \in Users : /\ user'[u] # "none" <=> user[u] # "none" \/ u = s
                           /\ user'[u] \in {"none", "active", "deleted"}
      BY <2>6 DEF CommitAdmin
    <3>3. user' \in [Users -> {"none", "active", "deleted"}]
      BY <2>6, <3>2 DEF CommitAdmin
    <3>4. \A u \in Users : old'[u] # Nobody => user'[old'[u]] # "none"
      BY <3>1, <3>2
    <3>5. \A u \in Users : user'[u] # "none" <=> pc'[u] = "done"
      BY <3>1, <3>2
    <3>6. /\ clients' \subseteq Seeds \cup AdminRequests
          /\ UNCHANGED <<maxUses, used, expired>>
      BY <2>6 DEF CommitAdmin
    <3> QED BY <3>3, <3>4, <3>5, <3>6
  <2> QED BY <1>2, <2>1, <2>2, <2>3, <2>4, <2>5, <2>6 DEF Seeding, SeedAdmin
<1>3. CASE Administering
  BY <1>0, <1>3 DEF Administering, Authorize, Administer, CreateClient, CreateInvite, Refuse, Goto,
                    PlacesOK, RequestsOK
<1>4. CASE Aborting BY <1>0, <1>4 DEF Aborting, Abort, Rollback, Leave, PlacesOK, RequestsOK
<1>5. CASE Expiring BY <1>5 DEF Expiring, InviteExpires
<1>6. CASE UNCHANGED vars BY <1>6 DEF vars
<1> QED BY <1>1, <1>2, <1>3, <1>4, <1>5, <1>6, NextActs

-----------------------------------------------------------------------------
(* Invites *)

Consuming(q) == pc[q] \in {"consumed", "inserted"}

\* What a step that leaves the registrations' places alone cannot disturb.
LEMMA HeldUntouched ==
    ASSUME HeldInvites, UNCHANGED used,
           \A i \in Codes : maxUses'[i] >= maxUses[i],
           maxUses \in [Codes -> Nat], used \in [Codes -> Nat], maxUses' \in [Codes -> Nat],
           \A q \in Registrations : Consuming(q)' =>
               Consuming(q) /\ code'[q] = code[q] /\ code[q] \in Codes
    PROVE  HeldInvites'
BY DEF HeldInvites, Consuming

LEMMA HeldStep == ASSUME TypeInv, [Next]_vars PROVE HeldInvites'
<1> USE DEF TypeInv, TypeOK
<1>0. /\ maxUses \in [Codes -> Nat] /\ used \in [Codes -> Nat]
      /\ PlacesOK /\ RequestsOK
      /\ \A q \in Registrations : Consuming(q) => code[q] \in Codes
  BY DEF RowsOK, RequestsOK, PlacesOK, Consuming
<1>1. CASE Registering
  <2> USE <1>0 DEF RequestsOK
  <2>1. ASSUME NEW q \in Registrations, NEW e \in Emails, NEW i \in Codes, BeginRegister(q, e, i)
        PROVE  HeldInvites'
    BY <2>1, HeldUntouched DEF BeginRegister, Consuming
  <2>2. ASSUME NEW q \in Registrations, Rollback(q), UNCHANGED <<user, clients, inviteVars>>
        PROVE  HeldInvites'
    BY <2>2, HeldUntouched DEF Rollback, Leave, Consuming
  <2>3. ASSUME NEW q \in Registrations, ConsumeInvite(q), Goto(q, "consumed")
        PROVE  HeldInvites'
    <3>1. UsableInvite(q) BY <2>3 DEF ConsumeInvite, Goto, Rollback, Leave, PlacesOK
    <3>2. used[code[q]] < maxUses[code[q]] BY <3>1 DEF UsableInvite
    <3>3. \A p \in Registrations \ {q} : Consuming(p) => code[p] # code[q]
      BY <2>3 DEF ConsumeInvite, InviteLocked, Consuming
    <3>4. /\ \A p \in Registrations : Consuming(p)' <=> Consuming(p) \/ p = q
          /\ UNCHANGED <<code, used, maxUses>>
      BY <2>3 DEF ConsumeInvite, Goto, Consuming
    <3> QED BY <3>2, <3>3, <3>4 DEF HeldInvites, Consuming
  <2>4. ASSUME NEW q \in Registrations, InsertUser(q), Goto(q, "inserted")
        PROVE  HeldInvites'
    BY <2>4, HeldUntouched DEF InsertUser, Insert, Goto, Consuming
  <2>5. ASSUME NEW q \in Registrations, CommitUser(q) PROVE HeldInvites'
    <3>1. /\ \A p \in Registrations : Consuming(p)' <=> Consuming(p) /\ p # q
          /\ UNCHANGED <<code, maxUses>>
          /\ Consuming(q)
      BY <2>5 DEF CommitUser, Commit, Leave, Consuming
    <3>2. \A p \in Registrations : Consuming(p) /\ p # q => code[p] # code[q]
      BY <3>1 DEF HeldInvites, Consuming
    <3>3. \A i \in Codes : i # code[q] => used'[i] = used[i]
      BY <2>5, <3>1 DEF CommitUser
    <3> QED BY <3>1, <3>2, <3>3 DEF HeldInvites, Consuming
  <2> QED BY <1>1, <2>1, <2>2, <2>3, <2>4, <2>5
      DEF Registering, Register, ConsumeInvite, InsertUser, Insert
<1>2. CASE Seeding
  <2>1. ASSUME NEW s \in Seeds, Rollback(s), UNCHANGED <<user, clients, inviteVars>>
        PROVE  HeldInvites'
    BY <1>0, <2>1, HeldUntouched DEF Rollback, Leave, Consuming, RequestsOK
  <2>2. ASSUME NEW s \in Seeds, CommitAdmin(s) PROVE HeldInvites'
    BY <1>0, <2>2, HeldUntouched DEF CommitAdmin, Commit, Leave, Consuming, RequestsOK
  <2>3. ASSUME NEW s \in Seeds, NEW e \in Emails, SelectAdmin(s, e) PROVE HeldInvites'
    BY <1>0, <2>3, HeldUntouched DEF SelectAdmin, Consuming, RequestsOK
  <2>4. ASSUME NEW s \in Seeds, NEW place, Goto(s, place), UNCHANGED <<user, clients, inviteVars>>
        PROVE  HeldInvites'
    BY <1>0, <2>4, HeldUntouched DEF Goto, Consuming, RequestsOK
  <2>5. ASSUME NEW s \in Seeds, ChooseClient(s) PROVE HeldInvites'
    BY <1>0, <2>5, HeldUntouched DEF ChooseClient, Consuming, RequestsOK
  <2> QED BY <1>2, <2>1, <2>2, <2>3, <2>4, <2>5
      DEF Seeding, SeedAdmin, UpdatePassword, DeleteOldAdmin, InsertAdmin, Insert, CommitPassword
<1>3. CASE Administering
  <2>1. ASSUME NEW h \in AdminRequests, NEW place, Goto(h, place), UNCHANGED inviteVars
        PROVE  HeldInvites'
    BY <1>0, <2>1, HeldUntouched DEF Goto, Consuming, RequestsOK
  <2>2. ASSUME NEW h \in AdminRequests, CreateInvite(h) PROVE HeldInvites'
    BY <1>0, <2>2, HeldUntouched DEF CreateInvite, Goto, Consuming, RequestsOK
  <2> QED BY <1>3, <2>1, <2>2 DEF Administering, Authorize, Administer, CreateClient, Refuse
<1>4. CASE Aborting
  <2>1. ASSUME NEW u \in Users, Abort(u) PROVE HeldInvites'
    BY <1>0, <2>1, HeldUntouched DEF Abort, Rollback, Leave, Consuming, RequestsOK
  <2> QED BY <1>4, <2>1 DEF Aborting
<1>5. CASE Expiring BY <1>0, <1>5, HeldUntouched DEF Expiring, InviteExpires, Consuming
<1>6. CASE UNCHANGED vars BY <1>0, <1>6, HeldUntouched DEF vars, Consuming
<1> QED BY <1>1, <1>2, <1>3, <1>4, <1>5, <1>6, NextActs

\* The types of the accounts' variables, with rows only of requests that have ended.
THEOREM AccountsTypeCorrect == Spec => []TypeOK
<1>1. TypeInv /\ [Next]_vars => TypeInv'
  BY RequestsStep, RowsStep, HeldStep DEF TypeInv, TypeOK
<1>2. TypeInv => TypeOK BY DEF TypeInv
<1> QED BY <1>1, <1>2, TypeInit, PTL DEF Spec

-----------------------------------------------------------------------------
(* Rows: only a commit or an insert can disturb what is said of them.      *)

Quiet ==
    /\ UNCHANGED <<user, used>>
    /\ \A i \in Codes : maxUses'[i] >= maxUses[i]
    /\ \A u \in Users : pc'[u] = "inserted" =>
          pc[u] = "inserted" /\ old'[u] = old[u] /\ email'[u] = email[u]
    /\ \A u \in Users : user[u] # "none" => email'[u] = email[u] /\ code'[u] = code[u]

InsertsRow(u) == pc[u] # "done" /\ Insert(u) /\ Goto(u, "inserted")

LEMMA Effects ==
    ASSUME TypeInv, [Next]_vars
    PROVE  \/ \E q \in Registrations : CommitUser(q)
           \/ \E s \in Seeds : CommitAdmin(s)
           \/ \E u \in Users : InsertsRow(u)
           \/ Quiet
<1> USE DEF TypeInv, TypeOK
<1>0. /\ maxUses \in [Codes -> Nat]
      /\ PlacesOK /\ RequestsOK
      /\ \A u \in Users : user[u] # "none" <=> pc[u] = "done"
  BY DEF RowsOK
<1> USE DEF RequestsOK
<1>a. ASSUME NEW u \in Users, Rollback(u), pc[u] # "done", UNCHANGED <<user, clients, inviteVars>>
      PROVE  Quiet
  BY <1>0, <1>a DEF Rollback, Leave, Quiet
<1>b. ASSUME NEW u \in Requests, NEW place, place # "inserted", Goto(u, place), UNCHANGED <<user, inviteVars>>
      PROVE  Quiet
  BY <1>0, <1>b DEF Goto, Quiet
<1>c. ASSUME NEW u \in Users, Insert(u), pc[u] # "done" PROVE InsertsRow(u) \/ Quiet
  BY <1>a, <1>c DEF Insert, InsertsRow
<1>1. CASE Registering
  <2>1. ASSUME NEW q \in Registrations, NEW e \in Emails, NEW i \in Codes, BeginRegister(q, e, i)
        PROVE  Quiet
    BY <1>0, <2>1 DEF BeginRegister, Quiet
  <2>2. ASSUME NEW q \in Registrations, ConsumeInvite(q) PROVE Quiet
    BY <1>a, <1>b, <2>2 DEF ConsumeInvite
  <2>3. ASSUME NEW q \in Registrations, InsertUser(q) PROVE InsertsRow(q) \/ Quiet
    BY <1>c, <2>3 DEF InsertUser
  <2> QED BY <1>1, <2>1, <2>2, <2>3 DEF Registering, Register
<1>2. CASE Seeding
  <2>1. ASSUME NEW s \in Seeds, NEW e \in Emails, SelectAdmin(s, e) PROVE Quiet
    BY <1>0, <2>1 DEF SelectAdmin, Quiet
  <2>2. ASSUME NEW s \in Seeds, UpdatePassword(s) \/ DeleteOldAdmin(s) PROVE Quiet
    BY <1>b, <2>2 DEF UpdatePassword, DeleteOldAdmin
  <2>3. ASSUME NEW s \in Seeds, ChooseClient(s) PROVE Quiet
    BY <1>0, <2>3 DEF ChooseClient, Quiet
  <2>4. ASSUME NEW s \in Seeds, InsertAdmin(s) PROVE InsertsRow(s) \/ Quiet
    BY <1>c, <2>4 DEF InsertAdmin
  <2>5. ASSUME NEW s \in Seeds, CommitPassword(s) PROVE Quiet
    BY <1>a, <2>5 DEF CommitPassword
  <2> QED BY <1>2, <2>1, <2>2, <2>3, <2>4, <2>5 DEF Seeding, SeedAdmin
<1>3. CASE Administering
  <2>1. ASSUME NEW h \in AdminRequests, CreateInvite(h) PROVE Quiet
    BY <1>0, <2>1 DEF CreateInvite, Goto, Quiet
  <2> QED BY <1>3, <1>b, <2>1 DEF Administering, Authorize, Administer, CreateClient, Refuse
<1>4. CASE Aborting BY <1>4, <1>a DEF Aborting, Abort
<1>5. CASE Expiring BY <1>0, <1>5 DEF Expiring, InviteExpires, Quiet
<1>6. CASE UNCHANGED vars BY <1>0, <1>6 DEF vars, Quiet
<1> QED BY <1>1, <1>2, <1>3, <1>4, <1>5, <1>6, NextActs

-----------------------------------------------------------------------------
(* Every use of an invite is a user. *)

LEMMA BalanceInit == Init => InvitesBalance
<1> SUFFICES ASSUME Init PROVE InvitesBalance OBVIOUS
<1>1. \A i \in Codes : RegisteredWith(i) = {} BY DEF Init, RegisteredWith
<1> QED BY <1>1, FS_EmptySet DEF Init, InvitesBalance

LEMMA BalanceStep ==
    ASSUME TypeInv, InvitesBalance, [Next]_vars
    PROVE  InvitesBalance'
<1> USE DEF TypeInv, TypeOK
<1>0. /\ maxUses \in [Codes -> Nat] /\ used \in [Codes -> Nat]
      /\ PlacesOK /\ RequestsOK
      /\ \A u \in Users : user[u] # "none" <=> pc[u] = "done"
  BY DEF RowsOK
<1>a. ASSUME UNCHANGED used, \A i \in Codes : maxUses'[i] >= maxUses[i],
             \A i \in Codes : RegisteredWith(i)' = RegisteredWith(i)
      PROVE  InvitesBalance'
  <2>1. maxUses' \in [Codes -> Nat] BY RowsStep DEF RowsOK
  <2> QED BY <1>0, <1>a, <2>1 DEF InvitesBalance
<1>1. ASSUME NEW q \in Registrations, CommitUser(q) PROVE InvitesBalance'
  <2>0. PICK c \in Codes : c = code[q]
    BY <1>0, <1>1 DEF CommitUser, RequestsOK
  <2>1. /\ q \notin RegisteredWith(c) /\ used[c] < maxUses[c]
    BY <1>0, <1>1, <2>0 DEF CommitUser, RegisteredWith, HeldInvites
  <2>2. RegisteredWith(c)' = RegisteredWith(c) \cup {q}
    BY <1>0, <1>1, <2>0 DEF CommitUser, Commit, Leave, RegisteredWith, RowsOK
  <2>3. \A i \in Codes \ {c} : RegisteredWith(i)' = RegisteredWith(i)
    BY <1>0, <1>1, <2>0 DEF CommitUser, Commit, Leave, RegisteredWith, RowsOK
  <2>4. Cardinality(RegisteredWith(c)') = Cardinality(RegisteredWith(c)) + 1
    <3>1. IsFiniteSet(RegisteredWith(c))
      BY RequestsFinite, FS_Subset DEF RegisteredWith
    <3> QED BY <2>1, <2>2, <3>1, FS_AddElement
  <2>5. used'[c] = used[c] + 1 /\ (\A i \in Codes \ {c} : used'[i] = used[i]) /\ UNCHANGED maxUses
    BY <1>0, <1>1, <2>0, <2>1 DEF CommitUser
  <2>6. ASSUME NEW i \in Codes
        PROVE  used'[i] = Cardinality(RegisteredWith(i)') /\ used'[i] <= maxUses'[i]
    <3>1. CASE i = c BY <1>0, <2>1, <2>4, <2>5, <3>1 DEF InvitesBalance
    <3>2. CASE i # c BY <1>0, <2>3, <2>5, <3>2 DEF InvitesBalance
    <3> QED BY <3>1, <3>2
  <2> QED BY <2>6 DEF InvitesBalance
<1>2. ASSUME NEW s \in Seeds, CommitAdmin(s) PROVE InvitesBalance'
  <2>1. \A q \in Registrations : user'[q] = user[q]
    BY <1>0, <1>2 DEF CommitAdmin, RequestsOK, RowsOK
  <2> QED BY <1>0, <1>2, <1>a, <2>1 DEF CommitAdmin, Commit, RegisteredWith
<1>3. ASSUME NEW u \in Users, InsertsRow(u) PROVE InvitesBalance'
  BY <1>0, <1>3, <1>a DEF InsertsRow, Insert, Goto, RegisteredWith
<1>4. CASE Quiet BY <1>4, <1>a DEF Quiet, RegisteredWith
<1> QED BY <1>1, <1>2, <1>3, <1>4, Effects

\* The uses of an invite are exactly the users registered with it, however
\* many registrations compete for the last one.
THEOREM InvitesBalanced == Spec => []InvitesBalance
<1>1. TypeInv /\ InvitesBalance /\ [Next]_vars => (TypeInv /\ InvitesBalance)'
  BY RequestsStep, RowsStep, HeldStep, BalanceStep DEF TypeInv, TypeOK
<1> QED BY <1>1, TypeInit, BalanceInit, PTL DEF Spec

-----------------------------------------------------------------------------
(* One administrator, and no e-mail twice. *)

LEMMA AdminInit == Init => AdminInv
BY DEF Init, AdminInv, InsertedAlone, InsertedEmails, SingleAdmin, ActiveEmailsDistinct, ActiveAdmins

LEMMA AdminStep ==
    ASSUME TypeInv, AdminInv, [Next]_vars
    PROVE  AdminInv'
<1> USE DEF TypeInv, TypeOK, AdminInv
<1>0. /\ user \in [Users -> {"none", "active", "deleted"}]
      /\ RequestsOK
      /\ \A u \in Users : user[u] # "none" <=> pc[u] = "done"
      /\ \A q \in Registrations : old[q] = Nobody
  BY DEF RowsOK, RequestsOK
<1> USE DEF ActiveAdmins
<1>1. ASSUME NEW q \in Registrations, CommitUser(q) PROVE AdminInv'
  <2>1. /\ pc[q] = "inserted" /\ pc' = [pc EXCEPT ![q] = "done"]
        /\ user' = [user EXCEPT ![q] = "active"]
        /\ old' = [old EXCEPT ![q] = Nobody] /\ UNCHANGED email
    BY <1>1 DEF CommitUser, Commit, Leave
  <2>2. InsertedAlone' BY <1>0, <2>1 DEF InsertedAlone, RequestsOK
  <2>3. InsertedEmails' BY <1>0, <2>1 DEF InsertedEmails, RequestsOK
  <2>4. SingleAdmin' BY <1>0, <2>1 DEF SingleAdmin
  <2>5. ActiveEmailsDistinct' BY <1>0, <2>1 DEF ActiveEmailsDistinct, InsertedEmails, RequestsOK
  <2> QED BY <2>2, <2>3, <2>4, <2>5
<1>2. ASSUME NEW s \in Seeds, CommitAdmin(s) PROVE AdminInv'
  <2>1. /\ pc[s] = "inserted" /\ pc' = [pc EXCEPT ![s] = "done"]
        /\ \A u \in Users : user'[u] = IF u = s THEN "active"
                                       ELSE IF u = old[s] THEN "deleted" ELSE user[u]
        /\ old' = [old EXCEPT ![s] = Nobody] /\ UNCHANGED email
    BY <1>2 DEF CommitAdmin, Commit, Leave
  <2>2. InsertedAlone' BY <1>0, <2>1 DEF InsertedAlone, RequestsOK
  <2>3. InsertedEmails' BY <1>0, <2>1 DEF InsertedEmails, RequestsOK
  <2>4. SingleAdmin' BY <1>0, <2>1 DEF SingleAdmin, InsertedAlone
  <2>5. ActiveEmailsDistinct' BY <1>0, <2>1 DEF ActiveEmailsDistinct, InsertedEmails, RequestsOK
  <2> QED BY <2>2, <2>3, <2>4, <2>5
<1>3. ASSUME NEW u \in Users, InsertsRow(u) PROVE AdminInv'
  <2>1. /\ pc' = [pc EXCEPT ![u] = "inserted"] /\ UNCHANGED <<user, old, email>>
        /\ ~InsertWaits(u) /\ user[u] # "active"
    BY <1>0, <1>3 DEF InsertsRow, Insert, Goto
  <2>2. Clashing(u) = {}
    <3>1. CASE Rollback(u)
      <4>1. pc' # pc' BY <1>0, <2>1, <3>1 DEF Rollback, Leave, RequestsOK
      <4> QED BY <4>1
    <3>2. CASE ~Rollback(u) BY <1>3, <3>2 DEF InsertsRow, Insert
    <3> QED BY <3>1, <3>2
  <2>3. \A v \in Users \ {u} : pc[v] = "inserted" => ~SameKey(u, v) /\ ~SameKey(v, u)
    BY <2>1 DEF InsertWaits, Inserting, SameKey
  <2>4. \A v \in Users \ {u, old[u]} : user[v] = "active" => ~SameKey(u, v)
    BY <2>2 DEF Clashing
  <2>5. InsertedAlone' BY <1>0, <2>1, <2>3, <2>4 DEF InsertedAlone, SameKey, RequestsOK, RowsOK
  <2>6. InsertedEmails' BY <1>0, <2>1, <2>3, <2>4 DEF InsertedEmails, SameKey, RequestsOK
  <2>7. SingleAdmin' BY <2>1 DEF SingleAdmin
  <2>8. ActiveEmailsDistinct' BY <2>1 DEF ActiveEmailsDistinct
  <2> QED BY <2>5, <2>6, <2>7, <2>8
<1>4. CASE Quiet
  BY <1>0, <1>4 DEF Quiet, InsertedAlone, InsertedEmails, SingleAdmin, ActiveEmailsDistinct
<1> QED BY <1>1, <1>2, <1>3, <1>4, Effects

LEMMA AccountsInvariant == Spec => [](TypeInv /\ AdminInv)
<1>1. TypeInv /\ AdminInv /\ [Next]_vars => (TypeInv /\ AdminInv)'
  BY RequestsStep, RowsStep, HeldStep, AdminStep DEF TypeInv, TypeOK
<1> QED BY <1>1, TypeInit, AdminInit, PTL DEF Spec

\* Of any number of concurrent runs of seed-admin one at most leaves an active
\* administrator.
THEOREM AdminIsSingle == Spec => []SingleAdmin
<1>1. AdminInv => SingleAdmin BY DEF AdminInv
<1> QED BY <1>1, AccountsInvariant, PTL

\* No two active users, registered or seeded, share an e-mail.
THEOREM EmailsAreDistinct == Spec => []ActiveEmailsDistinct
<1>1. AdminInv => ActiveEmailsDistinct BY DEF AdminInv
<1> QED BY <1>1, AccountsInvariant, PTL

\* A system with an administrator is never again without one.
THEOREM AdminIsKept == Spec => AdminKept
<1>1. TypeInv /\ [Next]_vars => [ActiveAdmins # {} => ActiveAdmins' # {}]_vars
  <2> SUFFICES ASSUME TypeInv, [Next]_vars, ActiveAdmins # {}
               PROVE  ActiveAdmins' # {}
    OBVIOUS
  <2>0. user \in [Users -> {"none", "active", "deleted"}] BY DEF TypeInv, TypeOK, RowsOK
  <2>1. ASSUME NEW q \in Registrations, CommitUser(q) PROVE ActiveAdmins' # {}
    BY <2>0, <2>1 DEF CommitUser, ActiveAdmins
  <2>2. ASSUME NEW s \in Seeds, CommitAdmin(s) PROVE ActiveAdmins' # {}
    BY <2>2 DEF CommitAdmin, ActiveAdmins
  <2>3. ASSUME NEW u \in Users, InsertsRow(u) PROVE ActiveAdmins' # {}
    BY <2>3 DEF InsertsRow, Insert, ActiveAdmins
  <2>4. CASE Quiet BY <2>4 DEF Quiet, ActiveAdmins
  <2> QED BY <2>1, <2>2, <2>3, <2>4, Effects
<1>2. Spec => []TypeInv BY AccountsInvariant, PTL
<1> QED BY <1>1, <1>2, PTL DEF Spec, AdminKept

-----------------------------------------------------------------------------
(* One base client *)

LEMMA ClientsInit == Init => ClientsWithAdmin /\ OneBaseClient
BY DEF Init, ClientsWithAdmin, OneBaseClient, ActiveAdmins

\* What a step that touches neither clients nor administrators must leave.
LEMMA ClientsUntouched ==
    ASSUME ClientsWithAdmin, OneBaseClient, UNCHANGED clients, ActiveAdmins' = ActiveAdmins,
           \A h \in AdminRequests : pc'[h] = "authorized" =>
               pc[h] = "authorized" \/ ActiveAdmins # {},
           \A s \in Seeds :
               /\ brings'[s] => old'[s] = Nobody
               /\ old'[s] # Nobody => clients # {}
               /\ pc'[s] \in {"chosen", "inserted"} /\ ~brings'[s] => clients # {}
    PROVE  ClientsWithAdmin' /\ OneBaseClient'
BY DEF ClientsWithAdmin, OneBaseClient

LEMMA ClientsStep ==
    ASSUME TypeInv, AdminInv, ClientsWithAdmin, OneBaseClient, [Next]_vars
    PROVE  ClientsWithAdmin' /\ OneBaseClient'
<1> USE DEF TypeInv, TypeOK
<1>0. /\ user \in [Users -> {"none", "active", "deleted"}]
      /\ RequestsOK
  BY DEF RowsOK
<1> USE <1>0 DEF RequestsOK
<1>a. ASSUME NEW u \in Users, Rollback(u), UNCHANGED <<user, clients>>
      PROVE  ClientsWithAdmin' /\ OneBaseClient'
  BY <1>a, ClientsUntouched DEF Rollback, Leave, ActiveAdmins, ClientsWithAdmin
<1>b. ASSUME NEW u \in Requests, NEW place, Goto(u, place), UNCHANGED <<user, clients>>,
             place = "authorized" => ActiveAdmins # {},
             place \in {"chosen", "inserted"} => u \notin Seeds \/ pc[u] = "chosen"
      PROVE  ClientsWithAdmin' /\ OneBaseClient'
  BY <1>b, ClientsUntouched DEF Goto, ActiveAdmins, ClientsWithAdmin
<1>1. CASE Registering
  <2>1. ASSUME NEW q \in Registrations, NEW e \in Emails, NEW i \in Codes, BeginRegister(q, e, i)
        PROVE  ClientsWithAdmin' /\ OneBaseClient'
    BY <2>1, ClientsUntouched DEF BeginRegister, ActiveAdmins, ClientsWithAdmin
  <2>2. ASSUME NEW q \in Registrations, ConsumeInvite(q) PROVE ClientsWithAdmin' /\ OneBaseClient'
    BY <1>a, <1>b, <2>2 DEF ConsumeInvite
  <2>3. ASSUME NEW q \in Registrations, InsertUser(q) PROVE ClientsWithAdmin' /\ OneBaseClient'
    BY <1>a, <1>b, <2>3 DEF InsertUser, Insert
  <2>4. ASSUME NEW q \in Registrations, CommitUser(q) PROVE ClientsWithAdmin' /\ OneBaseClient'
    BY <2>4, ClientsUntouched DEF CommitUser, Commit, Leave, ActiveAdmins, ClientsWithAdmin
  <2> QED BY <1>1, <2>1, <2>2, <2>3, <2>4 DEF Registering, Register
<1>2. CASE Seeding
  <2>1. ASSUME NEW s \in Seeds, NEW e \in Emails, SelectAdmin(s, e)
        PROVE  ClientsWithAdmin' /\ OneBaseClient'
    <3>1. brings[s] = FALSE BY <2>1 DEF SelectAdmin
    <3> QED BY <2>1, <3>1, ClientsUntouched DEF SelectAdmin, ActiveAdmins, ClientsWithAdmin
  <2>2. ASSUME NEW s \in Seeds, UpdatePassword(s) \/ DeleteOldAdmin(s)
        PROVE  ClientsWithAdmin' /\ OneBaseClient'
    BY <1>b, <2>2 DEF UpdatePassword, DeleteOldAdmin
  <2>3. ASSUME NEW s \in Seeds, ChooseClient(s) PROVE ClientsWithAdmin' /\ OneBaseClient'
    BY <2>3, ClientsUntouched DEF ChooseClient, ActiveAdmins, ClientsWithAdmin
  <2>4. ASSUME NEW s \in Seeds, InsertAdmin(s) PROVE ClientsWithAdmin' /\ OneBaseClient'
    BY <1>a, <1>b, <2>4 DEF InsertAdmin, Insert
  <2>5. ASSUME NEW s \in Seeds, CommitPassword(s) PROVE ClientsWithAdmin' /\ OneBaseClient'
    BY <1>a, <2>5 DEF CommitPassword
  <2>6. ASSUME NEW s \in Seeds, CommitAdmin(s) PROVE ClientsWithAdmin' /\ OneBaseClient'
    <3>1. /\ pc[s] = "inserted" /\ s \in ActiveAdmins'
          /\ pc' = [pc EXCEPT ![s] = "done"]
          /\ old' = [old EXCEPT ![s] = Nobody] /\ brings' = [brings EXCEPT ![s] = FALSE]
          /\ clients' = IF brings[s] THEN clients \cup {s} ELSE clients
      BY <2>6 DEF CommitAdmin, Commit, Leave, ActiveAdmins
    <3>2. brings[s] => clients = {}
      BY <3>1 DEF ClientsWithAdmin, AdminInv, InsertedAlone, ActiveAdmins
    <3>3. clients' # {} BY <3>1 DEF ClientsWithAdmin
    <3>4. ClientsWithAdmin' BY <3>1, <3>3 DEF ClientsWithAdmin
    <3>5. OneBaseClient' BY <3>1, <3>2 DEF OneBaseClient
    <3> QED BY <3>4, <3>5
  <2> QED BY <1>2, <2>1, <2>2, <2>3, <2>4, <2>5, <2>6 DEF Seeding, SeedAdmin
<1>3. CASE Administering
  <2>1. ASSUME NEW h \in AdminRequests, CreateClient(h) PROVE ClientsWithAdmin' /\ OneBaseClient'
    <3>1. /\ pc[h] = "authorized" /\ clients' = clients \cup {h} /\ pc' = [pc EXCEPT ![h] = "done"]
          /\ UNCHANGED <<old, brings, user>>
      BY <2>1 DEF CreateClient, Goto
    <3>2. ClientsWithAdmin' BY <3>1 DEF ClientsWithAdmin, ActiveAdmins
    <3>3. OneBaseClient' BY <3>1 DEF OneBaseClient
    <3> QED BY <3>2, <3>3
  <2>2. ASSUME NEW h \in AdminRequests, Authorize(h) \/ CreateInvite(h) \/ Refuse(h)
        PROVE  ClientsWithAdmin' /\ OneBaseClient'
    BY <1>b, <2>2 DEF Authorize, CreateInvite, Refuse
  <2> QED BY <1>3, <2>1, <2>2 DEF Administering, Administer
<1>4. CASE Aborting BY <1>4, <1>a DEF Aborting, Abort
<1>5. CASE Expiring
  BY <1>5, ClientsUntouched DEF Expiring, InviteExpires, ActiveAdmins, ClientsWithAdmin
<1>6. CASE UNCHANGED vars BY <1>6, ClientsUntouched DEF vars, ActiveAdmins, ClientsWithAdmin
<1> QED BY <1>1, <1>2, <1>3, <1>4, <1>5, <1>6, NextActs

\* Whichever runs of seed-admin race on an empty database, one base client at
\* most is left.
THEOREM BaseClientIsSingle == Spec => []OneBaseClient
<1>1. ClientsWithAdmin /\ OneBaseClient /\ TypeInv /\ AdminInv /\ [Next]_vars
      => (ClientsWithAdmin /\ OneBaseClient)'
  BY ClientsStep
<1> QED BY <1>1, ClientsInit, AccountsInvariant, PTL DEF Spec

-----------------------------------------------------------------------------
(* Locks never close a circle. *)

\* A run of seed-admin that is about to insert and holds the active
\* administrator waits for no one unless a row is already inserted.
LEMMA HolderGoesOn ==
    ASSUME TypeOK, SingleAdmin, Inserting = {},
           NEW t \in Seeds, pc[t] = "chosen", old[t] \in ActiveAdmins
    PROVE  ~Waits(t)
<1>1. \A u \in Clashing(t), s \in Seeds : u # old[s]
  BY DEF Clashing, SingleAdmin, ActiveAdmins, TypeOK, RequestsOK
<1>2. ~InsertWaits(t) BY <1>1 DEF InsertWaits, LockedByOther, HoldsOldAdmin
<1> QED BY <1>2 DEF Waits

LEMMA Progress == ASSUME TypeOK, SingleAdmin PROVE NoStandstill
<1> SUFFICES ASSUME \E u \in Users : Open(u)
             PROVE  \E u \in Users : Open(u) /\ ~Waits(u)
  BY DEF NoStandstill
<1>1. CASE \E u \in Users : pc[u] \in {"inserted", "updated", "cleared"}
  BY <1>1 DEF Open, Waits
<1>2. CASE /\ \A u \in Users : pc[u] \notin {"inserted", "updated", "cleared"}
           /\ \E u \in Users : pc[u] \in {"consumed", "chosen"}
  <2>1. PICK u \in Users : pc[u] \in {"consumed", "chosen"} BY <1>2
  <2>2. Inserting = {} BY <1>2 DEF Inserting
  <2>3. CASE InsertWaits(u)
    <3>1. PICK v \in Clashing(u) : LockedByOther(v, u)
      BY <2>2, <2>3 DEF InsertWaits
    <3>2. PICK t \in Seeds : HoldsOldAdmin(t) /\ old[t] = v
      BY <3>1 DEF LockedByOther
    <3>3. pc[t] = "chosen" /\ t \in Users BY <1>2, <3>2 DEF HoldsOldAdmin
    <3>4. old[t] \in ActiveAdmins
      BY <3>1, <3>2 DEF Clashing, ActiveAdmins, HoldsOldAdmin, TypeOK, RequestsOK
    <3> QED BY <2>2, <3>3, <3>4, HolderGoesOn DEF Open
  <2>4. CASE ~InsertWaits(u) BY <2>1, <2>4 DEF Open, Waits
  <2> QED BY <2>3, <2>4
<1>3. CASE \A u \in Users : pc[u] \notin {"inserted", "updated", "cleared", "consumed", "chosen"}
  <2>1. PICK u \in Users : Open(u) OBVIOUS
  <2>2. ~InviteLocked(code[u], u) BY <1>3 DEF InviteLocked
  <2>3. ~LockedByOther(old[u], u) BY <1>3 DEF LockedByOther, HoldsOldAdmin
  <2> QED BY <1>3, <2>1, <2>2, <2>3 DEF Waits
<1> QED BY <1>1, <1>2, <1>3

\* Open transactions never all wait for one another's rows and keys.
THEOREM TransactionsGoOn == Spec => []NoStandstill
<1>1. TypeInv /\ AdminInv => NoStandstill BY Progress DEF TypeInv, AdminInv
<1> QED BY <1>1, AccountsInvariant, PTL
=============================================================================
