----------------------------- MODULE MCAccounts -----------------------------
(***************************************************************************)
(* A small instance of the accounts for TLC: two registrations and three   *)
(* runs of seed-admin over three e-mails, so that all may succeed, and two *)
(* invites, so that registrations meet at an e-mail as well.  Requests,    *)
(* e-mails and codes of a kind are interchangeable, and no property looks  *)
(* further than a step, so the symmetry is sound.                          *)
(***************************************************************************)
EXTENDS AccountsProperties, TLC

CONSTANTS q1, q2, s1, s2, s3, h1, e1, e2, e3, i1, i2

TwoRegistrations == {q1, q2}
ThreeSeeds       == {s1, s2, s3}
OneAdminRequest  == {h1}
ThreeEmails      == {e1, e2, e3}
TwoCodes         == {i1, i2}

Interchangeable ==
    Permutations(TwoRegistrations) \cup Permutations(ThreeSeeds)
        \cup Permutations(ThreeEmails) \cup Permutations(TwoCodes)
=============================================================================
