----------------------------- MODULE MCAccounts ------------------------------
(* Accounts for TLC: the clients are interchangeable, and so are the       *)
(* identities and the addresses, of which nothing is ever compared but for *)
(* equality.                                                               *)
EXTENDS Accounts, TLC

CONSTANTS p1, p2, p3,    \* passwords: of 72 bytes, longer, and another
          k1, k2         \* what bcrypt looks at of them

MCBcryptKey == p1 :> k1 @@ p2 :> k1 @@ p3 :> k2

MCSymmetry ==
  Permutations(Clients) \cup Permutations(IDs) \cup Permutations(Emails)
=============================================================================
