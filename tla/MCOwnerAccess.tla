--------------------------- MODULE MCOwnerAccess ----------------------------
(* An instance of OwnerAccess for TLC.                                     *)
EXTENDS OwnerAccess, TLC

AccessSymmetry ==
    Permutations(Sessions) \cup Permutations(Logins) \cup Permutations(Requests)
    \cup Permutations(Passwords) \cup Permutations(Identities)

=============================================================================
