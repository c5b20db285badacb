------------------------- MODULE MCCredentialStore --------------------------
(* CredentialStore for TLC: all the sets are interchangeable values. *)
EXTENDS CredentialStore, TLC

StoreSymmetry ==
  Permutations(Processes) \cup Permutations(Orgs) \cup Permutations(Profiles)
=============================================================================
