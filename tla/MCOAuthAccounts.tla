--------------------------- MODULE MCOAuthAccounts ---------------------------
(***************************************************************************)
(* Instances of OAuthAccounts: three requests that race in two tenants,    *)
(* with two addresses and two identities in any combination.               *)
(***************************************************************************)
EXTENDS OAuthAccounts, TLC

RequestSymmetry ==
  Permutations(Calls) \cup Permutations(Tenants) \cup Permutations(Emails) \cup Permutations(Identities)
=============================================================================
