------------------------- MODULE MCCredentialVault -------------------------
(***************************************************************************)
(* Instances of CredentialVault: two threads in one process, or one in     *)
(* each of two.                                                            *)
(***************************************************************************)
EXTENDS CredentialVault, TLC

OneProcess == [t \in Thread |-> "desktop"]
TwoProcesses == [t \in Thread |-> t]

Symmetry == Permutations(Account) \cup Permutations(Thread) \cup Permutations(Version)
=============================================================================
