---------------------------- MODULE AtomicVault ----------------------------
(***************************************************************************)
(* What CredentialVault promises: an account is one thing.  It is created, *)
(* changed and deleted as a whole, label, secret and grants together, and  *)
(* never seen or left half way, unless its operation is broken off where   *)
(* nothing takes it back.                                                  *)
(***************************************************************************)
EXTENDS Functions

CONSTANTS Account, Project, Version

VARIABLES
  vault,    \* the accounts there are, each with its label, its secret and its grants
  broken    \* whether an account has been left half way

Accounts == DOMAIN vault

Init == vault = << >> /\ broken = FALSE

Create(a, v, granted) ==
  /\ a \notin Accounts
  /\ vault' = [b \in Accounts \cup {a} |->
                 IF b = a THEN [label |-> v, secret |-> v, granted |-> granted] ELSE vault[b]]

Rename(a, v) ==
  /\ a \in Accounts
  /\ vault' = [vault EXCEPT ![a].label = v]

Replace(a, v) ==
  /\ a \in Accounts
  /\ vault' = [vault EXCEPT ![a] = [label |-> v, secret |-> v, granted |-> vault[a].granted]]

Delete(a) ==
  /\ a \in Accounts
  /\ vault' = Restrict(vault, Accounts \ {a})

Allow(a, p) ==
  /\ a \in Accounts
  /\ vault' = [vault EXCEPT ![a].granted = @ \cup {p}]

Block(a, p) ==
  /\ a \in Accounts
  /\ vault' = [vault EXCEPT ![a].granted = @ \ {p}]

RevokeProject(p) == vault' = [a \in Accounts |-> [vault[a] EXCEPT !.granted = @ \ {p}]]

Operation ==
  \/ \E a \in Account, v \in Version :
       \/ \E granted \in SUBSET Project : Create(a, v, granted)
       \/ Rename(a, v) \/ Replace(a, v)
  \/ \E a \in Account : Delete(a)
  \/ \E p \in Project : \/ \E a \in Account : Allow(a, p) \/ Block(a, p)
                        \/ RevokeProject(p)

\* From then on nothing is promised.
Broken == broken' = TRUE

Next == (Operation /\ UNCHANGED broken) \/ Broken

Spec == Init /\ [][Next]_<<vault, broken>>
=============================================================================
