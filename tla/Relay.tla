------------------------------- MODULE Relay -------------------------------
(***************************************************************************)
(* The hub: its links (RelayLink) and its store of devices (Accounts).     *)
(* They meet only where a connection is verified and where a revocation    *)
(* closes one, and Accounts has that part of the connection handler; so an *)
(* invariant of one holds of the hub exactly when it holds while the other *)
(* rests.  focus chooses which one moves.                                  *)
(***************************************************************************)
EXTENDS RelayLink, Accounts, TLC

VARIABLE focus

vars == <<focus, linkVars, accountVars>>

\* While the store rests it is empty, while the link rests nobody is connected.
Init ==
  /\ focus \in {"link", "accounts"}
  /\ LinkInit /\ (focus = "accounts" => \A i \in Instances : instance[i] = NewInstance)
  /\ AccountsInit /\ (focus = "link" => \A d \in Devices : legacy[d] = NoDevice)

Next ==
  /\ UNCHANGED focus
  /\ \/ focus = "link" /\ LinkNext /\ UNCHANGED accountVars
     \/ focus = "accounts" /\ AccountsNext /\ UNCHANGED linkVars

Spec == Init /\ [][Next]_vars

\* The state of either part stays within its types.
TypeOK == focus \in {"link", "accounts"} /\ LinkTypeOK /\ AccountsTypeOK

\* Copies of the application, users, devices and secrets are interchangeable.
Interchangeable ==
  Permutations(Instances) \cup Permutations(Users) \cup Permutations(Devices) \cup Permutations(Secrets)
=============================================================================
