------------------------------ MODULE Desktop ------------------------------
(***************************************************************************)
(* The desktop application: Lifecycle, Updates, Transport and Connection   *)
(* side by side.  They share no variable (startCodex only asks             *)
(* UpdateManager for a check; the connection to the official client and    *)
(* the transport are the inside of a runtime's start), so a behaviour      *)
(* of the application is one of each, interleaved.  An invariant of one of *)
(* them holds of the whole exactly when it holds while the others rest;    *)
(* focus chooses which one moves and keeps the state space a sum.          *)
(***************************************************************************)
EXTENDS Lifecycle, Updates, Transport, Connection

VARIABLE focus

Parts == {"lifecycle", "updates", "transport", "connection"}
vars == <<focus, desktopVars, updateVars, transportVars, connectionVars>>

Init ==
  /\ focus \in Parts
  /\ DesktopInit /\ (focus # "lifecycle" => relayOn)
  /\ UpdatesInit /\ (focus # "updates" => autoUpdate)
  /\ TransportInit /\ ConnectionInit

Next ==
  /\ UNCHANGED focus
  /\ \/ focus = "lifecycle" /\ DesktopNext /\ UNCHANGED <<updateVars, transportVars, connectionVars>>
     \/ focus = "updates" /\ UpdatesNext /\ UNCHANGED <<desktopVars, transportVars, connectionVars>>
     \/ focus = "transport" /\ TransportNext /\ UNCHANGED <<desktopVars, updateVars, connectionVars>>
     \/ focus = "connection" /\ ConnectionNext /\ UNCHANGED <<desktopVars, updateVars, transportVars>>

Work ==
  /\ UNCHANGED focus
  /\ \/ focus = "lifecycle" /\ DesktopWork /\ UNCHANGED <<updateVars, transportVars, connectionVars>>
     \/ focus = "updates" /\ UpdatesWork /\ UNCHANGED <<desktopVars, transportVars, connectionVars>>
     \/ focus = "transport" /\ TransportWork /\ UNCHANGED <<desktopVars, updateVars, connectionVars>>
     \/ focus = "connection" /\ ConnectionWork /\ UNCHANGED <<desktopVars, updateVars, transportVars>>

Spec == Init /\ [][Next]_vars /\ WF_vars(Work)

\* The state of every part stays within its types.
TypeOK == focus \in Parts /\ LifecycleTypeOK /\ UpdatesTypeOK /\ TransportTypeOK /\ ConnectionTypeOK

\* Every request is answered: to the app-server, across its restarts and close,
\* and through the service, across the reconnections it joins or causes.
RequestsAreAnswered == RequestsSettle /\ CallsReturn
=============================================================================
