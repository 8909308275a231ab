---------------------------- MODULE MCInterfaces ----------------------------
(***************************************************************************)
(* Instance for TLC of five components at the edges of the agent, which do  *)
(* not interact: the secret file, a call of the API, the operations on      *)
(* tunnels, the formats of messages and packets, and the tray.  A behaviour *)
(* is one of one of them; which says of which.                              *)
(***************************************************************************)
EXTENDS SecretFile, ApiRequests, TunnelRequests, Tray

VARIABLES which, msg, payload, cut, decoded

Wire == INSTANCE WireFormat

wire == <<msg, payload, cut, decoded>>
interface_vars == <<which, vars, avars, operations, wire, tray>>

(* The components a behaviour does not belong to start in one state. *)
InterfacesInit ==
  /\ which \in {"file", "api", "tunnels", "wire", "tray"}
  /\ Init /\ (which # "file" => path = None)
  /\ ApiInit /\ (which # "api" => auth = "anonymous")
  /\ OperationInit /\ (which # "tunnels" => life.state = "Starting" /\ tunnels = [i \in Ids |-> NoTunnel])
  /\ TrayInit /\ (which # "tray" => ~service /\ ~ui.running)
  /\ IF which = "wire" THEN Wire!Init
     ELSE /\ msg = (CHOOSE m \in Wire!FeedInputs : TRUE)
          /\ payload = <<>> /\ cut = 0 /\ decoded = Wire!Unread

InterfacesNext ==
  /\ UNCHANGED which
  /\ \/ which = "file" /\ Next /\ UNCHANGED <<avars, operations, wire, tray>>
     \/ which = "api" /\ ApiNext /\ UNCHANGED <<vars, operations, wire, tray>>
     \/ which = "tunnels" /\ OperationNext /\ UNCHANGED <<vars, avars, wire, tray>>
     \/ which = "wire" /\ Wire!Next /\ UNCHANGED <<vars, avars, operations, tray>>
     \/ which = "tray" /\ TrayNext /\ UNCHANGED <<vars, avars, operations, wire>>

(* Only the tray owes something: its fairness, in its behaviours. *)
InterfacesSpec ==
  /\ InterfacesInit /\ [][InterfacesNext]_interface_vars
  /\ WF_tray(which = "tray" /\ timer)
  /\ WF_tray(which = "tray" /\ process_ui_events)
  /\ WF_tray(which = "tray" /\ process_backend_responses)
  /\ WF_tray(which = "tray" /\ ~InCall /\ BackendStep)

-----------------------------------------------------------------------------
(* What is read is what was written, and nothing cut is read (WireFormat).  *)
DecodesWhatWasSent == which = "wire" => Wire!DecodesWhatWasSent
=============================================================================
