----------------------------- MODULE MCControl ------------------------------
(***************************************************************************)
(* Instance for TLC of two components that do not interact: the control    *)
(* connection of an agent against an arbitrary network (MaintainedControl), *)
(* and the command line at work on daemons (ServiceCli).  A behaviour is    *)
(* one of one of them; which says of which.  Three flows: two client ports  *)
(* on one host, and a second host.                                          *)
(***************************************************************************)
EXTENDS MaintainedControl

CONSTANTS f1, f2, f3, Daemons, Managed

MCFlows == {f1, f2, f3}
MCHost(f) == IF f = f3 THEN "b" ELSE "a"

VARIABLES which, daemon, path, pipe, raced, key, secret, unit, cli

Cli == INSTANCE ServiceCli

commands == <<daemon, path, pipe, raced, key, secret, unit, cli>>
control_vars == <<which, vars, commands>>

(* The component a behaviour does not belong to starts in one state. *)
ControlInit ==
  /\ which \in {"control", "command"}
  /\ Init
  /\ which # "control" => /\ last_control_targets = (CHOOSE t \in Targets : TRUE)
                          /\ latest = [flow |-> f1, session |-> TRUE]
  /\ Cli!CliInit /\ (which # "command" => secret = "none")

ControlNext ==
  /\ UNCHANGED which
  /\ \/ which = "control" /\ Next /\ UNCHANGED commands
     \/ which = "command" /\ Cli!CliNext /\ UNCHANGED vars

(* The fairness of the two, each in its own behaviours. *)
ControlSpec ==
  /\ ControlInit /\ [][ControlNext]_control_vars
  /\ WF_vars(which = "control" /\ LoopStep)
  /\ \A d \in Daemons : /\ WF_commands(which = "command" /\ Cli!DaemonRuns(d))
                        /\ WF_commands(which = "command" /\ Cli!DaemonObeys(d))
  /\ WF_commands(which = "command" /\ Cli!CommandRuns)
  /\ SF_commands(which = "command" /\ Cli!give_up)

-----------------------------------------------------------------------------
(* A command ends (ServiceCli).                                             *)
CommandsEnd == Cli!CommandsEnd

(* A reset that was reported takes the secret away (ServiceCli).            *)
ResetTakesEffect == Cli!ResetTakesEffect
=============================================================================
