---------------------------- MODULE ConfigClients ----------------------------
(***************************************************************************)
(* The two clients of protocol-config that rely on what it does between    *)
(* two of their calls: the monitor that polls it and the script that       *)
(* upgrades it.  Neither's steps concern the other, so a run has one of    *)
(* them, beside every other caller of the contract.                        *)
(*                                                                         *)
(* The instance of ConfigClients.cfg: two administrators and the zero      *)
(* address, one schema version besides 0, two uploaded hashes and one that *)
(* is not, a config counter that overflows after a few changes.            *)
(***************************************************************************)
EXTENDS ConfigMonitor, UpgradeScript

VARIABLE client    \* whose run it is

clientVars == <<allVars, seen, client>>

ClientsInit ==
  /\ client \in {"monitor", "script"}
  /\ MonitorInit
  /\ UpgradeScriptInit

ClientsNext ==
  /\ \/ client = "monitor" /\ MonitorNext /\ UNCHANGED <<scriptVars, jobVars>>
     \/ client = "script" /\ UpgradeScriptNext /\ UNCHANGED seen
  /\ UNCHANGED client

ClientsSpec ==
  /\ ClientsInit
  /\ [][ClientsNext]_clientVars
  /\ WF_allVars(ScriptStep)
==============================================================================
