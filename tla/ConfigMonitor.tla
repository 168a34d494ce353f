---------------------------- MODULE ConfigMonitor ----------------------------
(***************************************************************************)
(* A monitor that polls protocol-config: it remembers the configuration of *)
(* its last poll and looks again only when get_config_version moved.       *)
(***************************************************************************)
EXTENDS ProtocolConfig

VARIABLE seen    \* what the last poll read

monitorVars == <<configVars, seen>>

Poll == seen' = [version |-> configVersion, admin |-> admin,
                 paused |-> paused, schema |-> schema]

MonitorInit ==
  /\ Init
  /\ seen = [version |-> configVersion, admin |-> admin,
             paused |-> paused, schema |-> schema]

MonitorNext ==
  \/ Next /\ UNCHANGED seen
  \/ Poll /\ UNCHANGED configVars

MonitorSpec == MonitorInit /\ [][MonitorNext]_monitorVars

(* A monitor that finds the config version of its last poll unchanged      *)
(* still knows the administrator, the pause flag and every schema: the     *)
(* counter has no ABA, however many changes and handovers came between.    *)
EqualVersionsEqualConfig ==
  seen.version = configVersion =>
    seen.admin = admin /\ seen.paused = paused /\ seen.schema = schema
==============================================================================
