------------------------------ MODULE MCRunner -------------------------------
(***************************************************************************)
(* TLC instances of Runner.  One rule reports on one resource.             *)
(* MCRunner.cfg has one code and one part, MCRunnerTwoParts.cfg a Pod with *)
(* two failing containers, MCRunnerRules.cfg a rule that files one of its  *)
(* two codes under a section it does not declare.                          *)
(***************************************************************************)
EXTENDS Runner

Base == [watch |-> FALSE, db |-> FALSE, diff |-> FALSE, webhook |-> TRUE, save |-> FALSE,
         output |-> FALSE, exitZero |-> FALSE, failOn |-> "issue"]

Watching == [Base EXCEPT !.watch = TRUE]
WatchingWithHistory == [Watching EXCEPT !.db = TRUE]
Scheduled == [Base EXCEPT !.db = TRUE, !.save = TRUE]
Compared == [Base EXCEPT !.diff = TRUE, !.output = TRUE, !.failOn = "warning"]
Recorded == [Base EXCEPT !.db = TRUE, !.webhook = FALSE, !.exitZero = TRUE]

MCConfigs == {Watching, WatchingWithHistory, Scheduled, Compared, Recorded}
MCNotifying == {Watching, WatchingWithHistory, Scheduled}

MCCodes == {"ABNORMAL"}
MCRuleOf == [c \in MCCodes |-> "pod-health"]
MCSectionOf == [c \in MCCodes |-> "Pod"]
MCMetaSection == [r \in {"pod-health"} |-> "Pod"]

\* As runtime-dependencies does with MOUNT_PATH_MISMATCH and ENV_RESTART_REQUIRED.
MCTwoCodes == {"FILED", "MISFILED"}
MCTwoRuleOf == [c \in MCTwoCodes |-> "runtime-dependencies"]
MCTwoSectionOf == [FILED |-> "Related", MISFILED |-> "ConfigMap"]
MCTwoMetaSection == [r \in {"runtime-dependencies"} |-> "Related"]

MCIssues == {"issue"}
MCBoth == {"issue", "warning"}
MCNoAck == {{}}
MCAck == {{}, MCCodes}
=============================================================================
