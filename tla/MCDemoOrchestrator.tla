------------------------- MODULE MCDemoOrchestrator -------------------------
(* Instances of DemoOrchestrator. *)
EXTENDS DemoOrchestrator

TwoDatasets == <<"nsl_kdd", "unsw_nb15">>

Plain ==
  [ inputDir |-> TRUE, force |-> {}, skipTraining |-> FALSE, requireSyslog |-> FALSE,
    reuseAssessment |-> FALSE, dryRun |-> FALSE, fixture |-> FALSE, syslogRun |-> "latest" ]

\* Each way of the command that changes its control, and combinations that clash.
Invocations ==
  { Plain,
    [Plain EXCEPT !.requireSyslog = TRUE, !.fixture = TRUE],
    [Plain EXCEPT !.requireSyslog = TRUE],
    [Plain EXCEPT !.fixture = TRUE, !.syslogRun = "lab"],
    [Plain EXCEPT !.reuseAssessment = TRUE],
    [Plain EXCEPT !.dryRun = TRUE],
    [Plain EXCEPT !.skipTraining = TRUE, !.force = {"engine_a", "engine_b"}],
    [Plain EXCEPT !.inputDir = FALSE] }

=============================================================================
