--------------------------- MODULE MCSchedulerHost ---------------------------
(* Small instances of SchedulerHost for TLC.  What may happen in one         *)
(* behaviour is divided over scenarios: together they would be too many.    *)
EXTENDS SchedulerHost, TLC

\* The ids are interchangeable.
HostSymmetry ==
    Permutations(Invocation) \cup Permutations(Executor)

Scenario(n, k, fail, cmds) ==
    [crashes |-> n, cancels |-> k, probesMayFail |-> fail, commands |-> cmds]

\* The daemon dies among manual runs; inline runs, which may die themselves,
\* beside a daemon that stays up; the daemon is stopped and started, and
\* schedules are paused; two cancel commands around a crash of the daemon.
HostScenarios ==
    {Scenario(1, 0, TRUE, {"manual"}), Scenario(0, 0, TRUE, {"inline"}),
     Scenario(0, 0, FALSE, {"pause", "stop"}), Scenario(1, 2, TRUE, {})}

\* Nothing fails.
CalmScenarios == {Scenario(0, 0, FALSE, {"manual"})}

=============================================================================
