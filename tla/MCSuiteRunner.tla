--------------------------- MODULE MCSuiteRunner ----------------------------
(* Instances of SuiteRunner for TLC. *)
EXTENDS SuiteRunner

\* The command lines that take different paths through main().
Line(dry, nosys, hp, tests, shots) ==
    [dry_run |-> dry, no_system_config |-> nosys, hugepages |-> hp,
     test |-> tests, one_shots |-> shots, no_matrices |-> FALSE]

MCArgs ==
    {Line(FALSE, FALSE, "auto", {"idle_latency"}, 1),
     Line(FALSE, FALSE, "auto", {"bandwidth"}, 0),
     Line(FALSE, FALSE, "off", {"loaded_latency"}, 0),
     Line(FALSE, FALSE, "existing", {"loaded_latency"}, 0),
     Line(FALSE, TRUE, "auto", {"idle_latency"}, 0),
     Line(TRUE, FALSE, "auto", {"idle_latency"}, 0)}

\* One command line for the run with signals in the finally block.
MCSuiteArgs == {Line(FALSE, FALSE, "auto", {"idle_latency"}, 0)}

MCEligible == {1, 3}
MCWindowEligible == {1}
=============================================================================
