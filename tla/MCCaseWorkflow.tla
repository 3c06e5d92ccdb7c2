--------------------------- MODULE MCCaseWorkflow ---------------------------
(***************************************************************************)
(* CaseWorkflow on small instances.                                        *)
(***************************************************************************)
EXTENDS CaseWorkflow, TLC

\* DEFAULT_SLA's standard_days, stage by stage (app/services/sla.py).
MCStandardDays == <<30, 180, 60, 60, 90, 180, 180, 90, 365>>

\* Workers are interchangeable threads, and so are objections and tasks.
MCSymmetry ==
    Permutations(Workers) \cup Permutations(Objections) \cup Permutations(Surveys)
=============================================================================
