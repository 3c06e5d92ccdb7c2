---------------------------- MODULE MCCaseDesks ----------------------------
(***************************************************************************)
(* CaseDesks on small instances.                                           *)
(***************************************************************************)
EXTENDS CaseDesks, TLC

\* Threads are interchangeable.
MCSymmetry == Permutations(Workers)

\* Plots of which a drift is rounded away or one is rounded up to, on either side of
\* the last such ones, and two that are told exactly.
MCAreas == {1, 10, 20, 60, 196, 197, 200, 201, 305, 306, 474, 4000}

\* Every drift of the adapters, in percent.
MCDrifts == {d \in -9..9 : d \notin -1..1}

\* Every stage is allowed 20 days and warns in the last 10.
MCStandardDays == [s \in 1..12 |-> 20]

MCWarnDays == [s \in 1..12 |-> 10]

\* The objection period alone requires a document.
MCRequired == [s \in 1..12 |-> IF s = 4 THEN {"hearing_notice"} ELSE {}]

\* No other case to learn from, or twelve: six quick and six slow.
MCOthers == {<<>>, [i \in 1..12 |-> IF i < 7 THEN 5 ELSE 30]}
=============================================================================
