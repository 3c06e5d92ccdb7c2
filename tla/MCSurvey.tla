------------------------------ MODULE MCSurvey ------------------------------
(***************************************************************************)
(* Survey on small instances.                                              *)
(***************************************************************************)
EXTENDS Survey, TLC

\* Threads, tasks, walks, photos and mismatch rows are interchangeable.
MCSymmetry ==
    Permutations(Workers) \cup Permutations(Tasks) \cup Permutations(Walks)
        \cup Permutations(Mismatches)
=============================================================================
