---------------------------- MODULE MCProposals ----------------------------
(***************************************************************************)
(* Proposals on small instances.                                           *)
(***************************************************************************)
EXTENDS Proposals, TLC

\* Threads, proposals and states of the Union are interchangeable.
MCSymmetry ==
    Permutations(Workers) \cup Permutations(Proposals) \cup Permutations(States)
=============================================================================
