----------------------------- MODULE MCApprovals -----------------------------
(* Instances of Approvals for TLC.                                           *)
EXTENDS Approvals, TLC

\* Sessions, users and requests are interchangeable.
MCSymmetry ==
    Permutations(Sessions) \union Permutations(Users) \union Permutations(Approvals)
=============================================================================
