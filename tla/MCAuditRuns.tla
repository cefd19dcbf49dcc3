----------------------------- MODULE MCAuditRuns -----------------------------
(* Instances of AuditRuns for TLC.                                         *)
EXTENDS AuditRefinement, TLC

CONSTANTS api, cli, k1, k2

MCCallers    == {api, cli}
MCApiCallers == {api}
MCSymmetry   == Permutations({k1, k2})
=============================================================================
