------------------------- MODULE MCLeaderElection -------------------------
(* Two replicas whose wall clocks disagree by the whole allowed skew.      *)
EXTENDS LeaderElection, TLC

CONSTANTS r1, r2

\* r2's clock runs one tick ahead.
MCSkew == (r1 :> 0) @@ (r2 :> 1)
============================================================================
