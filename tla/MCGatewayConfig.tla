-------------------------- MODULE MCGatewayConfig --------------------------
(***************************************************************************)
(* GatewayConfig for TLC.                                                  *)
(***************************************************************************)
EXTENDS GatewayConfig, TLC

\* The threads are alike, and the properties are invariants.
AnyThread == Permutations(Threads)

\* What follows a race is left out: no property says anything of it.
Apart == ~raced

=============================================================================
