---------------------------- MODULE MCTunnelManager ----------------------------
(***************************************************************************)
(* Instances of TunnelManager for TLC: two tunnels that compete for one    *)
(* port of the users' choice or ask for any, and two requests at a time.   *)
(***************************************************************************)
EXTENDS TunnelManager, TLC

\* Requests are interchangeable, and so are tunnels.
TunnelSymmetry == Permutations(Tunnels) \cup Permutations(Requests)

================================================================================
