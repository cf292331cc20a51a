------------------------------ MODULE MCTunnel ------------------------------
(* Tunnel for TLC: the symmetry sets of its safety runs.                   *)
EXTENDS Tunnel, TLC

ObjectSymmetry ==
  Permutations(Calls) \cup Permutations(Procs) \cup Permutations(Clients)
    \cup Permutations(Loops)

\* Sound when no connection is distinguished (RdpConns = {}).
HostsSymmetry ==
  Permutations(Calls) \cup Permutations(Procs) \cup Permutations(Conns)
=============================================================================
