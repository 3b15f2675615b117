---------------------------- MODULE MCSupervisor ----------------------------
(* Supervisor on small instances.  Request threads and ports are           *)
(* interchangeable; process ids are not (the lowest free one is taken).    *)
EXTENDS Supervisor, TLC

Symmetry == Permutations(Clients) \cup Permutations(Ports)
=============================================================================
