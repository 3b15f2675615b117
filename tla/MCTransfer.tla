----------------------------- MODULE MCTransfer -----------------------------
(* Two transfers to one destination: an install and a replacement, two     *)
(* replacements, and two installs.                                         *)
EXTENDS PeerTransfer, TLC

CONSTANTS t1, t2

Asks(way, policy, start) == [way |-> way, policy |-> policy, start |-> start]
MCRequests ==
    {t1 :> Asks("push", "reject", TRUE) @@ t2 :> Asks("push", "replace", FALSE),
     t1 :> Asks("push", "replace", FALSE) @@ t2 :> Asks("pull", "replace", TRUE),
     t1 :> Asks("push", "reject", FALSE) @@ t2 :> Asks("pull", "reject", TRUE)}
=============================================================================
