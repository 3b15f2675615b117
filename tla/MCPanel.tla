------------------------------ MODULE MCPanel ------------------------------
(* Page p binds one variable, page q both.                                 *)
EXTENDS PanelLink, TLC

CONSTANTS a, b, p, q

MCBound == (p :> {a}) @@ (q :> {a, b})
=============================================================================
