------------------------------- MODULE MCTree -------------------------------
(* A group g with a page p in it, and a page q beside; p holds a container *)
(* c, with a container d in it, and a leaf w. What is left over is there   *)
(* to be added or to be what a copy is called.                             *)
EXTENDS WidgetTree, TLC

CONSTANTS c, d, w, e, p, q, g, h, chromeG, chromeH

MCChrome == (g :> chromeG) @@ (h :> chromeH)

MCStart ==
    [host \in Hosts |->
        CASE host = PagesRoot -> <<g, q>>
          [] host = g -> <<p>>
          [] host = p -> <<c, w>>
          [] host = c -> <<d>>
          [] OTHER -> <<>>]
=============================================================================
