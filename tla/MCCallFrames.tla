---------------------------- MODULE MCCallFrames ----------------------------
(***************************************************************************)
(* main calls rec; rec calls itself and leaf; they share holders.          *)
(***************************************************************************)
EXTENDS CallFrames

CONSTANTS x, y, z, p0, main, rec, leaf

MCParam == <<p0>>
MCSaved == (main :> <<x, y>>) @@ (rec :> <<p0, x, z>>) @@ (leaf :> <<y, z>>)
MCArgs == (main :> <<>>) @@ (rec :> <<x>>) @@ (leaf :> <<z>>)
MCCaller == (2 :> main) @@ (3 :> rec)
MCDest == (2 :> y) @@ (3 :> z)
MCJunk == -1
MCWords == -1 .. StackWords
=============================================================================
