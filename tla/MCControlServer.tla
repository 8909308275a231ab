--------------------------- MODULE MCControlServer ---------------------------
(* Two flows, of two hosts.                                                *)
EXTENDS ControlServer

CONSTANTS f1, f2

MCFlows == {f1, f2}
MCHost(f) == IF f = f1 THEN "a" ELSE "b"
=============================================================================
