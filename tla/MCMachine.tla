----------------------------- MODULE MCMachine -----------------------------
(* The instance of Machine for TLC: a function f without arguments in the  *)
(* heap, and a function r of one argument in the image, with a native root. *)
EXTENDS Machine

CONSTANTS f, r

MCArity == (f :> 0) @@ (r :> 1)
=============================================================================
