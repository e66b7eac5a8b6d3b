---------------------------- MODULE MCParDrain ----------------------------
\* A heap of a few objects: a shared child without a body, a cycle, one
\* object larger than the oversize limit, a weak object and garbage.
EXTENDS ParDrain, TLC

CONSTANTS r, a, b, c, d, e, x, w1, w2, w3

Heap == {r, a, b, c, d, e, x}
Words == r :> <<a, b, c>> @@ a :> <<d, Null>> @@ b :> <<d>> @@ c :> <<e, b, r>>
           @@ d :> <<>> @@ e :> <<x>> @@ x :> <<>>

RootsPhase == <<r>>
===========================================================================
