------------------------------ MODULE MCCheney ------------------------------
\* Two SOME cells in from-space and a permanent one for two refs there and a
\* permanent one; a weak object in from-space and a permanent one that share
\* them in every way; a pair that may close a cycle, keep a ref or the weak
\* object alive, or stand in a weak slot by mistake; and what the roots name.
EXTENDS Cheney, TLC

CONSTANTS w, s1, s2, r1, r2, p, stack, pw, ps, pr

MCFrom == {w, s1, s2, r1, r2, p}
MCPermanent == {stack, pw, ps, pr}
RootOrder == <<stack, pw, pr>>

Entries == {Null, ps, s1, s2, p}

MCHeaps ==
  { w :> <<a, b>> @@ pw :> <<c>> @@ s1 :> <<r1>> @@ s2 :> <<d>> @@ ps :> <<r2>>
      @@ r1 :> <<e>> @@ r2 :> <<Null>> @@ p :> f @@ stack :> g @@ pr :> <<h>> :
    a \in Entries, b \in Entries, c \in Entries \ {Null}, d \in {r1, r2, pr}, e \in {Null, p},
    f \in {<<s2, p>>, <<r2, w>>},
    g \in {<<w, w>>, <<w, r1>>, <<r1, w>>, <<w, s1>>, <<p, Null>>, <<r1, r2>>}, h \in {Null, r2} }
=============================================================================
