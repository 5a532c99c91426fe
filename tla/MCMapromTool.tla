---- MODULE MCMapromTool ----
EXTENDS MapromTool, Sequences
MCNumbered(s) == [a \in Addr |-> s[a + 1]]
(* Words of two bits.  A lost word is always noticed; the second of the    *)
(* boot bank written over the first is not: <<1, 2>> and <<2, 3>> both sum *)
(* to 0.  In the second ROM a word looks like the key, which is 0.         *)
MCRoms == {MCNumbered(<<1, 2, 2, 1>>), MCNumbered(<<1, 0, 3, 3>>)}
MCNoise == {MCNumbered(<<3, 3, 3, 3>>)}
MCArms == [w \in Words |-> IF w = 0 THEN {"active"} ELSE NotArming]
(* The seven probes: all there; 8 MB decoded; A2 stuck; nothing there.     *)
MCFolds == {<<1, 2, 3, 4, 5, 6, 7>>, <<1, 2, 3, 1, 3, 6, 7>>, <<1, 1, 3, 4, 5, 6, 6>>, <<0, 0, 0, 0, 0, 0, 0>>}
====
