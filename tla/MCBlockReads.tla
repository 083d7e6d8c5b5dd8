---- MODULE MCBlockReads ----
EXTENDS BlockReads

MCKeys == {<<1>>, <<1, 0>>, <<2>>}
MCValues == {<<1>>, <<1, 1>>}
MCStart == <<1>>
MCEnd == <<3>>
Symmetry == Permutations(Readers)
====
