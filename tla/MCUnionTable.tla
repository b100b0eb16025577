---------------------------- MODULE MCUnionTable ----------------------------
(* The instances of UnionTable that TLC checks. *)
EXTENDS UnionTable, TLC

CONSTANTS t1, t2

MCThreads == {t1, t2}

\* Any function will do; this one puts different keys in one bucket.
MCXXHash == [h \in HashValues \X HashValues \X Codes |->
                (h[1] + 2 * h[2] + h[3][2] + 1) % 4]

MCSymmetry == Permutations(MCThreads)
=============================================================================
