------------------------- MODULE MCGradientDescent --------------------------
(* The instances of GradientDescent that TLC checks: bytes of three bits, words of
   two bytes. *)
EXTENDS GradientDescent

\* One read of a whole word, one of two bytes apart, and comparisons of words with
\* a sign.
MCReads ==
    {<<Relational("Equal", <<<<3, 0, 2>>>>, 6, 33)>>,
     <<Relational("Sgt", <<<<1, 0, 2>>>>, 6, 25)>>,
     <<Relational("Equal", <<<<1, 0, 1>>, <<2, 1, 1>>>>, 6, 9)>>}

\* Two constraints that share a byte.
MCShared ==
    {<<Relational("Ult", <<<<1, 0, 1>>, <<1, 1, 1>>>>, 6, 5),
       Relational("Ugt", <<<<1, 1, 1>>>>, 3, 2)>>,
     <<Relational("Distinct", <<<<1, 0, 1>>>>, 3, 4),
       Relational("Uge", <<<<5, 0, 1>>, <<3, 1, 1>>>>, 6, 40)>>}

\* memcmp next to a comparison of the same byte, and of another.
MCMemcmps ==
    {<<MemcmpOf("Memcmp", 1, <<6>>), Relational("Equal", <<<<3, 0, 1>>>>, 6, 12)>>,
     <<Relational("Ule", <<<<2, 0, 1>>, <<1, 1, 1>>>>, 6, 7), MemcmpOf("MemcmpN", 0, <<1, 2>>)>>}

\* A gradient of 32 for each of two bytes, so that the sum wraps to zero, next to a
\* constraint that no input satisfies.
MCWrapping ==
    {<<Relational("Ule", <<<<32, 0, 1>>, <<32, 1, 1>>>>, 6, 0),
       Relational("Equal", <<<<0, 0, 1>>, <<0, 1, 1>>>>, 6, 1)>>}

MCTasks == MCReads \cup MCShared \cup MCMemcmps \cup MCWrapping
=============================================================================
