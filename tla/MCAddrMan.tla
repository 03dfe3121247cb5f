----------------------------- MODULE MCAddrMan -----------------------------
(* s1 puts every address into bucket 1, s2 only a4; a1, a2 and a3 share    *)
(* one bucket of tried addresses and are interchangeable.                  *)
EXTENDS AddrMan, TLC
CONSTANTS a1, a2, a3, a4, s1, s2
MCGetNewBucket == [p \in {a1, a2, a3, a4} \X {s1, s2} |->
                     IF p[2] = s1 THEN 1 ELSE IF p[1] = a4 THEN 1 ELSE 2]
MCGetTriedBucket == [a \in {a1, a2, a3, a4} |-> IF a = a4 THEN 2 ELSE 1]
MCSymmetry == Permutations({a1, a2, a3})
=============================================================================
