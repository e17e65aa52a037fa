----------------------------- MODULE MCV2Filter -----------------------------
(* A small instance of V2Filter.  InvokeLimit is the 2 of the code.        *)
EXTENDS V2Filter, TLC

CONSTANTS t1, t2, i1, i2, noid

MCThreads == {t1, t2}
OneThread == {t1}
MCIds == {i1, i2}
Symmetric == Permutations(MCThreads) \cup Permutations(MCIds)
SymmetricIds == Permutations(MCIds)

Plain == [ec2 |-> FALSE, normal |-> TRUE, count |-> 0, behind |-> NoDigit,
          more |-> 0, lambdas |-> 0]
Lambdas(n) == [Plain EXCEPT !.lambdas = n]
Ec2(n) == [Plain EXCEPT !.ec2 = TRUE, !.count = n]
Abnormal == [Ec2(0) EXCEPT !.normal = FALSE]
Both(n) == [Ec2(n) EXCEPT !.lambdas = 1]

\* One request in a read, with no digit where a rewrite ends.
OneRequest == {Lambdas(1), Ec2(2), Both(1), Abnormal}

\* Also two in a read, the second where a digit follows the rewrite.
MCBuffers ==
  OneRequest \cup {Lambdas(2), [Ec2(1) EXCEPT !.behind = 0, !.more = 1]}
=============================================================================
