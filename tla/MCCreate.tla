------------------------------ MODULE MCCreate ------------------------------
(* An instance of create validation for TLC: 5-bit integers, three ticks   *)
(* to a second, sizes and lifetimes at, next to and past their limits, two *)
(* parts at their cap that add up to more than an integer holds, and       *)
(* lifetimes that wrap to a negative one and to one within the maximum.    *)
EXTENDS CreateRequest, TLC

SomeSizes == {-1, 0, 1, 5, 8, 9}
SomeTTLs == {-16, -1, 0, 1, 2, 3, 5, 6, 11, 15}
SomeInstants == 0 .. 2
SymmetricIds == Permutations(PartIds)
=============================================================================
