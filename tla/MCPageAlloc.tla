---------------------------- MODULE MCPageAlloc ----------------------------
(***************************************************************************)
(* PageAlloc for TLC: memory maps with usable descriptors that adjoin (a   *)
(* pass can join three blocks, and two after one), that an unusable one    *)
(* separates, that the lower bound cuts, that lie below it and before it,  *)
(* one with the bound behind all that lies below, and one without usable   *)
(* memory.                                                                 *)
(***************************************************************************)
EXTENDS PageAlloc

U(s, n) == [usable |-> TRUE, start |-> s, pages |-> n]
X(s, n) == [usable |-> FALSE, start |-> s, pages |-> n]

MCMemoryMaps ==
  { <<X(0, 2), U(2, 3), U(5, 2), U(7, 4), X(11, 1), U(12, 2), U(14, 3)>>,
    <<U(0, 6), U(6, 2), X(8, 2), U(10, 1), U(11, 1), U(12, 1), U(13, 5)>>,
    <<U(1, 4), U(7, 4), U(12, 4)>>,
    <<U(0, 1), U(1, 1), U(2, 4), U(6, 2), X(8, 2), U(10, 3)>>,
    <<U(0, 1), X(1, 4), U(5, 3)>>,
    <<X(0, 9)>> }
=============================================================================
