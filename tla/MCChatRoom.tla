------------------------------ MODULE MCChatRoom ------------------------------
(* Small instances of ChatRoom for TLC: account A has device a1, account B has *)
(* b1 and b2, account C has c1.                                                *)
EXTENDS ChatRoom, TLC

CONSTANTS a1, b1, b2, c1, A, B, C, t1, t2, t3, FirstState

MCAccountOf == [d \in Device |-> IF d = a1 THEN A ELSE IF d = c1 THEN C ELSE B]
\* KeyPackages 1 and 2 are b1's, 3 is b2's, 4 is c1's.
MCOwnerOf == [k \in Package |-> IF k \in {1, 2} THEN b1 ELSE IF k = 3 THEN b2 ELSE c1]
MCInventory == [k \in Package |-> FirstState]
\* The first package was published before the instance begins.
MCFirstPublished == [k \in Package |-> IF k = 1 THEN "available" ELSE "absent"]
Symmetry == Permutations(Thread)
===============================================================================
