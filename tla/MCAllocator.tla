---------------------------- MODULE MCAllocator ----------------------------
(* No, one or four blocks of no, one or two pages: below and at the      *)
(* minimum capacity; every index up to one past the largest capacity.   *)
EXTENDS Allocator

MCInitArgs == {0, 1, 4} \X {0, 1, 2}
MCIndices == 0..9

=============================================================================
