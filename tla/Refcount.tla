------------------------------ MODULE Refcount ------------------------------
(***************************************************************************)
(* RefcountModel of ownership-sync-lab/main.cpp: the control block that    *)
(* shared and weak owners of an object have in common.  Operators only; a  *)
(* call returns the new block.                                             *)
(***************************************************************************)
EXTENDS Integers

\* The strong owners together hold one weak count.
NewBlock == [strong |-> 1, weak |-> 1, disposed |-> FALSE, freed |-> FALSE]

AddWeak(b) == [b EXCEPT !.weak = @ + 1]

\* lock_weak: b itself when the object is gone.
LockWeak(b) == IF b.strong = 0 THEN b ELSE [b EXCEPT !.strong = @ + 1]

ReleaseWeak(b) == [b EXCEPT !.weak = @ - 1, !.freed = @ \/ b.weak = 1]

ReleaseStrong(b) ==
  LET one == [b EXCEPT !.strong = @ - 1]
  IN IF one.strong = 0 THEN ReleaseWeak([one EXCEPT !.disposed = TRUE]) ELSE one
-----------------------------------------------------------------------------
\* With owned strong and watched weak owners: the object lives as long as a
\* strong owner, the block as long as any owner, and neither ends any later.
BlockTrue(b, owned, watched) ==
  /\ b.disposed = (owned = 0)
  /\ b.freed = (owned = 0 /\ watched = 0)
  /\ b.strong = owned /\ b.weak = watched + (IF owned > 0 THEN 1 ELSE 0)
=============================================================================
