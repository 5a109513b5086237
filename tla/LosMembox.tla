------------------------------ MODULE LosMembox ------------------------------
(***************************************************************************)
(* Static memory pools (kernel/base/mem/membox/los_membox.c).  A pool is a *)
(* row of equal blocks; the free ones are linked through their own first   *)
(* words, from stFreeList, and the last one freed is the next one given.   *)
(* The calls are functions of a pool, made with interrupts locked.         *)
(***************************************************************************)
EXTENDS Integers, Sequences, SequencesExt

\* stFreeList, uwBlkCnt and uwBlkNum.
LOS_MemboxInit(blocks) == [free |-> SetToSeq(blocks), cnt |-> 0, num |-> Cardinality(blocks)]

HasFree(box) == box.free # <<>>
NextBlock(box) == Head(box.free)

LOS_MemboxAlloc(box) == [box EXCEPT !.free = Tail(@), !.cnt = @ + 1]

\* Mutant: the block is linked behind the first free one, which is forgotten.
MemboxFreeOverHead(box, b) ==
  [box EXCEPT !.free = <<b>> \o (IF @ = <<>> THEN @ ELSE Tail(@)), !.cnt = @ - 1]

LOS_MemboxFree(box, b) == [box EXCEPT !.free = <<b>> \o @, !.cnt = @ - 1]

\* The blocks on the free list, which names each of them once, and those given
\* out are all there are.
FreeBlocks(box) == ToSet(box.free)
MemboxExact(box) ==
  /\ IsInjective(box.free)
  /\ box.cnt = box.num - Cardinality(FreeBlocks(box))
=============================================================================
