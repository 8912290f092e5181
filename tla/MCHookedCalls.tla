--------------------------- MODULE MCHookedCalls ---------------------------
(***************************************************************************)
(* One function of 12 bytes: the README's hotpatch prologue, or one that   *)
(* covers 7 bytes, so that 2 are padded.  No stolen instruction is         *)
(* relative: StolenCodeRunsButBranches and RestoresAllButRelocated say     *)
(* which of those survive being moved and restored.                        *)
(***************************************************************************)
EXTENDS HookedCalls, SequencesExt, TLC

CONSTANT t1

OneThread   == {t1}
MCFunctions == {20000}
MCTargets   == {100001}
MCBlocks    == {8192, 40960}
None        == {}

Body(is) == FlattenSeq([i \in DOMAIN is |-> Bytes(is[i])])

HotPatch == Body(<<Ins("plain", 2, 1), Ins("plain", 1, 2), Ins("plain", 2, 3), Ins("rip", 7, 300)>>)
Spill    == Body(<<Ins("plain", 4, 1), Ins("plain", 3, 2), Ins("plain", 5, 3)>>)

Image(body) ==
  [x \in 20000 .. 20000 + TextLen - 1
         \cup UNION {(b .. b + 29) \cup (b + 80 .. b + 87) : b \in NearBlocks} |->
     IF x >= 20000 /\ x < 20000 + TextLen THEN body[x - 20000 + 1] ELSE Unmapped]

MCImages == {Image(HotPatch), Image(Spill)}

\* The hypothesis of the proofs about threads holds here.
ASSUME CallInstance == CallLayout
=============================================================================
