------------------------------ MODULE MCHookLib ------------------------------
(***************************************************************************)
(* Two functions, two hook functions outside the modelled memory, and      *)
(* blocks below and above the functions.  Memory holds only the cells that *)
(* a call can touch: the text a hook can overwrite, and the parts of each  *)
(* block that the near path and TrampolineBuilder use.                     *)
(***************************************************************************)
EXTENDS HookLib, SequencesExt, TLC

MCFunctions == {20000, 21000}
OneFunction == {20000}
MCTargets   == {100001, 100002}
OneTarget   == {100001}
NearThree   == {4096, 8192, 40960}
OneBlock    == {8192}
FarTwo      == {3000000, 5000000}
None        == {}

TextLen == IF FarBlocks = {} THEN 16 ELSE MaxStolen + 1

Plain(n, x) == Ins("plain", n, x)

Layout(is) == FlattenSeq([i \in DOMAIN is |-> Bytes(is[i])])

Padded(is) ==
  LET s == Layout(is)
  IN  [k \in 1 .. TextLen |-> IF k <= Len(s) THEN s[k] ELSE Nop]

\* The README's hotpatch prologue: 5 bytes exactly.
HotPatch  == Padded(<<Plain(2, 1), Plain(1, 2), Plain(2, 3), Plain(4, 4)>>)
\* cmp [rip + d], r / mov r, [rip + d] across the fifth byte.
RipFirst  == Padded(<<Ins("rip", 7, 300), Plain(3, 1)>>)
RipLater  == Padded(<<Plain(4, 1), Ins("rip", 6, -40), Plain(3, 2)>>)
\* The operand lies almost 2 GB above the function: only from blocks above it is it
\* in reach.
RipEdge   == Padded(<<Ins("rip", 7, 1048000), Plain(3, 1)>>)
\* sub rsp, 40 ; call d
CallLater == Padded(<<Plain(4, 1), Ins("rel", 5, 900), Plain(3, 2)>>)
\* An instruction ends at byte 14, as TrampolineBuilder's path needs.
FarExact  == Padded(<<Plain(4, 1), Plain(3, 2), Ins("rip", 7, 60), Plain(3, 3)>>)
\* The first instruction boundary at or behind byte 14 is byte 15.
FarSpill  == Padded(<<Plain(4, 1), Plain(4, 2), Plain(7, 3), Plain(3, 4)>>)
\* A three-byte function; what follows it is no instruction.
Short     == [k \in 1 .. TextLen |-> IF k <= 3 THEN Bytes(Plain(3, 1))[k] ELSE Unmapped]

TextOf(f) == f .. f + TextLen - 1

BlockCells(b) ==
  IF b \in FarBlocks
  THEN (b .. b + 28) \cup (b + 80 .. b + 95) \cup (b + 256 .. b + 271)
  ELSE (b .. b + 29) \cup (b + 80 .. b + 87)

\* body[f] at every function f, nothing elsewhere.
Image(body) ==
  [x \in UNION {TextOf(f) : f \in Functions} \cup UNION {BlockCells(b) : b \in Blocks} |->
     IF \E f \in Functions : x \in TextOf(f)
     THEN LET f == CHOOSE f \in Functions : x \in TextOf(f) IN body[f][x - f + 1]
     ELSE Unmapped]

NearImages  == {Image(20000 :> HotPatch @@ 21000 :> RipLater),
                Image(20000 :> RipFirst @@ 21000 :> CallLater),
                Image(20000 :> RipEdge @@ 21000 :> HotPatch)}
FarImages   == {Image(20000 :> FarExact @@ 21000 :> b) : b \in {FarExact, Short}}
SpillImages == {Image(20000 :> FarSpill)}

\* Where every block is near, the hypotheses of the proofs about near hooks hold.
ASSUME NearInstance == FarBlocks = {} => NearLayout /\ WholeTexts
=============================================================================
