----------------------------- MODULE MCHookX86 -----------------------------
(***************************************************************************)
(* 24 bytes of 32-bit code at 20000, one body per question, and two blocks *)
(* for trampolines.  64-bit mode reads 4 more bytes of address in a mov    *)
(* between eax and an absolute address, and knows no pushad.               *)
(***************************************************************************)
EXTENDS HookX86, SequencesExt

MCBlocks == {8192, 40960}
Junk     == {2, 3}
Eax      == {1}

Plain(n, x) == Ins("plain", n, x)
MovEax      == Plain(5, 90)
Pushad      == Plain(1, 91)
MCLength64  == [i \in {MovEax, Pushad} |-> IF i = MovEax THEN 9 ELSE 0]

Bodies(is) == FlattenSeq([k \in DOMAIN is |-> Bytes(is[k])])

Image(is) ==
  [x \in 20000 .. 20023 \cup UNION {b .. b + 23 : b \in MCBlocks} |->
     IF x \notin 20000 .. 20023 THEN Unmapped
     ELSE IF x - 19999 <= Len(Bodies(is)) THEN Bodies(is)[x - 19999] ELSE <<Plain(1, 9), 0>>]

\* The README's prologue, one that ends at byte 5 otherwise, and the others.
HotPatch == <<Plain(2, 1), Plain(1, 2), Plain(2, 3), Plain(3, 4)>>
Push     == <<Plain(5, 5), Plain(6, 6)>>
Spill    == <<Plain(1, 2), Plain(2, 3), Plain(3, 4), Plain(2, 5)>>
CallHead == <<Ins("rel", 5, 900), Plain(3, 1)>>
ReadsAbs == <<Plain(1, 2), MovEax, Plain(3, 4), Plain(6, 6)>>
SavesAll == <<Plain(1, 2), Pushad, Plain(3, 4), Plain(6, 6)>>

AllImages   == {Image(b) : b \in {HotPatch, Push, Spill, CallHead, ReadsAbs, SavesAll}}
SpillImages == {Image(Spill)}
=============================================================================
