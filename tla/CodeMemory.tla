----------------------------- MODULE CodeMemory -----------------------------
(***************************************************************************)
(* Machine code in memory.  A memory maps addresses to cells; a cell is    *)
(* <<i, k>>, "byte k of instruction i", so that a byte written over part   *)
(* of an instruction leaves something that no longer decodes.  Of an       *)
(* instruction only its length, its kind and its operand `arg` matter:     *)
(*   "plain"      position independent; arg names it                       *)
(*   "rip"        a RIP-relative memory operand, arg its displacement      *)
(*   "rel"        a relative branch or call, arg its displacement          *)
(*   "jmp"        E9 rel32, a "rel" that the library also writes           *)
(*   "qjmp"       FF 25 disp32, jmp through the pointer at that place      *)
(*   "ptr"        data: an 8-byte address                                  *)
(*   "code"       code that TrampolineBuilder rewrote, taken as a whole:   *)
(*                it decodes to instructions the model does not know       *)
(*   "nop", "zero" (fresh memory), "unmapped"                              *)
(***************************************************************************)
EXTENDS Integers, Sequences

CONSTANT
  Reach   \* half the span of a rel32 displacement: 2^31

ASSUME ReachAssumption == Reach \in Nat \ {0}

Ops == {"plain", "rip", "rel", "jmp", "qjmp", "ptr", "code", "nop", "zero", "unmapped"}

MaxLength == 15    \* of an instruction the processor decodes

Instruction ==
  {i \in [op : Ops, len : Nat, arg : Int] : i.op # "code" => i.len <= MaxLength}

Cell == Instruction \X Nat

Ins(o, n, x) == [op |-> o, len |-> n, arg |-> x]

Bytes(i) == [k \in 1 .. i.len |-> <<i, k - 1>>]

Nop      == <<Ins("nop", 1, 0), 0>>
Zero     == <<Ins("zero", 1, 0), 0>>
Unmapped == <<Ins("unmapped", 1, 0), 0>>

\* static_cast<uint32_t> of a displacement, as the processor reads it back.
Wrap32(d) == ((d + Reach) % (2 * Reach)) - Reach

-----------------------------------------------------------------------------
(* memcpy and memset *)

Peek(m, a, n) == [k \in 1 .. n |-> m[a + k - 1]]

Poke(m, a, s) ==
  [x \in DOMAIN m |-> IF a <= x /\ x < a + Len(s) THEN s[x - a + 1] ELSE m[x]]

Fill(m, a, n, c) ==
  [x \in DOMAIN m |-> IF a <= x /\ x < a + n THEN c ELSE m[x]]

-----------------------------------------------------------------------------
(* Decoding and following jumps *)

At(m, a) == m[a][1]

Intact(m, a) ==
  /\ a \in DOMAIN m /\ m[a][2] = 0
  /\ \A k \in 0 .. At(m, a).len - 1 :
       a + k \in DOMAIN m /\ m[a + k] = <<At(m, a), k>>

Decodes(m, a) == Intact(m, a) /\ At(m, a).op \notin {"code", "ptr", "zero", "unmapped"}

Broken == -2    \* control reaches something that is not the code written there

\* Where control goes from a jump at address a.
Follow(m, a) ==
  IF ~Decodes(m, a) THEN Broken
  ELSE CASE At(m, a).op = "jmp"  -> a + 5 + At(m, a).arg
         [] At(m, a).op = "qjmp" ->
              LET p == a + 6 + At(m, a).arg
              IN  IF Intact(m, p) /\ At(m, p).op = "ptr" THEN At(m, p).arg ELSE Broken
         [] OTHER -> Broken

RelDisp == {"rip", "qjmp"}    \* ZYDIS_ATTRIB_IS_RELATIVE, operand in raw.disp
RelImm  == {"rel", "jmp"}     \* ZYDIS_ATTRIB_IS_RELATIVE, operand in raw.imm

\* Instruction i at address a and j at address b do the same.
SameEffect(i, a, j, b) ==
  /\ i.op = j.op /\ i.len = j.len
  /\ IF i.op \in RelDisp \cup RelImm
     THEN a + i.len + i.arg = b + j.len + j.arg
     ELSE i.arg = j.arg

-----------------------------------------------------------------------------
(* What the library writes *)

\* place_jump and place_qword_jump, written at `from`.
Jmp(from, to)      == Ins("jmp", 5, Wrap32(to - (from + 5)))
QwordJmp(from, to) == Ins("qjmp", 6, Wrap32(to - (from + 6)))
Pointer(to)        == Ins("ptr", 8, to)

\* Mutant: the distance is taken the wrong way round.
RelocateBackwards(m, to, from, n) ==
  IF from - to \notin -Reach .. Reach THEN m
  ELSE [x \in DOMAIN m |->
          IF to <= x /\ x < to + n /\ At(m, x).op \in RelDisp
          THEN <<[At(m, x) EXCEPT !.arg = Wrap32(@ + to - from)], m[x][2]>>
          ELSE m[x]]

\* relocate: the displacement bytes (raw.disp) of each relative instruction in
\* the n copied bytes at `to` are rewritten.  A branch keeps its operand in
\* raw.imm; its raw.disp has size 0 and no case of the switch applies.
Relocate(m, to, from, n) ==
  IF from - to \notin -Reach .. Reach THEN m
  ELSE [x \in DOMAIN m |->
          IF to <= x /\ x < to + n /\ At(m, x).op \in RelDisp
          THEN <<[At(m, x) EXCEPT !.arg = Wrap32(@ + from - to)], m[x][2]>>
          ELSE m[x]]
=============================================================================
