-------------------------- MODULE TrampolineBuilder --------------------------
(***************************************************************************)
(* TrampolineBuilder: the stolen instructions of a far hook are decoded,   *)
(* annotated, rewritten one by one and encoded into the trampoline, with a *)
(* jump table at 0x50 and an address table at 0x100.  Addresses within the *)
(* trampoline are offsets from cave_address.  Registers have the numbers   *)
(* of ZydisRegister; 0 stands for no register, an immediate operand.       *)
(***************************************************************************)
EXTENDS Integers, FiniteSets, SequencesExt

CONSTANTS
  Function,   \* original_address
  Hook,       \* hook_function
  Reach,      \* 2^31: a plain displacement is below it
  Bodies,     \* code: for the offset of each stolen instruction, the instruction
  Leftover,   \* registers that operands which were never set may name
  Garbage     \* values an uninitialized size_t may have

Branches == {"jcc", "jmp", "call", "loop"}
Names    == Branches \cup {"other", "mov", "cmp", "add"}

\* A stolen instruction: does it have a RIP-relative memory operand, where,
\* and can that operand be a register instead; if so, the other operand.
Instruction ==
  [name : Names, len : 1 .. 15,
   relative : BOOLEAN, mem : BOOLEAN, disp : Int,
   mem_id : {0, 1}, width : {8, 16, 32, 64}, reg : 0 .. 68, form : BOOLEAN]

\* The stolen instructions begin below byte 14 and follow one another.
ASSUME BodiesAssumption ==
  \A body \in Bodies :
    /\ 0 \in DOMAIN body /\ DOMAIN body \subseteq 0 .. 13
    /\ \A o \in DOMAIN body :
         /\ body[o] \in Instruction
         /\ body[o].relative <=> body[o].name \in Branches \/ body[o].mem
         /\ body[o].len >= IF body[o].mem THEN 6 ELSE IF body[o].relative THEN 2 ELSE 1
         /\ body[o].name = "loop" => ~body[o].form
         /\ o + body[o].len \in DOMAIN body \cup 14 .. 28

ASSUME NumbersAssumption ==
  /\ Function \in Nat /\ Hook \in Nat /\ Reach \in Nat
  /\ Leftover \subseteq 53 .. 68 /\ Garbage \subseteq Nat

VARIABLES pc, body, offset, annotated_instructions,
  table,            \* the address table; entry k of the jump table reads entry k
  code,             \* what each annotated instruction was rewritten to
  size,             \* bytes.size(), the bytes encoded so far
  runtime_address   \* where build believes the next instruction to be

vars == <<pc, body, offset, annotated_instructions, table, code, size, runtime_address>>

Init ==
  /\ pc = "annotate" /\ body \in Bodies /\ offset = 0
  /\ annotated_instructions = << >> /\ table = << >> /\ code = << >>
  /\ size = 0 /\ runtime_address = 0

-----------------------------------------------------------------------------
(* Registers *)

Width(r) == CASE r = 0 -> 0 [] r \in 1 .. 20 -> 8 [] r \in 21 .. 36 -> 16
              [] r \in 37 .. 52 -> 32 [] OTHER -> 64
High(r)  == r \in 5 .. 8    \* AH, CH, DH, BH
\* The number of the full register that r is part of.
Index(r) == CASE r \in 1 .. 4 -> r - 1 [] r \in 5 .. 20 -> r - 5 [] r \in 21 .. 36 -> r - 21
              [] r \in 37 .. 52 -> r - 37 [] OTHER -> r - 53
RAX == 53
RSP == 57

\* What the proof about rewritten data instructions assumes: an immediate operand
\* comes second, and a register is as wide as the one that takes the memory's place.
EqualOperands ==
  \A b \in Bodies : \A o \in DOMAIN b :
    b[o].mem => IF b[o].reg = 0 THEN b[o].mem_id = 0
                ELSE b[o].form => b[o].width = Width(b[o].reg)

\* Mutant: the distance between RAX and AL taken too large.
fit_register_far(reg, other) ==
  CASE Width(other) = 32 -> reg - 16 [] Width(other) = 16 -> reg - 32
    [] Width(other) = 8 -> reg - 56 [] OTHER -> reg

\* reg is always 64 bits wide.
fit_register(reg, other) ==
  CASE Width(other) = 32 -> reg - 16 [] Width(other) = 16 -> reg - 32
    [] Width(other) = 8 -> reg - 48 [] OTHER -> reg

\* instruction_get_unused_register goes through operand_count operands, but only
\* the visible ones were copied: the hidden one, the flags of cmp and add, is
\* read unset.  std::set iterates in the order of the numbers.
UnusedRegisters(i) ==
  {Min((53 .. 68) \ ({RSP, i.reg} \cup left)) :
     left \in {{}} \cup (IF i.name = "mov" THEN {} ELSE {{r} : r \in Leftover})}

-----------------------------------------------------------------------------
(* What the encoder makes of a request: one instruction, or none if it fails *)

Push(r) == <<[op |-> "push", reg |-> r, len |-> IF Index(r) < 8 THEN 1 ELSE 2]>>
Pop(r)  == <<[op |-> "pop", reg |-> r, len |-> IF Index(r) < 8 THEN 1 ELSE 2]>>

\* mov reg, [address]: only RAX has a form with a 64-bit address.
Load(r, a) ==
  IF r # RAX /\ a >= Reach THEN << >>
  ELSE <<[op |-> "load", reg |-> r, addr |-> a, len |-> IF r = RAX THEN 10 ELSE 8]>>

\* The instruction with register r for its memory operand.  AH and a register
\* that needs a REX prefix do not go together.
WithRegister(i, r) ==
  IF ~i.form \/ (High(r) /\ i.reg \in 9 .. 20) THEN << >>
  ELSE <<[op |-> "op", name |-> i.name, len |-> i.len - 4,
          args |-> IF i.mem_id = 0 THEN <<<<"reg", r>>, <<"reg", i.reg>>>>
                                   ELSE <<<<"reg", i.reg>>, <<"reg", r>>>>]>>

\* A branch with an immediate keeps the form it was decoded from; one through
\* memory becomes E8 or E9 rel32, if the request is accepted at all.
Branch(i, d) ==
  LET encoded(n) == <<[op |-> "branch", at |-> size, disp |-> d, len |-> n]>>
  IN  IF i.mem THEN {<< >>, encoded(5)}
      ELSE IF i.len = 2 /\ d \notin -128 .. 127 THEN {<< >>}
      ELSE {encoded(i.len)}

\* Mutant: encode returns its whole buffer.
Length_buffer(e) == IF e = << >> THEN 0 ELSE 15

Length(e) == IF e = << >> THEN 0 ELSE e[1].len

-----------------------------------------------------------------------------
(* AnnotatedInstruction and the first pass *)

\* Mutant: the address is relative to the instruction, not to its end.
AnnotatedAtStart(i, o) ==
  [raw |-> i, at |-> o, absolute_address |-> IF i.mem THEN Function + o + i.disp ELSE 0]

\* Only a memory operand sets the address.  The offset serves the properties.
Annotated(i, o) ==
  [raw |-> i, at |-> o,
   absolute_address |-> IF i.mem THEN Function + o + i.len + i.disp ELSE 0]

Annotate ==
  /\ pc = "annotate" /\ offset \in DOMAIN body
  /\ annotated_instructions' = Append(annotated_instructions, Annotated(body[offset], offset))
  /\ offset' = offset + body[offset].len
  /\ UNCHANGED <<pc, body, table, code, size, runtime_address>>

place_relocation(to) == table' = Append(table, to)

initialize_tables ==
  /\ pc = "annotate" /\ offset \notin DOMAIN body /\ pc' = "built"
  /\ place_relocation(Function + offset)
  /\ UNCHANGED <<body, offset, annotated_instructions, code, size, runtime_address>>

-----------------------------------------------------------------------------
(* build *)

BuildBegins ==
  /\ pc = "built" /\ pc' = "rewrite"
  /\ place_relocation(Hook)
  /\ UNCHANGED <<body, offset, annotated_instructions, code, size, runtime_address>>

Rewriting == pc = "rewrite" /\ Len(code) < Len(annotated_instructions)
Current   == annotated_instructions[Len(code) + 1]

\* ZydisUtils::is_jump, the mnemonics from JB to JZ, or a CALL.
IsBranch(i) == i.relative /\ i.name \in {"jcc", "jmp", "call"}

\* An instruction that need not change is encoded again: as it was, in a form that is
\* shorter by an immediate of one byte, or not at all.
Copied(i) ==
  {<< >>} \cup {<<[op |-> "same", len |-> n]>> : n \in {i.len, i.len - 3} \cap 1 .. 15}

\* Here `size` is zero when nothing could be encoded.
CopyInstruction ==
  LET i == Current.raw
  IN  /\ Rewriting /\ ~i.relative
      /\ \E e \in Copied(i) :
           /\ code' = Append(code, e)
           /\ size' = size + Length(e) /\ runtime_address' = runtime_address + Length(e)
      /\ UNCHANGED <<pc, body, offset, annotated_instructions, table>>

\* Mutant: computed as if the branch were the first instruction.
RewriteBranchFromStart ==
  LET i == Current.raw
  IN  /\ Rewriting /\ IsBranch(i)
      /\ place_relocation(Current.absolute_address)
      /\ \E e \in Branch(i, 80 + 8 * Len(table) - i.len) :
           /\ code' = Append(code, e)
           /\ size' = size + Length(e)
           /\ \E n \in IF e = << >> THEN Garbage ELSE {e[1].len} :
                runtime_address' = runtime_address + n
      /\ UNCHANGED <<pc, body, offset, annotated_instructions>>

\* A jump to the table entry just made.  The displacement counts with the length
\* the instruction had, and without an encoding `size` keeps what it held.
RewriteBranch ==
  LET i == Current.raw
  IN  /\ Rewriting /\ IsBranch(i)
      /\ place_relocation(Current.absolute_address)
      /\ \E e \in Branch(i, 80 + 8 * Len(table) - (runtime_address + i.len)) :
           /\ code' = Append(code, e)
           /\ size' = size + Length(e)
           /\ \E n \in IF e = << >> THEN Garbage ELSE {e[1].len} :
                runtime_address' = runtime_address + n
      /\ UNCHANGED <<pc, body, offset, annotated_instructions>>

\* push r; mov r, [address]; the instruction on r; pop r.  What cannot be encoded
\* is left out, and the length of the instruction before it is counted again.
RewriteData ==
  LET i == Current.raw
  IN  /\ Rewriting /\ i.relative /\ ~IsBranch(i)
      /\ \E r \in UnusedRegisters(i) :
           LET load   == Load(r, Current.absolute_address)
               op     == WithRegister(i, fit_register(r, i.reg))
               loaded == IF load = << >> THEN Length(Push(r)) ELSE Length(load)
           IN  /\ code' = Append(code, Push(r) \o load \o op \o Pop(r))
               /\ size' = size + Length(Push(r)) + Length(load) + Length(op) + Length(Pop(r))
               /\ runtime_address' = runtime_address + Length(Push(r)) + loaded
                      + (IF op = << >> THEN loaded ELSE Length(op)) + Length(Pop(r))
      /\ UNCHANGED <<pc, body, offset, annotated_instructions, table>>

\* memcpy of the code and place_jump behind it, to entry 0.
PlaceCode ==
  /\ pc = "rewrite" /\ Len(code) = Len(annotated_instructions) /\ pc' = "done"
  /\ UNCHANGED <<body, offset, annotated_instructions, table, code, size, runtime_address>>

Next ==
  \/ Annotate \/ initialize_tables
  \/ BuildBegins \/ CopyInstruction \/ RewriteBranch \/ RewriteData \/ PlaceCode

Spec == Init /\ [][Next]_vars

-----------------------------------------------------------------------------
(* What code does: a machine whose values are terms *)

Part(t, w, high) == IF w = 64 THEN t ELSE <<"part", w, high, t>>

Value(m, x) ==
  CASE x[1] = "mem" -> Part(<<"at", x[2]>>, x[3], FALSE)
    [] x = <<"reg", 0>> -> <<"immediate">>
    [] OTHER -> Part(m.reg[Index(x[2])], Width(x[2]), High(x[2]))

\* A 32-bit result clears the upper half, a narrower one leaves the rest.
Store(m, x, v) ==
  IF x[1] = "mem" THEN [m EXCEPT !.stored = <<x[2], x[3], v>>]
  ELSE [m EXCEPT !.reg[Index(x[2])] =
          IF Width(x[2]) \in {32, 64} THEN v ELSE <<"insert", Width(x[2]), High(x[2]), @, v>>]

Execute(m, c) ==
  CASE c.op = "push" ->
         [m EXCEPT !.stack = Append(@, m.reg[Index(c.reg)]),
                   !.reg[4] = <<"rsp", Len(m.stack) + 1>>]
    [] c.op = "pop" ->
         [m EXCEPT !.stack = Front(@),
                   !.reg = [@ EXCEPT ![4] = <<"rsp", Len(m.stack) - 1>>,
                                     ![Index(c.reg)] = Last(m.stack)]]
    [] c.op = "load" -> [m EXCEPT !.reg[Index(c.reg)] = <<"at", c.addr>>]
    [] c.op = "op" ->
         LET v == IF c.name = "mov" THEN Value(m, c.args[2])
                  ELSE <<"result", c.name, Value(m, c.args[1]), Value(m, c.args[2])>>
             n == IF c.name = "mov" THEN m ELSE [m EXCEPT !.flags = v]
         IN  IF c.name \in {"cmp", "loop"} THEN n ELSE Store(n, c.args[1], v)

Start == [reg |-> [k \in 0 .. 15 |-> IF k = 4 THEN <<"rsp", 0>> ELSE <<"r", k>>],
          stack |-> << >>, flags |-> <<"flags">>, stored |-> << >>]

\* The place that the operand of an instruction denotes in the function.
Operand(a) == Function + a.at + a.raw.len + a.raw.disp

Original(a) ==
  LET m == <<"mem", Operand(a), a.raw.width>>
      r == <<"reg", a.raw.reg>>
  IN  [op |-> "op", name |-> a.raw.name, args |-> IF a.raw.mem_id = 0 THEN <<m, r>> ELSE <<r, m>>]

\* The machine behind the instructions of c.
After(c) ==
  LET after[n \in 0 .. Len(c)] == IF n = 0 THEN Start ELSE Execute(after[n - 1], c[n])
  IN  after[Len(c)]

SameEffect(k) == After(code[k]) = Execute(Start, Original(annotated_instructions[k]))

-----------------------------------------------------------------------------
(* Properties *)

Rewritten(k) == annotated_instructions[k].raw
Data         == {k \in DOMAIN code : Rewritten(k).relative /\ ~IsBranch(Rewritten(k))}
BranchesAt   == {k \in DOMAIN code : IsBranch(Rewritten(k))}
Loops        == {k \in DOMAIN code : Rewritten(k).name = "loop"}

\* Instructions as they come out of the encoder.
Encoded ==
  [op : {"same"}, len : Nat] \cup [op : {"push", "pop"}, reg : 1 .. 68, len : Nat]
  \cup [op : {"load"}, reg : 1 .. 68, addr : Int, len : Nat]
  \cup [op : {"op"}, name : Names, len : Nat,
        args : ({"reg"} \X (0 .. 68)) \X ({"reg"} \X (0 .. 68))]
  \cup [op : {"branch"}, at : Nat, disp : Int, len : Nat]

\* Types; no instruction is rewritten that was not annotated.
TypeOK ==
  /\ pc \in {"annotate", "built", "rewrite", "done"}
  /\ body \in Bodies /\ offset \in 0 .. 28
  /\ annotated_instructions \in
       Seq([raw : Instruction, at : 0 .. 13, absolute_address : Int])
  /\ table \in Seq(Int)
  /\ code \in Seq(Seq(Encoded)) /\ Len(code) <= Len(annotated_instructions)
  /\ size \in Nat /\ runtime_address \in Nat

\* The jump table ends before the address table at 0x100, whatever is stolen; and
\* the code and the jump behind it end before the jump table at 0x50 as long as no
\* more than three LOOPs are stolen, whatever else is and whichever encodings fail
\* (README.md:103-105; nothing in the code checks it).  A LOOP of 2 bytes, which is no
\* jump to is_jump, becomes 12; with four of them the code may run into the table.
Layout ==
  /\ 80 + 8 * (Len(table) - 1) + 6 <= 256
  /\ Cardinality(Loops) <= 3 => size + 5 <= 80

\* The encoder accepted all of what replaces the instruction.
Complete(k) == Len(code[k]) = IF k \in Data THEN 4 ELSE 1

\* A direct branch becomes a branch to the jump table entry made for it
\* (README.md:129), the n-th to entry n + 1, as long as nothing up to it failed
\* to encode: whatever was rewritten before it, and to whichever lengths.
BranchesHitTable ==
  \A k \in BranchesAt : ~Rewritten(k).mem /\ (\A j \in 1 .. k : Complete(j)) =>
    LET b == code[k][1]
    IN  b.at + b.len + b.disp = 80 + 8 * (1 + Cardinality({j \in BranchesAt : j <= k}))

\* The address table entry of a direct branch is where it led (README.md:127).
EntriesLead ==
  \A k \in BranchesAt : ~Rewritten(k).mem =>
    table[2 + Cardinality({j \in BranchesAt : j <= k})] = Operand(annotated_instructions[k])

\* When rewriting is right: the memory operand is read only; another register
\* operand is wider than 8 bits and no part of RSP, which push moves, nor of the
\* scratch register; without one the operand has the width of that.  If it is not
\* RAX, the address must fit a plain displacement.
Rewritable(k) ==
  LET i == Rewritten(k)
      r == code[k][1].reg
  IN  /\ i.form
      /\ i.name # "cmp" => i.mem_id = 1
      /\ IF i.reg = 0 THEN i.width = 64
         ELSE i.width > 8 /\ Index(i.reg) \notin {4, Index(r)}
      /\ r # RAX => Operand(annotated_instructions[k]) < Reach

\* The rewritten code does what the instruction did and nothing else, from every
\* state of the machine, if and only if it is Rewritable.  README.md:43 and 60-92
\* promise it of every instruction.  In particular README.md:92 and 113-124 load the
\* operand through the relocation table if RAX is in use; the code has no such branch
\* (TrampolineBuilder.cpp:97), so where the address is high the effect is lost.
EffectKeptIfRewritable == \A k \in Data : SameEffect(k) <=> Rewritable(k)
=============================================================================
