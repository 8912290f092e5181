------------------------------ MODULE HookX86 ------------------------------
(***************************************************************************)
(* HookLib::apply_hook_x86, for functions of 32-bit code.  The size of the *)
(* hook is counted by a decoder in 64-bit mode (HookLib.h:142), to which   *)
(* some instructions are longer and some are none.  Nothing is recorded in *)
(* active_hooks, so remove_hook never undoes such a hook.  The two stores  *)
(* of place_jump are one step here; HookedCalls has them apart.            *)
(***************************************************************************)
EXTENDS CodeMemory

CONSTANTS
  Function, Target,
  Blocks,      \* what VirtualAlloc may return, within Reach
  Images,      \* what memory may hold before the first call
  Length64,    \* instructions that 64-bit mode decodes otherwise: their length
               \* there, 0 if they are none
  JunkLens,    \* lengths that bytes from within an instruction may decode to
  Leftovers,   \* what else the register of the result may hold
  MaxCalls     \* bound: calls of apply_hook_x86 in a run

ASSUME X86Assumption ==
  /\ Function \in Nat \ {0} /\ Target \in Nat \ {0} /\ Blocks \subseteq Nat \ {0}
  /\ DOMAIN Length64 \subseteq Instruction
  /\ \A i \in DOMAIN Length64 : Length64[i] \in 0 .. MaxLength
  /\ JunkLens \subseteq 1 .. MaxLength /\ MaxCalls \in Nat

\* Addresses wrap as displacements do; here neither has to.  VirtualAlloc does not
\* return memory within or right before the text of the function.
ASSUME PlacesAssumption ==
  /\ Target - (Function + 5) \in -Reach .. Reach - 1
  /\ \A b \in Blocks :
       /\ Function - (b + 5) \in -Reach .. Reach - 1
       /\ b + 23 < Function \/ Function + 2 * MaxLength < b
  /\ \A m \in Images :
       DOMAIN m \subseteq Int /\ m \in [DOMAIN m -> Cell] /\ Function \in DOMAIN m

VARIABLES
  pc, size, trampoline, mem,
  result,   \* of the last call
  calls,
  taken     \* history: memory when the last call began

vars == <<pc, size, trampoline, mem, result, calls, taken>>

Init ==
  /\ pc = "idle" /\ size = 0 /\ trampoline = 0 /\ mem \in Images
  /\ result = 0 /\ calls = 0 /\ taken = mem

apply_hook_x86 ==
  /\ pc = "idle" /\ calls < MaxCalls /\ pc' = "sizing"
  /\ size' = 0 /\ trampoline' = 0 /\ calls' = calls + 1 /\ taken' = mem
  /\ UNCHANGED <<mem, result>>

\* Lengths the 64-bit decoder may find at a; none if it fails there.
Decoded(a) ==
  LET lengths == IF ~Decodes(mem, a) THEN JunkLens
                 ELSE IF At(mem, a) \in DOMAIN Length64 THEN {Length64[At(mem, a)]} \ {0}
                 ELSE {At(mem, a).len}
  IN  {n \in lengths : a .. a + n - 1 \subseteq DOMAIN mem}

\* Mutant: goes on when 5 bytes are covered exactly.
DisassembleTooFar ==
  /\ pc = "sizing" /\ size <= 5
  /\ \E n \in Decoded(Function + size) : size' = size + n
  /\ UNCHANGED <<pc, trampoline, mem, result, calls, taken>>

Disassemble ==
  /\ pc = "sizing" /\ size < 5
  /\ \E n \in Decoded(Function + size) : size' = size + n
  /\ UNCHANGED <<pc, trampoline, mem, result, calls, taken>>

EndSizing ==
  /\ pc = "sizing" /\ pc' = "allocate"
  /\ size >= 5 \/ Decoded(Function + size) = {}
  /\ UNCHANGED <<size, trampoline, mem, result, calls, taken>>

\* size + 5 bytes anywhere, or nullptr for no memory.
Allocate ==
  /\ pc = "allocate"
  /\ \/ \E b \in Blocks :
          /\ \A x \in b .. b + size + 4 : x \in DOMAIN mem /\ mem[x] = Unmapped
          /\ trampoline' = b /\ pc' = "build"
          /\ mem' = Fill(mem, b, size + 5, Zero) /\ UNCHANGED result
     \/ pc' = "idle" /\ result' = 0 /\ UNCHANGED <<trampoline, mem>>
  /\ UNCHANGED <<size, calls, taken>>

\* 32-bit code has no operand that relocate would change.
Build ==
  LET b == trampoline
      copied == Poke(mem, b, Peek(mem, Function, size))
  IN  /\ pc = "build" /\ pc' = "patch"
      /\ mem' = Relocate(Poke(copied, b + size, Bytes(Jmp(b + size, Function + size))),
                         b, Function, size)
      /\ UNCHANGED <<size, trampoline, result, calls, taken>>

\* Mutant: the entry is written before the trampoline.
PlaceJumpFirst ==
  /\ pc = "build" /\ pc' = "pad"
  /\ mem' = Poke(mem, Function, Bytes(Jmp(Function, Target)))
  /\ UNCHANGED <<size, trampoline, result, calls, taken>>

PlaceJump ==
  /\ pc = "patch" /\ pc' = "pad"
  /\ mem' = Poke(mem, Function, Bytes(Jmp(Function, Target)))
  /\ UNCHANGED <<size, trampoline, result, calls, taken>>

\* memset from behind the moved bytes.  If they are less than 5 the unsigned
\* length is huge.  Control runs off the end of the function: the result is
\* whatever its register holds.
PadNops ==
  /\ pc = "pad"
  /\ IF size < 5 THEN pc' = "crashed" /\ UNCHANGED <<mem, result>>
     ELSE /\ pc' = "idle"
          /\ mem' = Fill(mem, Function + size, size - 5, Nop)
          /\ result' \in Leftovers \cup {trampoline}
  /\ UNCHANGED <<size, trampoline, calls, taken>>

Next ==
  \/ apply_hook_x86 \/ Disassemble \/ EndSizing \/ Allocate
  \/ Build \/ PlaceJump \/ PadNops

Spec == Init /\ [][Next]_vars
-----------------------------------------------------------------------------
(* Properties *)

Hooked == pc = "idle" /\ trampoline # 0

\* The text of the function when it was hooked, as offsets.
Offsets   == {o \in 0 .. 2 * MaxLength : Function + o \in DOMAIN taken}
Starts(o) == taken[Function + o][2] = 0

\* The overwritten bytes are saved: what lies behind them is as it was
\* (README.md:33, 35).
OnlySavedOverwritten ==
  Hooked => \A o \in Offsets : o >= size => mem[Function + o] = taken[Function + o]

\* Whole instructions are saved (README.md:33).
StolenWhole == Hooked /\ size \in Offsets => Starts(size)

\* Each saved instruction does in the trampoline what it did in the function
\* (README.md:60).
StolenMoved ==
  Hooked => \A o \in Offsets : o < size /\ Starts(o) =>
    /\ Intact(mem, trampoline + o)
    /\ SameEffect(At(mem, trampoline + o), trampoline + o,
                  At(taken, Function + o), Function + o)

\* A prologue made for it: whole instructions that end at byte 5, none of them
\* relative and none that 64-bit mode decodes otherwise.
HotPatchable ==
  /\ 0 .. 5 \subseteq Offsets /\ Starts(0) /\ Starts(5)
  /\ \A o \in 0 .. 4 :
       LET i == At(taken, Function + o)
       IN  /\ i.op \notin RelImm \cup RelDisp /\ i \notin DOMAIN Length64
           /\ Starts(o) =>
                Decodes(taken, Function + o) /\ o + i.len \in 0 .. 5 /\ Starts(o + i.len)

\* Then steps 1 to 6 of README.md:17-41 are done right: calls go to the hook, and the
\* trampoline runs the moved instructions and goes on in an undamaged function.  Step 7
\* (README.md:43) is not: nothing returns the trampoline (HookLib.h:46), so the property
\* speaks of the block that was allocated and not of the result.
HotPatchRight ==
  Hooked /\ HotPatchable =>
    /\ Follow(mem, Function) = Target
    /\ Follow(mem, trampoline + size) = Function + size
    /\ OnlySavedOverwritten /\ StolenWhole /\ StolenMoved

\* A thread that runs into the new entry finds the trampoline complete: the
\* entry changes only when its end leads back.
EntryLast ==
  [][mem'[Function] # mem[Function] =>
       Follow(mem, trampoline + size) = Function + size]_vars
=============================================================================
