--------------------------- MODULE HookX86Proofs ---------------------------
(***************************************************************************)
(* apply_hook_x86 is right for every prologue that ends at byte 5 and has  *)
(* no relative instruction, and it writes the entry last.                  *)
(***************************************************************************)
EXTENDS HookX86, CodeMemoryProofs

Memory == [DOMAIN taken -> Cell]

InTrampoline(x) == trampoline <= x /\ x < trampoline + size + 5
InEntry(x)      == Function <= x /\ x < Function + 5

\* Memory keeps its extent; a trampoline in use was allocated.
Typed ==
  /\ DOMAIN taken \subseteq Int /\ taken \in Memory /\ mem \in Memory /\ Function \in DOMAIN taken
  /\ size \in 0 .. 19 /\ Function .. Function + size - 1 \subseteq DOMAIN taken
  /\ trampoline \in Blocks \cup {0}
  /\ pc \in {"build", "patch", "pad"} =>
       /\ trampoline # 0
       /\ trampoline .. trampoline + size + 4 \subseteq DOMAIN taken

\* Counting stays on the instructions of a hot-patchable prologue.
Counting ==
  /\ pc \in {"sizing", "allocate"} => mem = taken /\ trampoline = 0
  /\ HotPatchable =>
       /\ pc = "sizing" => size \in 0 .. 5 /\ Starts(size)
       /\ pc = "allocate" \/ trampoline # 0 => size = 5

\* What is written when: first the trampoline, then the entry.
Written ==
  LET b == trampoline
  IN  /\ pc = "build" =>
           \A x \in DOMAIN taken : ~InTrampoline(x) => mem[x] = taken[x]
      /\ pc = "patch" =>
           /\ JumpAt(mem, b + size, Function + size)
           /\ \A x \in DOMAIN taken : ~InTrampoline(x) => mem[x] = taken[x]
      /\ (pc = "pad" \/ Hooked) /\ HotPatchable =>
           /\ JumpAt(mem, b + 5, Function + 5) /\ JumpAt(mem, Function, Target)
           /\ \A x \in DOMAIN taken : ~InTrampoline(x) /\ ~InEntry(x) => mem[x] = taken[x]
      /\ (pc \in {"patch", "pad"} \/ Hooked) /\ HotPatchable =>
           \A o \in 0 .. 4 : b + o \in DOMAIN taken /\ mem[b + o] = taken[Function + o]

X86Inv == Typed /\ Counting /\ Written

-----------------------------------------------------------------------------
(* Lemmas *)

LEMMA Places ==
  ASSUME Typed, trampoline # 0
  PROVE  /\ Function \in Int /\ Target \in Int /\ trampoline \in Int /\ trampoline \in Blocks
         /\ trampoline + 23 < Function \/ Function + 30 < trampoline
         /\ Function - (trampoline + 5) \in -Reach .. Reach - 1
BY X86Assumption, PlacesAssumption DEF Typed, MaxLength

\* No byte of the trampoline is near the entry.
LEMMA Apart ==
  ASSUME Typed, trampoline # 0, NEW o \in 0 .. 30
  PROVE  ~InTrampoline(Function + o)
BY Places DEF InTrampoline, Typed

LEMMA DecodedLength ==
  ASSUME Typed, NEW a \in Int, NEW n \in Decoded(a)
  PROVE  n \in 0 .. 15 /\ a .. a + n - 1 \subseteq DOMAIN taken
<1>0. a .. a + n - 1 \subseteq DOMAIN taken
  BY DEF Decoded, Typed, Memory
<1>1. CASE ~Decodes(mem, a)
  BY <1>0, <1>1, X86Assumption DEF Decoded, MaxLength
<1>2. CASE Decodes(mem, a)
  <2>1. mem[a] \in Cell
    BY <1>2 DEF Decodes, Intact, Typed, Memory
  <2>2. At(mem, a) \in Instruction /\ At(mem, a).op # "code"
    BY <1>2, <2>1 DEF At, Cell, Decodes
  <2>3. At(mem, a).len \in 0 .. 15
    BY <2>2 DEF Instruction, MaxLength
  <2>4. At(mem, a) \in DOMAIN Length64 => Length64[At(mem, a)] \in 0 .. 15
    BY X86Assumption DEF MaxLength
  <2> QED BY <1>0, <1>2, <2>3, <2>4 DEF Decoded
<1> QED BY <1>1, <1>2

LEMMA InitX86 == Init => X86Inv
<1> SUFFICES ASSUME Init PROVE X86Inv
  OBVIOUS
<1>1. Typed
  BY PlacesAssumption DEF Init, Typed, Memory
<1>2. Counting /\ Written
  BY X86Assumption DEF Init, Counting, Written, Hooked
<1> QED BY <1>1, <1>2 DEF X86Inv

LEMMA BeginX86 == X86Inv /\ apply_hook_x86 => X86Inv'
<1> SUFFICES ASSUME X86Inv, apply_hook_x86 PROVE X86Inv'
  OBVIOUS
<1>1. /\ pc' = "sizing" /\ size' = 0 /\ trampoline' = 0 /\ taken' = mem /\ mem' = mem
  BY DEF apply_hook_x86
<1>2. DOMAIN mem = DOMAIN taken
  BY DEF X86Inv, Typed, Memory
<1>3. Typed'
  BY <1>1, <1>2 DEF X86Inv, Typed, Memory
<1>4. Counting'
  <2>1. HotPatchable' => Starts(0)'
    BY DEF HotPatchable
  <2>2. Starts(size)' <=> Starts(0)'
    BY <1>1 DEF Starts
  <2> QED BY <1>1, <2>1, <2>2 DEF Counting
<1>5. Written'
  BY <1>1 DEF Written, Hooked
<1> QED BY <1>3, <1>4, <1>5 DEF X86Inv

LEMMA DisassembleX86 == X86Inv /\ Disassemble => X86Inv'
<1> SUFFICES ASSUME X86Inv, Disassemble PROVE X86Inv'
  OBVIOUS
<1>1. /\ pc = "sizing" /\ size < 5 /\ UNCHANGED <<pc, trampoline, mem, taken>>
      /\ mem = taken /\ trampoline = 0 /\ size \in 0 .. 19
  BY DEF Disassemble, X86Inv, Counting, Typed
<1>2. PICK n \in Decoded(Function + size) : size' = size + n
  BY DEF Disassemble
<1>3. n \in 0 .. 15 /\ Function + size .. Function + size + n - 1 \subseteq DOMAIN taken
  BY <1>1, X86Assumption, DecodedLength DEF X86Inv
<1>4. Typed'
  <2>1. Function .. Function + (size + n) - 1 \subseteq DOMAIN taken
    BY <1>1, <1>3, X86Assumption DEF X86Inv, Typed
  <2> QED BY <1>1, <1>2, <1>3, <2>1 DEF X86Inv, Typed, Memory
<1>5. HotPatchable' <=> HotPatchable
  BY <1>1 DEF HotPatchable, Starts, Offsets
<1>6. HotPatchable => size' \in 0 .. 5 /\ Starts(size')
  <2> SUFFICES ASSUME HotPatchable PROVE size' \in 0 .. 5 /\ Starts(size')
    OBVIOUS
  <2> DEFINE i == At(taken, Function + size)
  <2>1. size \in 0 .. 4 /\ Starts(size)
    BY <1>1 DEF X86Inv, Counting
  <2>2. /\ Decodes(taken, Function + size) /\ i \notin DOMAIN Length64
        /\ size + i.len \in 0 .. 5 /\ Starts(size + i.len)
    BY <2>1 DEF HotPatchable
  <2>3. n = i.len
    BY <1>1, <1>2, <2>2 DEF Decoded
  <2> QED BY <1>2, <2>2, <2>3
<1>7. Starts(size)' <=> Starts(size')
  BY <1>1 DEF Starts
<1>8. Counting'
  BY <1>1, <1>5, <1>6, <1>7 DEF Counting
<1>9. Written'
  BY <1>1 DEF Written, Hooked
<1> QED BY <1>4, <1>8, <1>9 DEF X86Inv

LEMMA EndSizingX86 == X86Inv /\ EndSizing => X86Inv'
<1> SUFFICES ASSUME X86Inv, EndSizing PROVE X86Inv'
  OBVIOUS
<1>1. /\ pc = "sizing" /\ pc' = "allocate" /\ UNCHANGED <<size, trampoline, mem, taken>>
      /\ mem = taken /\ trampoline = 0
      /\ size >= 5 \/ Decoded(Function + size) = {}
  BY DEF EndSizing, X86Inv, Counting
<1>2. Typed'
  BY <1>1 DEF X86Inv, Typed, Memory
<1>3. HotPatchable' <=> HotPatchable
  BY <1>1 DEF HotPatchable, Starts, Offsets
<1>4. HotPatchable => size = 5
  <2> SUFFICES ASSUME HotPatchable, size # 5 PROVE FALSE
    OBVIOUS
  <2>1. size \in 0 .. 4 /\ Starts(size)
    BY <1>1 DEF X86Inv, Counting
  <2>2. Decodes(taken, Function + size) /\ At(taken, Function + size) \notin DOMAIN Length64
    BY <2>1 DEF HotPatchable
  <2>3. Decoded(Function + size) # {}
    <3> DEFINE a == Function + size
    <3>1. a .. a + At(mem, a).len - 1 \subseteq DOMAIN mem
      <4>1. mem[a] \in Cell /\ a \in Int
        BY <1>1, <2>2, X86Assumption DEF Decodes, Intact, X86Inv, Typed, Memory
      <4>2. At(mem, a).len \in Nat /\ \A k \in 0 .. At(mem, a).len - 1 : a + k \in DOMAIN mem
        BY <1>1, <2>2, <4>1 DEF Decodes, Intact, At, Cell, Instruction
      <4> DEFINE n == At(mem, a).len
      <4>3. n \in Nat /\ \A k \in 0 .. n - 1 : a + k \in DOMAIN mem
        BY <4>2
      <4> HIDE DEF n, a
      <4>4. ASSUME NEW x \in a .. a + n - 1 PROVE x \in DOMAIN mem
        <5>1. x - a \in 0 .. n - 1 /\ a + (x - a) = x
          BY <4>1, <4>3
        <5> QED BY <4>3, <5>1
      <4>5. a .. a + n - 1 \subseteq DOMAIN mem
        BY <4>4
      <4> QED BY <4>5 DEF n
    <3> QED BY <1>1, <2>2, <3>1 DEF Decoded
  <2> QED BY <1>1, <2>1, <2>3
<1>5. Counting'
  BY <1>1, <1>3, <1>4 DEF Counting
<1>6. Written'
  BY <1>1 DEF Written, Hooked
<1> QED BY <1>2, <1>5, <1>6 DEF X86Inv

LEMMA AllocateX86 == X86Inv /\ Allocate => X86Inv'
<1> SUFFICES ASSUME X86Inv, Allocate PROVE X86Inv'
  OBVIOUS
<1>1. pc = "allocate" /\ UNCHANGED <<size, taken>> /\ mem = taken /\ trampoline = 0
  BY DEF Allocate, X86Inv, Counting
<1>2. HotPatchable' <=> HotPatchable
  BY <1>1 DEF HotPatchable, Starts, Offsets
<1>3. CASE pc' = "idle" /\ UNCHANGED <<trampoline, mem>>
  BY <1>1, <1>2, <1>3 DEF X86Inv, Typed, Memory, Counting, Written, Hooked
<1>4. ASSUME NEW b \in Blocks, \A x \in b .. b + size + 4 : x \in DOMAIN mem /\ mem[x] = Unmapped,
             trampoline' = b, pc' = "build", mem' = Fill(mem, b, size + 5, Zero)
      PROVE  X86Inv'
  <2>1. mem' \in Memory
    BY <1>4, FillType, FillerTypes DEF X86Inv, Typed, Memory
  <2>2. Typed'
    <3>1. b # 0 /\ b \in Blocks /\ b .. b + size + 4 \subseteq DOMAIN taken
      BY <1>1, <1>4, X86Assumption
    <3> QED BY <1>1, <1>4, <2>1, <3>1 DEF X86Inv, Typed, Memory
  <2>3. Counting'
    BY <1>1, <1>2, <1>4 DEF X86Inv, Counting
  <2>4. \A x \in DOMAIN taken : ~InTrampoline(x)' => mem'[x] = taken[x]
    <3> TAKE x \in DOMAIN taken
    <3>1. x \in DOMAIN mem /\ mem[x] = taken[x] /\ x \in Int /\ b \in Int /\ size \in Int
      BY <1>1, X86Assumption DEF X86Inv, Typed, Memory
    <3>2. InTrampoline(x)' <=> b <= x /\ x < b + (size + 5)
      BY <1>1, <1>4, <3>1 DEF InTrampoline
    <3> QED BY <1>4, <3>1, <3>2 DEF Fill
  <2>5. Written'
    BY <1>1, <1>4, <2>4 DEF Written, Hooked
  <2> QED BY <2>2, <2>3, <2>5 DEF X86Inv
<1> QED BY <1>3, <1>4 DEF Allocate

\* What Build leaves in memory, by address.
LEMMA BuildCells ==
  ASSUME X86Inv, Build
  PROVE  /\ mem' \in Memory
         /\ JumpAt(mem', trampoline + size, Function + size)
         /\ \A x \in DOMAIN taken : ~InTrampoline(x) => mem'[x] = mem[x]
         /\ HotPatchable => \A o \in 0 .. 4 : mem'[trampoline + o] = taken[Function + o]
<1> DEFINE b == trampoline
           s == Peek(mem, Function, size)
           copied == Poke(mem, b, s)
           jumped == Poke(copied, b + size, Bytes(Jmp(b + size, Function + size)))
<1>1. /\ pc = "build" /\ mem' = Relocate(jumped, b, Function, size)
      /\ b # 0 /\ b \in Int /\ Function \in Int /\ size \in 0 .. 19
      /\ mem \in [DOMAIN taken -> Cell] /\ DOMAIN mem = DOMAIN taken /\ DOMAIN taken \subseteq Int
      /\ b .. b + size + 4 \subseteq DOMAIN taken
  BY Places DEF Build, X86Inv, Typed, Memory
<1>2. s \in Seq(Cell) /\ Len(s) = size /\ \A k \in 1 .. size : s[k] = mem[Function + k - 1]
  <2>1. Function .. Function + size - 1 \subseteq DOMAIN taken
    BY DEF X86Inv, Typed
  <2> QED BY <1>1, <2>1, PeekType DEF Peek
<1>3. copied \in [DOMAIN taken -> Cell]
  BY <1>1, <1>2, PokeType
<1>4. \A x \in DOMAIN taken :
        copied[x] = IF b <= x /\ x < b + size THEN mem[Function + (x - b)] ELSE mem[x]
  <2> HIDE DEF s
  <2> TAKE x \in DOMAIN taken
  <2>1. CASE b <= x /\ x < b + size
    <3>1. copied[x] = s[x - b + 1] /\ x - b + 1 \in 1 .. size
      BY <1>1, <1>2, <2>1 DEF Poke
    <3>2. s[x - b + 1] = mem[Function + (x - b + 1) - 1]
      BY <1>2, <3>1
    <3>3. Function + (x - b + 1) - 1 = Function + (x - b)
      BY <1>1
    <3> QED BY <2>1, <3>1, <3>2, <3>3
  <2>2. CASE ~(b <= x /\ x < b + size)
    BY <1>1, <1>2, <2>2 DEF Poke
  <2> QED BY <2>1, <2>2
<1> HIDE DEF copied
<1>5. jumped \in [DOMAIN taken -> Cell]
  <2>1. b + size \in Int /\ Function + size \in Int
    BY <1>1
  <2> QED BY <1>1, <1>3, <2>1, PokeJump
<1>6. /\ JumpAt(jumped, b + size, Function + size)
      /\ \A x \in DOMAIN taken : x \notin b + size .. b + size + 4 => jumped[x] = copied[x]
  <2>1. b + size .. b + size + 4 \subseteq DOMAIN copied
    BY <1>1, <1>3
  <2> QED BY <1>1, <1>3, <2>1, JumpPoked
<1> HIDE DEF jumped
<1>7. mem' \in Memory
  BY <1>1, <1>5, RelocateType DEF Memory
<1>8. \A x \in DOMAIN taken : ~(b <= x /\ x < b + size) => mem'[x] = jumped[x]
  BY <1>1, <1>5 DEF Relocate
<1>9. JumpAt(mem', b + size, Function + size)
  <2>1. DOMAIN mem' = DOMAIN taken /\ DOMAIN jumped = DOMAIN taken
    BY <1>5, <1>7 DEF Memory
  <2> SUFFICES ASSUME NEW k \in 0 .. 4
               PROVE  /\ b + size + k \in DOMAIN mem'
                      /\ mem'[b + size + k] = <<Jmp(b + size, Function + size), k>>
    BY DEF JumpAt
  <2>2. /\ b + size + k \in DOMAIN taken
        /\ jumped[b + size + k] = <<Jmp(b + size, Function + size), k>>
    BY <1>6, <2>1 DEF JumpAt
  <2>3. ~(b <= b + size + k /\ b + size + k < b + size)
    BY <1>1
  <2> QED BY <1>8, <2>1, <2>2, <2>3
<1>10. \A x \in DOMAIN taken : ~InTrampoline(x) => mem'[x] = mem[x]
  BY <1>1, <1>4, <1>6, <1>8 DEF InTrampoline
<1>11. ASSUME HotPatchable, NEW o \in 0 .. 4 PROVE mem'[b + o] = taken[Function + o]
  <2>1. size = 5
    BY <1>1, <1>11 DEF X86Inv, Counting
  <2>2. /\ b + o \in DOMAIN taken /\ Function + o \in DOMAIN taken
        /\ b <= b + o /\ b + o < b + size /\ b + o \notin b + size .. b + size + 4
        /\ (b + o) - b = o
    BY <1>1, <2>1, <1>11 DEF HotPatchable, Offsets
  <2>3. mem[Function + o] = taken[Function + o]
    <3>1. ~InTrampoline(Function + o)
      BY <1>1, Apart DEF X86Inv
    <3> QED BY <1>1, <2>2, <3>1 DEF X86Inv, Written
  <2>4. jumped[b + o] = taken[Function + o]
    <3>1. jumped[b + o] = copied[b + o]
      BY <1>6, <2>2
    <3>2. copied[b + o] = mem[Function + o]
      <4>1. PICK y \in DOMAIN taken : y = b + o
        BY <2>2
      <4>2. b <= y /\ y < b + size
        BY <2>2, <4>1
      <4>3. copied[y] = mem[Function + (y - b)]
        BY <1>4, <4>2
      <4>4. y - b = o
        BY <1>1, <4>1
      <4> QED BY <4>1, <4>3, <4>4
    <3> QED BY <2>2, <2>3, <3>1, <3>2
  <2>5. At(taken, Function + o).op \notin RelDisp
    BY <1>11 DEF HotPatchable
  <2> QED BY <1>1, <1>5, <2>2, <2>4, <2>5 DEF Relocate, At
<1> QED BY <1>7, <1>9, <1>10, <1>11

LEMMA BuildX86 == X86Inv /\ Build => X86Inv'
<1> SUFFICES ASSUME X86Inv, Build PROVE X86Inv'
  OBVIOUS
<1>1. /\ pc = "build" /\ pc' = "patch" /\ UNCHANGED <<size, trampoline, taken>>
      /\ trampoline \in Int /\ size \in 0 .. 19
      /\ trampoline .. trampoline + size + 4 \subseteq DOMAIN taken
  BY Places DEF Build, X86Inv, Typed
<1>2. /\ mem' \in Memory
      /\ JumpAt(mem', trampoline + size, Function + size)
      /\ \A x \in DOMAIN taken : ~InTrampoline(x) => mem'[x] = mem[x]
      /\ HotPatchable => \A o \in 0 .. 4 : mem'[trampoline + o] = taken[Function + o]
  BY BuildCells
<1>3. HotPatchable' <=> HotPatchable
  BY <1>1 DEF HotPatchable, Starts, Offsets
<1>4. Typed'
  BY <1>1, <1>2 DEF X86Inv, Typed, Memory
<1>5. Counting'
  BY <1>1, <1>3 DEF X86Inv, Counting, Starts
<1>6. \A x \in DOMAIN taken : ~InTrampoline(x)' => mem'[x] = taken[x]
  BY <1>1, <1>2 DEF X86Inv, Written, InTrampoline
<1>7. HotPatchable => \A o \in 0 .. 4 : trampoline + o \in DOMAIN taken
  BY <1>1
<1>8. Written'
  BY <1>1, <1>2, <1>3, <1>6, <1>7 DEF Written, Hooked
<1> QED BY <1>4, <1>5, <1>8 DEF X86Inv

LEMMA PlaceJumpX86 == X86Inv /\ PlaceJump => X86Inv'
<1> SUFFICES ASSUME X86Inv, PlaceJump PROVE X86Inv'
  OBVIOUS
<1> DEFINE b == trampoline
<1>1. /\ pc = "patch" /\ pc' = "pad" /\ UNCHANGED <<size, trampoline, taken>>
      /\ mem' = Poke(mem, Function, Bytes(Jmp(Function, Target)))
      /\ b # 0 /\ b \in Int /\ Function \in Int /\ Target \in Int /\ size \in 0 .. 19
      /\ mem \in [DOMAIN taken -> Cell] /\ DOMAIN mem = DOMAIN taken /\ DOMAIN taken \subseteq Int
      /\ b + 23 < Function \/ Function + 30 < b
  BY Places DEF PlaceJump, X86Inv, Typed, Memory
<1>2. mem' \in Memory
  BY <1>1, PokeJump DEF Memory
<1>3. HotPatchable' <=> HotPatchable
  BY <1>1 DEF HotPatchable, Starts, Offsets
<1>4. Typed'
  BY <1>1, <1>2 DEF X86Inv, Typed, Memory
<1>5. Counting'
  BY <1>1, <1>3 DEF X86Inv, Counting, Starts
<1>6. ASSUME HotPatchable
      PROVE  /\ JumpAt(mem', b + 5, Function + 5) /\ JumpAt(mem', Function, Target)
             /\ \A x \in DOMAIN taken : ~InTrampoline(x) /\ ~InEntry(x) => mem'[x] = taken[x]
             /\ \A o \in 0 .. 4 : b + o \in DOMAIN taken /\ mem'[b + o] = taken[Function + o]
  <2>1. size = 5
    BY <1>1, <1>6 DEF X86Inv, Counting
  <2>2. Function .. Function + 4 \subseteq DOMAIN mem
    BY <1>1, <2>1 DEF X86Inv, Typed
  <2>3. /\ JumpAt(mem', Function, Target)
        /\ \A x \in DOMAIN taken : x \notin Function .. Function + 4 => mem'[x] = mem[x]
    BY <1>1, <2>2, JumpPoked
  <2>4. \A k \in 0 .. 9 : b + k \in DOMAIN taken => mem'[b + k] = mem[b + k]
    BY <1>1, <2>3
  <2>5. JumpAt(mem, b + 5, Function + 5)
    BY <1>1, <2>1 DEF X86Inv, Written
  <2>6. JumpAt(mem', b + 5, Function + 5)
    <3> SUFFICES ASSUME NEW k \in 0 .. 4
                 PROVE  /\ b + 5 + k \in DOMAIN mem'
                        /\ mem'[b + 5 + k] = <<Jmp(b + 5, Function + 5), k>>
      BY DEF JumpAt
    <3>1. /\ b + 5 + k \in DOMAIN mem /\ mem[b + 5 + k] = <<Jmp(b + 5, Function + 5), k>>
      BY <2>5 DEF JumpAt
    <3>2. b + 5 + k \notin Function .. Function + 4
      BY <1>1
    <3> QED BY <1>1, <1>2, <2>3, <3>1, <3>2 DEF Memory
  <2>7. \A x \in DOMAIN taken : ~InTrampoline(x) /\ ~InEntry(x) => mem'[x] = taken[x]
    BY <1>1, <2>3 DEF X86Inv, Written, InEntry
  <2>8. \A o \in 0 .. 4 : b + o \in DOMAIN taken /\ mem[b + o] = taken[Function + o]
    BY <1>1, <1>6 DEF X86Inv, Written
  <2>9. \A o \in 0 .. 4 : mem'[b + o] = mem[b + o]
    BY <1>1, <2>4, <2>8
  <2> QED BY <2>3, <2>6, <2>7, <2>8, <2>9
<1>7. Written'
  BY <1>1, <1>3, <1>6 DEF Written, Hooked, InTrampoline, InEntry
<1> QED BY <1>4, <1>5, <1>7 DEF X86Inv

LEMMA PadX86 == X86Inv /\ PadNops => X86Inv'
<1> SUFFICES ASSUME X86Inv, PadNops PROVE X86Inv'
  OBVIOUS
<1>1. /\ pc = "pad" /\ UNCHANGED <<size, trampoline, taken>> /\ trampoline # 0
      /\ mem \in [DOMAIN taken -> Cell] /\ size \in 0 .. 19
  BY DEF PadNops, X86Inv, Typed, Memory
<1>2. HotPatchable' <=> HotPatchable
  BY <1>1 DEF HotPatchable, Starts, Offsets
<1>3. CASE size < 5 /\ pc' = "crashed" /\ UNCHANGED mem
  BY <1>1, <1>2, <1>3 DEF X86Inv, Typed, Memory, Counting, Written, Hooked
<1>4. CASE size >= 5 /\ pc' = "idle" /\ mem' = Fill(mem, Function + size, size - 5, Nop)
  <2>1. mem' \in Memory
    BY <1>1, <1>4, FillType, FillerTypes DEF Memory
  <2>2. Typed'
    BY <1>1, <1>4, <2>1 DEF X86Inv, Typed, Memory
  <2>3. Counting'
    BY <1>1, <1>2, <1>4 DEF X86Inv, Counting
  <2>4. HotPatchable => mem' = mem
    <3> SUFFICES ASSUME HotPatchable PROVE mem' = mem
      OBVIOUS
    <3>1. size = 5
      BY <1>1 DEF X86Inv, Counting
    <3>2. DOMAIN taken \subseteq Int /\ Function \in Int
      BY X86Assumption DEF X86Inv, Typed
    <3> QED BY <1>1, <1>4, <3>1, <3>2 DEF Fill
  <2>5. Written'
    BY <1>1, <1>2, <1>4, <2>4 DEF X86Inv, Written, Hooked, InTrampoline, InEntry
  <2> QED BY <2>2, <2>3, <2>5 DEF X86Inv
<1> QED BY <1>1, <1>3, <1>4 DEF PadNops

LEMMA NextX86 == X86Inv /\ [Next]_vars => X86Inv'
<1> SUFFICES ASSUME X86Inv, [Next]_vars PROVE X86Inv'
  OBVIOUS
<1>1. CASE UNCHANGED vars
  BY <1>1 DEF vars, X86Inv, Typed, Memory, Counting, Written, Hooked, InTrampoline,
              InEntry, HotPatchable, Starts, Offsets
<1> QED BY <1>1, BeginX86, DisassembleX86, EndSizingX86, AllocateX86, BuildX86,
           PlaceJumpX86, PadX86 DEF Next

-----------------------------------------------------------------------------
(* Theorems *)

LEMMA InvHotPatchRight == X86Inv => HotPatchRight
<1> SUFFICES ASSUME X86Inv, Hooked, HotPatchable
             PROVE  /\ Follow(mem, Function) = Target
                    /\ Follow(mem, trampoline + size) = Function + size
                    /\ OnlySavedOverwritten /\ StolenWhole /\ StolenMoved
  BY DEF HotPatchRight
<1> DEFINE b == trampoline
<1>1. /\ size = 5 /\ b # 0 /\ b \in Int /\ Function \in Int /\ Target \in Int
      /\ Function - (b + 5) \in -Reach .. Reach - 1 /\ Reach \in Nat
      /\ DOMAIN mem = DOMAIN taken
  BY Places, ReachAssumption DEF X86Inv, Counting, Hooked, Typed, Memory
<1>2. /\ JumpAt(mem, b + 5, Function + 5) /\ JumpAt(mem, Function, Target)
      /\ \A x \in DOMAIN taken : ~InTrampoline(x) /\ ~InEntry(x) => mem[x] = taken[x]
      /\ \A o \in 0 .. 4 : b + o \in DOMAIN taken /\ mem[b + o] = taken[Function + o]
  BY DEF X86Inv, Written
<1>3. Follow(mem, Function) = Target
  BY <1>1, <1>2, JumpFollow, PlacesAssumption
<1>4. Follow(mem, b + size) = Function + size
  <2>1. b + 5 \in Int /\ Function + 5 \in Int
        /\ Function + 5 - (b + 5 + 5) \in -Reach .. Reach - 1
    BY <1>1
  <2> QED BY <1>1, <1>2, <2>1, JumpFollow
<1>5. OnlySavedOverwritten
  <2> SUFFICES ASSUME NEW o \in Offsets, o >= size PROVE mem[Function + o] = taken[Function + o]
    BY DEF OnlySavedOverwritten
  <2>1. o \in 0 .. 30 /\ Function + o \in DOMAIN taken
    BY DEF Offsets, MaxLength
  <2>2. ~InTrampoline(Function + o)
    BY <1>1, <2>1, Apart DEF X86Inv
  <2>3. ~InEntry(Function + o)
    BY <1>1, <2>1 DEF InEntry
  <2> QED BY <1>2, <2>1, <2>2, <2>3
<1>6. StolenWhole
  BY <1>1 DEF StolenWhole, HotPatchable
<1>7. StolenMoved
  <2> SUFFICES ASSUME NEW o \in Offsets, o < size, Starts(o)
               PROVE  /\ Intact(mem, b + o)
                      /\ SameEffect(At(mem, b + o), b + o, At(taken, Function + o), Function + o)
    BY DEF StolenMoved
  <2>1. o \in 0 .. 4
    BY <1>1 DEF Offsets, MaxLength
  <2> DEFINE i == At(taken, Function + o)
  <2>2. /\ Intact(taken, Function + o) /\ o + i.len \in 0 .. 5
        /\ i.op \notin RelImm \cup RelDisp
    BY <2>1 DEF HotPatchable, Decodes
  <2>3. mem[b + o] = taken[Function + o] /\ b + o \in DOMAIN mem
    BY <1>1, <1>2, <2>1
  <2>4. At(mem, b + o) = i
    BY <2>3 DEF At
  <2>5. i.len \in Int
    <3>1. taken[Function + o] \in Cell
      BY DEF X86Inv, Typed, Memory, Offsets
    <3> QED BY <3>1 DEF At, Cell, Instruction
  <2>6. mem[b + o][2] = 0
    BY <2>2, <2>3 DEF Intact
  <2>7. \A k \in 0 .. i.len - 1 : b + o + k \in DOMAIN mem /\ mem[b + o + k] = <<i, k>>
    <3> HIDE DEF i
    <3> TAKE k \in 0 .. i.len - 1
    <3>1. o + k \in 0 .. 4 /\ b + (o + k) = b + o + k /\ Function + (o + k) = Function + o + k
      BY <1>1, <2>1, <2>2, <2>5
    <3>2. b + (o + k) \in DOMAIN taken /\ mem[b + (o + k)] = taken[Function + (o + k)]
      BY <1>2, <3>1
    <3>3. taken[Function + o + k] = <<i, k>>
      BY <2>2 DEF Intact, i
    <3> QED BY <1>1, <3>1, <3>2, <3>3
  <2>8. Intact(mem, b + o)
    BY <2>3, <2>4, <2>6, <2>7 DEF Intact
  <2> QED BY <2>2, <2>4, <2>8 DEF SameEffect
<1> QED BY <1>3, <1>4, <1>5, <1>6, <1>7

\* A hot-patchable function is hooked right, wherever the blocks lie within the
\* reach of a jump and whatever follows the prologue (HookLib.h:26-46).
THEOREM SpecHotPatchRight == Spec => []HotPatchRight
<1>1. Spec => []X86Inv
  BY InitX86, NextX86, PTL DEF Spec
<1> QED BY <1>1, InvHotPatchRight, PTL

LEMMA StepEntryLast ==
  X86Inv /\ [Next]_vars =>
    [mem'[Function] # mem[Function] =>
       Follow(mem, trampoline + size) = Function + size]_vars
<1> SUFFICES ASSUME X86Inv, Next, mem'[Function] # mem[Function]
             PROVE  Follow(mem, trampoline + size) = Function + size
  OBVIOUS
<1>1. Function \in Int /\ Function \in DOMAIN taken /\ size \in 0 .. 19 /\ mem \in Memory
  BY X86Assumption DEF X86Inv, Typed
<1>2. CASE apply_hook_x86 \/ Disassemble \/ EndSizing
  BY <1>2 DEF apply_hook_x86, Disassemble, EndSizing
<1>3. CASE Allocate
  <2>1. PICK b \in Blocks : mem' = Fill(mem, b, size + 5, Zero)
    BY <1>3 DEF Allocate
  <2>2. ~(b <= Function /\ Function < b + (size + 5))
    BY <1>1, X86Assumption, PlacesAssumption DEF MaxLength
  <2> QED BY <1>1, <2>1, <2>2 DEF Fill, Memory
<1>4. CASE Build
  <2>1. trampoline # 0
    BY <1>4 DEF Build, X86Inv, Typed
  <2>2. ~InTrampoline(Function + 0) /\ Function + 0 = Function
    BY <1>1, <2>1, Apart DEF X86Inv
  <2> QED BY <1>1, <1>4, <2>2, BuildCells
<1>5. CASE PlaceJump
  <2> DEFINE b == trampoline
  <2>1. JumpAt(mem, b + size, Function + size)
    BY <1>5 DEF PlaceJump, X86Inv, Written
  <2>2. b \in Int /\ Function - (b + 5) \in -Reach .. Reach - 1 /\ Reach \in Nat
    BY <1>5, Places, ReachAssumption DEF PlaceJump, X86Inv, Typed
  <2> DEFINE a == b + size
             t == Function + size
  <2>3. /\ a \in Int /\ t \in Int /\ t - (a + 5) \in -Reach .. Reach - 1
    BY <1>1, <2>2
  <2>4. JumpAt(mem, a, t)
    BY <2>1
  <2> HIDE DEF a, t
  <2>5. Follow(mem, a) = t
    BY <2>3, <2>4, JumpFollow
  <2> QED BY <2>5 DEF a, t
<1>6. CASE PadNops
  <2>1. mem' = mem \/ (size >= 5 /\ mem' = Fill(mem, Function + size, size - 5, Nop))
    BY <1>1, <1>6 DEF PadNops
  <2> QED BY <1>1, <2>1 DEF Fill, Memory
<1> QED BY <1>2, <1>3, <1>4, <1>5, <1>6 DEF Next

\* The entry changes only when the trampoline leads back (HookLib.h:36-43).
THEOREM SpecEntryLast == Spec => EntryLast
<1>1. Spec => []X86Inv
  BY InitX86, NextX86, PTL DEF Spec
<1> QED BY <1>1, StepEntryLast, PTL DEF Spec, EntryLast
=============================================================================
