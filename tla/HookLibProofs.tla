---------------------------- MODULE HookLibProofs ----------------------------
(***************************************************************************)
(* Proofs about HookLib.  For any functions, hook functions, blocks and    *)
(* memory contents: its types, and that every registered trampoline is     *)
(* allocated and belongs to one hook.  When all blocks are near: hooks     *)
(* lead where they should, never into released memory, and HookLib         *)
(* implements Detour; what unhooking restores; and which of the stolen     *)
(* instructions still do in the trampoline what they did in the function.  *)
(***************************************************************************)
EXTENDS HookLib, CodeMemoryProofs

-----------------------------------------------------------------------------
(* The inductive invariant *)

\* What a call in progress knows: its parameters and its block are valid, and
\* the bytes it has sized are mapped and not many more than it needs.
InCall ==
  /\ pc \notin {"idle", "free"} =>
       /\ loc.fn \in Functions /\ loc.target \in Targets /\ loc.tramp \in live
       /\ size <= needed_size + 14
       /\ loc.fn .. loc.fn + size - 1 \subseteq DOMAIN pristine
  /\ pc = "free" => loc.fn \in DOMAIN active_hooks

HookInv == TypeOK /\ InCall /\ OwnTrampolines

\* Memory in the form the lemmas above take it.
LEMMA MemoryType ==
  ASSUME TypeOK
  PROVE  /\ DOMAIN pristine \subseteq Int /\ mem \in [DOMAIN pristine -> Cell]
         /\ DOMAIN mem = DOMAIN pristine
         /\ \A b \in Blocks : b .. b + MaxStolen - 1 \subseteq DOMAIN pristine
BY ImagesAssumption DEF TypeOK

LEMMA InitHookInv == Init => HookInv
<1> SUFFICES ASSUME Init PROVE HookInv
  OBVIOUS
<1> USE DEF Init
<1>1. TypeOK
  <2>1. loc \in [fn : Functions \cup {0}, target : Targets \cup {0},
                 tramp : Blocks \cup {0}, far : BOOLEAN]
    BY DEF NoCall
  <2>2. DOMAIN active_hooks = {}
    OBVIOUS
  <2>3. pristine \in Images /\ mem \in [DOMAIN pristine -> Cell]
    BY ImagesAssumption
  <2>4. calls \in 0 .. MaxCalls /\ size \in 0 .. MaxStolen
    BY PlacesAssumption DEF MaxStolen
  <2>5. wanted \in [Functions -> Targets \cup {Own}]
    OBVIOUS
  <2> QED
    BY <2>1, <2>2, <2>3, <2>4, <2>5 DEF TypeOK
<1>2. InCall
  BY DEF InCall
<1>3. OwnTrampolines
  <2>1. DOMAIN active_hooks = {}
    OBVIOUS
  <2> QED
    BY <2>1 DEF OwnTrampolines
<1> QED
  BY <1>1, <1>2, <1>3 DEF HookInv

LEMMA ApplyHookInv ==
  ASSUME HookInv, NEW f \in Functions, NEW t \in Targets, ApplyHookX64(f, t)
  PROVE  HookInv'
<1> USE DEF HookInv
<1>0. PICK far \in BOOLEAN :
        \E b \in (IF far THEN FarBlocks ELSE NearBlocks) \ live :
          /\ loc' = [fn |-> f, target |-> t, tramp |-> b, far |-> far]
          /\ live' = live \cup {b}
          /\ mem' = Fill(mem, b, BlockSize, Zero)
  BY DEF ApplyHookX64
<1>1. PICK b \in (IF far THEN FarBlocks ELSE NearBlocks) \ live :
        /\ loc' = [fn |-> f, target |-> t, tramp |-> b, far |-> far]
        /\ live' = live \cup {b}
        /\ mem' = Fill(mem, b, BlockSize, Zero)
  BY <1>0
<1>2. /\ pc = "idle" /\ pc' = "sizing" /\ size' = 0 /\ calls < MaxCalls
      /\ calls' = calls + 1
      /\ UNCHANGED <<active_hooks, pristine, wanted>>
  BY DEF ApplyHookX64
<1>3. b \in Blocks /\ b \notin live
  BY DEF Blocks
<1>4. mem' \in [DOMAIN pristine -> Cell]
  BY <1>1, MemoryType, FillType, FillerTypes
<1>5. TypeOK'
  <2>1. calls' \in 0 .. MaxCalls /\ size' \in 0 .. MaxStolen
    BY <1>2, PlacesAssumption DEF TypeOK, MaxStolen
  <2>2. loc' \in [fn : Functions \cup {0}, target : Targets \cup {0},
                  tramp : Blocks \cup {0}, far : BOOLEAN]
    BY <1>1, <1>3
  <2> QED
    BY <1>1, <1>2, <1>3, <1>4, <2>1, <2>2 DEF TypeOK
<1>6. InCall'
  <2>1. loc'.fn \in Nat
    BY <1>1, PlacesAssumption
  <2>2. loc'.fn .. loc'.fn + size' - 1 = {}
    BY <1>2, <2>1
  <2>4. size' <= needed_size' + 14
    BY <1>2 DEF needed_size
  <2> QED
    BY <1>1, <1>2, <2>2, <2>4 DEF InCall
<1>7. OwnTrampolines'
  BY <1>1, <1>2, <1>3 DEF OwnTrampolines
<1> QED
  BY <1>5, <1>6, <1>7

LEMMA DisassembleInv ==
  ASSUME HookInv, Disassemble PROVE HookInv'
<1> USE DEF HookInv
<1> DEFINE a == loc.fn + size
<1>1. /\ pc = "sizing" /\ size < needed_size
      /\ UNCHANGED <<pc, loc, active_hooks, mem, live, history>>
  BY DEF Disassemble
<1>2. PICK n \in IF Decodes(mem, a) THEN {At(mem, a).len} ELSE Junk(a) :
        size' = size + n
  BY DEF Disassemble
<1>3. loc.fn \in Nat /\ size \in Nat /\ a \in Nat /\ needed_size \in {5, 14}
  <2>1. loc.fn \in Nat
    BY <1>1, PlacesAssumption DEF InCall
  <2>2. size \in Nat
    BY DEF TypeOK, MaxStolen
  <2> QED BY <2>1, <2>2 DEF needed_size
<1>4. n \in 0 .. MaxLength /\ a .. a + n - 1 \subseteq DOMAIN pristine
  <2>1. CASE Decodes(mem, a)
    <3>1. n = At(mem, a).len /\ Intact(mem, a) /\ At(mem, a).op # "code"
      BY <1>2, <2>1 DEF Decodes
    <3>2. a \in DOMAIN mem
      BY <3>1 DEF Intact
    <3>3. At(mem, a) \in Instruction
      BY <3>2, MemoryType DEF At, Cell
    <3>4. n \in 0 .. MaxLength
      BY <3>1, <3>3 DEF Instruction, MaxLength
    <3>5. \A k \in 0 .. n - 1 : a + k \in DOMAIN mem
      BY <3>1 DEF Intact
    <3>6. ASSUME NEW x \in a .. a + n - 1 PROVE x \in DOMAIN mem
      <4>1. x - a \in 0 .. n - 1 /\ a + (x - a) = x
        BY <1>3, <3>4
      <4> QED
        BY <4>1, <3>5
    <3> QED
      BY <3>4, <3>6, MemoryType
  <2>2. CASE ~Decodes(mem, a)
    <3>1. n \in JunkLens /\ a .. a + n - 1 \subseteq DOMAIN mem
      BY <1>2, <2>2 DEF Junk
    <3>2. n \in 1 .. MaxLength
      BY <3>1, PlacesAssumption
    <3> QED
      BY <3>1, <3>2, MemoryType DEF MaxLength
  <2> QED
    BY <2>1, <2>2
<1> HIDE DEF a
<1>5. size' <= needed_size + 14 /\ size' \in 0 .. MaxStolen
  BY <1>1, <1>2, <1>3, <1>4 DEF MaxLength, MaxStolen
<1>6. loc.fn .. loc.fn + size' - 1 \subseteq DOMAIN pristine
  <2>1. loc.fn .. loc.fn + size - 1 \subseteq DOMAIN pristine
    BY <1>1 DEF InCall
  <2>2. loc.fn .. loc.fn + size' - 1 \subseteq
          (loc.fn .. loc.fn + size - 1) \cup (a .. a + n - 1)
    BY <1>2, <1>3, <1>4 DEF a, MaxLength
  <2> QED
    BY <1>4, <2>1, <2>2
<1>7. TypeOK'
  BY <1>1, <1>5 DEF TypeOK, history
<1>8. needed_size' = needed_size
  BY <1>1 DEF needed_size
<1>9. InCall'
  BY <1>1, <1>5, <1>6, <1>8 DEF InCall, history
<1>10. OwnTrampolines'
  BY <1>1 DEF OwnTrampolines
<1> QED
  BY <1>7, <1>9, <1>10

\* A step of apply_hook_x64 that writes memory and goes on to another step.
LEMMA WriteInv ==
  ASSUME HookInv, pc \notin {"idle", "free"},
         pc' \in {"build", "patch", "disp", "nops", "record", "crashed"},
         mem' \in [DOMAIN pristine -> Cell],
         UNCHANGED <<loc, size, active_hooks, live, history>>
  PROVE  HookInv'
<1> USE DEF HookInv
<1>1. UNCHANGED <<loc, size, active_hooks, live, calls, pristine, wanted>>
  BY DEF history
<1>2. TypeOK'
  BY <1>1 DEF TypeOK
<1>3. needed_size' = needed_size
  BY <1>1 DEF needed_size
<1>4. InCall'
  BY <1>1, <1>3 DEF InCall
<1>5. OwnTrampolines'
  BY <1>1 DEF OwnTrampolines
<1> QED
  BY <1>2, <1>4, <1>5

\* What the writing steps use: the numbers of a call in progress.
LEMMA CallTypes ==
  ASSUME HookInv, pc \notin {"idle", "free"}
  PROVE  /\ loc.fn \in Int /\ loc.tramp \in Int /\ loc.target \in Int
         /\ loc.tramp \in Blocks
         /\ size \in Nat /\ size <= MaxStolen
         /\ loc.fn .. loc.fn + size - 1 \subseteq DOMAIN pristine
         /\ loc.tramp .. loc.tramp + size - 1 \subseteq DOMAIN pristine
<1> USE DEF HookInv
<1>1. loc.fn \in Functions /\ loc.target \in Targets /\ loc.tramp \in Blocks
  BY DEF InCall, TypeOK
<1>2. loc.fn \in Int /\ loc.tramp \in Int /\ loc.target \in Int
  <2>1. Functions \subseteq Nat /\ Targets \subseteq Nat /\ Blocks \subseteq Nat
    BY PlacesAssumption
  <2>2. loc.fn \in Nat /\ loc.tramp \in Nat /\ loc.target \in Nat
    BY <1>1, <2>1, Zenon
  <2> QED
    BY <2>2
<1>3. size \in Nat /\ size <= MaxStolen
  BY DEF TypeOK, MaxStolen
<1>4. loc.tramp .. loc.tramp + size - 1 \subseteq loc.tramp .. loc.tramp + MaxStolen - 1
  BY <1>2, <1>3 DEF MaxStolen
<1>5. loc.tramp .. loc.tramp + MaxStolen - 1 \subseteq DOMAIN pristine
  BY <1>1, MemoryType
<1> QED
  BY <1>1, <1>2, <1>3, <1>4, <1>5 DEF InCall

LEMMA EndSizingInv == ASSUME HookInv, EndSizing PROVE HookInv'
<1>1. mem' \in [DOMAIN pristine -> Cell]
  BY MemoryType DEF EndSizing, HookInv
<1> QED
  BY <1>1, WriteInv DEF EndSizing

LEMMA BuildNearInv == ASSUME HookInv, BuildNear PROVE HookInv'
<1> DEFINE f == loc.fn
           b == loc.tramp
           M == [DOMAIN pristine -> Cell]
           copied  == Poke(mem, b, Peek(mem, f, size))
           back    == Poke(copied, b + size, Bytes(Jmp(b + size, f + size)))
           forward == Poke(back, b + size + 5, Bytes(QwordJmp(b + size + 5, b + 80)))
           qword   == Poke(forward, b + 80, Bytes(Pointer(loc.target)))
<1>1. /\ pc = "build" /\ pc' = "patch"
      /\ mem' = Relocate(qword, b, f, size)
      /\ UNCHANGED <<loc, size, active_hooks, live, history>>
  BY DEF BuildNear
<1>2. /\ f \in Int /\ b \in Int /\ loc.target \in Int /\ size \in Nat
      /\ f .. f + size - 1 \subseteq DOMAIN pristine
  BY <1>1, CallTypes
<1>3. DOMAIN pristine \subseteq Int /\ mem \in M
  BY MemoryType DEF HookInv
<1>9. /\ b + size \in Int /\ f + size \in Int /\ b + size + 5 \in Int
      /\ b + 80 \in Int
  BY <1>2
<1>4. copied \in M
  <2>1. Peek(mem, f, size) \in Seq(Cell)
    BY <1>2, <1>3, PeekType
  <2> QED
    BY <2>1, <1>2, <1>3, PokeType
<1> HIDE DEF copied
<1>5. back \in M
  BY <1>9, <1>2, <1>3, <1>4, PokeJump, ZenonT(60)
<1> HIDE DEF back
<1>6. forward \in M
  BY <1>9, <1>2, <1>3, <1>5, PokeJump, ZenonT(60)
<1> HIDE DEF forward
<1>7. qword \in M
  BY <1>9, <1>2, <1>3, <1>6, PokeJump, ZenonT(60)
<1> HIDE DEF qword
<1>8. mem' \in M
  BY <1>1, <1>2, <1>7, RelocateType
<1> QED
  BY <1>1, <1>8, WriteInv

\* A table entry.
LEMMA PlaceRelocationType ==
  ASSUME NEW D, D \subseteq Int, NEW m \in [D -> Cell], NEW b \in Int,
         NEW k \in Nat, NEW to \in Int
  PROVE  place_relocation(m, b, k, to) \in [D -> Cell]
<1> DEFINE slot == b + 256 + 8 * k
           jump == b + 80 + 8 * k
           filled == Poke(m, slot, Bytes(Pointer(to)))
<1>1. slot \in Int /\ jump \in Int
  OBVIOUS
<1>2. place_relocation(m, b, k, to) = Poke(filled, jump, Bytes(QwordJmp(jump, slot)))
  BY DEF place_relocation
<1> HIDE DEF slot, jump
<1>3. filled \in [D -> Cell]
  BY <1>1, PokeJump, Zenon
<1> HIDE DEF filled
<1>4. Poke(filled, jump, Bytes(QwordJmp(jump, slot))) \in [D -> Cell]
  BY <1>1, <1>3, PokeJump, Zenon
<1> QED
  BY <1>2, <1>4

LEMMA BuildFarInv == ASSUME HookInv, BuildFar PROVE HookInv'
<1> DEFINE f == loc.fn
           b == loc.tramp
           M == [DOMAIN pristine -> Cell]
           next   == f + size
           entry0 == b + 80
           back   == place_relocation(mem, b, 0, next)
           tables == place_relocation(back, b, 1, loc.target)
<1>1. /\ pc = "build" /\ pc' = "patch"
      /\ UNCHANGED <<loc, size, active_hooks, live, history>>
  BY DEF BuildFar
<1>2. PICK n \in CodeLens :
        mem' = Poke(Poke(tables, b, Bytes(Ins("code", n, f))), b + n, Bytes(Jmp(b + n, entry0)))
  BY DEF BuildFar, build
<1>3. f \in Int /\ b \in Int /\ loc.target \in Int /\ size \in Nat
  BY <1>1, CallTypes
<1>4. n \in Nat
  BY PlacesAssumption
<1>5. next \in Int /\ entry0 \in Int /\ b + n \in Int
  BY <1>3, <1>4
<1>6. DOMAIN pristine \subseteq Int /\ mem \in M
  BY MemoryType DEF HookInv
<1> HIDE DEF next, entry0
<1>7. back \in M
  BY <1>3, <1>5, <1>6, PlaceRelocationType
<1> HIDE DEF back
<1>8. tables \in M
  BY <1>3, <1>6, <1>7, PlaceRelocationType
<1> HIDE DEF tables
<1> DEFINE code == Poke(tables, b, Bytes(Ins("code", n, f)))
<1>9. code \in M
  <2>1. Ins("code", n, f) \in Instruction
    BY <1>3, <1>4, InsType DEF Ops
  <2> QED
    BY <2>1, <1>3, <1>6, <1>8, BytesType, PokeType
<1>10. mem' = Poke(code, b + n, Bytes(Jmp(b + n, entry0)))
  BY <1>2
<1> HIDE DEF code
<1>11. mem' \in M
  BY <1>5, <1>6, <1>9, <1>10, PokeJump, Zenon
<1> QED
  BY <1>1, <1>11, WriteInv

\* The five bytes of the entry's jump, from which the two stores are taken.
LEMMA EntryJumpType ==
  ASSUME HookInv, pc \notin {"idle", "free"}
  PROVE  EntryJump \in [1 .. 5 -> Cell]
<1>1. loc.fn \in Int /\ loc.tramp \in Int /\ size \in Nat
  BY CallTypes
<1>2. loc.tramp + size + 5 \in Int
  BY <1>1
<1>3. EntryJump \in Seq(Cell) /\ Len(EntryJump) = 5
  BY <1>1, <1>2, JumpTypes DEF EntryJump
<1> QED
  BY <1>3, LenProperties

LEMMA PlaceOpcodeInv == ASSUME HookInv, PlaceOpcode PROVE HookInv'
<1>1. pc = "patch" /\ pc' = "disp" /\ mem' = Poke(mem, loc.fn, Peek(EntryJump, 1, 1))
      /\ UNCHANGED <<loc, size, active_hooks, live, history>>
  BY DEF PlaceOpcode
<1>2. Peek(EntryJump, 1, 1) \in Seq(Cell)
  BY <1>1, EntryJumpType, PeekType
<1>3. mem' \in [DOMAIN pristine -> Cell]
  BY <1>1, <1>2, CallTypes, MemoryType, PokeType DEF HookInv
<1> QED
  BY <1>1, <1>3, WriteInv

LEMMA PlaceDispInv == ASSUME HookInv, PlaceDisp PROVE HookInv'
<1>1. pc = "disp" /\ pc' = "nops" /\ mem' = Poke(mem, loc.fn + 1, Peek(EntryJump, 2, 4))
      /\ UNCHANGED <<loc, size, active_hooks, live, history>>
  BY DEF PlaceDisp
<1>2. Peek(EntryJump, 2, 4) \in Seq(Cell)
  BY <1>1, EntryJumpType, PeekType
<1>3. loc.fn + 1 \in Int
  BY <1>1, CallTypes
<1>4. mem' \in [DOMAIN pristine -> Cell]
  BY <1>1, <1>2, <1>3, MemoryType, PokeType DEF HookInv
<1> QED
  BY <1>1, <1>4, WriteInv

LEMMA PlaceFarJumpInv == ASSUME HookInv, PlaceFarJump PROVE HookInv'
<1>1. pc = "patch" /\ pc' = "nops" /\ UNCHANGED <<loc, size, active_hooks, live, history>>
  BY DEF PlaceFarJump
<1>2. PICK to \in {loc.tramp + 88, 0} :
        mem' = Poke(mem, loc.fn, Bytes(Ins("qjmp", 6, 0)) \o Bytes(Pointer(to)))
  BY DEF PlaceFarJump
<1>3. loc.fn \in Int /\ to \in Int
  BY <1>1, CallTypes
<1>4. Ins("qjmp", 6, 0) \in Instruction
  BY InsType DEF Ops
<1>5. Bytes(Ins("qjmp", 6, 0)) \o Bytes(Pointer(to)) \in Seq(Cell)
  BY <1>3, <1>4, BytesType, JumpTypes, ConcatProperties
<1>6. mem' \in [DOMAIN pristine -> Cell]
  BY <1>2, <1>3, <1>5, MemoryType, PokeType DEF HookInv
<1> QED
  BY <1>1, <1>6, WriteInv

LEMMA PadNopsInv == ASSUME HookInv, PadNops PROVE HookInv'
<1>1. pc = "nops" /\ pc' \in {"crashed", "record"}
      /\ UNCHANGED <<loc, size, active_hooks, live, history>>
  BY DEF PadNops
<1>2. mem' \in [DOMAIN pristine -> Cell]
  BY MemoryType, FillType, FillerTypes DEF PadNops, HookInv
<1> QED
  BY <1>1, <1>2, WriteInv

LEMMA RecordInv == ASSUME HookInv, Record PROVE HookInv'
<1> USE DEF HookInv
<1> DEFINE entry(f) == IF f \in DOMAIN active_hooks THEN active_hooks[f]
                       ELSE create_hook_entry(loc.tramp, size)
<1>1. /\ pc = "record" /\ pc' = "idle" /\ loc' = NoCall /\ size' = 0
      /\ active_hooks' = [f \in DOMAIN active_hooks \cup {loc.fn} |-> entry(f)]
      /\ wanted' = [wanted EXCEPT ![loc.fn] = loc.target]
      /\ UNCHANGED <<mem, live, calls, pristine, taken>>
  BY DEF Record
<1>2. /\ loc.fn \in Functions /\ loc.target \in Targets /\ loc.tramp \in live
      /\ loc.tramp \in Blocks /\ size \in Nat /\ size <= MaxStolen
  BY <1>1, CallTypes DEF InCall
<1>3. /\ create_hook_entry(loc.tramp, size).trampoline = loc.tramp
      /\ create_hook_entry(loc.tramp, size).original_bytes \in Seq(Cell)
      /\ Len(create_hook_entry(loc.tramp, size).original_bytes) <= MaxStolen
  <2>1. Peek(mem, loc.tramp, size) \in Seq(Cell) /\ Len(Peek(mem, loc.tramp, size)) = size
    <3>1. /\ mem \in [DOMAIN pristine -> Cell] /\ loc.tramp \in Int /\ size \in Nat
          /\ loc.tramp .. loc.tramp + size - 1 \subseteq DOMAIN pristine
      BY <1>1, CallTypes, MemoryType
    <3> QED
      BY <3>1, PeekType
  <2> QED
    BY <1>2, <2>1 DEF create_hook_entry
<1>4. /\ DOMAIN active_hooks' = DOMAIN active_hooks \cup {loc.fn}
      /\ \A f \in DOMAIN active_hooks : active_hooks'[f] = active_hooks[f]
      /\ loc.fn \notin DOMAIN active_hooks =>
           active_hooks'[loc.fn] = create_hook_entry(loc.tramp, size)
  BY <1>1
<1>5. TypeOK'
  <2>1. loc' \in [fn : Functions \cup {0}, target : Targets \cup {0},
                  tramp : Blocks \cup {0}, far : BOOLEAN]
    BY <1>1 DEF NoCall
  <2>2. \A f \in DOMAIN active_hooks' :
          /\ active_hooks'[f].trampoline \in Blocks
          /\ active_hooks'[f].original_bytes \in Seq(Cell)
          /\ Len(active_hooks'[f].original_bytes) <= MaxStolen
    BY <1>2, <1>3, <1>4 DEF TypeOK
  <2>3. size' \in 0 .. MaxStolen
    BY <1>1 DEF MaxStolen
  <2>4. wanted' \in [Functions -> Targets \cup {Own}]
    BY <1>1, <1>2 DEF TypeOK
  <2> QED
    BY <1>1, <1>2, <1>4, <2>1, <2>2, <2>3, <2>4 DEF TypeOK
<1>6. InCall'
  BY <1>1 DEF InCall
<1>7. OwnTrampolines'
  BY <1>1, <1>2, <1>3, <1>4 DEF OwnTrampolines
<1> QED
  BY <1>5, <1>6, <1>7

LEMMA RemoveHookInv ==
  ASSUME HookInv, NEW f \in Functions, RemoveHook(f)
  PROVE  HookInv'
<1> USE DEF HookInv
<1>1. /\ pc = "idle" /\ f \in DOMAIN active_hooks /\ pc' = "free"
      /\ mem' = Poke(mem, f, active_hooks[f].original_bytes)
      /\ loc' = [NoCall EXCEPT !.fn = f]
      /\ UNCHANGED <<size, active_hooks, live, calls, pristine, wanted>>
  BY DEF RemoveHook, history
<1>2. f \in Int /\ active_hooks[f].original_bytes \in Seq(Cell)
  BY <1>1, PlacesAssumption DEF TypeOK
<1>3. mem' \in [DOMAIN pristine -> Cell]
  BY <1>1, <1>2, MemoryType, PokeType
<1>4. loc' \in [fn : Functions \cup {0}, target : Targets \cup {0},
                tramp : Blocks \cup {0}, far : BOOLEAN] /\ loc'.fn = f
  BY <1>1 DEF NoCall
<1>5. TypeOK'
  BY <1>1, <1>3, <1>4 DEF TypeOK
<1>6. InCall'
  BY <1>1, <1>4 DEF InCall
<1>7. OwnTrampolines'
  BY <1>1 DEF OwnTrampolines
<1> QED
  BY <1>5, <1>6, <1>7

LEMMA FreeTrampolineInv == ASSUME HookInv, FreeTrampoline PROVE HookInv'
<1> USE DEF HookInv
<1> DEFINE b == active_hooks[loc.fn].trampoline
<1>1. /\ pc = "free" /\ pc' = "idle" /\ loc' = NoCall
      /\ active_hooks' = [f \in DOMAIN active_hooks \ {loc.fn} |-> active_hooks[f]]
      /\ wanted' = [wanted EXCEPT ![loc.fn] = Own]
      /\ UNCHANGED <<size, calls, pristine, taken>>
  BY DEF FreeTrampoline
<1>2. \/ live' = live \ {b} /\ mem' = Fill(mem, b, BlockSize, Unmapped)
      \/ live' = live /\ mem' = mem
  BY DEF FreeTrampoline
<1>3. loc.fn \in DOMAIN active_hooks
  BY <1>1 DEF InCall
<1>4. mem' \in [DOMAIN pristine -> Cell]
  BY <1>2, MemoryType, FillType, FillerTypes
<1>5. /\ DOMAIN active_hooks' = DOMAIN active_hooks \ {loc.fn}
      /\ \A f \in DOMAIN active_hooks' : active_hooks'[f] = active_hooks[f]
  BY <1>1
<1>6. TypeOK'
  <2>1. loc' \in [fn : Functions \cup {0}, target : Targets \cup {0},
                  tramp : Blocks \cup {0}, far : BOOLEAN]
    BY <1>1 DEF NoCall
  <2>2. live' \subseteq Blocks
    BY <1>2 DEF TypeOK
  <2>3. wanted' \in [Functions -> Targets \cup {Own}]
    BY <1>1 DEF TypeOK
  <2> QED
    BY <1>1, <1>4, <1>5, <2>1, <2>2, <2>3 DEF TypeOK
<1>7. InCall'
  BY <1>1 DEF InCall
<1>8. OwnTrampolines'
  <2> SUFFICES ASSUME NEW f \in DOMAIN active_hooks'
               PROVE  /\ active_hooks'[f].trampoline \in live'
                      /\ \A g \in DOMAIN active_hooks' \ {f} :
                           active_hooks'[g].trampoline # active_hooks'[f].trampoline
    BY <1>1 DEF OwnTrampolines
  <2>1. active_hooks[f].trampoline \in live /\ active_hooks[f].trampoline # b
    BY <1>3, <1>5 DEF OwnTrampolines
  <2> QED
    BY <1>2, <1>5, <2>1 DEF OwnTrampolines
<1> QED
  BY <1>6, <1>7, <1>8

LEMMA NextHookInv == HookInv /\ [Next]_vars => HookInv'
<1> SUFFICES ASSUME HookInv, [Next]_vars PROVE HookInv'
  OBVIOUS
<1>1. CASE \E f \in Functions, t \in Targets : ApplyHookX64(f, t)
  BY <1>1, ApplyHookInv
<1>2. CASE \E f \in Functions : RemoveHook(f)
  BY <1>2, RemoveHookInv
<1>3. CASE Continue
  BY <1>3, DisassembleInv, EndSizingInv, BuildNearInv, BuildFarInv, PlaceOpcodeInv,
     PlaceDispInv, PlaceFarJumpInv, PadNopsInv, RecordInv, FreeTrampolineInv
     DEF Continue
<1>4. CASE UNCHANGED vars
  <2>1. UNCHANGED <<pc, loc, size, active_hooks, mem, live, calls, pristine, wanted>>
    BY <1>4 DEF vars
  <2>2. needed_size' = needed_size
    BY <2>1 DEF needed_size
  <2> QED
    BY <2>1, <2>2 DEF HookInv, TypeOK, InCall, OwnTrampolines
<1> QED
  BY <1>1, <1>2, <1>3, <1>4 DEF Next

-----------------------------------------------------------------------------
(* The theorems *)

\* Whatever functions are hooked and unhooked, in whatever order and wherever
\* the blocks lie, the library copies, saves and overwrites at most 28 bytes of
\* a function, all of them mapped, and leaves memory a memory.
THEOREM SpecTypeOK == Spec => []TypeOK
<1>1. Init => HookInv
  BY InitHookInv
<1>2. HookInv /\ [Next]_vars => HookInv'
  BY NextHookInv
<1>3. HookInv => TypeOK
  BY DEF HookInv
<1> QED
  BY <1>1, <1>2, <1>3, PTL DEF Spec

\* remove_hook never releases a block twice, and never one that another hook
\* runs through.
THEOREM SpecOwnTrampolines == Spec => []OwnTrampolines
<1>1. Init => HookInv
  BY InitHookInv
<1>2. HookInv /\ [Next]_vars => HookInv'
  BY NextHookInv
<1>3. HookInv => OwnTrampolines
  BY DEF HookInv
<1> QED
  BY <1>1, <1>2, <1>3, PTL DEF Spec

-----------------------------------------------------------------------------
(* Where hooks lead: the inductive invariant, when all blocks are near *)

\* The n stolen bytes at b are followed by the jump to t.
Trampoline(m, b, n, t) ==
  /\ WrittenAt(m, b + n + 5, QwordJmp(b + n + 5, b + 80))
  /\ WrittenAt(m, b + 80, Pointer(t))

\* Calls of f go to that jump, and on to t.
Leads(m, f, b, n, t) == JumpAt(m, f, b + n + 5) /\ Trampoline(m, b, n, t)

Calling  == pc \notin {"idle", "free"}
Entered  == pc \in {"nops", "record", "crashed"}
Patching == pc \in {"patch", "disp"} \/ Entered

\* The entry of f belongs to the call in progress.
Busy(f) == f = loc.fn /\ (pc \in {"disp", "free"} \/ Entered)

\* Nothing releases or overwrites the block that f leads through: it may be that of
\* a later hook than the one in active_hooks.
Routed(f) ==
  \E b \in live, n \in 0 .. 19 :
    /\ Leads(mem, f, b, n, wanted[f])
    /\ Calling => b # loc.tramp
    /\ \A g \in DOMAIN active_hooks \ {f} : active_hooks[g].trampoline # b

HooksLead == \A f \in DOMAIN active_hooks : ~Busy(f) => Routed(f)

\* A function that is not hooked, or no longer, does not begin with a jump.
OthersOwn ==
  /\ \A f \in Functions \ DOMAIN active_hooks : ~Busy(f) => ~IsJump(mem[f])
  /\ pc = "free" => ~IsJump(mem[loc.fn])

\* What will be restored does not begin with one either.
SavedOwn ==
  /\ \A f \in DOMAIN active_hooks :
       LET s == active_hooks[f].original_bytes
       IN  s # << >> /\ ~IsJump(s[1])
  /\ Patching /\ loc.fn \notin DOMAIN active_hooks /\ size > 0 => ~IsJump(mem[loc.tramp])

Written ==
  /\ Calling => ~loc.far
  /\ Patching => Trampoline(mem, loc.tramp, size, loc.target)
  /\ pc = "disp" => mem[loc.fn] = <<Jmp(loc.fn, loc.tramp + size + 5), 0>>
  /\ Entered => JumpAt(mem, loc.fn, loc.tramp + size + 5)
  /\ pc = "record" => size >= 5

RouteInv == HookInv /\ HooksLead /\ OthersOwn /\ SavedOwn /\ Written

-----------------------------------------------------------------------------
(* Places *)

LEMMA Places ==
  ASSUME NearLayout
  PROVE  /\ Functions \subseteq Int /\ Blocks = NearBlocks /\ NearBlocks \subseteq Int
         /\ BlockSize \in Nat /\ BlockSize >= 88 /\ Reach \in Nat /\ Reach >= 80
BY PlacesAssumption, ReachAssumption DEF NearLayout, Blocks

\* A function and a block have no cell in common.
LEMMA TextApart ==
  ASSUME NearLayout, NEW f \in Functions, NEW b \in NearBlocks,
         NEW x \in f .. f + MaxStolen
  PROVE  ~InBlock(b, x)
<1>1. f \in Int /\ b \in Int /\ BlockSize \in Nat
  BY Places
<1>2. f + MaxStolen < b \/ b + BlockSize <= f
  BY DEF NearLayout
<1> QED BY <1>1, <1>2 DEF InBlock, MaxStolen

LEMMA TextsApart ==
  ASSUME NearLayout, NEW f \in Functions, NEW g \in Functions \ {f},
         NEW x \in f .. f + MaxStolen
  PROVE  x \notin g .. g + MaxStolen
<1>1. f \in Int /\ g \in Int
  BY Places
<1>2. f + MaxStolen < g \/ g + MaxStolen < f
  BY DEF NearLayout
<1> QED BY <1>1, <1>2 DEF MaxStolen

LEMMA BlocksApart ==
  ASSUME NearLayout, NEW b \in NearBlocks, NEW c \in NearBlocks \ {b}, NEW x \in Int,
         InBlock(b, x)
  PROVE  ~InBlock(c, x)
<1>1. c \in Int /\ b \in Int /\ BlockSize \in Nat
  BY Places
<1>2. b + BlockSize <= c \/ c + BlockSize <= b
  BY DEF NearLayout
<1> QED BY <1>1, <1>2 DEF InBlock

\* The jump behind the stolen bytes, and its pointer, are inside the block.
LEMMA TrampolineRoom ==
  ASSUME NearLayout, NEW b \in NearBlocks, NEW n \in 0 .. 19,
         NEW x \in (b + n + 5 .. b + n + 10) \cup (b + 80 .. b + 87)
  PROVE  InBlock(b, x)
<1>1. b \in Int /\ BlockSize \in Nat /\ BlockSize >= 88
  BY Places
<1> QED BY <1>1 DEF InBlock

LEMMA TrampolineKept ==
  ASSUME NearLayout, NEW m, NEW m2, DOMAIN m2 = DOMAIN m,
         NEW b \in NearBlocks, NEW n \in 0 .. 19, NEW t, Trampoline(m, b, n, t),
         \A x \in DOMAIN m : InBlock(b, x) => m2[x] = m[x]
  PROVE  Trampoline(m2, b, n, t)
<1>1. b \in Int
  BY Places
<1> DEFINE a == b + n + 5
           p == b + 80
<1>2. a \in Int /\ p \in Int /\ a + 5 = b + n + 10 /\ p + 7 = b + 87
  BY <1>1
<1>3. \A x \in (a .. a + 5) \cup (p .. p + 7) : InBlock(b, x)
  BY <1>2, TrampolineRoom, ZenonT(60)
<1>4. WrittenAt(m, a, QwordJmp(a, p)) /\ WrittenAt(m, p, Pointer(t))
  BY DEF Trampoline
<1> HIDE DEF a, p
<1>5. QwordJmp(a, p).len = 6 /\ Pointer(t).len = 8
  BY DEF QwordJmp, Pointer, Ins
<1>6. WrittenAt(m2, a, QwordJmp(a, p))
  <2>1. \A x \in DOMAIN m : x \in a .. a + 6 - 1 => m2[x] = m[x]
    BY <1>2, <1>3
  <2> QED BY <1>2, <1>4, <1>5, <2>1, WrittenKept
<1>7. WrittenAt(m2, p, Pointer(t))
  <2>1. \A x \in DOMAIN m : x \in p .. p + 8 - 1 => m2[x] = m[x]
    BY <1>2, <1>3
  <2> QED BY <1>2, <1>4, <1>5, <2>1, WrittenKept
<1> QED BY <1>6, <1>7 DEF Trampoline, a, p

LEMMA EntryKept ==
  ASSUME NEW m, NEW m2, DOMAIN m2 = DOMAIN m, NEW f \in Int, NEW to, JumpAt(m, f, to),
         \A x \in DOMAIN m : x \in f .. f + 4 => m2[x] = m[x]
  PROVE  JumpAt(m2, f, to)
<1> SUFFICES ASSUME NEW k \in 0 .. 4
             PROVE  f + k \in DOMAIN m2 /\ m2[f + k] = <<Jmp(f, to), k>>
  BY DEF JumpAt
<1>1. f + k \in DOMAIN m /\ m[f + k] = <<Jmp(f, to), k>> /\ f + k \in f .. f + 4
  BY DEF JumpAt
<1> QED BY <1>1

LEMMA LeadsKept ==
  ASSUME NearLayout, NEW m, NEW m2, DOMAIN m2 = DOMAIN m, NEW f \in Functions,
         NEW b \in NearBlocks, NEW n \in 0 .. 19, NEW t, Leads(m, f, b, n, t),
         \A x \in DOMAIN m : x \in f .. f + 4 \/ InBlock(b, x) => m2[x] = m[x]
  PROVE  Leads(m2, f, b, n, t)
<1>1. f \in Int
  BY Places
<1>2. JumpAt(m2, f, b + n + 5)
  BY <1>1, EntryKept DEF Leads
<1>3. Trampoline(m2, b, n, t)
  BY TrampolineKept DEF Leads
<1> QED BY <1>2, <1>3 DEF Leads

\* Where a processor goes from there.
LEMMA LeadsFollow ==
  ASSUME NearLayout, NEW m, NEW f \in Functions, NEW b \in NearBlocks,
         NEW n \in 0 .. 19, NEW t, Leads(m, f, b, n, t)
  PROVE  /\ f \in DOMAIN m /\ m[f] = <<Jmp(f, b + n + 5), 0>>
         /\ Decodes(m, f) /\ At(m, f).op = "jmp"
         /\ Follow(m, f) = b + n + 5 /\ InBlock(b, b + n + 5)
         /\ Follow(m, b + n + 5) = t
<1>1. f \in Int /\ b \in Int /\ Reach \in Nat /\ Reach >= 80
  BY Places
<1> DEFINE to == b + n + 5
           j == Jmp(f, to)
<1>2. to \in Int /\ to - (f + 5) \in -Reach .. Reach - 1
  <2>1. -Reach <= b - f /\ b - f + 19 < Reach
    BY DEF NearLayout
  <2> QED BY <1>1, <2>1
<1>3. Follow(m, to) = t
  <2>1. (b + 80) - (to + 6) \in -Reach .. Reach - 1
    BY <1>1
  <2>2. WrittenAt(m, to, QwordJmp(to, b + 80)) /\ WrittenAt(m, b + 80, Pointer(t))
    BY DEF Leads, Trampoline
  <2>3. b + 80 \in Int
    BY <1>1
  <2> QED BY <1>2, <2>1, <2>2, <2>3, QwordFollow
<1>4. InBlock(b, to)
  BY <1>1, TrampolineRoom
<1>5. JumpAt(m, f, to)
  BY DEF Leads
<1>6. j.op = "jmp" /\ j.len = 5
  BY DEF Jmp, Ins
<1> HIDE DEF to
<1>7. Follow(m, f) = to
  BY <1>1, <1>2, <1>5, JumpFollow
<1> HIDE DEF j
<1>8. \A k \in 0 .. 4 : f + k \in DOMAIN m /\ m[f + k] = <<j, k>>
  BY <1>5 DEF JumpAt, j
<1>9. f \in DOMAIN m /\ m[f] = <<j, 0>>
  <2>1. f + 0 = f
    BY <1>1
  <2> QED BY <1>8, <2>1
<1>10. Decodes(m, f) /\ At(m, f).op = "jmp"
  BY <1>6, <1>8, <1>9 DEF Decodes, Intact, At
<1> QED BY <1>3, <1>4, <1>7, <1>9, <1>10 DEF to, j

LEMMA LeadsJump ==
  ASSUME NearLayout, NEW m, NEW f, NEW b, NEW n, NEW t,
         f \in Functions, b \in NearBlocks, n \in 0 .. 19, Leads(m, f, b, n, t)
  PROVE  Decodes(m, f) /\ m[f] = <<Jmp(f, b + n + 5), 0>>
BY LeadsFollow

-----------------------------------------------------------------------------
(* Steps *)

LEMMA StateTypes ==
  ASSUME NearLayout, HookInv
  PROVE  /\ mem \in [DOMAIN pristine -> Cell] /\ DOMAIN mem = DOMAIN pristine
         /\ DOMAIN mem \subseteq Int /\ pristine \in Images
         /\ live \subseteq NearBlocks /\ DOMAIN active_hooks \subseteq Functions
         /\ \A f \in DOMAIN active_hooks : active_hooks[f].trampoline \in NearBlocks
         /\ \A f \in Functions : f .. f + 4 \subseteq DOMAIN mem /\ f \in DOMAIN mem
         /\ \A b \in NearBlocks : (b .. b + 29) \cup (b + 80 .. b + 87) \subseteq DOMAIN mem
         /\ \A b \in NearBlocks : b \in DOMAIN mem
<1>1. /\ mem \in [DOMAIN pristine -> Cell] /\ DOMAIN mem = DOMAIN pristine
      /\ DOMAIN mem \subseteq Int
  BY MemoryType DEF HookInv
<1>2. /\ pristine \in Images /\ live \subseteq NearBlocks
      /\ DOMAIN active_hooks \subseteq Functions
      /\ \A f \in DOMAIN active_hooks : active_hooks[f].trampoline \in NearBlocks
  BY Places DEF HookInv, TypeOK
<1>3. \A f \in Functions : f .. f + 4 \subseteq DOMAIN mem
  BY <1>1, <1>2 DEF NearLayout
<1>4. \A b \in NearBlocks : (b .. b + 29) \cup (b + 80 .. b + 87) \subseteq DOMAIN mem
  BY <1>1, <1>2 DEF NearLayout
<1>5. /\ \A f \in Functions : f \in f .. f + 4
      /\ \A b \in NearBlocks : b \in b .. b + 29
  BY Places
<1>6. \A f \in Functions : f \in DOMAIN mem
  BY <1>3, <1>5
<1>7. \A b \in NearBlocks : b \in DOMAIN mem
  BY <1>4, <1>5
<1> QED BY <1>1, <1>2, <1>3, <1>4, <1>6, <1>7

LEMMA CallPlaces ==
  ASSUME NearLayout, RouteInv, Calling
  PROVE  /\ loc.fn \in Functions /\ loc.tramp \in NearBlocks /\ loc.tramp \in live
         /\ loc.target \in Targets /\ size \in 0 .. 19
         /\ ~loc.far
         /\ loc.fn \in Int /\ loc.tramp \in Int /\ loc.target \in Int
<1>1. /\ loc.fn \in Functions /\ loc.target \in Targets /\ loc.tramp \in live
      /\ size <= needed_size + 14
  BY DEF RouteInv, HookInv, InCall, Calling
<1>2. ~loc.far
  BY DEF RouteInv, Written
<1>3. size \in 0 .. 19
  BY <1>1, <1>2 DEF needed_size, RouteInv, HookInv, TypeOK, MaxStolen
<1> QED BY <1>1, <1>2, <1>3, StateTypes, CallTypes DEF RouteInv, Calling

\* A call may write its block and, once its entry is busy, the text of its function:
\* that disturbs no other hook and no other function.
LEMMA OthersKept ==
  ASSUME NearLayout, RouteInv, Calling, Calling',
         UNCHANGED <<loc, size, active_hooks, live, history>>,
         DOMAIN mem' = DOMAIN mem,
         \A x \in DOMAIN mem :
           /\ ~InBlock(loc.tramp, x)
           /\ Busy(loc.fn)' => x \notin loc.fn .. loc.fn + MaxStolen
           => mem'[x] = mem[x],
         Busy(loc.fn) => Busy(loc.fn)'
  PROVE  HooksLead' /\ OthersOwn'
<1>1. /\ loc' = loc /\ active_hooks' = active_hooks /\ live' = live /\ wanted' = wanted
  BY DEF history
<1>2. \A f : Busy(f) => Busy(f)'
  BY <1>1 DEF Busy
<1>3. \A f : Busy(loc.fn)' /\ ~Busy(f)' => f # loc.fn
  BY <1>1 DEF Busy
<1>4. ASSUME NEW f \in Functions, ~Busy(f)', NEW x \in DOMAIN mem,
             x \in f .. f + MaxStolen
      PROVE  mem'[x] = mem[x]
  <2>1. ~InBlock(loc.tramp, x)
    BY <1>4, CallPlaces, TextApart
  <2>2. Busy(loc.fn)' => x \notin loc.fn .. loc.fn + MaxStolen
    BY <1>3, <1>4, CallPlaces, TextsApart
  <2> QED BY <2>1, <2>2
<1>5. ASSUME NEW f \in DOMAIN active_hooks, ~Busy(f)'
      PROVE  Routed(f)'
  <2>1. f \in Functions /\ f \in Int
    BY StateTypes, Places DEF RouteInv
  <2>2. PICK b \in live, n \in 0 .. 19 :
          /\ Leads(mem, f, b, n, wanted[f])
          /\ b # loc.tramp
          /\ \A g \in DOMAIN active_hooks \ {f} : active_hooks[g].trampoline # b
    BY <1>2, <1>5 DEF RouteInv, HooksLead, Routed
  <2>3. b \in NearBlocks
    BY StateTypes DEF RouteInv
  <2>4. ASSUME NEW x \in DOMAIN mem, x \in f .. f + 4 \/ InBlock(b, x)
        PROVE  mem'[x] = mem[x]
    <3>1. CASE x \in f .. f + 4
      <4>1. x \in f .. f + MaxStolen
        BY <2>1, <3>1 DEF MaxStolen
      <4> QED BY <1>4, <1>5, <2>1, <4>1
    <3>2. CASE InBlock(b, x)
      <4>0. x \in Int
        BY StateTypes DEF RouteInv
      <4>1. ~InBlock(loc.tramp, x)
        BY <2>2, <2>3, <3>2, <4>0, CallPlaces, BlocksApart
      <4>2. x \notin loc.fn .. loc.fn + MaxStolen
        BY <2>3, <3>2, CallPlaces, TextApart
      <4> QED BY <4>1, <4>2
    <3> QED BY <2>4, <3>1, <3>2
  <2>5. Leads(mem', f, b, n, wanted[f])
    BY <2>1, <2>2, <2>3, <2>4, LeadsKept
  <2> QED BY <1>1, <2>2, <2>5 DEF Routed
<1>6. ASSUME NEW f \in Functions \ DOMAIN active_hooks, ~Busy(f)'
      PROVE  ~IsJump(mem'[f])
  <2>1. f \in DOMAIN mem
    BY StateTypes DEF RouteInv
  <2>2. f \in f .. f + MaxStolen
    BY Places DEF MaxStolen
  <2>3. mem'[f] = mem[f]
    BY <1>4, <1>6, <2>1, <2>2
  <2> QED BY <1>2, <1>6, <2>3 DEF RouteInv, OthersOwn
<1> QED BY <1>1, <1>5, <1>6 DEF HooksLead, OthersOwn, Calling

LEMMA InitRoute == ASSUME NearLayout, Init PROVE RouteInv
<1>1. HookInv
  BY InitHookInv
<1>2. /\ pc = "idle" /\ active_hooks = << >> /\ mem \in Images
  BY DEF Init
<1>3. DOMAIN active_hooks = {}
  BY <1>2
<1>4. \A f \in Functions : ~IsJump(mem[f])
  BY <1>2 DEF NearLayout
<1> QED BY <1>1, <1>2, <1>3, <1>4
        DEF RouteInv, HooksLead, OthersOwn, SavedOwn, Written, Calling, Patching, Entered

LEMMA ApplyHookRoute ==
  ASSUME NearLayout, RouteInv, NEW f \in Functions, NEW t \in Targets, ApplyHookX64(f, t)
  PROVE  RouteInv'
<1>1. PICK far \in BOOLEAN : \E b \in (IF far THEN FarBlocks ELSE NearBlocks) \ live :
        /\ loc' = [fn |-> f, target |-> t, tramp |-> b, far |-> far]
        /\ live' = live \cup {b}
        /\ mem' = Fill(mem, b, BlockSize, Zero)
  BY DEF ApplyHookX64
<1>2. ~far
  BY <1>1 DEF NearLayout
<1>3. PICK b \in NearBlocks \ live :
        /\ loc' = [fn |-> f, target |-> t, tramp |-> b, far |-> far]
        /\ live' = live \cup {b}
        /\ mem' = Fill(mem, b, BlockSize, Zero)
  BY <1>1, <1>2
<1>4. /\ pc = "idle" /\ pc' = "sizing"
      /\ UNCHANGED <<active_hooks, pristine, wanted>>
  BY DEF ApplyHookX64
<1>5. HookInv'
  BY ApplyHookInv DEF RouteInv
<1>6. /\ DOMAIN mem' = DOMAIN mem
      /\ \A x \in DOMAIN mem : ~InBlock(b, x) => mem'[x] = mem[x]
  BY <1>3 DEF Fill, InBlock
<1>7. \A g : ~Busy(g) /\ ~Busy(g)'
  BY <1>4 DEF Busy, Entered
<1>8. ASSUME NEW g \in DOMAIN active_hooks
      PROVE  Routed(g)'
  <2>1. PICK c \in live, n \in 0 .. 19 :
          /\ Leads(mem, g, c, n, wanted[g])
          /\ \A h \in DOMAIN active_hooks \ {g} : active_hooks[h].trampoline # c
    BY <1>7 DEF RouteInv, HooksLead, Routed
  <2>2. c \in NearBlocks \ {b} /\ g \in Functions /\ g \in Int
    BY <1>3, StateTypes, Places DEF RouteInv
  <2>3. ASSUME NEW x \in DOMAIN mem, x \in g .. g + 4 \/ InBlock(c, x)
        PROVE  mem'[x] = mem[x]
    <3>1. x \in Int
      BY StateTypes DEF RouteInv
    <3>2. x \in g .. g + 4 => x \in g .. g + MaxStolen
      BY <2>2 DEF MaxStolen
    <3>3. ~InBlock(b, x)
      BY <2>2, <2>3, <3>1, <3>2, TextApart, BlocksApart
    <3> QED BY <1>6, <3>3
  <2>4. Leads(mem', g, c, n, wanted[g])
    BY <1>6, <2>1, <2>2, <2>3, LeadsKept
  <2>5. c # loc'.tramp /\ c \in live'
    BY <1>3, <2>2
  <2> QED BY <1>4, <2>1, <2>4, <2>5 DEF Routed
<1>9. ASSUME NEW g \in Functions \ DOMAIN active_hooks
      PROVE  ~IsJump(mem'[g])
  <2>1. g \in DOMAIN mem /\ g \in g .. g + MaxStolen
    BY StateTypes, Places DEF RouteInv, MaxStolen
  <2>2. mem'[g] = mem[g]
    BY <1>6, <2>1, TextApart
  <2> QED BY <1>7, <2>2 DEF RouteInv, OthersOwn
<1>10. HooksLead' /\ OthersOwn'
  BY <1>4, <1>8, <1>9 DEF HooksLead, OthersOwn
<1>11. SavedOwn' /\ Written'
  BY <1>2, <1>3, <1>4 DEF RouteInv, SavedOwn, Written, Patching, Entered
<1> QED BY <1>5, <1>10, <1>11 DEF RouteInv

LEMMA SizingRoute ==
  ASSUME NearLayout, RouteInv, Disassemble \/ EndSizing PROVE RouteInv'
<1>1. HookInv'
  BY DisassembleInv, EndSizingInv DEF RouteInv
<1>2. /\ pc = "sizing" /\ pc' \in {"sizing", "build"}
      /\ UNCHANGED <<loc, active_hooks, mem, live, wanted>>
  BY DEF Disassemble, EndSizing, history
<1>3. HooksLead' /\ OthersOwn'
  BY <1>2 DEF RouteInv, HooksLead, OthersOwn, Routed, Busy, Entered, Calling
<1>4. SavedOwn' /\ Written'
  BY <1>2 DEF RouteInv, SavedOwn, Written, Calling, Patching, Entered
<1> QED BY <1>1, <1>3, <1>4 DEF RouteInv

\* Cell c of the text of f as Relocate leaves it at b.
MovedCell(c, f, b) ==
  IF c[1].op \in RelDisp THEN <<[c[1] EXCEPT !.arg = Wrap32(@ + f - b)], c[2]>> ELSE c

\* The four stores of BuildNear, and relocation.
LEMMA BuildNearCells ==
  ASSUME NearLayout, RouteInv, BuildNear
  PROVE  /\ DOMAIN mem' = DOMAIN mem
         /\ \A x \in DOMAIN mem : ~InBlock(loc.tramp, x) => mem'[x] = mem[x]
         /\ Trampoline(mem', loc.tramp, size, loc.target)
         /\ size > 0 => mem'[loc.tramp][1].op = mem[loc.fn][1].op
         /\ \A o \in 0 .. size - 1 :
              mem'[loc.tramp + o] = MovedCell(mem[loc.fn + o], loc.fn, loc.tramp)
         /\ JumpAt(mem', loc.tramp + size, loc.fn + size)
<1> DEFINE f == loc.fn
           b == loc.tramp
           n == size
           t == loc.target
           M == DOMAIN mem
           j == Jmp(b + n, f + n)
           q == QwordJmp(b + n + 5, b + 80)
           i == Pointer(t)
           s == Peek(mem, f, n)
           copied  == Poke(mem, b, s)
           back    == Poke(copied, b + n, Bytes(j))
           forward == Poke(back, b + n + 5, Bytes(q))
           qword   == Poke(forward, b + 80, Bytes(i))
<1>1. pc = "build" /\ mem' = Relocate(qword, b, f, n)
  BY DEF BuildNear
<1>2. /\ f \in Int /\ b \in Int /\ t \in Int /\ n \in 0 .. 19 /\ b \in NearBlocks
      /\ f \in Functions
  BY <1>1, CallPlaces DEF Calling
<1>3. /\ mem \in [DOMAIN pristine -> Cell] /\ M = DOMAIN pristine /\ M \subseteq Int
      /\ b .. b + 29 \subseteq M /\ b + 80 .. b + 87 \subseteq M
      /\ f .. f + n - 1 \subseteq M
  <2>1. f .. f + n - 1 \subseteq DOMAIN pristine
    BY <1>1, CallTypes DEF RouteInv
  <2> QED BY <1>2, <2>1, StateTypes DEF RouteInv
<1>4. s \in Seq(Cell) /\ Len(s) = n /\ \A k \in 0 .. n - 1 : s[k + 1] = mem[f + k]
  <2>1. s \in Seq(Cell) /\ Len(s) = n
    BY <1>2, <1>3, PeekType, SMTT(30)
  <2>2. \A k \in 1 .. n : s[k] = mem[f + k - 1]
    BY DEF Peek
  <2>3. \A k \in 0 .. n - 1 : k + 1 \in 1 .. n /\ f + (k + 1) - 1 = f + k
    BY <1>2
  <2> QED BY <2>1, <2>2, <2>3
<1>5. /\ j \in Instruction /\ j.len = 5 /\ q \in Instruction /\ q.len = 6
      /\ i \in Instruction /\ i.len = 8
  <2>1. b + n \in Int /\ f + n \in Int /\ b + n + 5 \in Int /\ b + 80 \in Int
    BY <1>2
  <2> QED BY <1>2, <2>1, WrittenSizes
<1> HIDE DEF j, q, i, s
<1>6. /\ DOMAIN copied = M
      /\ \A k \in 0 .. n - 1 : b + k \in M /\ copied[b + k] = mem[f + k]
      /\ \A x \in M : x \notin b .. b + n - 1 => copied[x] = mem[x]
  <2>1. \A k \in 0 .. n - 1 : b + k \in M => copied[b + k] = s[k + 1]
    BY <1>2, <1>3, <1>4, PokeCells, ZenonT(60)
  <2>2. \A k \in 0 .. n - 1 : b + k \in M
    BY <1>2, <1>3
  <2> QED BY <1>2, <1>3, <1>4, <2>1, <2>2, PokeCells
<1> HIDE DEF copied
<1>7. /\ DOMAIN back = M
      /\ WrittenAt(back, b + n, j)
      /\ \A x \in M : x \notin b + n .. b + n + 4 => back[x] = copied[x]
  <2>1. b + n \in Int /\ b + n .. b + n + 5 - 1 \subseteq M
    BY <1>2, <1>3
  <2> QED BY <1>3, <1>5, <1>6, <2>1, BytesPoked
<1> HIDE DEF back
<1>8. /\ DOMAIN forward = M
      /\ WrittenAt(forward, b + n + 5, q)
      /\ \A x \in M : x \notin b + n + 5 .. b + n + 10 => forward[x] = back[x]
  <2>1. /\ b + n + 5 \in Int /\ b + n + 5 .. (b + n + 5) + 6 - 1 \subseteq M
        /\ (b + n + 5) + 6 - 1 = b + n + 10
    BY <1>2, <1>3
  <2> QED BY <1>3, <1>5, <1>7, <2>1, BytesPoked
<1> HIDE DEF forward
<1>9. /\ DOMAIN qword = M
      /\ WrittenAt(qword, b + 80, i)
      /\ \A x \in M : x \notin b + 80 .. b + 87 => qword[x] = forward[x]
  <2>1. /\ b + 80 \in Int /\ b + 80 .. (b + 80) + 8 - 1 \subseteq M
        /\ (b + 80) + 8 - 1 = b + 87
    BY <1>2, <1>3
  <2> QED BY <1>3, <1>5, <1>8, <2>1, BytesPoked
<1> HIDE DEF qword
<1>10. /\ DOMAIN mem' = M
       /\ \A x \in M : x \notin b .. b + n - 1 => mem'[x] = qword[x]
       /\ \A x \in M : x \in b .. b + n - 1 => mem'[x] = MovedCell(qword[x], f, b)
  <2>1. f - b \in -Reach .. Reach
    <3>1. -Reach <= b - f /\ b - f + 19 < Reach
      BY <1>2 DEF NearLayout
    <3> QED BY <1>2, <3>1, Places
  <2>2. ASSUME NEW x \in M, x \notin b .. b + n - 1
        PROVE  mem'[x] = qword[x]
    <3>1. ~(b <= x /\ x < b + n)
      BY <1>2, <1>3, <2>2
    <3> QED BY <1>1, <1>9, <3>1 DEF Relocate
  <2>3. ASSUME NEW x \in M, x \in b .. b + n - 1
        PROVE  mem'[x] = MovedCell(qword[x], f, b)
    <3>1. b <= x /\ x < b + n
      BY <1>2, <1>3, <2>3
    <3> QED BY <1>1, <1>9, <2>1, <3>1 DEF Relocate, MovedCell, At
  <2>4. DOMAIN mem' = M
    BY <1>1, <1>9 DEF Relocate
  <2> QED BY <2>2, <2>3, <2>4
<1>11. ASSUME NEW x \in M, ~InBlock(b, x)
       PROVE  mem'[x] = mem[x]
  <2>1. x \in Int /\ BlockSize \in Nat /\ BlockSize >= 88
    BY <1>3, Places
  <2>2. /\ x \notin b .. b + n - 1 /\ x \notin b + n .. b + n + 4
        /\ x \notin b + n + 5 .. b + n + 10 /\ x \notin b + 80 .. b + 87
    BY <1>2, <1>11, <2>1 DEF InBlock
  <2> QED BY <1>6, <1>7, <1>8, <1>9, <1>10, <2>2
<1>12. WrittenAt(mem', b + n + 5, q)
  <2>1. \A x \in M : x \in b + n + 5 .. (b + n + 5) + 6 - 1 => mem'[x] = forward[x]
    <3> TAKE x \in M
    <3>1. x \in b + n + 5 .. (b + n + 5) + 6 - 1 =>
            x \notin b + 80 .. b + 87 /\ x \notin b .. b + n - 1
      BY <1>2
    <3> QED BY <3>1, <1>9, <1>10
  <2>2. b + n + 5 \in Int
    BY <1>2
  <2> QED BY <1>5, <1>8, <1>10, <2>1, <2>2, WrittenKept
<1>13. WrittenAt(mem', b + 80, i)
  <2>1. \A x \in M : x \in b + 80 .. (b + 80) + 8 - 1 => mem'[x] = qword[x]
    <3> TAKE x \in M
    <3>1. x \in b + 80 .. (b + 80) + 8 - 1 => x \notin b .. b + n - 1
      BY <1>2
    <3> QED BY <3>1, <1>10
  <2>2. b + 80 \in Int
    BY <1>2
  <2> QED BY <1>5, <1>9, <1>10, <2>1, <2>2, WrittenKept
<1>14. ASSUME NEW o \in 0 .. n - 1
       PROVE  mem'[b + o] = MovedCell(mem[f + o], f, b)
  <2>1. /\ b + o \in M /\ b + o \in b .. b + n - 1 /\ b + o \notin b + n .. b + n + 4
        /\ b + o \notin b + n + 5 .. b + n + 10 /\ b + o \notin b + 80 .. b + 87
    BY <1>2, <1>3
  <2>2. qword[b + o] = mem[f + o]
    BY <1>6, <1>7, <1>8, <1>9, <2>1
  <2> QED BY <1>10, <2>1, <2>2
<1>15. n > 0 => mem'[b][1].op = mem[f][1].op
  <2>1. n > 0 => 0 \in 0 .. n - 1 /\ b + 0 = b /\ f + 0 = f
    BY <1>2
  <2>2. n > 0 => mem'[b] = MovedCell(mem[f], f, b)
    BY <1>14, <2>1
  <2>3. mem[f] \in Cell
    BY <1>2, StateTypes DEF RouteInv
  <2> QED BY <2>2, <2>3 DEF MovedCell, Cell, Instruction
<1>16. JumpAt(mem', b + n, f + n)
  <2>1. \A x \in M : x \in b + n .. (b + n) + 5 - 1 => mem'[x] = back[x]
    <3> TAKE x \in M
    <3>1. x \in b + n .. (b + n) + 5 - 1 =>
            /\ x \notin b + n + 5 .. b + n + 10
            /\ x \notin b + 80 .. b + 87 /\ x \notin b .. b + n - 1
      BY <1>2
    <3> QED BY <3>1, <1>8, <1>9, <1>10
  <2>2. b + n \in Int
    BY <1>2
  <2>3. WrittenAt(mem', b + n, j)
    BY <1>5, <1>7, <1>10, <2>1, <2>2, WrittenKept
  <2> QED BY <1>5, <1>10, <2>3 DEF WrittenAt, JumpAt, j
<1> QED BY <1>10, <1>11, <1>12, <1>13, <1>14, <1>15, <1>16 DEF Trampoline, q, i

LEMMA BuildNearRoute == ASSUME NearLayout, RouteInv, BuildNear PROVE RouteInv'
<1>1. /\ pc = "build" /\ pc' = "patch"
      /\ UNCHANGED <<loc, size, active_hooks, live, history>>
  BY DEF BuildNear
<1>2. HookInv'
  BY BuildNearInv DEF RouteInv
<1>3. /\ Calling /\ Calling' /\ ~Busy(loc.fn)' /\ ~Busy(loc.fn)
      /\ Patching' /\ ~Entered'
  BY <1>1 DEF Calling, Busy, Entered, Patching
<1>4. /\ DOMAIN mem' = DOMAIN mem
      /\ \A x \in DOMAIN mem : ~InBlock(loc.tramp, x) => mem'[x] = mem[x]
      /\ Trampoline(mem', loc.tramp, size, loc.target)
      /\ size > 0 => mem'[loc.tramp][1].op = mem[loc.fn][1].op
  BY BuildNearCells
<1>5. HooksLead' /\ OthersOwn'
  BY <1>1, <1>3, <1>4, OthersKept
<1>6. loc.fn \notin DOMAIN active_hooks => ~IsJump(mem[loc.fn])
  BY <1>3, CallPlaces DEF RouteInv, OthersOwn
<1>7. SavedOwn'
  BY <1>1, <1>4, <1>6 DEF RouteInv, SavedOwn, IsJump
<1>8. Written'
  BY <1>1, <1>3, <1>4 DEF RouteInv, Written
<1> QED BY <1>2, <1>5, <1>7, <1>8 DEF RouteInv

\* A step that writes the text of the function only.
LEMMA EntryStep ==
  ASSUME NearLayout, RouteInv, Patching, Busy(loc.fn)', Calling',
         UNCHANGED <<loc, size, active_hooks, live, history>>,
         DOMAIN mem' = DOMAIN mem,
         \A x \in DOMAIN mem : x \notin loc.fn .. loc.fn + MaxStolen => mem'[x] = mem[x]
  PROVE  /\ HooksLead' /\ OthersOwn' /\ SavedOwn'
         /\ Trampoline(mem', loc.tramp, size, loc.target)
<1>1. Calling
  BY DEF Calling, Patching, Entered
<1>2. HooksLead' /\ OthersOwn'
  BY <1>1, OthersKept
<1>3. ASSUME NEW x \in DOMAIN mem, InBlock(loc.tramp, x)
      PROVE  mem'[x] = mem[x]
  BY <1>1, <1>3, CallPlaces, TextApart
<1>4. Trampoline(mem', loc.tramp, size, loc.target)
  <2>1. Trampoline(mem, loc.tramp, size, loc.target)
    BY DEF RouteInv, Written
  <2> QED BY <1>1, <1>3, <2>1, CallPlaces, TrampolineKept
<1>5. InBlock(loc.tramp, loc.tramp) /\ loc.tramp \in DOMAIN mem
  BY <1>1, CallPlaces, Places, StateTypes DEF InBlock, RouteInv
<1>6. mem'[loc.tramp] = mem[loc.tramp]
  BY <1>3, <1>5
<1>7. SavedOwn'
  BY <1>6 DEF RouteInv, SavedOwn
<1> QED BY <1>2, <1>4, <1>7

\* The two stores of place_jump.
LEMMA StoreTypes ==
  ASSUME HookInv, pc \notin {"idle", "free"}
  PROVE  /\ Peek(EntryJump, 1, 1) \in Seq(Cell) /\ Len(Peek(EntryJump, 1, 1)) = 1
         /\ Peek(EntryJump, 2, 4) \in Seq(Cell) /\ Len(Peek(EntryJump, 2, 4)) = 4
<1>1. EntryJump \in [1 .. 5 -> Cell]
  BY EntryJumpType
<1>2. Peek(EntryJump, 1, 1) \in Seq(Cell)
  BY <1>1, PeekType
<1>3. Len(Peek(EntryJump, 1, 1)) = 1
  BY <1>2, LenProperties DEF Peek
<1>4. Peek(EntryJump, 2, 4) \in Seq(Cell)
  BY <1>1, PeekType
<1>5. Len(Peek(EntryJump, 2, 4)) = 4
  BY <1>4, LenProperties DEF Peek
<1> QED BY <1>2, <1>3, <1>4, <1>5

LEMMA PlaceOpcodeRoute == ASSUME NearLayout, RouteInv, PlaceOpcode PROVE RouteInv'
<1> DEFINE f == loc.fn
           to == loc.tramp + size + 5
           s == Peek(EntryJump, 1, 1)
<1>1. /\ pc = "patch" /\ pc' = "disp" /\ mem' = Poke(mem, f, s)
      /\ UNCHANGED <<loc, size, active_hooks, live, history>>
  BY DEF PlaceOpcode
<1>2. HookInv'
  BY PlaceOpcodeInv DEF RouteInv
<1>3. /\ Patching /\ Calling /\ Calling' /\ Busy(f)' /\ ~Entered'
  BY <1>1 DEF Patching, Calling, Busy, Entered
<1>4. f \in Int /\ f \in DOMAIN mem /\ DOMAIN mem \subseteq Int
  BY <1>3, CallPlaces, StateTypes DEF RouteInv
<1>5. s \in Seq(Cell) /\ Len(s) = 1 /\ s[1] = <<Jmp(f, to), 0>>
  <2>1. s \in Seq(Cell) /\ Len(s) = 1
    BY <1>1, StoreTypes DEF RouteInv
  <2>2. s[1] = EntryJump[1]
    BY DEF Peek
  <2>3. EntryJump[1] = <<Jmp(f, to), 0>>
    BY DEF EntryJump, Bytes, Jmp, Ins
  <2> QED BY <2>1, <2>2, <2>3
<1> HIDE DEF s
<1>6. mem'[f] = <<Jmp(f, to), 0>>
  <2>1. \A k \in 0 .. Len(s) - 1 : f + k \in DOMAIN mem => mem'[f + k] = s[k + 1]
    BY <1>1, <1>4, <1>5, PokeCells
  <2>2. 0 \in 0 .. Len(s) - 1 /\ f + 0 = f /\ 0 + 1 = 1
    BY <1>4, <1>5
  <2>3. mem'[f + 0] = s[0 + 1]
    BY <1>4, <2>1, <2>2
  <2> QED BY <1>5, <2>2, <2>3
<1>7. /\ DOMAIN mem' = DOMAIN mem
      /\ \A x \in DOMAIN mem : x \notin f .. f + MaxStolen => mem'[x] = mem[x]
  <2>1. \A x : x \in f .. f + Len(s) - 1 => x \in f .. f + MaxStolen
    BY <1>4, <1>5 DEF MaxStolen
  <2>2. DOMAIN mem' = DOMAIN mem
    BY <1>1 DEF Poke
  <2>3. \A x \in DOMAIN mem : x \notin f .. f + Len(s) - 1 => mem'[x] = mem[x]
    BY <1>1, <1>4, <1>5, PokeCells, ZenonT(60)
  <2> QED BY <2>1, <2>2, <2>3
<1>8. HooksLead' /\ OthersOwn' /\ SavedOwn' /\ Trampoline(mem', loc.tramp, size, loc.target)
  BY <1>1, <1>3, <1>7, EntryStep
<1>9. Written'
  BY <1>1, <1>3, <1>6, <1>8 DEF RouteInv, Written
<1> QED BY <1>2, <1>8, <1>9 DEF RouteInv

LEMMA PlaceDispRoute == ASSUME NearLayout, RouteInv, PlaceDisp PROVE RouteInv'
<1> DEFINE f == loc.fn
           to == loc.tramp + size + 5
           s == Peek(EntryJump, 2, 4)
<1>1. /\ pc = "disp" /\ pc' = "nops" /\ mem' = Poke(mem, f + 1, s)
      /\ UNCHANGED <<loc, size, active_hooks, live, history>>
  BY DEF PlaceDisp
<1>2. HookInv'
  BY PlaceDispInv DEF RouteInv
<1>3. Patching /\ Calling /\ Calling' /\ Busy(f)'
  BY <1>1 DEF Patching, Calling, Busy, Entered
<1>4. /\ f \in Int /\ f .. f + 4 \subseteq DOMAIN mem /\ f \in DOMAIN mem
      /\ DOMAIN mem \subseteq Int
  BY <1>3, CallPlaces, StateTypes DEF RouteInv
<1>5. s \in Seq(Cell) /\ Len(s) = 4 /\ \A k \in 1 .. 4 : s[k] = <<Jmp(f, to), k>>
  <2>1. s \in Seq(Cell) /\ Len(s) = 4
    BY <1>1, StoreTypes DEF RouteInv
  <2>2. \A k \in 1 .. 4 : s[k] = EntryJump[k + 1]
    <3> TAKE k \in 1 .. 4
    <3>1. 2 + k - 1 = k + 1
      OBVIOUS
    <3> QED BY <3>1 DEF Peek
  <2>3. \A k \in 1 .. 5 : EntryJump[k] = <<Jmp(f, to), k - 1>>
    BY DEF EntryJump, Bytes, Jmp, Ins
  <2>4. \A k \in 1 .. 4 : k + 1 \in 1 .. 5 /\ (k + 1) - 1 = k
    OBVIOUS
  <2> QED BY <2>1, <2>2, <2>3, <2>4
<1> HIDE DEF s
<1>6. /\ DOMAIN mem' = DOMAIN mem
      /\ \A k \in 0 .. 3 : (f + 1) + k \in DOMAIN mem => mem'[(f + 1) + k] = s[k + 1]
      /\ \A x \in DOMAIN mem : x \notin f + 1 .. (f + 1) + 3 => mem'[x] = mem[x]
  <2> DEFINE a == f + 1
  <2>0. DOMAIN mem \subseteq Int /\ s \in Seq(Cell)
    BY <1>4, <1>5
  <2>1. a \in Int /\ mem' = Poke(mem, a, s)
    BY <1>1, <1>4
  <2> HIDE DEF a
  <2>2. DOMAIN mem' = DOMAIN mem
    BY <2>1 DEF Poke
  <2>3. \A k \in 0 .. Len(s) - 1 : a + k \in DOMAIN mem => mem'[a + k] = s[k + 1]
    BY <2>0, <2>1, PokeCells
  <2>4. \A x \in DOMAIN mem : x \notin a .. a + Len(s) - 1 => mem'[x] = mem[x]
    BY <2>0, <2>1, PokeCells
  <2>5. Len(s) - 1 = 3 /\ a + Len(s) - 1 = a + 3
    BY <1>5, <2>1
  <2>6. /\ \A k \in 0 .. 3 : a + k \in DOMAIN mem => mem'[a + k] = s[k + 1]
        /\ \A x \in DOMAIN mem : x \notin a .. a + 3 => mem'[x] = mem[x]
    BY <2>3, <2>4, <2>5
  <2> QED BY <2>2, <2>6 DEF a
<1>7. \A x \in DOMAIN mem : x \notin f .. f + MaxStolen => mem'[x] = mem[x]
  BY <1>4, <1>6 DEF MaxStolen
<1>8. JumpAt(mem', f, to)
  <2> SUFFICES ASSUME NEW k \in 0 .. 4
               PROVE  f + k \in DOMAIN mem' /\ mem'[f + k] = <<Jmp(f, to), k>>
    BY DEF JumpAt
  <2>1. f + k \in DOMAIN mem
    BY <1>4
  <2>2. CASE k = 0
    <3>1. f + k = f /\ f \notin f + 1 .. (f + 1) + 3
      BY <1>4, <2>2
    <3>2. mem[f] = <<Jmp(f, to), 0>>
      BY <1>1 DEF RouteInv, Written
    <3> QED BY <1>4, <1>6, <2>1, <2>2, <3>1, <3>2
  <2>3. CASE k # 0
    <3>1. (f + 1) + (k - 1) = f + k /\ k - 1 \in 0 .. 3 /\ (k - 1) + 1 = k /\ k \in 1 .. 4
      BY <1>4, <2>3
    <3>2. mem'[(f + 1) + (k - 1)] = s[(k - 1) + 1]
      BY <1>6, <2>1, <3>1
    <3> QED BY <1>5, <1>6, <2>1, <3>1, <3>2
  <2> QED BY <2>2, <2>3
<1>9. HooksLead' /\ OthersOwn' /\ SavedOwn' /\ Trampoline(mem', loc.tramp, size, loc.target)
  BY <1>1, <1>3, <1>6, <1>7, EntryStep
<1>10. Written'
  BY <1>1, <1>3, <1>8, <1>9 DEF RouteInv, Written
<1> QED BY <1>2, <1>9, <1>10 DEF RouteInv

LEMMA PadNopsRoute == ASSUME NearLayout, RouteInv, PadNops PROVE RouteInv'
<1> DEFINE f == loc.fn
           to == loc.tramp + size + 5
<1>1. /\ pc = "nops" /\ pc' \in {"crashed", "record"}
      /\ UNCHANGED <<loc, size, active_hooks, live, history>>
  BY DEF PadNops
<1>2. HookInv'
  BY PadNopsInv DEF RouteInv
<1>3. Patching /\ Calling /\ Calling' /\ Busy(f)' /\ Entered /\ Entered'
  BY <1>1 DEF Patching, Calling, Busy, Entered
<1>4. f \in Int /\ size \in 0 .. 19 /\ ~loc.far /\ DOMAIN mem \subseteq Int
  BY <1>3, CallPlaces, StateTypes DEF RouteInv
<1>5. needed_size = 5
  BY <1>4 DEF needed_size
<1>6. /\ pc' = "record" => size >= 5
      /\ \/ mem' = mem
         \/ size >= 5 /\ mem' = Fill(mem, f + 5, size - 5, Nop)
  BY <1>4, <1>5 DEF PadNops
<1>7. /\ DOMAIN mem' = DOMAIN mem
      /\ \A x \in DOMAIN mem : x \notin f + 5 .. f + size - 1 => mem'[x] = mem[x]
  <2>1. CASE mem' = mem
    BY <2>1
  <2>2. CASE size >= 5 /\ mem' = Fill(mem, f + 5, size - 5, Nop)
    <3>1. \A x \in DOMAIN mem : f + 5 <= x /\ x < (f + 5) + (size - 5) => x \in f + 5 .. f + size - 1
      BY <1>4
    <3> QED BY <2>2, <3>1 DEF Fill
  <2> QED BY <1>6, <2>1, <2>2
<1>8. \A x \in DOMAIN mem : x \notin f .. f + MaxStolen => mem'[x] = mem[x]
  BY <1>4, <1>7 DEF MaxStolen
<1>9. JumpAt(mem', f, to)
  <2>1. JumpAt(mem, f, to)
    BY <1>3 DEF RouteInv, Written
  <2>2. \A x \in DOMAIN mem : x \in f .. f + 4 => mem'[x] = mem[x]
    BY <1>4, <1>7
  <2> QED BY <1>4, <1>7, <2>1, <2>2, EntryKept
<1>10. HooksLead' /\ OthersOwn' /\ SavedOwn' /\ Trampoline(mem', loc.tramp, size, loc.target)
  BY <1>1, <1>3, <1>7, <1>8, EntryStep
<1>11. Written'
  BY <1>1, <1>3, <1>6, <1>9, <1>10 DEF RouteInv, Written
<1> QED BY <1>2, <1>10, <1>11 DEF RouteInv

LEMMA FarStepsRoute == ASSUME NearLayout, RouteInv PROVE ~BuildFar /\ ~PlaceFarJump
BY CallPlaces DEF BuildFar, PlaceFarJump, Calling

LEMMA RecordRoute == ASSUME NearLayout, RouteInv, Record PROVE RouteInv'
<1> DEFINE f == loc.fn
           b == loc.tramp
           hooked == DOMAIN active_hooks
<1>1. /\ pc = "record" /\ pc' = "idle" /\ UNCHANGED <<mem, live>>
      /\ active_hooks' = [g \in hooked \cup {f} |->
                            IF g \in hooked THEN active_hooks[g] ELSE create_hook_entry(b, size)]
      /\ wanted' = [wanted EXCEPT ![f] = loc.target]
  BY DEF Record
<1>2. HookInv'
  BY RecordInv DEF RouteInv
<1>3. Calling /\ Patching /\ Entered /\ ~Calling' /\ ~Patching' /\ \A g : ~Busy(g)'
  BY <1>1 DEF Calling, Patching, Entered, Busy
<1>4. /\ f \in Functions /\ b \in live /\ b \in NearBlocks /\ b \in Int /\ size \in 0 .. 19
      /\ b \in DOMAIN mem
  BY <1>3, CallPlaces, StateTypes DEF RouteInv
<1>5. /\ DOMAIN active_hooks' = hooked \cup {f}
      /\ \A g \in hooked : active_hooks'[g] = active_hooks[g]
      /\ f \notin hooked => active_hooks'[f] = create_hook_entry(b, size)
  BY <1>1
<1>6. /\ wanted'[f] = loc.target
      /\ \A g \in Functions \ {f} : wanted'[g] = wanted[g]
  BY <1>1, <1>4 DEF RouteInv, HookInv, TypeOK
<1>7. \A g \in hooked \ {f} : active_hooks[g].trampoline # b
  BY <1>1 DEF RouteInv, HookInv, OwnTrampolines
<1>8. ASSUME NEW g, g = f
      PROVE  Routed(g)'
  <2>1. Leads(mem', g, b, size, wanted'[g])
    BY <1>1, <1>3, <1>6, <1>8 DEF RouteInv, Written, Leads
  <2>2. \A h \in DOMAIN active_hooks' \ {g} : active_hooks'[h].trampoline # b
    BY <1>5, <1>7, <1>8
  <2>3. b \in live' /\ size \in 0 .. 19
    BY <1>1, <1>4
  <2> QED BY <1>3, <2>1, <2>2, <2>3 DEF Routed
<1>9. ASSUME NEW g \in hooked \ {f}
      PROVE  Routed(g)'
  <2>1. ~Busy(g) /\ g \in Functions
    BY StateTypes DEF Busy, RouteInv
  <2>2. PICK c \in live, n \in 0 .. 19 :
          /\ Leads(mem, g, c, n, wanted[g])
          /\ c # b
          /\ \A h \in hooked \ {g} : active_hooks[h].trampoline # c
    BY <1>3, <2>1 DEF RouteInv, HooksLead, Routed
  <2>3. \A h \in DOMAIN active_hooks' \ {g} : active_hooks'[h].trampoline # c
    BY <1>5, <2>2 DEF create_hook_entry
  <2>4. Leads(mem', g, c, n, wanted'[g])
    BY <1>1, <1>6, <2>1, <2>2
  <2> QED BY <1>1, <1>3, <2>2, <2>3, <2>4 DEF Routed
<1>10. HooksLead'
  BY <1>5, <1>8, <1>9 DEF HooksLead
<1>11. OthersOwn'
  BY <1>1, <1>5 DEF RouteInv, OthersOwn, Busy
<1>12. SavedOwn'
  <2>1. ASSUME f \notin hooked
        PROVE  LET s == create_hook_entry(b, size).original_bytes IN s # << >> /\ ~IsJump(s[1])
    <3> DEFINE s == Peek(mem, b, size)
    <3>1. size >= 5
      BY <1>1 DEF RouteInv, Written
    <3>2. DOMAIN s = 1 .. size /\ 1 \in 1 .. size
      BY <1>4, <3>1 DEF Peek
    <3>3. s # << >>
      <4> HIDE DEF s
      <4>1. 1 \in DOMAIN s /\ DOMAIN << >> = {}
        BY <3>2
      <4> QED BY <4>1
    <3>4. s[1] = mem[b]
      <4>1. s[1] = mem[b + 1 - 1]
        BY <3>2 DEF Peek
      <4> QED BY <1>4, <4>1
    <3>5. ~IsJump(mem[b])
      BY <1>3, <1>4, <2>1, <3>1 DEF RouteInv, SavedOwn
    <3> QED BY <3>3, <3>4, <3>5 DEF create_hook_entry
  <2> QED BY <1>3, <1>5, <2>1 DEF RouteInv, SavedOwn
<1>13. Written'
  BY <1>1, <1>3 DEF Written, Patching, Entered
<1> QED BY <1>2, <1>10, <1>11, <1>12, <1>13 DEF RouteInv

LEMMA RemoveHookRoute ==
  ASSUME NearLayout, RouteInv, NEW f \in Functions, RemoveHook(f) PROVE RouteInv'
<1> DEFINE s == active_hooks[f].original_bytes
<1>1. /\ pc = "idle" /\ pc' = "free" /\ f \in DOMAIN active_hooks
      /\ mem' = Poke(mem, f, s) /\ loc'.fn = f
      /\ UNCHANGED <<active_hooks, live, wanted>>
  BY DEF RemoveHook, history, NoCall
<1>2. HookInv'
  BY RemoveHookInv DEF RouteInv
<1>3. /\ ~Calling' /\ ~Patching' /\ \A g : ~Busy(g) /\ (~Busy(g)' => g # f)
  BY <1>1 DEF Calling, Patching, Entered, Busy
<1>4. f \in Int /\ f \in DOMAIN mem /\ DOMAIN mem \subseteq Int
  BY Places, StateTypes DEF RouteInv
<1>5. s \in Seq(Cell) /\ Len(s) <= MaxStolen
  BY <1>1 DEF RouteInv, HookInv, TypeOK
<1>6. s # << >> /\ ~IsJump(s[1])
  BY <1>1 DEF RouteInv, SavedOwn
<1> HIDE DEF s
<1>7. Len(s) \in Nat /\ Len(s) > 0
  BY <1>5, <1>6, EmptySeq, LenProperties
<1>8. DOMAIN mem' = DOMAIN mem
  BY <1>1 DEF Poke
<1>9. \A x \in DOMAIN mem : x \notin f .. f + MaxStolen => mem'[x] = mem[x]
  <2>1. \A x : x \in f .. f + Len(s) - 1 => x \in f .. f + MaxStolen
    BY <1>4, <1>5, <1>7 DEF MaxStolen
  <2>2. \A x \in DOMAIN mem : x \notin f .. f + Len(s) - 1 => mem'[x] = mem[x]
    BY <1>1, <1>4, <1>5, PokeCells
  <2> QED BY <2>1, <2>2
<1>10. ~IsJump(mem'[f])
  <2>1. \A k \in 0 .. Len(s) - 1 : f + k \in DOMAIN mem => mem'[f + k] = s[k + 1]
    BY <1>1, <1>4, <1>5, PokeCells
  <2>2. 0 \in 0 .. Len(s) - 1 /\ f + 0 = f /\ 0 + 1 = 1
    BY <1>4, <1>7
  <2>3. mem'[f + 0] = s[0 + 1]
    BY <1>4, <2>1, <2>2
  <2> QED BY <1>6, <2>2, <2>3
<1>11. ASSUME NEW g \in DOMAIN active_hooks, g # f
       PROVE  Routed(g)'
  <2>1. g \in Functions /\ g \in Int
    BY StateTypes, Places DEF RouteInv
  <2>2. PICK c \in live, n \in 0 .. 19 :
          /\ Leads(mem, g, c, n, wanted[g])
          /\ \A h \in DOMAIN active_hooks \ {g} : active_hooks[h].trampoline # c
    BY <1>3 DEF RouteInv, HooksLead, Routed
  <2>3. c \in NearBlocks
    BY StateTypes DEF RouteInv
  <2>4. ASSUME NEW x \in DOMAIN mem, x \in g .. g + 4 \/ InBlock(c, x)
        PROVE  mem'[x] = mem[x]
    <3>1. x \in g .. g + 4 => x \in g .. g + MaxStolen
      BY <2>1 DEF MaxStolen
    <3>2. x \notin f .. f + MaxStolen
      BY <1>11, <2>1, <2>3, <2>4, <3>1, TextApart, TextsApart
    <3> QED BY <1>9, <3>2
  <2>5. Leads(mem', g, c, n, wanted[g])
    BY <1>8, <2>1, <2>2, <2>3, <2>4, LeadsKept
  <2> QED BY <1>1, <1>3, <2>2, <2>5 DEF Routed
<1>12. ASSUME NEW g \in Functions \ DOMAIN active_hooks
       PROVE  ~IsJump(mem'[g])
  <2>1. g \in DOMAIN mem /\ g \in g .. g + MaxStolen /\ g # f
    BY <1>1, StateTypes, Places DEF RouteInv, MaxStolen
  <2>2. mem'[g] = mem[g]
    BY <1>9, <2>1, TextsApart
  <2> QED BY <1>3, <2>2 DEF RouteInv, OthersOwn
<1>13. HooksLead' /\ OthersOwn'
  BY <1>1, <1>3, <1>10, <1>11, <1>12 DEF HooksLead, OthersOwn
<1>14. SavedOwn' /\ Written'
  BY <1>1, <1>3 DEF RouteInv, SavedOwn, Written, Entered
<1> QED BY <1>2, <1>13, <1>14 DEF RouteInv

LEMMA FreeTrampolineRoute == ASSUME NearLayout, RouteInv, FreeTrampoline PROVE RouteInv'
<1> DEFINE f == loc.fn
           b == active_hooks[f].trampoline
<1>1. /\ pc = "free" /\ pc' = "idle"
      /\ active_hooks' = [g \in DOMAIN active_hooks \ {f} |-> active_hooks[g]]
      /\ wanted' = [wanted EXCEPT ![f] = Own]
      /\ \/ live' = live \ {b} /\ mem' = Fill(mem, b, BlockSize, Unmapped)
         \/ live' = live /\ mem' = mem
  BY DEF FreeTrampoline
<1>2. HookInv'
  BY FreeTrampolineInv DEF RouteInv
<1>3. ~Calling' /\ ~Patching' /\ (\A g : ~Busy(g)') /\ (\A g : g # f => ~Busy(g))
  BY <1>1 DEF Calling, Patching, Entered, Busy
<1>4. f \in DOMAIN active_hooks /\ f \in Functions /\ b \in NearBlocks
  BY <1>1, StateTypes DEF RouteInv, HookInv, InCall
<1>5. /\ DOMAIN active_hooks' = DOMAIN active_hooks \ {f}
      /\ \A g \in DOMAIN active_hooks' : active_hooks'[g] = active_hooks[g]
      /\ \A g \in Functions \ {f} : wanted'[g] = wanted[g]
  BY <1>1 DEF RouteInv, HookInv, TypeOK
<1>6. /\ DOMAIN mem' = DOMAIN mem
      /\ \A x \in DOMAIN mem : ~InBlock(b, x) => mem'[x] = mem[x]
  BY <1>1 DEF Fill, InBlock
<1>7. ASSUME NEW g \in DOMAIN active_hooks'
      PROVE  Routed(g)'
  <2>1. g \in Functions \ {f} /\ g \in Int /\ g \in DOMAIN active_hooks
    BY <1>5, StateTypes, Places DEF RouteInv
  <2>2. PICK c \in live, n \in 0 .. 19 :
          /\ Leads(mem, g, c, n, wanted[g])
          /\ \A h \in DOMAIN active_hooks \ {g} : active_hooks[h].trampoline # c
    BY <1>3, <2>1 DEF RouteInv, HooksLead, Routed
  <2>3. c # b
    BY <1>4, <2>1, <2>2
  <2>4. c \in NearBlocks \ {b} /\ c \in live'
    BY <1>1, <2>3, StateTypes DEF RouteInv
  <2>5. ASSUME NEW x \in DOMAIN mem, x \in g .. g + 4 \/ InBlock(c, x)
        PROVE  mem'[x] = mem[x]
    <3>1. x \in Int
      BY StateTypes DEF RouteInv
    <3>2. x \in g .. g + 4 => x \in g .. g + MaxStolen
      BY <2>1 DEF MaxStolen
    <3>3. ~InBlock(b, x)
      BY <1>4, <2>1, <2>4, <2>5, <3>1, <3>2, TextApart, BlocksApart
    <3> QED BY <1>6, <3>3
  <2>6. Leads(mem', g, c, n, wanted[g])
    BY <1>6, <2>1, <2>2, <2>4, <2>5, LeadsKept
  <2>7. Leads(mem', g, c, n, wanted'[g])
    BY <1>5, <2>1, <2>6
  <2>8. \A h \in DOMAIN active_hooks' \ {g} : active_hooks'[h].trampoline # c
    BY <1>5, <2>2
  <2> QED BY <1>3, <2>4, <2>7, <2>8 DEF Routed
<1>8. ASSUME NEW g \in Functions \ DOMAIN active_hooks'
      PROVE  ~IsJump(mem'[g])
  <2>1. g \in DOMAIN mem /\ g \in g .. g + MaxStolen
    BY StateTypes, Places DEF RouteInv, MaxStolen
  <2>2. mem'[g] = mem[g]
    BY <1>4, <1>6, <2>1, TextApart
  <2>3. ~IsJump(mem[g])
    BY <1>1, <1>3, <1>5 DEF RouteInv, OthersOwn
  <2> QED BY <2>2, <2>3
<1>9. HooksLead' /\ OthersOwn'
  BY <1>1, <1>7, <1>8 DEF HooksLead, OthersOwn
<1>10. SavedOwn' /\ Written'
  BY <1>1, <1>3, <1>5 DEF RouteInv, SavedOwn, Written, Entered
<1> QED BY <1>2, <1>9, <1>10 DEF RouteInv

LEMMA NextRoute == ASSUME NearLayout, RouteInv, [Next]_vars PROVE RouteInv'
<1>1. CASE \E f \in Functions, t \in Targets : ApplyHookX64(f, t)
  BY <1>1, ApplyHookRoute
<1>2. CASE \E f \in Functions : RemoveHook(f)
  BY <1>2, RemoveHookRoute
<1>3. CASE Continue
  BY <1>3, SizingRoute, BuildNearRoute, PlaceOpcodeRoute, PlaceDispRoute, PadNopsRoute,
     RecordRoute, FreeTrampolineRoute, FarStepsRoute DEF Continue
<1>4. CASE UNCHANGED vars
  <2>1. HookInv'
    BY <1>4, NextHookInv DEF RouteInv
  <2>2. UNCHANGED <<pc, loc, size, active_hooks, mem, live, wanted>>
    BY <1>4 DEF vars
  <2> QED BY <2>1, <2>2 DEF RouteInv, HooksLead, OthersOwn, SavedOwn, Written, Routed,
                            Busy, Calling, Patching, Entered
<1> QED BY <1>1, <1>2, <1>3, <1>4 DEF Next

-----------------------------------------------------------------------------
(* What the invariant says of where calls go *)

\* The jump of the call in progress.
LEMMA EnteredLeads ==
  ASSUME NearLayout, RouteInv, Entered
  PROVE  Leads(mem, loc.fn, loc.tramp, size, loc.target)
BY DEF RouteInv, Written, Patching, Leads

\* A whole jump at the entry of a function leads through a block that is allocated.
LEMMA JumpsLead ==
  ASSUME NearLayout, RouteInv, NEW f \in Functions, Decodes(mem, f), IsJump(mem[f])
  PROVE  \E b \in live, n \in 0 .. 19, t \in Targets \cup {Own} : Leads(mem, f, b, n, t)
<1>1. CASE ~Busy(f)
  <2>1. f \in DOMAIN active_hooks
    BY <1>1 DEF RouteInv, OthersOwn
  <2>2. wanted[f] \in Targets \cup {Own}
    BY DEF RouteInv, HookInv, TypeOK
  <2> QED BY <1>1, <2>1, <2>2 DEF RouteInv, HooksLead, Routed
<1>2. CASE f = loc.fn /\ pc = "disp"
  <2> DEFINE b == loc.tramp
             to == b + size + 5
             j == Jmp(f, to)
  <2>1. mem[f] = <<j, 0>> /\ Trampoline(mem, b, size, loc.target)
    BY <1>2 DEF RouteInv, Written, Patching
  <2>2. j.len = 5
    BY DEF Jmp, Ins
  <2> HIDE DEF j
  <2>3. At(mem, f) = j
    BY <2>1 DEF At
  <2>4. \A k \in 0 .. 4 : f + k \in DOMAIN mem /\ mem[f + k] = <<j, k>>
    BY <2>2, <2>3 DEF Decodes, Intact
  <2>5. JumpAt(mem, f, to)
    BY <2>4 DEF JumpAt, j
  <2>6. b \in live /\ size \in 0 .. 19 /\ loc.target \in Targets
    BY <1>2, CallPlaces DEF Calling
  <2> QED BY <2>1, <2>5, <2>6 DEF Leads
<1>3. CASE f = loc.fn /\ Entered
  <2>1. loc.tramp \in live /\ size \in 0 .. 19 /\ loc.target \in Targets
    BY <1>3, CallPlaces DEF Calling, Entered
  <2> QED BY <1>3, <2>1, EnteredLeads
<1>4. CASE f = loc.fn /\ pc = "free"
  BY <1>4 DEF RouteInv, OthersOwn
<1> QED BY <1>1, <1>2, <1>3, <1>4 DEF Busy

LEMMA InvNoDangling == ASSUME NearLayout, RouteInv PROVE NoDangling
<1> SUFFICES ASSUME NEW f \in Functions, Redirected(f)
             PROVE  \E b \in live : InBlock(b, Follow(mem, f))
  BY DEF NoDangling
<1>1. Decodes(mem, f) /\ IsJump(mem[f])
  BY DEF Redirected, IsJump, At
<1>2. PICK b \in live, n \in 0 .. 19, t \in Targets \cup {Own} : Leads(mem, f, b, n, t)
  BY <1>1, JumpsLead
<1>3. b \in NearBlocks
  BY StateTypes DEF RouteInv
<1>4. Follow(mem, f) = b + n + 5 /\ InBlock(b, b + n + 5)
  BY <1>2, <1>3, LeadsFollow
<1> QED BY <1>4

LEMMA InvHooksRoute == ASSUME NearLayout, RouteInv PROVE HooksRoute
<1> SUFFICES ASSUME pc = "idle", NEW f \in DOMAIN active_hooks
             PROVE  Follow(mem, Follow(mem, f)) = wanted[f]
  BY DEF HooksRoute
<1>1. PICK b \in live, n \in 0 .. 19 : Leads(mem, f, b, n, wanted[f])
  BY DEF RouteInv, HooksLead, Routed, Busy, Entered
<1>2. b \in NearBlocks /\ f \in Functions
  BY StateTypes DEF RouteInv
<1> QED BY <1>1, <1>2, LeadsFollow

\* The route of each function, in terms of the control of HookLib.
RouteOf(f) ==
  IF f = loc.fn /\ pc = "disp" THEN Torn
  ELSE IF f = loc.fn /\ Entered THEN loc.target
  ELSE IF f \in DOMAIN active_hooks /\ ~Busy(f) THEN wanted[f]
  ELSE Own

LEMMA InvRoute ==
  ASSUME NearLayout, RouteInv PROVE route = [f \in Functions |-> RouteOf(f)]
<1> SUFFICES ASSUME NEW f \in Functions
             PROVE  (IF pc = "disp" /\ f = loc.fn THEN Torn
                     ELSE IF Redirected(f) THEN Follow(mem, Follow(mem, f))
                     ELSE Own) = RouteOf(f)
  BY DEF route
<1>1. ASSUME NEW b \in live, NEW n \in 0 .. 19, NEW t, Leads(mem, f, b, n, t)
      PROVE  Redirected(f) /\ Follow(mem, Follow(mem, f)) = t
  <2>1. b \in NearBlocks
    BY StateTypes DEF RouteInv
  <2>2. /\ Decodes(mem, f) /\ At(mem, f).op = "jmp"
        /\ Follow(mem, Follow(mem, f)) = t
    BY <1>1, <2>1, LeadsFollow
  <2>3. ~IsJump(pristine[f])
    BY StateTypes DEF RouteInv, NearLayout
  <2>4. At(pristine, f).op # "jmp"
    BY <2>3 DEF IsJump, At
  <2>5. At(mem, f) # At(pristine, f)
    BY <2>2, <2>4
  <2> QED BY <2>2, <2>5 DEF Redirected
<1>2. ~IsJump(mem[f]) => ~Redirected(f)
  BY DEF IsJump, Redirected, At
<1>3. CASE f = loc.fn /\ pc = "disp"
  BY <1>3 DEF RouteOf
<1>4. CASE f = loc.fn /\ Entered
  <2>1. Leads(mem, f, loc.tramp, size, loc.target)
    BY <1>4, EnteredLeads
  <2>2. loc.tramp \in live /\ size \in 0 .. 19 /\ pc # "disp"
    BY <1>4, CallPlaces DEF Calling, Entered
  <2> QED BY <1>1, <1>4, <2>1, <2>2 DEF RouteOf
<1>5. CASE f = loc.fn /\ pc = "free"
  <2>1. ~IsJump(mem[f])
    BY <1>5 DEF RouteInv, OthersOwn
  <2> QED BY <1>2, <1>5, <2>1 DEF RouteOf, Entered, Busy
<1>6. CASE ~Busy(f) /\ f \in DOMAIN active_hooks
  <2>1. PICK b \in live, n \in 0 .. 19 : Leads(mem, f, b, n, wanted[f])
    BY <1>6 DEF RouteInv, HooksLead, Routed
  <2> QED BY <1>1, <1>6, <2>1 DEF RouteOf, Busy
<1>7. CASE ~Busy(f) /\ f \notin DOMAIN active_hooks
  <2>1. ~IsJump(mem[f])
    BY <1>7 DEF RouteInv, OthersOwn
  <2> QED BY <1>2, <1>7, <2>1 DEF RouteOf, Busy
<1> QED BY <1>3, <1>4, <1>5, <1>6, <1>7 DEF Busy

-----------------------------------------------------------------------------
(* Saved bytes *)

\* From offset n on f holds what it held when it was last hooked.
Untouched(f, n) ==
  \A o \in n .. MaxStolen :
    o \in DOMAIN taken[f] => f + o \in DOMAIN mem /\ mem[f + o] = taken[f][o]

\* The rest of a hooked function, behind the saved bytes.
TailKept(f) ==
  \E n \in 5 .. MaxStolen : Len(active_hooks[f].original_bytes) = n /\ Untouched(f, n)

\* What a call overwrites: all that it counted, and at least a jump.
Overwritten == IF size > 5 THEN size ELSE 5

\* A function that is hooked again begins with a jump of five bytes, so that no more
\* is overwritten than the first time.
TailsKept ==
  /\ DOMAIN taken = Functions
  /\ \A f \in DOMAIN active_hooks : TailKept(f)
  /\ Calling =>
       IF loc.fn \in DOMAIN active_hooks THEN size \in {0, 5}
       ELSE Untouched(loc.fn, Overwritten)

SavedInv == RouteInv /\ TailsKept

LEMMA UntouchedKept ==
  ASSUME NEW f \in Int, NEW n \in Nat, Untouched(f, n), taken'[f] = taken[f],
         DOMAIN mem' = DOMAIN mem,
         \A x \in DOMAIN mem : x \in f + n .. f + MaxStolen => mem'[x] = mem[x]
  PROVE  Untouched(f, n)'
<1> SUFFICES ASSUME NEW o \in n .. MaxStolen, o \in DOMAIN taken'[f]
             PROVE  f + o \in DOMAIN mem' /\ mem'[f + o] = taken'[f][o]
  BY DEF Untouched
<1>1. f + o \in DOMAIN mem /\ mem[f + o] = taken[f][o]
  BY DEF Untouched
<1>2. f + o \in f + n .. f + MaxStolen
  BY DEF MaxStolen
<1> QED BY <1>1, <1>2

LEMMA InitSaved == ASSUME NearLayout, Init PROVE SavedInv
<1>1. DOMAIN active_hooks = {} /\ DOMAIN taken = Functions /\ pc = "idle"
  BY DEF Init
<1> QED BY <1>1, InitRoute DEF SavedInv, TailsKept, Calling

LEMMA ApplyHookSaved ==
  ASSUME NearLayout, SavedInv, NEW f \in Functions, NEW t \in Targets, ApplyHookX64(f, t)
  PROVE  SavedInv'
<1>1. RouteInv'
  BY ApplyHookRoute DEF SavedInv
<1>2. /\ pc' = "sizing" /\ size' = 0 /\ loc'.fn = f /\ UNCHANGED active_hooks
      /\ taken' = IF f \in DOMAIN active_hooks THEN taken ELSE [taken EXCEPT ![f] = Text(f)]
  BY DEF ApplyHookX64
<1>3. PICK b \in NearBlocks : mem' = Fill(mem, b, BlockSize, Zero)
  BY DEF ApplyHookX64, NearLayout
<1>4. /\ DOMAIN mem' = DOMAIN mem
      /\ \A x \in DOMAIN mem : ~InBlock(b, x) => mem'[x] = mem[x]
  BY <1>3 DEF Fill, InBlock
<1>5. \A g \in Functions : \A x \in DOMAIN mem : x \in g .. g + MaxStolen => mem'[x] = mem[x]
  BY <1>4, TextApart
<1>6. DOMAIN active_hooks \subseteq Functions
  BY StateTypes DEF SavedInv, RouteInv
<1>7. ASSUME NEW g \in DOMAIN active_hooks
      PROVE  TailKept(g)'
  <2>1. PICK n \in 5 .. MaxStolen :
          Len(active_hooks[g].original_bytes) = n /\ Untouched(g, n)
    BY DEF SavedInv, TailsKept, TailKept
  <2>2. taken'[g] = taken[g]
    BY <1>2, <1>6 DEF SavedInv, TailsKept
  <2>3. g \in Int /\ g \in Functions /\ n \in Nat
    BY <1>6, <2>1, Places DEF MaxStolen
  <2>4. \A x \in DOMAIN mem : x \in g + n .. g + MaxStolen => mem'[x] = mem[x]
    <3>1. \A x : x \in g + n .. g + MaxStolen => x \in g .. g + MaxStolen
      BY <2>3 DEF MaxStolen
    <3> QED BY <1>5, <2>3, <3>1
  <2>5. Untouched(g, n)'
    BY <1>4, <2>1, <2>2, <2>3, <2>4, UntouchedKept
  <2> QED BY <1>2, <2>1, <2>5 DEF TailKept
<1>8. ASSUME f \notin DOMAIN active_hooks
      PROVE  Untouched(f, 5)'
  <2>1. taken'[f] = Text(f)
    BY <1>2, <1>8 DEF SavedInv, TailsKept
  <2>2. ASSUME NEW o \in 5 .. MaxStolen, o \in DOMAIN Text(f)
        PROVE  f + o \in DOMAIN mem' /\ mem'[f + o] = Text(f)[o]
    <3>1. f + o \in DOMAIN mem /\ Text(f)[o] = mem[f + o]
      BY <2>2 DEF Text
    <3>2. f + o \in f .. f + MaxStolen
      BY Places DEF MaxStolen
    <3> QED BY <1>4, <1>5, <3>1, <3>2
  <2> QED BY <2>1, <2>2 DEF Untouched
<1>9. DOMAIN taken' = Functions
  BY <1>2 DEF SavedInv, TailsKept
<1>10. Overwritten' = 5
  BY <1>2 DEF Overwritten
<1>11. TailsKept'
  BY <1>2, <1>7, <1>8, <1>9, <1>10 DEF TailsKept
<1> QED BY <1>1, <1>11 DEF SavedInv

\* What the stores to the text of a function leave alone.
LEMMA StoreWrites ==
  ASSUME NearLayout, RouteInv, PlaceOpcode \/ PlaceDisp \/ PadNops
  PROVE  /\ DOMAIN mem' = DOMAIN mem
         /\ \A x \in DOMAIN mem :
              x \notin loc.fn .. loc.fn + Overwritten - 1 => mem'[x] = mem[x]
<1> DEFINE f == loc.fn
           n == Overwritten
<1>1. Calling
  BY DEF PlaceOpcode, PlaceDisp, PadNops, Calling
<1>2. f \in Int /\ size \in 0 .. 19 /\ ~loc.far /\ DOMAIN mem \subseteq Int
  BY <1>1, CallPlaces, StateTypes DEF RouteInv
<1>3. n \in Nat /\ n >= 5 /\ n >= size
  BY <1>2 DEF Overwritten
<1> HIDE DEF n
<1>4. CASE PlaceOpcode
  <2> DEFINE s == Peek(EntryJump, 1, 1)
  <2>1. mem' = Poke(mem, f, s) /\ Len(s) = 1
    BY <1>4, StoreTypes DEF PlaceOpcode, RouteInv
  <2> HIDE DEF s
  <2>2. \A x \in DOMAIN mem : x \notin f .. f + n - 1 => ~(f <= x /\ x < f + Len(s))
    BY <1>2, <1>3, <2>1
  <2> QED BY <2>1, <2>2 DEF Poke, n
<1>5. CASE PlaceDisp
  <2> DEFINE s == Peek(EntryJump, 2, 4)
  <2>1. mem' = Poke(mem, f + 1, s) /\ Len(s) = 4
    BY <1>5, StoreTypes DEF PlaceDisp, RouteInv
  <2> HIDE DEF s
  <2>2. \A x \in DOMAIN mem : x \notin f .. f + n - 1 => ~(f + 1 <= x /\ x < f + 1 + Len(s))
    BY <1>2, <1>3, <2>1
  <2> QED BY <2>1, <2>2 DEF Poke, n
<1>6. CASE PadNops
  <2>1. mem' = mem \/ mem' = Fill(mem, f + 5, size - 5, Nop)
    BY <1>2, <1>6 DEF PadNops, needed_size
  <2>2. \A x \in DOMAIN mem : x \notin f .. f + n - 1 => ~(f + 5 <= x /\ x < f + 5 + (size - 5))
    BY <1>2, <1>3
  <2> QED BY <2>1, <2>2 DEF Fill, n
<1> QED BY <1>4, <1>5, <1>6

\* What the steps of a call that write memory leave alone.
LEMMA CallWrites ==
  ASSUME NearLayout, RouteInv,
         EndSizing \/ BuildNear \/ PlaceOpcode \/ PlaceDisp \/ PadNops
  PROVE  /\ DOMAIN mem' = DOMAIN mem
         /\ \A x \in DOMAIN mem :
              /\ ~InBlock(loc.tramp, x) /\ x \notin loc.fn .. loc.fn + Overwritten - 1
              => mem'[x] = mem[x]
<1>1. CASE EndSizing
  BY <1>1 DEF EndSizing
<1>2. CASE BuildNear
  BY <1>2, BuildNearCells
<1>3. CASE PlaceOpcode \/ PlaceDisp \/ PadNops
  BY <1>3, StoreWrites
<1> QED BY <1>1, <1>2, <1>3

LEMMA CallSaved ==
  ASSUME NearLayout, SavedInv,
         EndSizing \/ BuildNear \/ PlaceOpcode \/ PlaceDisp \/ PadNops
  PROVE  SavedInv'
<1>1. RouteInv'
  BY SizingRoute, BuildNearRoute, PlaceOpcodeRoute, PlaceDispRoute, PadNopsRoute DEF SavedInv
<1>2. Calling /\ Calling' /\ UNCHANGED <<loc, size, active_hooks, taken>>
  BY DEF EndSizing, BuildNear, PlaceOpcode, PlaceDisp, PadNops, Calling, history
<1>3. /\ DOMAIN mem' = DOMAIN mem
      /\ \A x \in DOMAIN mem :
           /\ ~InBlock(loc.tramp, x) /\ x \notin loc.fn .. loc.fn + Overwritten - 1
           => mem'[x] = mem[x]
  BY CallWrites DEF SavedInv
<1>4. /\ loc.fn \in Functions /\ loc.tramp \in NearBlocks /\ loc.fn \in Int
      /\ size \in 0 .. 19 /\ DOMAIN active_hooks \subseteq Functions
  BY <1>2, CallPlaces, StateTypes DEF SavedInv, RouteInv
<1>5. Overwritten' = Overwritten /\ Overwritten \in 5 .. MaxStolen
  BY <1>2, <1>4 DEF Overwritten, MaxStolen
<1>6. ASSUME NEW g \in Functions, NEW n \in 5 .. MaxStolen, Untouched(g, n),
             g = loc.fn => n >= Overwritten
      PROVE  Untouched(g, n)'
  <2>1. g \in Int /\ n \in Nat
    BY Places DEF MaxStolen
  <2>2. ASSUME NEW x \in DOMAIN mem, x \in g + n .. g + MaxStolen
        PROVE  mem'[x] = mem[x]
    <3>1. x \in g .. g + MaxStolen
      BY <2>1, <2>2 DEF MaxStolen
    <3>2. ~InBlock(loc.tramp, x)
      BY <1>4, <3>1, TextApart
    <3>3. CASE g = loc.fn
      <4>1. x \notin loc.fn .. loc.fn + Overwritten - 1
        BY <1>5, <1>6, <2>1, <2>2, <3>3 DEF MaxStolen
      <4> QED BY <1>3, <3>2, <4>1
    <3>4. CASE g # loc.fn
      <4>1. x \notin loc.fn .. loc.fn + MaxStolen
        BY <1>4, <3>1, <3>4, TextsApart
      <4>2. x \notin loc.fn .. loc.fn + Overwritten - 1
        BY <1>4, <1>5, <4>1 DEF MaxStolen
      <4> QED BY <1>3, <3>2, <4>2
    <3> QED BY <3>3, <3>4
  <2>3. taken'[g] = taken[g]
    BY <1>2
  <2> QED BY <1>3, <1>6, <2>1, <2>2, <2>3, UntouchedKept
<1>7. ASSUME NEW g \in DOMAIN active_hooks
      PROVE  TailKept(g)'
  <2>1. PICK n \in 5 .. MaxStolen :
          Len(active_hooks[g].original_bytes) = n /\ Untouched(g, n)
    BY DEF SavedInv, TailsKept, TailKept
  <2>2. g = loc.fn => n >= Overwritten
    BY <1>2, <2>1 DEF SavedInv, TailsKept, Overwritten, MaxStolen
  <2>3. Untouched(g, n)'
    BY <1>4, <1>6, <2>1, <2>2
  <2> QED BY <1>2, <2>1, <2>3 DEF TailKept
<1>8. ASSUME loc.fn \notin DOMAIN active_hooks
      PROVE  Untouched(loc.fn, Overwritten)'
  <2>1. PICK n \in 5 .. MaxStolen : n = Overwritten
    BY <1>5
  <2>2. PICK g \in Functions : g = loc.fn
    BY <1>4
  <2>3. Untouched(g, n)
    BY <1>2, <1>8, <2>1, <2>2 DEF SavedInv, TailsKept
  <2>4. Untouched(g, n)'
    BY <1>5, <1>6, <2>1, <2>2, <2>3
  <2> QED BY <1>2, <1>5, <2>1, <2>2, <2>4 DEF Untouched
<1>9. TailsKept'
  BY <1>2, <1>7, <1>8 DEF SavedInv, TailsKept
<1> QED BY <1>1, <1>9 DEF SavedInv

LEMMA DisassembleSaved == ASSUME NearLayout, SavedInv, Disassemble PROVE SavedInv'
<1> DEFINE f == loc.fn
<1>1. RouteInv'
  BY SizingRoute DEF SavedInv
<1>2. /\ pc = "sizing" /\ pc' = "sizing" /\ size < needed_size
      /\ UNCHANGED <<loc, active_hooks, mem, taken>>
  BY DEF Disassemble, history
<1>3. PICK n \in IF Decodes(mem, f + size) THEN {At(mem, f + size).len} ELSE Junk(f + size) :
        size' = size + n
  BY DEF Disassemble
<1>4. Calling /\ Calling' /\ ~Busy(f)
  BY <1>2 DEF Calling, Busy, Entered
<1>5. /\ f \in Functions /\ f \in Int /\ size \in 0 .. 19 /\ needed_size = 5
      /\ mem \in [DOMAIN pristine -> Cell] /\ DOMAIN active_hooks \subseteq Functions
  BY <1>4, CallPlaces, StateTypes DEF SavedInv, RouteInv, needed_size
<1>6. n \in Nat
  <2>1. CASE Decodes(mem, f + size)
    <3>1. n = At(mem, f + size).len /\ f + size \in DOMAIN mem
      BY <1>3, <2>1 DEF Decodes, Intact
    <3>2. At(mem, f + size) \in Instruction
      BY <1>5, <3>1 DEF At, Cell
    <3> QED BY <3>1, <3>2 DEF Instruction
  <2>2. CASE ~Decodes(mem, f + size)
    <3>1. n \in JunkLens
      BY <1>3, <2>2 DEF Junk
    <3> QED BY <3>1, PlacesAssumption
  <2> QED BY <2>1, <2>2
<1>7. ASSUME f \in DOMAIN active_hooks
      PROVE  size' = 5
  <2>1. size = 0
    BY <1>2, <1>4, <1>5, <1>7 DEF SavedInv, TailsKept
  <2>2. PICK b \in live, k \in 0 .. 19 : Leads(mem, f, b, k, wanted[f])
    BY <1>4, <1>7 DEF SavedInv, RouteInv, HooksLead, Routed
  <2>3. b \in NearBlocks
    BY StateTypes DEF SavedInv, RouteInv
  <2>4. Decodes(mem, f) /\ mem[f] = <<Jmp(f, b + k + 5), 0>>
    <3>1. PICK m, t : m = mem /\ t = wanted[f]
      OBVIOUS
    <3>2. f \in Functions /\ k \in 0 .. 19 /\ Leads(m, f, b, k, t)
      BY <1>5, <2>2, <3>1
    <3>3. Decodes(m, f) /\ m[f] = <<Jmp(f, b + k + 5), 0>>
      BY ONLY NearLayout, <2>3, <3>2, LeadsJump
    <3> QED BY <3>1, <3>3
  <2>5. At(mem, f).len = 5
    BY <2>4 DEF At, Jmp, Ins
  <2>6. f + size = f
    BY <1>5, <2>1
  <2> QED BY <1>3, <2>1, <2>4, <2>5, <2>6
<1>8. ASSUME f \notin DOMAIN active_hooks
      PROVE  Untouched(f, Overwritten)'
  <2>1. Untouched(f, Overwritten)
    BY <1>4, <1>8 DEF SavedInv, TailsKept
  <2>2. Overwritten \in Nat /\ Overwritten' \in Nat /\ Overwritten' >= Overwritten
    BY <1>3, <1>5, <1>6 DEF Overwritten
  <2>3. \A o \in Overwritten' .. MaxStolen : o \in Overwritten .. MaxStolen
    BY <2>2 DEF MaxStolen
  <2> QED BY <1>2, <2>1, <2>3 DEF Untouched
<1>9. \A g \in DOMAIN active_hooks : TailKept(g)'
  BY <1>2 DEF SavedInv, TailsKept, TailKept, Untouched
<1>10. TailsKept'
  BY <1>2, <1>7, <1>8, <1>9 DEF SavedInv, TailsKept
<1> QED BY <1>1, <1>10 DEF SavedInv

LEMMA RecordSaved == ASSUME NearLayout, SavedInv, Record PROVE SavedInv'
<1> DEFINE f == loc.fn
           hooked == DOMAIN active_hooks
<1>1. RouteInv'
  BY RecordRoute DEF SavedInv
<1>2. /\ pc = "record" /\ pc' = "idle" /\ UNCHANGED <<mem, taken>>
      /\ active_hooks' = [g \in hooked \cup {f} |->
                            IF g \in hooked THEN active_hooks[g]
                            ELSE create_hook_entry(loc.tramp, size)]
  BY DEF Record
<1>3. Calling /\ ~Calling'
  BY <1>2 DEF Calling
<1>4. size \in 5 .. 19
  BY <1>2, <1>3, CallPlaces DEF SavedInv, RouteInv, Written
<1>5. ASSUME NEW g \in hooked
      PROVE  TailKept(g)'
  <2>1. active_hooks'[g] = active_hooks[g]
    BY <1>2
  <2> QED BY <1>2, <2>1 DEF SavedInv, TailsKept, TailKept, Untouched
<1>6. ASSUME NEW g, g = f, g \notin hooked
      PROVE  TailKept(g)'
  <2>1. active_hooks'[g] = create_hook_entry(loc.tramp, size)
    BY <1>2, <1>6
  <2>2. Len(Peek(mem, loc.tramp, size)) = size
    <3>1. /\ mem \in [DOMAIN pristine -> Cell] /\ loc.tramp \in Int /\ size \in Nat
          /\ loc.tramp .. loc.tramp + size - 1 \subseteq DOMAIN pristine
      BY <1>3, CallTypes, MemoryType DEF SavedInv, RouteInv, HookInv, Calling
    <3> QED BY <3>1, PeekType
  <2>3. PICK n \in 5 .. MaxStolen : n = size
    BY <1>4 DEF MaxStolen
  <2>4. Len(active_hooks'[g].original_bytes) = n
    BY <2>1, <2>2, <2>3 DEF create_hook_entry
  <2>5. Overwritten = n
    BY <1>4, <2>3 DEF Overwritten
  <2>6. Untouched(g, n)
    BY <1>3, <1>6, <2>5 DEF SavedInv, TailsKept
  <2>7. Untouched(g, n)'
    BY <1>2, <2>6 DEF Untouched
  <2> QED BY <2>4, <2>7 DEF TailKept
<1>7. DOMAIN active_hooks' = hooked \cup {f}
  BY <1>2
<1>8. TailsKept'
  BY <1>2, <1>3, <1>5, <1>6, <1>7 DEF SavedInv, TailsKept
<1> QED BY <1>1, <1>8 DEF SavedInv

LEMMA RemoveHookSaved ==
  ASSUME NearLayout, SavedInv, NEW f \in Functions, RemoveHook(f) PROVE SavedInv'
<1> DEFINE s == active_hooks[f].original_bytes
<1>1. RouteInv'
  BY RemoveHookRoute DEF SavedInv
<1>2. /\ pc' = "free" /\ f \in DOMAIN active_hooks /\ mem' = Poke(mem, f, s)
      /\ UNCHANGED <<active_hooks, taken>>
  BY DEF RemoveHook, history
<1>3. ~Calling'
  BY <1>2 DEF Calling
<1>4. PICK k \in 5 .. MaxStolen : Len(s) = k
  BY <1>2 DEF SavedInv, TailsKept, TailKept
<1>5. /\ f \in Int /\ DOMAIN mem \subseteq Int /\ DOMAIN active_hooks \subseteq Functions
  BY Places, StateTypes DEF SavedInv, RouteInv
<1> HIDE DEF s
<1>6. /\ DOMAIN mem' = DOMAIN mem
      /\ \A x \in DOMAIN mem : ~(f <= x /\ x < f + k) => mem'[x] = mem[x]
  BY <1>2, <1>4 DEF Poke
<1>7. ASSUME NEW g \in DOMAIN active_hooks
      PROVE  TailKept(g)'
  <2>1. PICK n \in 5 .. MaxStolen :
          Len(active_hooks[g].original_bytes) = n /\ Untouched(g, n)
    BY DEF SavedInv, TailsKept, TailKept
  <2>2. g \in Int /\ g \in Functions /\ n \in Nat /\ (g = f => n = k)
    <3>1. g = f => n = k
      BY <1>4, <2>1 DEF s
    <3>2. g \in Functions
      BY <1>5
    <3>3. g \in Int
      BY <3>2, Places
    <3>4. n \in Nat
      BY <2>1 DEF MaxStolen
    <3> QED BY <3>1, <3>2, <3>3, <3>4
  <2>3. ASSUME NEW x \in DOMAIN mem, x \in g + n .. g + MaxStolen
        PROVE  mem'[x] = mem[x]
    <3>1. x \in g .. g + MaxStolen
      BY <2>2, <2>3 DEF MaxStolen
    <3>2. CASE g = f
      BY <1>5, <1>6, <2>2, <2>3, <3>2
    <3>3. CASE g # f
      <4>1. x \notin f .. f + MaxStolen
        BY <2>2, <3>1, <3>3, TextsApart
      <4>2. ~(f <= x /\ x < f + k)
        BY <1>4, <1>5, <4>1 DEF MaxStolen
      <4> QED BY <1>6, <4>2
    <3> QED BY <3>2, <3>3
  <2>4. Untouched(g, n)'
    BY <1>2, <1>6, <2>1, <2>2, <2>3, UntouchedKept
  <2> QED BY <1>2, <2>1, <2>4 DEF TailKept
<1>8. TailsKept'
  BY <1>2, <1>3, <1>7 DEF SavedInv, TailsKept
<1> QED BY <1>1, <1>8 DEF SavedInv

LEMMA FreeTrampolineSaved == ASSUME NearLayout, SavedInv, FreeTrampoline PROVE SavedInv'
<1> DEFINE f == loc.fn
           b == active_hooks[f].trampoline
<1>1. RouteInv'
  BY FreeTrampolineRoute DEF SavedInv
<1>2. /\ pc = "free" /\ pc' = "idle" /\ UNCHANGED taken
      /\ active_hooks' = [g \in DOMAIN active_hooks \ {f} |-> active_hooks[g]]
      /\ mem' = mem \/ mem' = Fill(mem, b, BlockSize, Unmapped)
  BY DEF FreeTrampoline
<1>3. ~Calling'
  BY <1>2 DEF Calling
<1>4. /\ f \in DOMAIN active_hooks /\ b \in NearBlocks
      /\ DOMAIN active_hooks \subseteq Functions
  BY <1>2, StateTypes DEF SavedInv, RouteInv, HookInv, InCall
<1>5. /\ DOMAIN mem' = DOMAIN mem
      /\ \A x \in DOMAIN mem : ~InBlock(b, x) => mem'[x] = mem[x]
  BY <1>2 DEF Fill, InBlock
<1>6. ASSUME NEW g \in DOMAIN active_hooks'
      PROVE  TailKept(g)'
  <2>1. active_hooks'[g] = active_hooks[g] /\ g \in DOMAIN active_hooks
    BY <1>2
  <2>2. PICK n \in 5 .. MaxStolen :
          Len(active_hooks[g].original_bytes) = n /\ Untouched(g, n)
    BY <2>1 DEF SavedInv, TailsKept, TailKept
  <2>3. g \in Int /\ g \in Functions /\ n \in Nat
    BY <1>4, <2>1, Places DEF MaxStolen
  <2>4. ASSUME NEW x \in DOMAIN mem, x \in g + n .. g + MaxStolen
        PROVE  mem'[x] = mem[x]
    <3>1. x \in g .. g + MaxStolen
      BY <2>3, <2>4 DEF MaxStolen
    <3>2. ~InBlock(b, x)
      BY <1>4, <2>3, <3>1, TextApart
    <3> QED BY <1>5, <3>2
  <2>5. Untouched(g, n)'
    BY <1>2, <1>5, <2>2, <2>3, <2>4, UntouchedKept
  <2> QED BY <2>1, <2>2, <2>5 DEF TailKept
<1>7. TailsKept'
  BY <1>2, <1>3, <1>6 DEF SavedInv, TailsKept
<1> QED BY <1>1, <1>7 DEF SavedInv

LEMMA NextSaved == ASSUME NearLayout, SavedInv, [Next]_vars PROVE SavedInv'
<1>1. CASE \E f \in Functions, t \in Targets : ApplyHookX64(f, t)
  BY <1>1, ApplyHookSaved
<1>2. CASE \E f \in Functions : RemoveHook(f)
  BY <1>2, RemoveHookSaved
<1>3. CASE Continue
  BY <1>3, CallSaved, DisassembleSaved, RecordSaved, FreeTrampolineSaved, FarStepsRoute
     DEF Continue, SavedInv
<1>4. CASE UNCHANGED vars
  <2>1. RouteInv'
    BY <1>4, NextRoute DEF SavedInv
  <2>2. UNCHANGED <<pc, loc, size, active_hooks, mem, taken>>
    BY <1>4 DEF vars
  <2> QED BY <2>1, <2>2 DEF SavedInv, TailsKept, TailKept, Untouched, Overwritten, Calling
<1> QED BY <1>1, <1>2, <1>3, <1>4 DEF Next

LEMMA InvOnlySaved == SavedInv => OnlySavedOverwritten
BY DEF SavedInv, TailsKept, TailKept, Untouched, OnlySavedOverwritten

-----------------------------------------------------------------------------
(* Detour *)

RouteIs == route = [f \in Functions |-> RouteOf(f)]

\* Steps that leave every route alone.
LEMMA QuietSteps ==
  ASSUME NearLayout, RouteInv, RouteIs, RouteIs',
         \/ \E f \in Functions, t \in Targets : ApplyHookX64(f, t)
         \/ Disassemble \/ EndSizing \/ BuildNear \/ PadNops \/ Record \/ FreeTrampoline
  PROVE  UNCHANGED Routing!vars
<1>1. pc # "disp" /\ pc' # "disp"
  BY DEF ApplyHookX64, Disassemble, EndSizing, BuildNear, PadNops, Record, FreeTrampoline
<1>2. CASE (\E f \in Functions, t \in Targets : ApplyHookX64(f, t))
           \/ Disassemble \/ EndSizing \/ BuildNear
  <2>1. /\ pc \in {"idle", "sizing", "build"} /\ pc' \in {"sizing", "build", "patch"}
        /\ UNCHANGED <<active_hooks, wanted>>
    BY <1>2 DEF ApplyHookX64, Disassemble, EndSizing, BuildNear, history
  <2>2. \A f \in Functions : RouteOf(f)' = RouteOf(f)
    BY <2>1 DEF RouteOf, Busy, Entered
  <2> QED BY <1>1, <2>2 DEF RouteIs, busy, Routing!vars
<1>3. CASE PadNops
  <2>1. Entered /\ Entered' /\ UNCHANGED <<loc, active_hooks, wanted>>
    BY <1>3 DEF PadNops, Entered, history
  <2>2. \A f \in Functions : RouteOf(f)' = RouteOf(f)
    BY <1>1, <2>1 DEF RouteOf, Busy
  <2> QED BY <1>1, <2>2 DEF RouteIs, busy, Routing!vars
<1>4. CASE Record
  <2>1. /\ pc = "record" /\ pc' = "idle"
        /\ DOMAIN active_hooks' = DOMAIN active_hooks \cup {loc.fn}
        /\ wanted' = [wanted EXCEPT ![loc.fn] = loc.target]
    BY <1>4 DEF Record
  <2>2. wanted \in [Functions -> Targets \cup {Own}]
    BY DEF RouteInv, HookInv, TypeOK
  <2>3. \A f \in Functions : RouteOf(f)' = RouteOf(f)
    BY <2>1, <2>2 DEF RouteOf, Busy, Entered
  <2> QED BY <1>1, <2>3 DEF RouteIs, busy, Routing!vars
<1>5. CASE FreeTrampoline
  <2>1. /\ pc = "free" /\ pc' = "idle"
        /\ DOMAIN active_hooks' = DOMAIN active_hooks \ {loc.fn}
        /\ wanted' = [wanted EXCEPT ![loc.fn] = Own]
    BY <1>5 DEF FreeTrampoline
  <2>2. wanted \in [Functions -> Targets \cup {Own}]
    BY DEF RouteInv, HookInv, TypeOK
  <2>3. \A f \in Functions : RouteOf(f)' = RouteOf(f)
    BY <2>1, <2>2 DEF RouteOf, Busy, Entered
  <2> QED BY <1>1, <2>3 DEF RouteIs, busy, Routing!vars
<1> QED BY <1>2, <1>3, <1>4, <1>5

LEMMA OpcodeStep ==
  ASSUME NearLayout, RouteInv, RouteIs, RouteIs', PlaceOpcode
  PROVE  \E f \in Functions : Routing!Begin(f)
<1>1. /\ pc = "patch" /\ pc' = "disp" /\ UNCHANGED <<loc, active_hooks, wanted>>
  BY DEF PlaceOpcode, history
<1>2. PICK f \in Functions : f = loc.fn
  BY <1>1, CallPlaces DEF Calling
<1>3. RouteOf(f)' = Torn /\ \A g \in Functions \ {f} : RouteOf(g)' = RouteOf(g)
  BY <1>1, <1>2 DEF RouteOf, Busy, Entered
<1>4. route' = [route EXCEPT ![f] = Torn]
  BY <1>2, <1>3 DEF RouteIs
<1>5. busy = Nobody /\ busy' = f
  BY <1>1, <1>2 DEF busy
<1> QED BY <1>4, <1>5 DEF Routing!Begin, Torn, Routing!Torn, Nobody, Routing!Nobody

LEMMA DispStep ==
  ASSUME NearLayout, RouteInv, RouteIs, RouteIs', PlaceDisp
  PROVE  \E t \in Targets : Routing!End(t)
<1>1. /\ pc = "disp" /\ pc' = "nops" /\ UNCHANGED <<loc, active_hooks, wanted>>
  BY DEF PlaceDisp, history
<1>2. /\ loc.fn \in Functions /\ loc.target \in Targets /\ loc.fn \in Int
      /\ loc.fn # Nobody
  <2>1. loc.fn \in Functions /\ loc.target \in Targets
    BY <1>1, CallPlaces DEF Calling
  <2>2. loc.fn \in Nat
    BY <2>1, PlacesAssumption
  <2> QED BY <2>1, <2>2 DEF Nobody
<1>3. \A g \in Functions : RouteOf(g)' = IF g = loc.fn THEN loc.target ELSE RouteOf(g)
  BY <1>1 DEF RouteOf, Busy, Entered
<1>4. busy = loc.fn /\ busy' = Nobody
  BY <1>1 DEF busy
<1>5. route' = [route EXCEPT ![busy] = loc.target]
  BY <1>2, <1>3, <1>4 DEF RouteIs
<1> QED BY <1>2, <1>4, <1>5 DEF Routing!End, Nobody, Routing!Nobody

LEMMA RemoveStep ==
  ASSUME NearLayout, RouteInv, RouteIs, RouteIs', NEW f \in Functions, RemoveHook(f)
  PROVE  Routing!Unhook(f)
<1>1. /\ pc = "idle" /\ pc' = "free" /\ loc'.fn = f /\ UNCHANGED <<active_hooks, wanted>>
  BY DEF RemoveHook, history, NoCall
<1>2. RouteOf(f)' = Own /\ \A g \in Functions \ {f} : RouteOf(g)' = RouteOf(g)
  BY <1>1 DEF RouteOf, Busy, Entered
<1>3. route' = [route EXCEPT ![f] = Own]
  BY <1>2 DEF RouteIs
<1>4. busy = Nobody /\ busy' = Nobody
  BY <1>1 DEF busy
<1> QED BY <1>3, <1>4 DEF Routing!Unhook, Own, Routing!Own, Nobody, Routing!Nobody

LEMMA DetourStep ==
  ASSUME NearLayout, RouteInv, RouteIs, RouteIs', [Next]_vars
  PROVE  [Routing!Next]_(Routing!vars)
<1>1. CASE \E f \in Functions, t \in Targets : ApplyHookX64(f, t)
  BY <1>1, QuietSteps
<1>2. CASE \E f \in Functions : RemoveHook(f)
  BY <1>2, RemoveStep DEF Routing!Next
<1>3. CASE Continue
  BY <1>3, QuietSteps, OpcodeStep, DispStep, FarStepsRoute DEF Continue, Routing!Next
<1>4. CASE UNCHANGED vars
  <2>1. UNCHANGED <<pc, loc, active_hooks, wanted>>
    BY <1>4 DEF vars
  <2>2. \A f \in Functions : RouteOf(f)' = RouteOf(f)
    BY <2>1 DEF RouteOf, Busy, Entered
  <2> QED BY <2>1, <2>2 DEF RouteIs, busy, Routing!vars
<1> QED BY <1>1, <1>2, <1>3, <1>4 DEF Next

-----------------------------------------------------------------------------
(* The theorems *)

\* However often functions are hooked, hooked again and unhooked, between calls each
\* hooked function leads, in two jumps, to the hook function last asked for.
THEOREM SpecHooksRoute ==
  ASSUME NearLayout PROVE Spec => []HooksRoute
<1>1. Init => RouteInv
  BY InitRoute
<1>2. RouteInv /\ [Next]_vars => RouteInv'
  BY NextRoute
<1>3. RouteInv => HooksRoute
  BY InvHooksRoute
<1> QED BY <1>1, <1>2, <1>3, PTL DEF Spec

\* At no moment does an entry that the library has written lead into memory that it
\* has released, not even while it is being written.
THEOREM SpecNoDangling ==
  ASSUME NearLayout PROVE Spec => []NoDangling
<1>1. Init => RouteInv
  BY InitRoute
<1>2. RouteInv /\ [Next]_vars => RouteInv'
  BY NextRoute
<1>3. RouteInv => NoDangling
  BY InvNoDangling
<1> QED BY <1>1, <1>2, <1>3, PTL DEF Spec

\* HookLib implements Detour: no step changes the route of a function other than the
\* one being hooked or unhooked, and none but the first store to an entry tears it.
THEOREM SpecDetour ==
  ASSUME NearLayout PROVE Spec => DetourSpec
<1>1. Init => RouteInv
  BY InitRoute
<1>2. RouteInv /\ [Next]_vars => RouteInv'
  BY NextRoute
<1>3. RouteInv => RouteIs
  BY InvRoute DEF RouteIs
<1>4. Init /\ RouteIs => Routing!Init
  <2> SUFFICES ASSUME Init, RouteIs PROVE Routing!Init
    OBVIOUS
  <2>1. pc = "idle" /\ DOMAIN active_hooks = {}
    BY DEF Init
  <2>2. \A f \in Functions : RouteOf(f) = Own
    BY <2>1 DEF RouteOf, Entered
  <2> QED BY <2>1, <2>2 DEF RouteIs, busy, Routing!Init, Own, Routing!Own,
                            Nobody, Routing!Nobody
<1>5. RouteInv /\ RouteIs /\ RouteIs' /\ [Next]_vars => [Routing!Next]_(Routing!vars)
  BY DetourStep
<1> QED BY <1>1, <1>2, <1>3, <1>4, <1>5, PTL DEF Spec, DetourSpec, Routing!Spec

\* Whatever a near hook overwrites is among the bytes it saved, also when the
\* function is hooked again and active_hooks keeps the first entry.
THEOREM SpecOnlySavedOverwritten ==
  ASSUME NearLayout PROVE Spec => []OnlySavedOverwritten
<1>1. Init => SavedInv
  BY InitSaved
<1>2. SavedInv /\ [Next]_vars => SavedInv'
  BY NextSaved
<1>3. SavedInv => OnlySavedOverwritten
  BY InvOnlySaved
<1> QED BY <1>1, <1>2, <1>3, PTL DEF Spec

-----------------------------------------------------------------------------
(* What trampolines and saved bytes hold: the inductive invariant *)

\* T, the text of f, begins with n cells that stand relocated at b; behind them
\* is the jump to the rest of f.
Copied(m, T, f, b, n) ==
  /\ \A o \in 0 .. n - 1 :
       o \in DOMAIN T /\ b + o \in DOMAIN m /\ m[b + o] = MovedCell(T[o], f, b)
  /\ JumpAt(m, b + n, f + n)

\* But for RIP-relative instructions, f holds what it held at the start.
TextClean(f) ==
  \A o \in 0 .. MaxStolen :
    f + o \in DOMAIN mem /\ At(pristine, f + o).op \notin RelDisp => mem[f + o] = pristine[f + o]

\* So it did when it was last hooked.
TakenClean(f) ==
  /\ taken[f] \in [{o \in 0 .. MaxStolen : f + o \in DOMAIN pristine} -> Cell]
  /\ \A o \in DOMAIN taken[f] :
       At(pristine, f + o).op \notin RelDisp => taken[f][o] = pristine[f + o]

\* The saved bytes of f are those in its trampoline.
EntryCopied(f) ==
  LET b == active_hooks[f].trampoline
      s == active_hooks[f].original_bytes
  IN  /\ Copied(mem, taken[f], f, b, Len(s))
      /\ \A o \in 0 .. Len(s) - 1 : s[o + 1] = mem[b + o]

FirstCall == Calling /\ loc.fn \notin DOMAIN active_hooks

TextsClean ==
  /\ \A f \in Functions \ DOMAIN active_hooks : ~Busy(f) => TextClean(f)
  /\ pc = "free" => TextClean(loc.fn)

CopiesKept == \A f \in DOMAIN active_hooks : TakenClean(f) /\ EntryCopied(f)

BeingCopied ==
  FirstCall =>
    /\ TakenClean(loc.fn)
    /\ pc \in {"sizing", "build"} =>
         \A o \in DOMAIN taken[loc.fn] : mem[loc.fn + o] = taken[loc.fn][o]
    /\ Patching => Copied(mem, taken[loc.fn], loc.fn, loc.tramp, size)

CopyInv == SavedInv /\ TextsClean /\ CopiesKept /\ BeingCopied

-----------------------------------------------------------------------------
(* What a step leaves alone *)

LEMMA CopyTypes ==
  ASSUME NearLayout, CopyInv
  PROVE  HookInv /\ RouteInv /\ DOMAIN mem \subseteq Int /\ DOMAIN pristine = DOMAIN mem
BY StateTypes DEF CopyInv, SavedInv, RouteInv

LEMMA CopiedKept ==
  ASSUME NearLayout, NEW m, NEW m2, DOMAIN m2 = DOMAIN m, NEW T, NEW f,
         NEW b \in NearBlocks, NEW n \in 0 .. MaxStolen, Copied(m, T, f, b, n),
         \A x \in DOMAIN m : InBlock(b, x) => m2[x] = m[x]
  PROVE  Copied(m2, T, f, b, n)
<1>1. b \in Int /\ BlockSize \in Nat /\ BlockSize >= 88
  BY Places
<1>2. ASSUME NEW o \in 0 .. n - 1
      PROVE  o \in DOMAIN T /\ b + o \in DOMAIN m2 /\ m2[b + o] = MovedCell(T[o], f, b)
  <2>1. o \in DOMAIN T /\ b + o \in DOMAIN m /\ m[b + o] = MovedCell(T[o], f, b)
    BY DEF Copied
  <2>2. InBlock(b, b + o)
    BY <1>1 DEF InBlock, MaxStolen
  <2> QED BY <2>1, <2>2
<1>3. JumpAt(m2, b + n, f + n)
  <2>1. b + n \in Int /\ JumpAt(m, b + n, f + n)
    BY <1>1 DEF Copied, MaxStolen
  <2>2. ASSUME NEW x \in DOMAIN m, x \in b + n .. (b + n) + 4
        PROVE  m2[x] = m[x]
    <3>1. InBlock(b, x)
      BY <1>1, <2>2 DEF InBlock, MaxStolen
    <3> QED BY <3>1
  <2> QED BY <2>1, <2>2, EntryKept
<1> QED BY <1>2, <1>3 DEF Copied

LEMMA HookKept ==
  ASSUME NearLayout, CopyInv, NEW f \in DOMAIN active_hooks,
         active_hooks'[f] = active_hooks[f], taken'[f] = taken[f], pristine' = pristine,
         DOMAIN mem' = DOMAIN mem,
         \A x \in DOMAIN mem : InBlock(active_hooks[f].trampoline, x) => mem'[x] = mem[x]
  PROVE  TakenClean(f)' /\ EntryCopied(f)'
<1>1. TakenClean(f) /\ EntryCopied(f)
  BY DEF CopyInv, CopiesKept
<1>2. PICK b \in NearBlocks : b = active_hooks[f].trampoline
  BY StateTypes, CopyTypes
<1>3. PICK n \in 0 .. MaxStolen : n = Len(active_hooks[f].original_bytes)
  <2>1. /\ active_hooks[f].original_bytes \in Seq(Cell)
        /\ Len(active_hooks[f].original_bytes) <= MaxStolen
    BY CopyTypes DEF HookInv, TypeOK
  <2>2. Len(active_hooks[f].original_bytes) \in Nat
    BY <2>1, LenProperties
  <2>3. \A k \in Nat : k <= MaxStolen => k \in 0 .. MaxStolen
    BY DEF MaxStolen
  <2> QED BY <2>1, <2>2, <2>3
<1>4. PICK T : T = taken[f]
  OBVIOUS
<1>5. Copied(mem, T, f, b, n)
  BY <1>1, <1>2, <1>3, <1>4 DEF EntryCopied
<1>6. Copied(mem', T, f, b, n)
  BY <1>2, <1>5, CopiedKept
<1>7. ASSUME NEW o \in 0 .. n - 1
      PROVE  active_hooks[f].original_bytes[o + 1] = mem'[b + o]
  <2>1. b + o \in DOMAIN mem
    BY <1>5 DEF Copied
  <2>2. InBlock(b, b + o)
    BY Places DEF InBlock, MaxStolen
  <2> QED BY <1>1, <1>2, <1>3, <2>1, <2>2 DEF EntryCopied
<1>8. EntryCopied(f)'
  BY <1>2, <1>3, <1>4, <1>6, <1>7 DEF EntryCopied
<1>9. TakenClean(f)'
  BY <1>1 DEF TakenClean
<1> QED BY <1>8, <1>9

LEMMA TextKept ==
  ASSUME NearLayout, NEW f \in Functions, TextClean(f), pristine' = pristine,
         DOMAIN mem' = DOMAIN mem,
         \A x \in DOMAIN mem : x \in f .. f + MaxStolen => mem'[x] = mem[x]
  PROVE  TextClean(f)'
<1> SUFFICES ASSUME NEW o \in 0 .. MaxStolen, f + o \in DOMAIN mem,
                    At(pristine, f + o).op \notin RelDisp
             PROVE  mem'[f + o] = pristine[f + o]
  BY DEF TextClean
<1>1. f + o \in f .. f + MaxStolen
  BY Places DEF MaxStolen
<1> QED BY <1>1 DEF TextClean

\* A call disturbs no saved bytes, no other trampoline and no other text.
LEMMA OthersClean ==
  ASSUME NearLayout, CopyInv, Calling, Calling',
         UNCHANGED <<loc, active_hooks, taken, pristine>>,
         DOMAIN mem' = DOMAIN mem,
         \A x \in DOMAIN mem :
           /\ ~InBlock(loc.tramp, x)
           /\ Busy(loc.fn)' => x \notin loc.fn .. loc.fn + MaxStolen
           => mem'[x] = mem[x],
         Busy(loc.fn) => Busy(loc.fn)'
  PROVE  TextsClean' /\ CopiesKept'
<1>1. RouteInv /\ HookInv /\ DOMAIN mem \subseteq Int
  BY CopyTypes
<1>2. /\ loc.fn \in Functions /\ loc.tramp \in NearBlocks
      /\ DOMAIN active_hooks \subseteq Functions
  BY <1>1, CallPlaces, StateTypes
<1>3. \A f : ~Busy(f)' => ~Busy(f) /\ (Busy(loc.fn)' => f # loc.fn)
  BY DEF Busy
<1>4. ASSUME NEW f \in Functions \ DOMAIN active_hooks, ~Busy(f)'
      PROVE  TextClean(f)'
  <2>1. TextClean(f)
    BY <1>3, <1>4 DEF CopyInv, TextsClean
  <2>2. ASSUME NEW x \in DOMAIN mem, x \in f .. f + MaxStolen
        PROVE  mem'[x] = mem[x]
    <3>1. ~InBlock(loc.tramp, x)
      BY <1>2, <2>2, TextApart
    <3>2. Busy(loc.fn)' => x \notin loc.fn .. loc.fn + MaxStolen
      BY <1>2, <1>3, <1>4, <2>2, TextsApart
    <3> QED BY <3>1, <3>2
  <2> QED BY <2>1, <2>2, TextKept
<1>5. ASSUME NEW f \in DOMAIN active_hooks
      PROVE  TakenClean(f)' /\ EntryCopied(f)'
  <2>1. PICK b \in NearBlocks : b = active_hooks[f].trampoline
    BY <1>1, StateTypes
  <2>2. b # loc.tramp
    BY <1>1, <2>1 DEF HookInv, OwnTrampolines, Calling
  <2>3. ASSUME NEW x \in DOMAIN mem, InBlock(b, x)
        PROVE  mem'[x] = mem[x]
    <3>1. ~InBlock(loc.tramp, x)
      BY <1>1, <1>2, <2>2, <2>3, BlocksApart
    <3>2. x \notin loc.fn .. loc.fn + MaxStolen
      BY <1>2, <2>3, TextApart
    <3> QED BY <3>1, <3>2
  <2> QED BY <2>1, <2>3, HookKept
<1>6. pc' # "free"
  BY DEF Calling
<1> QED BY <1>4, <1>5, <1>6 DEF TextsClean, CopiesKept

LEMMA InitCopy == ASSUME NearLayout, Init PROVE CopyInv
<1>1. SavedInv
  BY InitSaved
<1>2. pc = "idle" /\ DOMAIN active_hooks = {} /\ mem = pristine
  BY DEF Init
<1>3. \A f \in Functions : TextClean(f)
  BY <1>2 DEF TextClean
<1> QED BY <1>1, <1>2, <1>3 DEF CopyInv, TextsClean, CopiesKept, BeingCopied, FirstCall, Calling

LEMMA ApplyHookCopy ==
  ASSUME NearLayout, CopyInv, NEW f \in Functions, NEW t \in Targets, ApplyHookX64(f, t)
  PROVE  CopyInv'
<1>1. SavedInv'
  BY ApplyHookSaved DEF CopyInv
<1>2. /\ pc = "idle" /\ pc' = "sizing" /\ loc'.fn = f /\ UNCHANGED <<active_hooks, pristine>>
      /\ taken' = IF f \in DOMAIN active_hooks THEN taken ELSE [taken EXCEPT ![f] = Text(f)]
  BY DEF ApplyHookX64
<1>3. PICK b \in NearBlocks \ live : mem' = Fill(mem, b, BlockSize, Zero)
  BY DEF ApplyHookX64, NearLayout
<1>4. /\ DOMAIN mem' = DOMAIN mem
      /\ \A x \in DOMAIN mem : ~InBlock(b, x) => mem'[x] = mem[x]
  BY <1>3 DEF Fill, InBlock
<1>5. /\ HookInv /\ DOMAIN mem \subseteq Int /\ DOMAIN pristine = DOMAIN mem
      /\ mem \in [DOMAIN pristine -> Cell] /\ DOMAIN active_hooks \subseteq Functions
  BY CopyTypes, StateTypes
<1>6. \A g \in Functions : \A x \in DOMAIN mem : x \in g .. g + MaxStolen => mem'[x] = mem[x]
  BY <1>4, TextApart
<1>7. \A g : ~Busy(g) /\ ~Busy(g)'
  BY <1>2 DEF Busy, Entered
<1>8. TextsClean'
  <2>1. \A g \in Functions : TextClean(g) => TextClean(g)'
    BY <1>2, <1>4, <1>6, TextKept
  <2> QED BY <1>2, <1>7, <2>1 DEF CopyInv, TextsClean
<1>9. CopiesKept'
  <2> SUFFICES ASSUME NEW g \in DOMAIN active_hooks
               PROVE  TakenClean(g)' /\ EntryCopied(g)'
    BY <1>2 DEF CopiesKept
  <2>1. PICK c \in NearBlocks : c = active_hooks[g].trampoline
    BY <1>5, StateTypes
  <2>2. c # b
    BY <1>3, <1>5, <2>1 DEF HookInv, OwnTrampolines
  <2>3. \A x \in DOMAIN mem : InBlock(c, x) => mem'[x] = mem[x]
    BY <1>4, <1>5, <2>2, BlocksApart
  <2>4. taken'[g] = taken[g]
    BY <1>2 DEF CopyInv, SavedInv, TailsKept
  <2> QED BY <1>2, <1>4, <2>1, <2>3, <2>4, HookKept
<1>10. BeingCopied'
  <2> SUFFICES ASSUME f \notin DOMAIN active_hooks
               PROVE  /\ TakenClean(f)'
                      /\ \A o \in DOMAIN taken'[f] : mem'[f + o] = taken'[f][o]
    BY <1>2 DEF BeingCopied, FirstCall, Patching, Entered
  <2>1. taken'[f] = Text(f)
    BY <1>2 DEF CopyInv, SavedInv, TailsKept
  <2>2. TextClean(f)
    BY <1>7 DEF CopyInv, TextsClean
  <2>3. /\ DOMAIN Text(f) = {o \in 0 .. MaxStolen : f + o \in DOMAIN pristine}
        /\ \A o \in DOMAIN Text(f) : Text(f)[o] = mem[f + o] /\ f + o \in DOMAIN mem
    BY <1>5 DEF Text
  <2>4. Text(f) \in [{o \in 0 .. MaxStolen : f + o \in DOMAIN pristine} -> Cell]
    BY <1>5 DEF Text
  <2>5. TakenClean(f)'
    BY <1>2, <2>1, <2>2, <2>3, <2>4 DEF TakenClean, TextClean
  <2>6. ASSUME NEW o \in DOMAIN Text(f)
        PROVE  mem'[f + o] = Text(f)[o]
    <3>1. f + o \in f .. f + MaxStolen
      BY <2>3, Places DEF MaxStolen
    <3> QED BY <1>6, <2>3, <3>1
  <2> QED BY <2>1, <2>5, <2>6
<1> QED BY <1>1, <1>8, <1>9, <1>10 DEF CopyInv

LEMMA SizingCopy ==
  ASSUME NearLayout, CopyInv, Disassemble \/ EndSizing PROVE CopyInv'
<1>1. SavedInv'
  BY CallSaved, DisassembleSaved DEF CopyInv
<1>2. /\ pc = "sizing" /\ pc' \in {"sizing", "build"}
      /\ UNCHANGED <<loc, active_hooks, mem, taken, pristine>>
  BY DEF Disassemble, EndSizing, history
<1>3. Calling /\ Calling' /\ ~Busy(loc.fn) /\ ~Patching'
  BY <1>2 DEF Calling, Busy, Entered, Patching
<1>4. TextsClean' /\ CopiesKept'
  BY <1>2, <1>3, OthersClean
<1>5. BeingCopied'
  BY <1>2, <1>3 DEF CopyInv, BeingCopied, FirstCall, TakenClean
<1> QED BY <1>1, <1>4, <1>5 DEF CopyInv

LEMMA BuildNearCopy == ASSUME NearLayout, CopyInv, BuildNear PROVE CopyInv'
<1>1. SavedInv'
  BY CallSaved DEF CopyInv
<1>2. /\ pc = "build" /\ pc' = "patch"
      /\ UNCHANGED <<loc, size, active_hooks, taken, pristine>>
  BY DEF BuildNear, history
<1>3. RouteInv /\ HookInv /\ DOMAIN pristine = DOMAIN mem /\ Calling /\ Calling' /\ ~Busy(loc.fn)
  BY <1>2, CopyTypes DEF Calling, Busy, Entered
<1>4. /\ DOMAIN mem' = DOMAIN mem
      /\ \A x \in DOMAIN mem : ~InBlock(loc.tramp, x) => mem'[x] = mem[x]
      /\ \A o \in 0 .. size - 1 :
           mem'[loc.tramp + o] = MovedCell(mem[loc.fn + o], loc.fn, loc.tramp)
      /\ JumpAt(mem', loc.tramp + size, loc.fn + size)
  BY <1>3, BuildNearCells
<1>5. TextsClean' /\ CopiesKept'
  BY <1>2, <1>3, <1>4, OthersClean
<1>6. ASSUME FirstCall
      PROVE  Copied(mem', taken[loc.fn], loc.fn, loc.tramp, size)
  <2> SUFFICES ASSUME NEW o \in 0 .. size - 1
               PROVE  /\ o \in DOMAIN taken[loc.fn] /\ loc.tramp + o \in DOMAIN mem'
                      /\ mem'[loc.tramp + o] = MovedCell(taken[loc.fn][o], loc.fn, loc.tramp)
    BY <1>4 DEF Copied
  <2>1. /\ loc.fn \in Int /\ loc.tramp \in Int /\ size \in Nat /\ size <= MaxStolen
        /\ loc.fn .. loc.fn + size - 1 \subseteq DOMAIN pristine
        /\ loc.tramp .. loc.tramp + size - 1 \subseteq DOMAIN pristine
    BY <1>2, <1>3, CallTypes
  <2>2. loc.fn + o \in DOMAIN pristine /\ loc.tramp + o \in DOMAIN mem' /\ o \in 0 .. MaxStolen
    BY <1>3, <1>4, <2>1 DEF MaxStolen
  <2>3. TakenClean(loc.fn) /\ \A k \in DOMAIN taken[loc.fn] : mem[loc.fn + k] = taken[loc.fn][k]
    BY <1>2, <1>6 DEF CopyInv, BeingCopied
  <2>4. o \in DOMAIN taken[loc.fn]
    BY <2>2, <2>3 DEF TakenClean
  <2> QED BY <1>4, <2>2, <2>3, <2>4
<1>7. BeingCopied'
  BY <1>2, <1>6 DEF CopyInv, BeingCopied, FirstCall, TakenClean, Calling
<1> QED BY <1>1, <1>5, <1>7 DEF CopyInv

LEMMA StoreCopy ==
  ASSUME NearLayout, CopyInv, PlaceOpcode \/ PlaceDisp \/ PadNops PROVE CopyInv'
<1>1. SavedInv'
  BY CallSaved DEF CopyInv
<1>2. /\ Patching /\ Patching' /\ pc' \notin {"sizing", "build"}
      /\ UNCHANGED <<loc, size, active_hooks, taken, pristine>>
  BY DEF PlaceOpcode, PlaceDisp, PadNops, history, Patching, Entered
<1>3. /\ RouteInv /\ HookInv /\ DOMAIN mem \subseteq Int
      /\ Calling /\ Calling' /\ Busy(loc.fn)'
  <2>1. pc' \in {"disp", "nops", "record", "crashed"} /\ pc \in {"patch", "disp", "nops"}
    BY DEF PlaceOpcode, PlaceDisp, PadNops
  <2> QED BY <1>2, <2>1, CopyTypes DEF Calling, Busy, Entered
<1>4. loc.fn \in Functions /\ loc.tramp \in NearBlocks /\ size \in 0 .. 19 /\ loc.fn \in Int
  BY <1>3, CallPlaces
<1>5. /\ DOMAIN mem' = DOMAIN mem
      /\ \A x \in DOMAIN mem : x \notin loc.fn .. loc.fn + MaxStolen => mem'[x] = mem[x]
  <2>1. Overwritten \in 0 .. 19
    BY <1>4 DEF Overwritten
  <2>2. \A x : x \in loc.fn .. loc.fn + Overwritten - 1 => x \in loc.fn .. loc.fn + MaxStolen
    BY <1>4, <2>1 DEF MaxStolen
  <2> QED BY <1>3, <2>2, StoreWrites
<1>6. TextsClean' /\ CopiesKept'
  BY <1>2, <1>3, <1>5, OthersClean
<1>7. ASSUME FirstCall
      PROVE  Copied(mem', taken[loc.fn], loc.fn, loc.tramp, size)
  <2>1. Copied(mem, taken[loc.fn], loc.fn, loc.tramp, size)
    BY <1>2, <1>7 DEF CopyInv, BeingCopied
  <2>2. \A x \in DOMAIN mem : InBlock(loc.tramp, x) => mem'[x] = mem[x]
    BY <1>4, <1>5, TextApart
  <2>3. size \in 0 .. MaxStolen
    BY <1>4 DEF MaxStolen
  <2> QED BY <1>4, <1>5, <2>1, <2>2, <2>3, CopiedKept
<1>8. BeingCopied'
  BY <1>2, <1>3, <1>7 DEF CopyInv, BeingCopied, FirstCall, TakenClean
<1> QED BY <1>1, <1>6, <1>8 DEF CopyInv

LEMMA RecordCopy == ASSUME NearLayout, CopyInv, Record PROVE CopyInv'
<1> DEFINE f == loc.fn
           b == loc.tramp
           hooked == DOMAIN active_hooks
<1>1. SavedInv'
  BY RecordSaved DEF CopyInv
<1>2. /\ pc = "record" /\ pc' = "idle" /\ UNCHANGED <<mem, taken, pristine>>
      /\ active_hooks' = [g \in hooked \cup {f} |->
                            IF g \in hooked THEN active_hooks[g] ELSE create_hook_entry(b, size)]
  BY DEF Record
<1>3. Calling /\ ~Calling' /\ Patching /\ \A g : (~Busy(g)' /\ (g # f => ~Busy(g)))
  BY <1>2 DEF Calling, Patching, Entered, Busy
<1>4. /\ DOMAIN active_hooks' = hooked \cup {f}
      /\ \A g \in hooked : active_hooks'[g] = active_hooks[g]
      /\ f \notin hooked => active_hooks'[f] = create_hook_entry(b, size)
  BY <1>2
<1>5. TextsClean'
  BY <1>2, <1>3, <1>4 DEF CopyInv, TextsClean, TextClean
<1>6. ASSUME NEW g \in hooked
      PROVE  TakenClean(g)' /\ EntryCopied(g)'
  BY <1>2, <1>4, HookKept
<1>7. ASSUME NEW g, g = f, g \notin hooked
      PROVE  TakenClean(g)' /\ EntryCopied(g)'
  <2> PICK c : c = b
    OBVIOUS
  <2> PICK n : n = size
    OBVIOUS
  <2> DEFINE s == Peek(mem, c, n)
  <2>1. active_hooks'[g].trampoline = c /\ active_hooks'[g].original_bytes = s
    BY <1>4, <1>7 DEF create_hook_entry
  <2>2. Len(s) = n /\ c \in Int /\ n \in Nat
    <3>1. /\ mem \in [DOMAIN pristine -> Cell] /\ c \in Int /\ n \in Nat
          /\ c .. c + n - 1 \subseteq DOMAIN pristine
      BY <1>2, CopyTypes, CallTypes, MemoryType DEF HookInv
    <3> QED BY <3>1, PeekType
  <2>3. ASSUME NEW o \in 0 .. n - 1
        PROVE  s[o + 1] = mem[c + o]
    <3>1. o + 1 \in 1 .. n /\ c + (o + 1) - 1 = c + o
      BY <2>2
    <3> QED BY <3>1 DEF Peek
  <2> HIDE DEF s
  <2>4. TakenClean(g) /\ Copied(mem, taken[g], g, c, n)
    BY <1>3, <1>7 DEF CopyInv, BeingCopied, FirstCall
  <2>5. EntryCopied(g)'
    <3>1. mem' = mem /\ taken' = taken
      BY <1>2
    <3>2. /\ active_hooks'[g].trampoline = c /\ active_hooks'[g].original_bytes = s
          /\ Copied(mem', taken'[g], g, c, Len(s))
          /\ \A o \in 0 .. Len(s) - 1 : s[o + 1] = mem'[c + o]
      BY <2>1, <2>2, <2>3, <2>4, <3>1
    <3> QED BY <3>2 DEF EntryCopied
  <2>6. TakenClean(g)'
    BY <1>2, <2>4 DEF TakenClean
  <2> QED BY <2>5, <2>6
<1>8. CopiesKept' /\ BeingCopied'
  BY <1>3, <1>4, <1>6, <1>7 DEF CopiesKept, BeingCopied, FirstCall
<1> QED BY <1>1, <1>5, <1>8 DEF CopyInv

LEMMA RemoveHookCopy ==
  ASSUME NearLayout, CopyInv, NEW f \in Functions, RemoveHook(f) PROVE CopyInv'
<1> DEFINE s == active_hooks[f].original_bytes
           b == active_hooks[f].trampoline
<1>1. SavedInv'
  BY RemoveHookSaved DEF CopyInv
<1>2. /\ pc = "idle" /\ pc' = "free" /\ f \in DOMAIN active_hooks
      /\ mem' = Poke(mem, f, s) /\ loc'.fn = f
      /\ UNCHANGED <<active_hooks, taken, pristine>>
  BY DEF RemoveHook, history, NoCall
<1>3. ~Calling' /\ \A g : ~Busy(g) /\ (g # f => ~Busy(g)') /\ Busy(f)'
  BY <1>2 DEF Calling, Busy, Entered
<1>4. /\ RouteInv /\ HookInv /\ f \in Int /\ DOMAIN mem \subseteq Int
      /\ DOMAIN pristine = DOMAIN mem /\ DOMAIN active_hooks \subseteq Functions
  BY CopyTypes, Places, StateTypes
<1>5. s \in Seq(Cell) /\ Len(s) <= MaxStolen
  BY <1>2, <1>4 DEF HookInv, TypeOK
<1>6. /\ TakenClean(f) /\ Copied(mem, taken[f], f, b, Len(s))
      /\ \A o \in 0 .. Len(s) - 1 : s[o + 1] = mem[b + o]
  BY <1>2 DEF CopyInv, CopiesKept, EntryCopied
<1>7. PICK n \in 5 .. MaxStolen : Len(s) = n /\ Untouched(f, n)
  BY <1>2 DEF CopyInv, SavedInv, TailsKept, TailKept
<1> HIDE DEF s, b
<1>8. /\ DOMAIN mem' = DOMAIN mem
      /\ \A o \in 0 .. n - 1 : f + o \in DOMAIN mem => mem'[f + o] = s[o + 1]
      /\ \A x \in DOMAIN mem : x \notin f .. f + n - 1 => mem'[x] = mem[x]
  BY <1>2, <1>4, <1>5, <1>7, PokeCells
<1>9. \A x \in DOMAIN mem : x \notin f .. f + MaxStolen => mem'[x] = mem[x]
  <2>1. \A x : x \in f .. f + n - 1 => x \in f .. f + MaxStolen
    BY <1>4 DEF MaxStolen
  <2> QED BY <1>8, <2>1
<1>10. ASSUME NEW o \in 0 .. MaxStolen, f + o \in DOMAIN mem
       PROVE  /\ o \in DOMAIN taken[f]
              /\ o < n => mem'[f + o] = MovedCell(taken[f][o], f, b)
              /\ o >= n => mem'[f + o] = taken[f][o]
  <2>1. o \in DOMAIN taken[f]
    BY <1>4, <1>6, <1>10 DEF TakenClean
  <2>2. ASSUME o < n
        PROVE  mem'[f + o] = MovedCell(taken[f][o], f, b)
    <3>1. o \in 0 .. n - 1
      BY <2>2
    <3> QED BY <1>6, <1>7, <1>8, <1>10, <3>1 DEF Copied
  <2>3. ASSUME o >= n
        PROVE  mem'[f + o] = taken[f][o]
    <3>1. o \in n .. MaxStolen /\ f + o \notin f .. f + n - 1
      BY <1>4, <2>3
    <3> QED BY <1>7, <1>8, <1>10, <2>1, <3>1 DEF Untouched
  <2> QED BY <2>1, <2>2, <2>3
<1>11. TextClean(f)'
  <2> SUFFICES ASSUME NEW o \in 0 .. MaxStolen, f + o \in DOMAIN mem,
                      At(pristine, f + o).op \notin RelDisp
               PROVE  mem'[f + o] = pristine[f + o]
    BY <1>2, <1>8 DEF TextClean
  <2>1. o \in DOMAIN taken[f]
    BY <1>10
  <2>2. taken[f][o] = pristine[f + o]
    BY <1>6, <2>1 DEF TakenClean
  <2>3. MovedCell(taken[f][o], f, b) = taken[f][o]
    BY <2>2 DEF MovedCell, At
  <2>4. o < n \/ o >= n
    OBVIOUS
  <2> QED BY <1>10, <2>2, <2>3, <2>4
<1>12. TextsClean'
  <2> SUFFICES ASSUME NEW g \in Functions \ DOMAIN active_hooks
               PROVE  TextClean(g)'
    BY <1>2, <1>3, <1>11 DEF TextsClean
  <2>1. TextClean(g) /\ g # f
    BY <1>2, <1>3 DEF CopyInv, TextsClean
  <2>2. \A x \in DOMAIN mem : x \in g .. g + MaxStolen => mem'[x] = mem[x]
    BY <1>9, <2>1, TextsApart
  <2> QED BY <1>2, <1>8, <2>1, <2>2, TextKept
<1>13. CopiesKept'
  <2> SUFFICES ASSUME NEW g \in DOMAIN active_hooks
               PROVE  TakenClean(g)' /\ EntryCopied(g)'
    BY <1>2 DEF CopiesKept
  <2>1. active_hooks[g].trampoline \in NearBlocks
    BY <1>4, StateTypes
  <2>2. \A x \in DOMAIN mem : InBlock(active_hooks[g].trampoline, x) => mem'[x] = mem[x]
    BY <1>9, <2>1, TextApart
  <2> QED BY <1>2, <1>8, <2>2, HookKept
<1> QED BY <1>1, <1>3, <1>12, <1>13 DEF CopyInv, BeingCopied, FirstCall

LEMMA FreeTrampolineCopy == ASSUME NearLayout, CopyInv, FreeTrampoline PROVE CopyInv'
<1> DEFINE f == loc.fn
           b == active_hooks[f].trampoline
<1>1. SavedInv'
  BY FreeTrampolineSaved DEF CopyInv
<1>2. /\ pc = "free" /\ pc' = "idle" /\ UNCHANGED <<taken, pristine>>
      /\ active_hooks' = [g \in DOMAIN active_hooks \ {f} |-> active_hooks[g]]
      /\ mem' = mem \/ mem' = Fill(mem, b, BlockSize, Unmapped)
  BY DEF FreeTrampoline
<1>3. ~Calling' /\ \A g : (~Busy(g)' /\ (g # f => ~Busy(g)))
  BY <1>2 DEF Calling, Busy, Entered
<1>4. /\ HookInv /\ f \in DOMAIN active_hooks /\ b \in NearBlocks
      /\ DOMAIN active_hooks \subseteq Functions /\ DOMAIN mem \subseteq Int
  BY <1>2, CopyTypes, StateTypes DEF HookInv, InCall
<1>5. /\ DOMAIN mem' = DOMAIN mem
      /\ \A x \in DOMAIN mem : ~InBlock(b, x) => mem'[x] = mem[x]
  BY <1>2 DEF Fill, InBlock
<1>6. TextsClean'
  <2> SUFFICES ASSUME NEW g \in Functions, g \notin DOMAIN active_hooks \/ g = f
               PROVE  TextClean(g)'
    BY <1>2 DEF TextsClean
  <2>1. TextClean(g)
    BY <1>2, <1>3 DEF CopyInv, TextsClean
  <2>2. \A x \in DOMAIN mem : x \in g .. g + MaxStolen => mem'[x] = mem[x]
    BY <1>4, <1>5, TextApart
  <2> QED BY <1>2, <1>5, <2>1, <2>2, TextKept
<1>7. CopiesKept'
  <2> SUFFICES ASSUME NEW g \in DOMAIN active_hooks \ {f}
               PROVE  TakenClean(g)' /\ EntryCopied(g)'
    BY <1>2 DEF CopiesKept
  <2>1. active_hooks[g].trampoline \in NearBlocks /\ active_hooks[g].trampoline # b
    BY <1>4, StateTypes DEF HookInv, OwnTrampolines
  <2>2. \A x \in DOMAIN mem : InBlock(active_hooks[g].trampoline, x) => mem'[x] = mem[x]
    BY <1>4, <1>5, <2>1, BlocksApart
  <2>3. active_hooks'[g] = active_hooks[g]
    BY <1>2
  <2> QED BY <1>2, <1>5, <2>2, <2>3, HookKept
<1> QED BY <1>1, <1>3, <1>6, <1>7 DEF CopyInv, BeingCopied, FirstCall

LEMMA NextCopy == ASSUME NearLayout, CopyInv, [Next]_vars PROVE CopyInv'
<1>1. CASE \E f \in Functions, t \in Targets : ApplyHookX64(f, t)
  BY <1>1, ApplyHookCopy
<1>2. CASE \E f \in Functions : RemoveHook(f)
  BY <1>2, RemoveHookCopy
<1>3. CASE Continue
  BY <1>3, SizingCopy, BuildNearCopy, StoreCopy, RecordCopy, FreeTrampolineCopy,
     FarStepsRoute DEF Continue, CopyInv, SavedInv
<1>4. CASE UNCHANGED vars
  <2>1. SavedInv'
    BY <1>4, NextSaved DEF CopyInv
  <2>2. UNCHANGED <<pc, loc, size, active_hooks, mem, pristine, taken>>
    BY <1>4 DEF vars
  <2> QED BY <2>1, <2>2, ZenonT(60) DEF CopyInv, TextsClean, TextClean, CopiesKept, TakenClean,
                            EntryCopied, BeingCopied, FirstCall, Busy, Calling, Patching, Entered
<1> QED BY <1>1, <1>2, <1>3, <1>4 DEF Next

LEMMA InvRestores == ASSUME NearLayout, CopyInv PROVE RestoresAllButRelocated
BY DEF CopyInv, TextsClean, TextClean, RestoresAllButRelocated, Busy, Entered

\* Unhooking a function restores every instruction of it but the RIP-relative ones,
\* however often it and other functions were hooked and unhooked before.
THEOREM SpecRestoresAllButRelocated ==
  ASSUME NearLayout PROVE Spec => []RestoresAllButRelocated
<1>1. Init => CopyInv
  BY InitCopy
<1>2. CopyInv /\ [Next]_vars => CopyInv'
  BY NextCopy
<1>3. CopyInv => RestoresAllButRelocated
  BY InvRestores
<1> QED BY <1>1, <1>2, <1>3, PTL DEF Spec

-----------------------------------------------------------------------------
(* Stolen code is whole instructions *)

\* The first n cells of T are whole instructions.
Whole(T, n) ==
  \A o \in 0 .. n - 1 : T[o][2] = 0 => Intact(T, o) /\ o + At(T, o).len <= n

TextsWhole ==
  /\ \A f \in Functions \ DOMAIN active_hooks : ~Busy(f) => WholeText(mem, f)
  /\ pc = "free" => WholeText(mem, loc.fn)

\* compute_hook_size goes from instruction to instruction, and does not stop before
\* it has covered a jump.
TakenWhole ==
  /\ \A f \in DOMAIN active_hooks :
       WholeText(taken[f], 0) /\ Whole(taken[f], Len(active_hooks[f].original_bytes))
  /\ FirstCall =>
       /\ WholeText(taken[loc.fn], 0) /\ Whole(taken[loc.fn], size)
       /\ size < 5 => pc = "sizing" /\ taken[loc.fn][size][2] = 0

WholeInv == CopyInv /\ TextsWhole /\ TakenWhole

\* An instruction copied with its cells decodes as before.
LEMMA SameDecodes ==
  ASSUME NEW m, NEW a \in Int, Decodes(m, a), m[a] \in Cell,
         NEW m2, NEW a2 \in Int,
         \A k \in 0 .. 14 : a + k \in DOMAIN m => a2 + k \in DOMAIN m2 /\ m2[a2 + k] = m[a + k]
  PROVE  Decodes(m2, a2) /\ At(m2, a2) = At(m, a)
<1> DEFINE i == m[a][1]
<1>1. /\ a \in DOMAIN m /\ m[a][2] = 0
      /\ \A k \in 0 .. i.len - 1 : a + k \in DOMAIN m /\ m[a + k] = <<i, k>>
      /\ i.op \notin {"code", "ptr", "zero", "unmapped"}
  BY DEF Decodes, Intact, At
<1>2. i.len \in Nat /\ i.len <= 15
  BY <1>1 DEF Cell, Instruction, MaxLength
<1> HIDE DEF i
<1>3. a2 \in DOMAIN m2 /\ m2[a2] = m[a]
  <2>1. a + 0 = a /\ a2 + 0 = a2 /\ 0 \in 0 .. 14
    OBVIOUS
  <2> QED BY <1>1, <2>1
<1>4. m2[a2][1] = i
  BY <1>3 DEF i
<1>5. \A k \in 0 .. i.len - 1 : a2 + k \in DOMAIN m2 /\ m2[a2 + k] = <<i, k>>
  BY <1>1, <1>2
<1> QED BY <1>1, <1>3, <1>4, <1>5 DEF Decodes, Intact, At, i

LEMMA TextSame ==
  ASSUME NEW m, NEW a \in Int, WholeText(m, a),
         \A o \in 0 .. 4 : a + o \in DOMAIN m /\ m[a + o] \in Cell,
         NEW m2, NEW a2 \in Int,
         \A o \in 0 .. MaxStolen :
           a + o \in DOMAIN m => a2 + o \in DOMAIN m2 /\ m2[a2 + o] = m[a + o]
  PROVE  WholeText(m2, a2)
<1>1. \A o \in 0 .. 4 : m2[a2 + o] = m[a + o]
  BY DEF MaxStolen
<1>2. m2[a2][2] = 0
  <2>1. a + 0 = a /\ a2 + 0 = a2 /\ 0 \in 0 .. 4
    OBVIOUS
  <2> QED BY <1>1, <2>1 DEF WholeText
<1>3. ASSUME NEW o \in 0 .. 4, m2[a2 + o][2] = 0
      PROVE  /\ Decodes(m2, a2 + o)
             /\ o + At(m2, a2 + o).len < 5 => m2[a2 + o + At(m2, a2 + o).len][2] = 0
  <2> DEFINE n == At(m, a + o).len
  <2>1. m[a + o][2] = 0
    BY <1>1, <1>3
  <2>2. Decodes(m, a + o) /\ (o + n < 5 => m[a + o + n][2] = 0)
    BY <2>1 DEF WholeText
  <2>3. ASSUME NEW k \in 0 .. 14, (a + o) + k \in DOMAIN m
        PROVE  (a2 + o) + k \in DOMAIN m2 /\ m2[(a2 + o) + k] = m[(a + o) + k]
    <3>1. /\ (a + o) + k = a + (o + k) /\ (a2 + o) + k = a2 + (o + k)
          /\ o + k \in 0 .. MaxStolen
      BY DEF MaxStolen
    <3> QED BY <2>3, <3>1
  <2>4. a + o \in Int /\ a2 + o \in Int
    OBVIOUS
  <2>5. Decodes(m2, a2 + o) /\ At(m2, a2 + o) = At(m, a + o)
    BY <2>2, <2>3, <2>4, SameDecodes
  <2>6. n \in Nat
    BY DEF At, Cell, Instruction
  <2> HIDE DEF n
  <2>7. ASSUME o + n < 5
        PROVE  m2[a2 + o + n][2] = 0
    <3>1. o + n \in 0 .. 4 /\ a + o + n = a + (o + n) /\ a2 + o + n = a2 + (o + n)
      BY <2>6, <2>7
    <3> QED BY <1>1, <2>2, <2>7, <3>1
  <2> QED BY <2>5, <2>7 DEF n
<1> QED BY <1>2, <1>3 DEF WholeText

\* The first n cells of T, the text of f, stand at a as Relocate leaves them at b.
Relocated(m, a, T, n, f, b) ==
  \A o \in 0 .. n - 1 : a + o \in DOMAIN m /\ m[a + o] = MovedCell(T[o], f, b)

LEMMA MovedIntact ==
  ASSUME NEW T, NEW n \in Nat, NEW o \in 0 .. n - 1, T[o] \in Cell, Intact(T, o),
         o + At(T, o).len <= n,
         NEW m, NEW a \in Int, NEW f \in Int, NEW b \in Int, Relocated(m, a, T, n, f, b)
  PROVE  /\ Intact(m, a + o)
         /\ At(m, a + o) = MovedCell(T[o], f, b)[1]
         /\ At(m, a + o).op = At(T, o).op /\ At(m, a + o).len = At(T, o).len
<1> DEFINE i == At(T, o)
           j == IF i.op \in RelDisp THEN [i EXCEPT !.arg = Wrap32(@ + f - b)] ELSE i
<1>1. i \in Instruction /\ T[o] = <<i, 0>>
  BY DEF At, Cell, Intact
<1>2. j.op = i.op /\ j.len = i.len /\ i.len \in Nat
  BY <1>1 DEF Instruction
<1>3. \A k \in 0 .. i.len - 1 : T[o + k] = <<i, k>>
  BY DEF Intact
<1>4. \A k : MovedCell(<<i, k>>, f, b) = <<j, k>>
  BY DEF MovedCell
<1> HIDE DEF i, j
<1>5. a + o \in DOMAIN m /\ m[a + o] = <<j, 0>>
  BY <1>1, <1>4 DEF Relocated
<1>6. \A k \in 0 .. i.len - 1 : (a + o) + k \in DOMAIN m /\ m[(a + o) + k] = <<j, k>>
  <2> TAKE k \in 0 .. i.len - 1
  <2>1. o + k \in 0 .. n - 1 /\ (a + o) + k = a + (o + k)
    BY <1>2 DEF i
  <2> QED BY <1>3, <1>4, <2>1 DEF Relocated
<1>7. At(m, a + o) = j
  BY <1>5 DEF At
<1>8. Intact(m, a + o)
  BY <1>2, <1>5, <1>6, <1>7 DEF Intact
<1>9. MovedCell(T[o], f, b)[1] = j
  BY <1>1, <1>4
<1> QED BY <1>2, <1>7, <1>8, <1>9 DEF i

\* The text of a function whose saved bytes are copied back.
LEMMA TextMoved ==
  ASSUME NEW T, WholeText(T, 0), NEW n \in Nat, n >= 5, Whole(T, n),
         \A o \in 0 .. n - 1 : T[o] \in Cell,
         NEW m, NEW f \in Int, NEW b \in Int, Relocated(m, f, T, n, f, b)
  PROVE  WholeText(m, f)
<1>1. \A o \in 0 .. n - 1 : m[f + o][2] = T[o][2]
  <2>1. \A c : MovedCell(c, f, b)[2] = c[2]
    BY DEF MovedCell
  <2> QED BY <2>1 DEF Relocated
<1>2. m[f][2] = 0
  <2>1. f + 0 = f /\ 0 \in 0 .. n - 1
    OBVIOUS
  <2>2. T[0][2] = 0
    BY DEF WholeText
  <2> QED BY <1>1, <2>1, <2>2
<1>3. ASSUME NEW o \in 0 .. 4, m[f + o][2] = 0
      PROVE  /\ Decodes(m, f + o)
             /\ o + At(m, f + o).len < 5 => m[f + o + At(m, f + o).len][2] = 0
  <2> DEFINE k == At(T, o).len
  <2>1. o \in 0 .. n - 1 /\ 0 + o = o
    OBVIOUS
  <2>2. T[o][2] = 0
    BY <1>1, <1>3, <2>1
  <2>3. Decodes(T, o) /\ (o + k < 5 => T[o + k][2] = 0)
    BY <2>1, <2>2 DEF WholeText
  <2>4. Intact(T, o) /\ o + k <= n /\ T[o] \in Cell
    BY <2>1, <2>2 DEF Whole
  <2>5. Intact(m, f + o) /\ At(m, f + o).op = At(T, o).op /\ At(m, f + o).len = k
    BY <2>1, <2>4, MovedIntact
  <2>6. Decodes(m, f + o)
    BY <2>3, <2>5 DEF Decodes
  <2>7. k \in Nat
    BY <2>4 DEF At, Cell, Instruction
  <2> HIDE DEF k
  <2>8. ASSUME o + k < 5
        PROVE  m[f + o + k][2] = 0
    <3>1. o + k \in 0 .. n - 1 /\ f + o + k = f + (o + k)
      BY <2>7, <2>8
    <3> QED BY <1>1, <2>3, <2>8, <3>1
  <2> QED BY <2>5, <2>6, <2>8
<1> QED BY <1>2, <1>3 DEF WholeText

LEMMA TakenTypes ==
  ASSUME NearLayout, CopyInv, NEW f \in Functions, TakenClean(f)
  PROVE  /\ \A o \in DOMAIN taken[f] : taken[f][o] \in Cell /\ o \in 0 .. MaxStolen
         /\ \A o \in 0 .. 4 : o \in DOMAIN taken[f]
         /\ \A o \in 0 .. MaxStolen : f + o \in DOMAIN mem => o \in DOMAIN taken[f]
<1>1. DOMAIN pristine = DOMAIN mem /\ HookInv
  BY CopyTypes
<1>2. \A o \in 0 .. 4 : f + o \in f .. f + 4 /\ o \in 0 .. MaxStolen
  BY Places DEF MaxStolen
<1>3. f .. f + 4 \subseteq DOMAIN mem
  BY <1>1, StateTypes
<1> QED BY <1>1, <1>2, <1>3 DEF TakenClean

LEMMA WholeKept ==
  ASSUME NearLayout, HookInv, NEW f \in Functions, WholeText(mem, f),
         DOMAIN mem' = DOMAIN mem,
         \A x \in DOMAIN mem : x \in f .. f + MaxStolen => mem'[x] = mem[x]
  PROVE  WholeText(mem', f)
<1>1. f \in Int /\ f .. f + 4 \subseteq DOMAIN mem /\ mem \in [DOMAIN pristine -> Cell]
  BY Places, StateTypes
<1>2. \A o \in 0 .. 4 : f + o \in DOMAIN mem /\ mem[f + o] \in Cell
  BY <1>1
<1>3. \A o \in 0 .. MaxStolen :
        f + o \in DOMAIN mem => f + o \in DOMAIN mem' /\ mem'[f + o] = mem[f + o]
  BY <1>1 DEF MaxStolen
<1>4. PICK a \in Int : a = f
  BY <1>1
<1>5. PICK m : m = mem
  OBVIOUS
<1>6. /\ \A o \in 0 .. 4 : a + o \in DOMAIN m /\ m[a + o] \in Cell
      /\ \A o \in 0 .. MaxStolen :
           a + o \in DOMAIN m => a + o \in DOMAIN mem' /\ mem'[a + o] = m[a + o]
  BY <1>2, <1>3, <1>4, <1>5
<1>7. WholeText(mem', a)
  BY <1>4, <1>5, <1>6, TextSame
<1> QED BY <1>4, <1>7

LEMMA InitWhole == ASSUME NearLayout, WholeTexts, Init PROVE WholeInv
<1>1. pc = "idle" /\ DOMAIN active_hooks = {} /\ mem \in Images
  BY DEF Init
<1>2. \A f \in Functions : WholeText(mem, f)
  BY <1>1 DEF WholeTexts
<1> QED BY <1>1, <1>2, InitCopy DEF WholeInv, TextsWhole, TakenWhole, FirstCall, Calling

LEMMA ApplyHookWhole ==
  ASSUME NearLayout, WholeInv, NEW f \in Functions, NEW t \in Targets, ApplyHookX64(f, t)
  PROVE  WholeInv'
<1>1. CopyInv'
  BY ApplyHookCopy DEF WholeInv
<1>2. /\ pc = "idle" /\ pc' = "sizing" /\ size' = 0 /\ loc'.fn = f
      /\ UNCHANGED <<active_hooks, pristine>>
      /\ taken' = IF f \in DOMAIN active_hooks THEN taken ELSE [taken EXCEPT ![f] = Text(f)]
  BY DEF ApplyHookX64
<1>3. PICK b \in NearBlocks : mem' = Fill(mem, b, BlockSize, Zero)
  BY DEF ApplyHookX64, NearLayout
<1>4. /\ DOMAIN mem' = DOMAIN mem
      /\ \A x \in DOMAIN mem : ~InBlock(b, x) => mem'[x] = mem[x]
  BY <1>3 DEF Fill, InBlock
<1>5. HookInv /\ DOMAIN active_hooks \subseteq Functions /\ mem \in [DOMAIN pristine -> Cell]
      /\ \A g : ~Busy(g)
  BY <1>2, CopyTypes, StateTypes DEF WholeInv, Busy, Entered
<1>6. \A g \in Functions : \A x \in DOMAIN mem : x \in g .. g + MaxStolen => mem'[x] = mem[x]
  BY <1>4, TextApart
<1>7. TextsWhole'
  <2>1. \A g \in Functions : WholeText(mem, g) => WholeText(mem', g)
    BY <1>4, <1>5, <1>6, WholeKept
  <2> QED BY <1>2, <1>5, <2>1 DEF WholeInv, TextsWhole
<1>8. ASSUME f \notin DOMAIN active_hooks
      PROVE  WholeText(Text(f), 0)
  <2>1. WholeText(mem, f)
    BY <1>5, <1>8 DEF WholeInv, TextsWhole
  <2>2. /\ \A o \in 0 .. 4 : f + o \in DOMAIN mem /\ mem[f + o] \in Cell
        /\ f \in Int
    BY <1>5, Places, StateTypes
  <2>3. \A o \in 0 .. MaxStolen :
          f + o \in DOMAIN mem => 0 + o \in DOMAIN Text(f) /\ Text(f)[0 + o] = mem[f + o]
    BY DEF Text, MaxStolen
  <2>4. PICK m : m = mem
    OBVIOUS
  <2>5. PICK T : T = Text(f)
    OBVIOUS
  <2>6. /\ \A o \in 0 .. 4 : f + o \in DOMAIN m /\ m[f + o] \in Cell
        /\ \A o \in 0 .. MaxStolen :
             f + o \in DOMAIN m => 0 + o \in DOMAIN T /\ T[0 + o] = m[f + o]
    BY <2>2, <2>3, <2>4, <2>5
  <2>7. WholeText(T, 0)
    BY <2>1, <2>2, <2>4, <2>6, TextSame
  <2> QED BY <2>5, <2>7
<1>9. TakenWhole'
  <2>1. DOMAIN taken = Functions
    BY DEF WholeInv, CopyInv, SavedInv, TailsKept
  <2>2. \A g \in DOMAIN active_hooks : taken'[g] = taken[g]
    BY <1>2, <1>5, <2>1
  <2>3. f \notin DOMAIN active_hooks => taken'[f] = Text(f)
    BY <1>2, <2>1
  <2>4. Whole(taken'[f], 0)
    BY DEF Whole
  <2>5. f \notin DOMAIN active_hooks => WholeText(taken'[f], 0)
    BY <1>8, <2>3
  <2>6. f \notin DOMAIN active_hooks => taken'[f][0][2] = 0
    BY <2>5 DEF WholeText
  <2> QED BY <1>2, <2>2, <2>4, <2>5, <2>6 DEF WholeInv, TakenWhole, FirstCall
<1> QED BY <1>1, <1>7, <1>9 DEF WholeInv

\* The instruction that compute_hook_size decodes.
LEMMA SizingDecodes ==
  ASSUME NearLayout, WholeInv, pc = "sizing", FirstCall, size < 5
  PROVE  /\ Decodes(mem, loc.fn + size) /\ Decodes(taken[loc.fn], size)
         /\ At(mem, loc.fn + size) = At(taken[loc.fn], size)
         /\ At(mem, loc.fn + size) \in Instruction
<1>1. /\ RouteInv /\ loc.fn \in Functions /\ loc.fn \in Int /\ size \in 0 .. 4
  <2>1. RouteInv /\ Calling
    BY CopyTypes DEF WholeInv, FirstCall
  <2> QED BY <2>1, CallPlaces
<1> PICK f \in Functions : f = loc.fn
  BY <1>1
<1> PICK T : T = taken[f]
  OBVIOUS
<1> PICK m : m = mem
  OBVIOUS
<1>2. /\ TakenClean(f) /\ \A o \in DOMAIN T : m[f + o] = T[o]
      /\ WholeText(T, 0) /\ T[size][2] = 0
  BY DEF WholeInv, CopyInv, BeingCopied, TakenWhole
<1>3. /\ \A o \in DOMAIN T : T[o] \in Cell /\ o \in 0 .. MaxStolen
      /\ \A o \in 0 .. 4 : o \in DOMAIN T
  BY <1>2, TakenTypes DEF WholeInv
<1>4. Decodes(T, size)
  <2>1. 0 + size = size
    BY <1>1
  <2> QED BY <1>1, <1>2, <2>1 DEF WholeText
<1>5. \A k \in DOMAIN T : f + k \in DOMAIN m
  BY <1>2, CopyTypes DEF WholeInv, TakenClean
<1>6. ASSUME NEW k \in 0 .. 14, size + k \in DOMAIN T
      PROVE  (f + size) + k \in DOMAIN m /\ m[(f + size) + k] = T[size + k]
  <2>1. (f + size) + k = f + (size + k)
    BY <1>1
  <2> QED BY <1>2, <1>5, <1>6, <2>1
<1>7. PICK a2 \in Int : a2 = f + size
  BY <1>1
<1>8. \A k \in 0 .. 14 : size + k \in DOMAIN T => a2 + k \in DOMAIN m /\ m[a2 + k] = T[size + k]
  BY <1>6, <1>7
<1>9. T[size] \in Cell /\ size \in Int
  BY <1>1, <1>3
<1>10. Decodes(m, a2) /\ At(m, a2) = At(T, size)
  BY <1>4, <1>8, <1>9, SameDecodes
<1>11. At(T, size) \in Instruction
  BY <1>9 DEF At, Cell
<1> QED BY <1>4, <1>7, <1>10, <1>11

LEMMA DisassembleWhole ==
  ASSUME NearLayout, WholeInv, Disassemble PROVE WholeInv'
<1>1. CopyInv'
  BY SizingCopy DEF WholeInv
<1>2. /\ pc = "sizing" /\ pc' = "sizing" /\ size < needed_size
      /\ UNCHANGED <<loc, active_hooks, mem, taken>>
  BY DEF Disassemble, history
<1>3. TextsWhole'
  BY <1>2 DEF WholeInv, TextsWhole, Busy, Entered
<1>4. ASSUME FirstCall
      PROVE  /\ Whole(taken[loc.fn], size')
             /\ size' < 5 => taken[loc.fn][size'][2] = 0
  <2>1. size \in Nat /\ size < 5
    <3>1. RouteInv /\ Calling
      BY <1>2, CopyTypes DEF WholeInv, Calling
    <3>2. size \in 0 .. 19 /\ needed_size = 5
      BY <3>1, CallPlaces DEF needed_size
    <3> QED BY <1>2, <3>2
  <2>2. /\ Decodes(mem, loc.fn + size) /\ Decodes(taken[loc.fn], size)
        /\ At(mem, loc.fn + size) = At(taken[loc.fn], size)
        /\ At(mem, loc.fn + size) \in Instruction
    BY <1>2, <1>4, <2>1, SizingDecodes
  <2> PICK T : T = taken[loc.fn]
    OBVIOUS
  <2> PICK i : i = At(T, size)
    OBVIOUS
  <2>3. size' = size + i.len /\ i.len \in Nat
    BY <2>2 DEF Disassemble, Instruction
  <2>4. Whole(T, size) /\ T[size][2] = 0 /\ WholeText(T, 0)
    BY <1>4, <2>1 DEF WholeInv, TakenWhole
  <2>5. \A k \in 0 .. i.len - 1 : T[size + k] = <<i, k>>
    BY <2>2 DEF Decodes, Intact
  <2>6. ASSUME NEW o \in 0 .. size' - 1, T[o][2] = 0
        PROVE  Intact(T, o) /\ o + At(T, o).len <= size'
    <3>1. CASE o < size
      <4>1. o \in 0 .. size - 1
        BY <2>1, <3>1
      <4>2. Intact(T, o) /\ o + At(T, o).len <= size
        BY <2>4, <2>6, <4>1 DEF Whole
      <4>3. o + At(T, o).len \in Int
        <5>1. TakenClean(loc.fn) /\ loc.fn \in Functions /\ o \in DOMAIN T
          BY <1>2, <1>4, <4>2, CopyTypes, CallPlaces
             DEF WholeInv, CopyInv, BeingCopied, FirstCall, Intact
        <5>2. T[o] \in Cell
          BY <5>1, TakenTypes DEF WholeInv
        <5> QED BY <5>2 DEF At, Cell, Instruction
      <4> QED BY <2>1, <2>3, <4>2, <4>3
    <3>2. CASE o >= size
      <4>1. o - size \in 0 .. i.len - 1 /\ size + (o - size) = o
        BY <2>1, <2>3, <3>2
      <4>2. T[o] = <<i, o - size>>
        BY <2>5, <4>1
      <4>3. o = size
        BY <2>1, <2>6, <4>2
      <4> QED BY <2>2, <2>3, <4>3 DEF Decodes
    <3> QED BY <2>1, <2>3, <3>1, <3>2
  <2>7. ASSUME size' < 5
        PROVE  T[size'][2] = 0
    <3>1. size \in 0 .. 4 /\ 0 + size = size /\ 0 + size + i.len = size + i.len
      BY <2>1, <2>3
    <3>2. size + At(T, size).len < 5 => T[size + At(T, size).len][2] = 0
      BY <2>4, <3>1 DEF WholeText
    <3> QED BY <2>3, <2>7, <3>2
  <2> QED BY <2>6, <2>7 DEF Whole
<1>5. TakenWhole'
  BY <1>2, <1>4 DEF WholeInv, TakenWhole, FirstCall, Calling
<1> QED BY <1>1, <1>3, <1>5 DEF WholeInv

\* The other steps of a call change no text of a function but its own.
LEMMA CallWhole ==
  ASSUME NearLayout, WholeInv,
         EndSizing \/ BuildNear \/ PlaceOpcode \/ PlaceDisp \/ PadNops
  PROVE  WholeInv'
<1>1. CopyInv'
  BY SizingCopy, BuildNearCopy, StoreCopy DEF WholeInv
<1>2. Calling /\ Calling' /\ UNCHANGED <<loc, size, active_hooks, taken>>
  BY DEF EndSizing, BuildNear, PlaceOpcode, PlaceDisp, PadNops, Calling, history
<1>3. /\ HookInv /\ RouteInv /\ loc.fn \in Functions /\ loc.fn \in Int /\ size \in 0 .. 19
      /\ loc.tramp \in NearBlocks /\ ~loc.far
  BY <1>2, CopyTypes, CallPlaces DEF WholeInv
<1>4. /\ DOMAIN mem' = DOMAIN mem
      /\ \A x \in DOMAIN mem :
           /\ ~InBlock(loc.tramp, x)
           /\ Busy(loc.fn)' => x \notin loc.fn .. loc.fn + MaxStolen
           => mem'[x] = mem[x]
  <2>1. CASE EndSizing
    BY <2>1 DEF EndSizing
  <2>2. CASE BuildNear
    BY <1>3, <2>2, BuildNearCells
  <2>3. CASE PlaceOpcode \/ PlaceDisp \/ PadNops
    <3>1. Busy(loc.fn)'
      BY <1>2, <2>3 DEF PlaceOpcode, PlaceDisp, PadNops, Busy, Entered
    <3>2. Overwritten \in 0 .. 19
      BY <1>3 DEF Overwritten
    <3>3. \A x : x \in loc.fn .. loc.fn + Overwritten - 1 => x \in loc.fn .. loc.fn + MaxStolen
      BY <1>3, <3>2 DEF MaxStolen
    <3> QED BY <1>3, <2>3, <3>1, <3>3, StoreWrites
  <2> QED BY <2>1, <2>2, <2>3
<1>5. \A g : Busy(g) => Busy(g)'
  BY <1>2 DEF Busy, Entered, EndSizing, BuildNear, PlaceOpcode, PlaceDisp, PadNops
<1>6. ASSUME NEW g \in Functions \ DOMAIN active_hooks, ~Busy(g)'
      PROVE  WholeText(mem', g)
  <2>1. WholeText(mem, g) /\ (Busy(loc.fn)' => g # loc.fn)
    BY <1>2, <1>5, <1>6 DEF WholeInv, TextsWhole, Busy
  <2>2. ASSUME NEW x \in DOMAIN mem, x \in g .. g + MaxStolen
        PROVE  mem'[x] = mem[x]
    <3>1. ~InBlock(loc.tramp, x)
      BY <1>3, <2>2, TextApart
    <3>2. Busy(loc.fn)' => x \notin loc.fn .. loc.fn + MaxStolen
      BY <1>3, <2>1, <2>2, TextsApart
    <3> QED BY <1>4, <3>1, <3>2
  <2> QED BY <1>3, <1>4, <2>1, <2>2, WholeKept
<1>7. TextsWhole'
  BY <1>2, <1>6 DEF TextsWhole, Calling
<1>8. ASSUME FirstCall, size < 5
      PROVE  FALSE
  <2>1. pc = "sizing" /\ EndSizing
    BY <1>8 DEF WholeInv, TakenWhole, EndSizing, BuildNear, PlaceOpcode, PlaceDisp, PadNops
  <2>2. ~Decodes(mem, loc.fn + size)
    BY <1>3, <1>8, <2>1 DEF EndSizing, needed_size
  <2> QED BY <1>8, <2>1, <2>2, SizingDecodes
<1>9. TakenWhole'
  BY <1>2, <1>8 DEF WholeInv, TakenWhole, FirstCall
<1> QED BY <1>1, <1>7, <1>9 DEF WholeInv

LEMMA RecordWhole == ASSUME NearLayout, WholeInv, Record PROVE WholeInv'
<1> DEFINE f == loc.fn
           b == loc.tramp
           hooked == DOMAIN active_hooks
<1>1. CopyInv'
  BY RecordCopy DEF WholeInv
<1>2. /\ pc = "record" /\ pc' = "idle" /\ UNCHANGED <<mem, taken>>
      /\ active_hooks' = [g \in hooked \cup {f} |->
                            IF g \in hooked THEN active_hooks[g] ELSE create_hook_entry(b, size)]
  BY DEF Record
<1>3. Calling /\ ~Calling' /\ \A g : g # f => ~Busy(g)
  BY <1>2 DEF Calling, Busy
<1>4. TextsWhole'
  BY <1>2, <1>3 DEF WholeInv, TextsWhole
<1>5. Len(Peek(mem, b, size)) = size
  <2>1. /\ mem \in [DOMAIN pristine -> Cell] /\ b \in Int /\ size \in Nat
        /\ b .. b + size - 1 \subseteq DOMAIN pristine
    BY <1>2, CopyTypes, CallTypes, MemoryType DEF HookInv, WholeInv
  <2> QED BY <2>1, PeekType
<1>6. f \notin hooked => Len(active_hooks'[f].original_bytes) = size
  BY <1>2, <1>5 DEF create_hook_entry
<1>7. ASSUME NEW g \in DOMAIN active_hooks'
      PROVE  WholeText(taken'[g], 0) /\ Whole(taken'[g], Len(active_hooks'[g].original_bytes))
  <2>1. CASE g \in hooked
    BY <1>2, <2>1 DEF WholeInv, TakenWhole
  <2>2. CASE g = f /\ f \notin hooked
    BY <1>2, <1>3, <1>6, <2>2 DEF WholeInv, TakenWhole, FirstCall
  <2> QED BY <1>2, <2>1, <2>2
<1>8. TakenWhole'
  BY <1>3, <1>7 DEF TakenWhole, FirstCall
<1> QED BY <1>1, <1>4, <1>8 DEF WholeInv

LEMMA RemoveHookWhole ==
  ASSUME NearLayout, WholeInv, NEW f \in Functions, RemoveHook(f) PROVE WholeInv'
<1> DEFINE s == active_hooks[f].original_bytes
<1>1. CopyInv'
  BY RemoveHookCopy DEF WholeInv
<1>2. /\ pc = "idle" /\ pc' = "free" /\ f \in DOMAIN active_hooks
      /\ mem' = Poke(mem, f, s) /\ loc'.fn = f
      /\ UNCHANGED <<active_hooks, taken>>
  BY DEF RemoveHook, history, NoCall
<1>3. ~Calling' /\ \A g : ~Busy(g) /\ (g # f => ~Busy(g)') /\ Busy(f)'
  BY <1>2 DEF Calling, Busy, Entered
<1>4. /\ HookInv /\ f \in Int /\ DOMAIN mem \subseteq Int
      /\ DOMAIN pristine = DOMAIN mem /\ DOMAIN active_hooks \subseteq Functions
  BY CopyTypes, Places, StateTypes DEF WholeInv
<1>5. s \in Seq(Cell) /\ Len(s) <= MaxStolen
  BY <1>2, <1>4 DEF HookInv, TypeOK
<1> PICK b \in Int : b = active_hooks[f].trampoline
  BY <1>2, <1>4, StateTypes, Places
<1> PICK T : T = taken[f]
  OBVIOUS
<1>6. /\ TakenClean(f) /\ Copied(mem, T, f, b, Len(s))
      /\ \A o \in 0 .. Len(s) - 1 : s[o + 1] = mem[b + o]
  BY <1>2 DEF WholeInv, CopyInv, CopiesKept, EntryCopied
<1>7. PICK n \in 5 .. MaxStolen : Len(s) = n
  BY <1>2 DEF WholeInv, CopyInv, SavedInv, TailsKept, TailKept
<1>8. WholeText(T, 0) /\ Whole(T, n)
  BY <1>2, <1>7 DEF WholeInv, TakenWhole
<1> HIDE DEF s
<1>9. /\ DOMAIN mem' = DOMAIN mem
      /\ \A o \in 0 .. n - 1 : f + o \in DOMAIN mem => mem'[f + o] = s[o + 1]
      /\ \A x \in DOMAIN mem : x \notin f .. f + n - 1 => mem'[x] = mem[x]
  BY <1>2, <1>4, <1>5, <1>7, PokeCells
<1>10. \A o \in 0 .. n - 1 : o \in DOMAIN T /\ mem[b + o] = MovedCell(T[o], f, b)
  BY <1>6, <1>7 DEF Copied
<1>11. Relocated(mem', f, T, n, f, b)
  <2> SUFFICES ASSUME NEW o \in 0 .. n - 1
               PROVE  f + o \in DOMAIN mem' /\ mem'[f + o] = MovedCell(T[o], f, b)
    BY DEF Relocated
  <2>1. f + o \in DOMAIN pristine
    BY <1>6, <1>10 DEF TakenClean
  <2> QED BY <1>4, <1>6, <1>7, <1>9, <1>10, <2>1
<1>12. WholeText(mem', f)
  <2>1. \A o \in 0 .. n - 1 : T[o] \in Cell
    BY <1>6, <1>10 DEF TakenClean
  <2>2. n \in Nat /\ n >= 5
    BY DEF MaxStolen
  <2> QED BY <1>4, <1>8, <1>11, <2>1, <2>2, TextMoved
<1>13. TextsWhole'
  <2> SUFFICES ASSUME NEW g \in Functions \ DOMAIN active_hooks
               PROVE  WholeText(mem', g)
    BY <1>2, <1>12 DEF TextsWhole
  <2>1. WholeText(mem, g) /\ g # f
    BY <1>2, <1>3 DEF WholeInv, TextsWhole
  <2>2. ASSUME NEW x \in DOMAIN mem, x \in g .. g + MaxStolen
        PROVE  mem'[x] = mem[x]
    <3>1. x \notin f .. f + MaxStolen
      BY <2>1, <2>2, TextsApart
    <3>2. x \notin f .. f + n - 1
      BY <1>4, <3>1 DEF MaxStolen
    <3> QED BY <1>9, <3>2
  <2> QED BY <1>4, <1>9, <2>1, <2>2, WholeKept
<1>14. TakenWhole'
  BY <1>2, <1>3 DEF WholeInv, TakenWhole, FirstCall
<1> QED BY <1>1, <1>13, <1>14 DEF WholeInv

LEMMA FreeTrampolineWhole ==
  ASSUME NearLayout, WholeInv, FreeTrampoline PROVE WholeInv'
<1> DEFINE f == loc.fn
           b == active_hooks[f].trampoline
<1>1. CopyInv'
  BY FreeTrampolineCopy DEF WholeInv
<1>2. /\ pc = "free" /\ pc' = "idle" /\ UNCHANGED taken
      /\ active_hooks' = [g \in DOMAIN active_hooks \ {f} |-> active_hooks[g]]
      /\ mem' = mem \/ mem' = Fill(mem, b, BlockSize, Unmapped)
  BY DEF FreeTrampoline
<1>3. ~Calling' /\ \A g : (~Busy(g)' /\ (g # f => ~Busy(g)))
  BY <1>2 DEF Calling, Busy, Entered
<1>4. HookInv /\ b \in NearBlocks
  BY <1>2, CopyTypes, StateTypes DEF WholeInv, HookInv, InCall
<1>5. /\ DOMAIN mem' = DOMAIN mem
      /\ \A x \in DOMAIN mem : ~InBlock(b, x) => mem'[x] = mem[x]
  BY <1>2 DEF Fill, InBlock
<1>6. TextsWhole'
  <2> SUFFICES ASSUME NEW g \in Functions, g \notin DOMAIN active_hooks \/ g = f
               PROVE  WholeText(mem', g)
    BY <1>2 DEF TextsWhole
  <2>1. WholeText(mem, g)
    BY <1>2, <1>3 DEF WholeInv, TextsWhole
  <2>2. \A x \in DOMAIN mem : x \in g .. g + MaxStolen => mem'[x] = mem[x]
    BY <1>4, <1>5, TextApart
  <2> QED BY <1>4, <1>5, <2>1, <2>2, WholeKept
<1>7. TakenWhole'
  BY <1>2, <1>3 DEF WholeInv, TakenWhole, FirstCall
<1> QED BY <1>1, <1>6, <1>7 DEF WholeInv

LEMMA NextWhole == ASSUME NearLayout, WholeInv, [Next]_vars PROVE WholeInv'
<1>1. CASE \E f \in Functions, t \in Targets : ApplyHookX64(f, t)
  BY <1>1, ApplyHookWhole
<1>2. CASE \E f \in Functions : RemoveHook(f)
  BY <1>2, RemoveHookWhole
<1>3. CASE Continue
  BY <1>3, DisassembleWhole, CallWhole, RecordWhole, FreeTrampolineWhole, FarStepsRoute
     DEF Continue, WholeInv, CopyInv, SavedInv
<1>4. CASE UNCHANGED vars
  <2>1. CopyInv'
    BY <1>4, NextCopy DEF WholeInv
  <2>2. UNCHANGED <<pc, loc, size, active_hooks, mem, taken>>
    BY <1>4 DEF vars
  <2> QED BY <2>1, <2>2 DEF WholeInv, TextsWhole, TakenWhole, FirstCall, Busy, Calling, Entered
<1> QED BY <1>1, <1>2, <1>3, <1>4 DEF Next

-----------------------------------------------------------------------------
(* Which of the stolen instructions do what they did *)

\* Every number has a representative in rel32, and it is itself only if it fits.
LEMMA WrapExact ==
  ASSUME NEW d \in Int
  PROVE  Wrap32(d) = d <=> d \in -Reach .. Reach - 1
<1> DEFINE x == d + Reach
           n == 2 * Reach
<1>1. x \in Int /\ n \in Int /\ n > 0 /\ Reach \in Int
  BY ReachAssumption
<1> HIDE DEF x, n
<1>2. (x % n) \in 0 .. n - 1
  BY <1>1
<1>3. Wrap32(d) \in -Reach .. Reach - 1
  BY <1>1, <1>2 DEF Wrap32, x, n
<1> QED BY <1>3, WrapFits

\* An instruction moved from f + o to b + o, as Relocate leaves it, does what it did
\* just if its operand is one that Relocate adjusts and is in reach of b.
LEMMA EffectOfMove ==
  ASSUME NEW i \in Instruction, NEW k, NEW f \in Int, NEW b \in Int, b # f, NEW o \in Int
  PROVE  SameEffect(MovedCell(<<i, k>>, f, b)[1], b + o, i, f + o)
         <=> /\ i.op \notin RelImm
             /\ i.op \in RelDisp => f + i.arg - b \in -Reach .. Reach - 1
<1>1. i.len \in Int /\ i.arg \in Int
  BY DEF Instruction
<1>2. CASE i.op \in RelDisp
  <2> DEFINE j == [i EXCEPT !.arg = Wrap32(@ + f - b)]
             d == i.arg + f - b
             w == Wrap32(d)
  <2>1. MovedCell(<<i, k>>, f, b)[1] = j
    BY <1>2 DEF MovedCell
  <2>2. j.op = i.op /\ j.len = i.len /\ j.arg = w
    BY DEF Instruction
  <2>3. d \in Int /\ w \in Int
    BY <1>1, WrapType
  <2>4. w = d <=> d \in -Reach .. Reach - 1
    BY <2>3, WrapExact
  <2> HIDE DEF j, w
  <2>5. SameEffect(j, b + o, i, f + o) <=> (b + o) + i.len + w = (f + o) + i.len + i.arg
    BY <1>2, <2>2 DEF SameEffect
  <2>6. (b + o) + i.len + w = (f + o) + i.len + i.arg <=> w = d
    BY <1>1, <2>3
  <2>7. d = f + i.arg - b
    BY <1>1
  <2>8. i.op \notin RelImm
    BY <1>2 DEF RelDisp, RelImm
  <2> QED BY <1>2, <2>1, <2>4, <2>5, <2>6, <2>7, <2>8
<1>3. CASE i.op \notin RelDisp
  <2>1. MovedCell(<<i, k>>, f, b)[1] = i
    BY <1>3 DEF MovedCell
  <2>2. CASE i.op \in RelImm
    BY <1>1, <2>1, <2>2 DEF SameEffect
  <2>3. CASE i.op \notin RelImm
    BY <1>3, <2>1, <2>3 DEF SameEffect
  <2> QED BY <2>2, <2>3
<1> QED BY <1>2, <1>3

LEMMA InvStolenCode ==
  ASSUME NearLayout, WholeInv PROVE StolenCodeRunsButBranches
<1> SUFFICES ASSUME NEW f \in DOMAIN active_hooks
             PROVE  LET b == active_hooks[f].trampoline
                        n == Len(active_hooks[f].original_bytes)
                    IN  /\ Follow(mem, b + n) = f + n
                        /\ \A o \in StolenAt(f) : Moved(f, o) <=> Movable(f, o)
  BY DEF StolenCodeRunsButBranches
<1>1. HookInv /\ f \in Functions /\ f \in Int
  BY CopyTypes, StateTypes, Places DEF WholeInv
<1> PICK b \in NearBlocks : b = active_hooks[f].trampoline
  BY <1>1, StateTypes
<1>2. PICK n \in 5 .. MaxStolen : Len(active_hooks[f].original_bytes) = n
  BY DEF WholeInv, CopyInv, SavedInv, TailsKept, TailKept
<1> PICK T : T = taken[f]
  OBVIOUS
<1>3. TakenClean(f) /\ Copied(mem, T, f, b, n) /\ Whole(T, n)
  BY <1>2 DEF WholeInv, CopyInv, CopiesKept, EntryCopied, TakenWhole
<1>4. b \in Int /\ n \in Nat /\ b # f /\ -Reach <= b - f /\ b - f + 19 < Reach /\ Reach \in Nat
  <2>1. f + MaxStolen < b \/ b + BlockSize <= f
    BY <1>1 DEF NearLayout
  <2>2. -Reach <= b - f /\ b - f + 19 < Reach
    BY <1>1 DEF NearLayout
  <2> QED BY <1>1, <2>1, <2>2, Places DEF MaxStolen
<1>5. Follow(mem, b + n) = f + n
  <2>1. JumpAt(mem, b + n, f + n)
    BY <1>3 DEF Copied
  <2>2. /\ b + n \in Int /\ f + n \in Int
        /\ (f + n) - ((b + n) + 5) \in -Reach .. Reach - 1
    BY <1>1, <1>4
  <2> QED BY <2>1, <2>2, JumpFollow
<1>6. ASSUME NEW o \in StolenAt(f)
      PROVE  Moved(f, o) <=> Movable(f, o)
  <2>1. o \in 0 .. n - 1 /\ T[o][2] = 0
    BY <1>2 DEF StolenAt
  <2>2. T[o] \in Cell
    BY <1>1, <1>3, <2>1, TakenTypes DEF WholeInv, Copied
  <2>3. Intact(T, o) /\ o + At(T, o).len <= n
    BY <1>3, <2>1 DEF Whole
  <2>4. Relocated(mem, b, T, n, f, b)
    BY <1>3 DEF Copied, Relocated
  <2> PICK m : m = mem
    OBVIOUS
  <2>5. Intact(m, b + o) /\ At(m, b + o) = MovedCell(T[o], f, b)[1]
    BY <1>1, <1>4, <2>1, <2>2, <2>3, <2>4, MovedIntact
  <2> PICK i : i = T[o][1]
    OBVIOUS
  <2>6. i \in Instruction /\ T[o] = <<i, 0>>
    BY <2>1, <2>2 DEF Cell
  <2>7. SameEffect(MovedCell(<<i, 0>>, f, b)[1], b + o, i, f + o)
        <=> /\ i.op \notin RelImm
            /\ i.op \in RelDisp => f + i.arg - b \in -Reach .. Reach - 1
    BY <1>1, <1>4, <2>1, <2>6, EffectOfMove
  <2> QED BY <2>5, <2>6, <2>7 DEF Moved, Movable
<1> QED BY <1>2, <1>5, <1>6

\* The code that was moved to a trampoline does there what it did in the function,
\* and goes on behind it, but for relative branches and for operands out of reach: for
\* every function that begins with whole instructions, wherever the blocks lie.
THEOREM SpecStolenCodeRuns ==
  ASSUME NearLayout, WholeTexts PROVE Spec => []StolenCodeRunsButBranches
<1>1. Init => WholeInv
  BY InitWhole
<1>2. WholeInv /\ [Next]_vars => WholeInv'
  BY NextWhole
<1>3. WholeInv => StolenCodeRunsButBranches
  BY InvStolenCode
<1> QED BY <1>1, <1>2, <1>3, PTL DEF Spec
=============================================================================
