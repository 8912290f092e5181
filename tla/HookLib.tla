------------------------------- MODULE HookLib -------------------------------
(***************************************************************************)
(* HookLib::apply_hook_x64 and HookLib::remove_hook: one thread patches    *)
(* the entries of functions so that calls go to a hook function, keeps the *)
(* overwritten instructions in a trampoline, and can undo it.  Each store  *)
(* to the code of a hooked function is a step of its own, because other    *)
(* threads run that code; the trampoline is private until the function     *)
(* jumps to it and is built in one step.                                   *)
(***************************************************************************)
EXTENDS CodeMemory

CONSTANTS
  Functions,    \* addresses of the functions that may be hooked
  Targets,      \* addresses of the hook functions
  NearBlocks,   \* what allocate_around_2gb may return (see AllocateAround)
  FarBlocks,    \* what VirtualAlloc(nullptr, ...) may return
  BlockSize,    \* bytes of such a block: one page
  Images,       \* what memory may hold before the first call
  JunkLens,     \* lengths bytes that are no instruction may decode to
  CodeLens,     \* lengths of what TrampolineBuilder may make of stolen code
  StoreOutcomes,\* {TRUE} if writing the const array far_jump takes effect,
                \* {TRUE, FALSE} for a build that may ignore it
  MaxCalls      \* bound: calls of apply_hook_x64 in a run

Blocks == NearBlocks \cup FarBlocks

ASSUME PlacesAssumption ==
  /\ Functions \subseteq Nat /\ Targets \subseteq Nat /\ Blocks \subseteq Nat
  /\ BlockSize \in Nat
  /\ 0 \notin Functions \cup Blocks
  /\ JunkLens \subseteq 1 .. MaxLength /\ CodeLens \subseteq Nat
  /\ StoreOutcomes \subseteq BOOLEAN
  /\ MaxCalls \in Nat

MaxStolen == 28    \* at most 13 bytes and an instruction of 15 are overwritten

\* The part of a block that stolen code may take is memory of the model.
ASSUME ImagesAssumption ==
  \A m \in Images :
    /\ DOMAIN m \subseteq Int /\ m \in [DOMAIN m -> Cell]
    /\ \A b \in Blocks : b .. b + MaxStolen - 1 \subseteq DOMAIN m

IsJump(c) == c[1].op \in {"jmp", "qjmp"}

\* What the proofs about near hooks assume: the texts of functions and the blocks
\* lie apart, in reach of each other (see JumpsReach of AllocateAround); memory has
\* room for an entry in each function and for a trampoline in each block; no
\* function begins with a jump.
NearLayout ==
  /\ FarBlocks = {} /\ BlockSize >= 88 /\ Reach >= 80
  /\ \A f \in Functions : \A g \in Functions \ {f} :
       f + MaxStolen < g \/ g + MaxStolen < f
  /\ \A b \in NearBlocks : \A c \in NearBlocks \ {b} :
       b + BlockSize <= c \/ c + BlockSize <= b
  /\ \A f \in Functions, b \in NearBlocks :
       /\ f + MaxStolen < b \/ b + BlockSize <= f
       /\ -Reach <= b - f /\ b - f + 19 < Reach
  /\ \A m \in Images :
       /\ \A f \in Functions : f .. f + 4 \subseteq DOMAIN m /\ ~IsJump(m[f])
       /\ \A b \in NearBlocks : (b .. b + 29) \cup (b + 80 .. b + 87) \subseteq DOMAIN m

\* What they assume about code that is moved: up to the byte behind a jump, the text
\* of a function is instructions that decode.
WholeText(m, a) ==
  /\ m[a][2] = 0
  /\ \A o \in 0 .. 4 :
       m[a + o][2] = 0 =>
         LET n == At(m, a + o).len
         IN  Decodes(m, a + o) /\ (o + n < 5 => m[a + o + n][2] = 0)

WholeTexts == \A m \in Images, f \in Functions : WholeText(m, f)

VARIABLES
  pc,            \* control of the patching thread
  loc,           \* parameters and locals of the call in progress
  size,          \* its local `size`, while compute_hook_size runs its `offset`
  active_hooks,
  mem,
  live,          \* blocks the library allocated and has not released
  calls,         \* history: how often apply_hook_x64 was called
  pristine,      \* history: memory before the first call
  taken,         \* history: the text of each function when it was last hooked
  wanted         \* history: where calls of each function should go

vars == <<pc, loc, size, active_hooks, mem, live, calls, pristine, taken, wanted>>

history == <<calls, pristine, taken, wanted>>

Own    == 0     \* calls reach the function itself
Torn   == -1    \* the entry is half written
Nobody == -1

NoCall == [fn |-> 0, target |-> 0, tramp |-> 0, far |-> FALSE]

\* What the text of f holds.
Text(f) == [o \in {o \in 0 .. MaxStolen : f + o \in DOMAIN mem} |-> mem[f + o]]

InBlock(b, x) == b <= x /\ x < b + BlockSize

Init ==
  /\ pc = "idle" /\ loc = NoCall /\ size = 0
  /\ active_hooks = << >>
  /\ mem \in Images /\ pristine = mem
  /\ live = {}
  /\ calls = 0
  /\ taken = [f \in Functions |-> << >>]
  /\ wanted = [f \in Functions |-> Own]

-----------------------------------------------------------------------------
(* apply_hook_x64 *)

\* Mutant: the result of VirtualAlloc is used without the nullptr check.
ApplyHookX64Unchecked(f, t) ==
  /\ pc = "idle" /\ pc' = "sizing"
  /\ \E far \in BOOLEAN : \E b \in ((IF far THEN FarBlocks ELSE NearBlocks) \ live) \cup {0} :
       /\ loc' = [fn |-> f, target |-> t, tramp |-> b, far |-> far]
       /\ live' = live \cup {b}
       /\ mem' = Fill(mem, b, BlockSize, Zero)
  /\ size' = 0
  /\ calls < MaxCalls /\ calls' = calls + 1
  /\ taken' = IF f \in DOMAIN active_hooks THEN taken ELSE [taken EXCEPT ![f] = Text(f)]
  /\ UNCHANGED <<active_hooks, pristine, wanted>>

\* A near block, or any block if there is none near; with neither the call
\* returns nullptr and has changed nothing.
ApplyHookX64(f, t) ==
  /\ pc = "idle" /\ pc' = "sizing"
  /\ \E far \in BOOLEAN : \E b \in (IF far THEN FarBlocks ELSE NearBlocks) \ live :
       /\ loc' = [fn |-> f, target |-> t, tramp |-> b, far |-> far]
       /\ live' = live \cup {b}
       /\ mem' = Fill(mem, b, BlockSize, Zero)
  /\ size' = 0
  /\ calls < MaxCalls /\ calls' = calls + 1
  /\ taken' = IF f \in DOMAIN active_hooks THEN taken ELSE [taken EXCEPT ![f] = Text(f)]
  /\ UNCHANGED <<active_hooks, pristine, wanted>>

needed_size == IF loc.far THEN 14 ELSE 5

\* Lengths that the decoder may read in the bytes at a if they are mapped but
\* are no instruction the model knows.
Junk(a) == {n \in JunkLens : a .. a + n - 1 \subseteq DOMAIN mem}

\* Mutant: the offset is not advanced.
DisassembleStuck ==
  /\ pc = "sizing" /\ size < needed_size
  /\ Decodes(mem, loc.fn + size) \/ Junk(loc.fn + size) # {}
  /\ UNCHANGED <<pc, loc, size, active_hooks, mem, live, history>>

\* One round of compute_hook_size: decode at `offset`, stop if enough bytes
\* are covered, else step over the instruction.
Disassemble ==
  /\ pc = "sizing" /\ size < needed_size
  /\ LET a == loc.fn + size
     IN  \E n \in IF Decodes(mem, a) THEN {At(mem, a).len} ELSE Junk(a) :
           size' = size + n
  /\ UNCHANGED <<pc, loc, active_hooks, mem, live, history>>

\* The loop ends at the size wanted, or earlier where decoding fails.
EndSizing ==
  /\ pc = "sizing" /\ pc' = "build"
  /\ size >= needed_size \/ ~Decodes(mem, loc.fn + size)
  /\ UNCHANGED <<loc, size, active_hooks, mem, live, history>>

\* Stolen code, jump back, a jump through the qword at 0x50, the qword.
BuildNear ==
  LET f == loc.fn
      b == loc.tramp
      copied  == Poke(mem, b, Peek(mem, f, size))
      back    == Poke(copied, b + size, Bytes(Jmp(b + size, f + size)))
      forward == Poke(back, b + size + 5, Bytes(QwordJmp(b + size + 5, b + 80)))
      qword   == Poke(forward, b + 80, Bytes(Pointer(loc.target)))
  IN  /\ pc = "build" /\ ~loc.far /\ pc' = "patch"
      /\ mem' = Relocate(qword, b, f, size)
      /\ UNCHANGED <<loc, size, active_hooks, live, history>>

\* Mutant: the jump of every entry reads the address of entry 0.
place_relocation_stuck(m, b, k, to) ==
  Poke(Poke(m, b + 256 + 8 * k, Bytes(Pointer(to))),
       b + 80 + 8 * k, Bytes(QwordJmp(b + 80 + 8 * k, b + 256)))

\* Entry k of TrampolineBuilder's address table at 0x100 and of its jump table
\* at 0x50, both of 8-byte entries.
place_relocation(m, b, k, to) ==
  Poke(Poke(m, b + 256 + 8 * k, Bytes(Pointer(to))),
       b + 80 + 8 * k, Bytes(QwordJmp(b + 80 + 8 * k, b + 256 + 8 * k)))

\* TrampolineBuilder for the n bytes at f: entry 0 leads back, entry 1 to the
\* hook; rewritten code, taken as len bytes, and a jump from its end to entry 0.
\* Rewriting a call or branch adds entries from 2 on, which only it uses.
build(m, b, f, n, target, len) ==
  LET tables == place_relocation(place_relocation(m, b, 0, f + n), b, 1, target)
  IN  Poke(Poke(tables, b, Bytes(Ins("code", len, f))),
           b + len, Bytes(Jmp(b + len, b + 80)))

BuildFar ==
  /\ pc = "build" /\ loc.far /\ pc' = "patch"
  /\ \E len \in CodeLens : mem' = build(mem, loc.tramp, loc.fn, size, loc.target, len)
  /\ UNCHANGED <<loc, size, active_hooks, live, history>>

\* Mutant: leads to the code that was moved.
EntryJumpToTrampoline == Bytes(Jmp(loc.fn, loc.tramp))

\* Mutant: leads to the jump back instead of the jump to the hook.
EntryJumpToBack == Bytes(Jmp(loc.fn, loc.tramp + size))

\* place_jump(original_function, trampoline + size + 5) makes two stores.
EntryJump == Bytes(Jmp(loc.fn, loc.tramp + size + 5))

PlaceOpcode ==
  /\ pc = "patch" /\ ~loc.far /\ pc' = "disp"
  /\ mem' = Poke(mem, loc.fn, Peek(EntryJump, 1, 1))
  /\ UNCHANGED <<loc, size, active_hooks, live, history>>

PlaceDisp ==
  /\ pc = "disp" /\ pc' = "nops"
  /\ mem' = Poke(mem, loc.fn + 1, Peek(EntryJump, 2, 4))
  /\ UNCHANGED <<loc, size, active_hooks, live, history>>

\* memcpy of far_jump.  The pointer in it was stored through a cast into a
\* const array: a compiler may copy the initializer's zeros instead.
PlaceFarJump ==
  /\ pc = "patch" /\ loc.far /\ pc' = "nops"
  /\ \E stored \in StoreOutcomes :
       LET to == IF stored THEN loc.tramp + 88 ELSE 0
       IN  mem' = Poke(mem, loc.fn, Bytes(Ins("qjmp", 6, 0)) \o Bytes(Pointer(to)))
  /\ UNCHANGED <<loc, size, active_hooks, live, history>>

\* Mutant: pads from behind the covered bytes, as apply_hook_x86 does.
PadNopsBehind ==
  /\ pc = "nops"
  /\ IF size < needed_size
     THEN pc' = "crashed" /\ UNCHANGED mem
     ELSE /\ pc' = "record"
          /\ mem' = Fill(mem, loc.fn + size, size - needed_size, Nop)
  /\ UNCHANGED <<loc, size, active_hooks, live, history>>

\* memset(..., 0x90, size - needed): from byte 5 of a near hook, but from byte
\* 0 of a far one.  If too few bytes were covered the unsigned difference is
\* huge and the memset runs off the end of memory.
PadNops ==
  /\ pc = "nops"
  /\ IF size < needed_size
     THEN pc' = "crashed" /\ UNCHANGED mem
     ELSE /\ pc' = "record"
          /\ mem' = Fill(mem, IF loc.far THEN loc.fn ELSE loc.fn + 5, size - needed_size, Nop)
  /\ UNCHANGED <<loc, size, active_hooks, live, history>>

\* Mutant: saves one byte too few.
create_hook_entry_short(b, n) == [trampoline |-> b, original_bytes |-> Peek(mem, b, n - 1)]

create_hook_entry(b, n) == [trampoline |-> b, original_bytes |-> Peek(mem, b, n)]

\* Mutant: the new entry replaces one that is already there.
RecordOverwrites ==
  /\ pc = "record" /\ pc' = "idle"
  /\ active_hooks' =
       [f \in DOMAIN active_hooks \cup {loc.fn} |->
          IF f = loc.fn THEN create_hook_entry(loc.tramp, size) ELSE active_hooks[f]]
  /\ wanted' = [wanted EXCEPT ![loc.fn] = loc.target]
  /\ loc' = NoCall /\ size' = 0
  /\ UNCHANGED <<mem, live, calls, pristine, taken>>

\* unordered_map::insert keeps an entry that is already there.
Record ==
  /\ pc = "record" /\ pc' = "idle"
  /\ active_hooks' =
       [f \in DOMAIN active_hooks \cup {loc.fn} |->
          IF f \in DOMAIN active_hooks THEN active_hooks[f]
          ELSE create_hook_entry(loc.tramp, size)]
  /\ wanted' = [wanted EXCEPT ![loc.fn] = loc.target]
  /\ loc' = NoCall /\ size' = 0
  /\ UNCHANGED <<mem, live, calls, pristine, taken>>

-----------------------------------------------------------------------------
(* remove_hook, of a function that is in active_hooks *)

\* Mutant: the saved bytes are not copied back.
RemoveHookUnrestored(f) ==
  /\ pc = "idle" /\ f \in DOMAIN active_hooks /\ pc' = "free"
  /\ loc' = [NoCall EXCEPT !.fn = f]
  /\ UNCHANGED <<size, active_hooks, mem, live, history>>

RemoveHook(f) ==
  /\ pc = "idle" /\ f \in DOMAIN active_hooks /\ pc' = "free"
  /\ mem' = Poke(mem, f, active_hooks[f].original_bytes)
  /\ loc' = [NoCall EXCEPT !.fn = f]
  /\ UNCHANGED <<size, active_hooks, live, history>>

\* Mutant: no erase.
FreeTrampolineKept ==
  LET b == active_hooks[loc.fn].trampoline
  IN  /\ pc = "free" /\ pc' = "idle"
      /\ \/ live' = live \ {b} /\ mem' = Fill(mem, b, BlockSize, Unmapped)
         \/ UNCHANGED <<live, mem>>
      /\ wanted' = [wanted EXCEPT ![loc.fn] = Own]
      /\ loc' = NoCall
      /\ UNCHANGED <<size, active_hooks, calls, pristine, taken>>

\* VirtualFree, whose failure is only reported, and erase.
FreeTrampoline ==
  LET b == active_hooks[loc.fn].trampoline
  IN  /\ pc = "free" /\ pc' = "idle"
      /\ \/ live' = live \ {b} /\ mem' = Fill(mem, b, BlockSize, Unmapped)
         \/ UNCHANGED <<live, mem>>
      /\ active_hooks' =
           [f \in DOMAIN active_hooks \ {loc.fn} |-> active_hooks[f]]
      /\ wanted' = [wanted EXCEPT ![loc.fn] = Own]
      /\ loc' = NoCall
      /\ UNCHANGED <<size, calls, pristine, taken>>

-----------------------------------------------------------------------------
\* The steps of a call once it has begun.
Continue ==
  \/ Disassemble \/ EndSizing \/ BuildNear \/ BuildFar \/ PlaceOpcode \/ PlaceDisp
  \/ PlaceFarJump \/ PadNops \/ Record \/ FreeTrampoline

Next ==
  \/ \E f \in Functions, t \in Targets : ApplyHookX64(f, t)
  \/ \E f \in Functions : RemoveHook(f)
  \/ Continue

Spec == Init /\ [][Next]_vars

\* The patching thread is scheduled; that it is called again is not assumed.
FairSpec == Spec /\ WF_vars(Continue)
-----------------------------------------------------------------------------
(* Properties *)

\* Types.  Memory keeps its extent and holds bytes of instructions; what a hook
\* steals and saves is at most MaxStolen bytes, which leaves the qword at 0x50
\* (HookLib.h:92) and the tables of TrampolineBuilder clear of it.
TypeOK ==
  /\ pc \in {"idle", "sizing", "build", "patch", "disp", "nops", "record", "free", "crashed"}
  /\ loc \in [fn : Functions \cup {0}, target : Targets \cup {0},
              tramp : Blocks \cup {0}, far : BOOLEAN]
  /\ size \in 0 .. MaxStolen
  /\ DOMAIN active_hooks \subseteq Functions
  /\ \A f \in DOMAIN active_hooks :
       /\ active_hooks[f].trampoline \in Blocks
       /\ active_hooks[f].original_bytes \in Seq(Cell)
       /\ Len(active_hooks[f].original_bytes) <= MaxStolen
  /\ pristine \in Images /\ mem \in [DOMAIN pristine -> Cell]
  /\ live \subseteq Blocks
  /\ calls \in 0 .. MaxCalls
  /\ wanted \in [Functions -> Targets \cup {Own}]

\* Every trampoline in active_hooks is allocated, belongs to one function and
\* is not the one a call is just building: remove_hook releases memory once,
\* and memory that no other hook runs through.
OwnTrampolines ==
  \A f \in DOMAIN active_hooks :
    LET b == active_hooks[f].trampoline
    IN  /\ b \in live
        /\ \A g \in DOMAIN active_hooks \ {f} : active_hooks[g].trampoline # b
        /\ pc \notin {"idle", "free"} => loc.tramp # b

\* The entry of f is a whole jump that was not there at the start.
Redirected(f) ==
  /\ Decodes(mem, f) /\ At(mem, f).op \in {"jmp", "qjmp"}
  /\ At(mem, f) # At(pristine, f)

\* In every state, an entry the library has written leads into memory that is
\* still allocated: the entry is restored before its trampoline is released,
\* also when the function was hooked twice.
NoDangling ==
  \A f \in Functions : Redirected(f) => \E b \in live : InBlock(b, Follow(mem, f))

\* Between calls every hooked function, followed through memory as a processor
\* would, leads through its trampoline to the hook function last asked for
\* (README.md:41, step 6).
HooksRoute ==
  pc = "idle" =>
    \A f \in DOMAIN active_hooks : Follow(mem, Follow(mem, f)) = wanted[f]

\* Offsets of the instructions of f that were moved to its trampoline, and
\* whether one of them still does there what it did in f.
StolenAt(f) ==
  {o \in 0 .. Len(active_hooks[f].original_bytes) - 1 : taken[f][o][2] = 0}

Moved(f, o) ==
  LET b == active_hooks[f].trampoline
  IN  /\ Intact(mem, b + o)
      /\ SameEffect(At(mem, b + o), b + o, taken[f][o][1], f + o)

\* The operand is one that relocate adjusts, in reach of the trampoline.
Movable(f, o) ==
  LET b == active_hooks[f].trampoline
      i == taken[f][o][1]
  IN  /\ i.op \notin RelImm
      /\ i.op \in RelDisp => f + i.arg - b \in -Reach .. Reach - 1

\* The trampoline of a near hook goes on behind the overwritten instructions, and
\* does what they did if and only if they are Movable.  README.md:43 and 56-60 promise
\* it of every instruction, relative branches among them, whose displacement "we can
\* easily calculate".  The code does not: relocate adjusts raw.disp (HookLib.h:262),
\* and a branch has its displacement in raw.imm and is never Movable; and a
\* displacement that gets too long is cut off.
StolenCodeRunsButBranches ==
  pc = "idle" =>
    \A f \in DOMAIN active_hooks :
      LET b == active_hooks[f].trampoline
          n == Len(active_hooks[f].original_bytes)
      IN  /\ Follow(mem, b + n) = f + n
          /\ \A o \in StolenAt(f) : Moved(f, o) <=> Movable(f, o)

\* Once its hook is removed a function holds its own instructions again
\* (README.md:35, step 3), all but the RIP-relative ones: saved from the
\* trampoline, they come back with the displacement they had there.
RestoresAllButRelocated ==
  pc = "idle" =>
    \A f \in Functions \ DOMAIN active_hooks, o \in 0 .. MaxStolen :
      /\ f + o \in DOMAIN mem
      /\ At(pristine, f + o).op \notin RelDisp
      => mem[f + o] = pristine[f + o]

\* In every state, what hooking has overwritten of a hooked function is covered
\* by its saved bytes (README.md:33): remove_hook can put all of it back, also
\* after f was hooked again, when active_hooks keeps the first entry.
OnlySavedOverwritten ==
  \A f \in DOMAIN active_hooks :
    \A o \in Len(active_hooks[f].original_bytes) .. MaxStolen :
      o \in DOMAIN taken[f] => mem[f + o] = taken[f][o]

\* What Detour sees: where calls of each function go, and whose entry is torn.
route ==
  [f \in Functions |->
     IF pc = "disp" /\ f = loc.fn THEN Torn
     ELSE IF Redirected(f) THEN Follow(mem, Follow(mem, f))
     ELSE Own]
busy == IF pc = "disp" THEN loc.fn ELSE Nobody

Routing == INSTANCE Detour WITH route <- route, busy <- busy

\* A library whose hooks are all near implements the machine-free Detour: in
\* each step only the function being hooked or unhooked changes its route.
DetourSpec == Routing!Spec

\* Every call of the library returns, or has run off the end of memory.
CallsReturn == (pc # "idle") ~> (pc \in {"idle", "crashed"})
=============================================================================
