# Verification of detours_x64

TLA+ models, TLC runs and TLAPS proofs for the hooking library in
`detours_x64/src`. Paths below are relative to that directory.

## The system

The library redirects calls of a function to a *hook function*: it moves the
instructions at the function's entry to a *trampoline*, writes a jump over them,
and returns the trampoline so that the hook function can still run the original.

| component | state it keeps | operations | interacts with | hard part |
|---|---|---|---|---|
| search for a near trampoline (`HookLib/HookLib.h:172-233`) | none across calls; reads and changes the address space of the process | `allocate_around_2gb` | `VirtualQuery`, `VirtualAlloc`; other threads allocate and release between the calls | unsigned bounds, check-then-act, termination |
| x64 hooks (`HookLib/HookLib.h:49-170, 235-299`) | `active_hooks`: function -> trampoline and saved bytes; the code of the hooked functions; the trampolines | `apply_hook_x64`, `remove_hook` | the search, `TrampolineBuilder`, Zydis, `VirtualProtect`, `VirtualFree` | patching live code, decoding boundaries, relocation, hooking twice, order of restore and release |
| x86 hooks (`HookLib/HookLib.h:26-46`) | the code of the function | `apply_hook_x86` | as above | padding, a missing return, nothing recorded |
| `TrampolineBuilder/` (with `AnnotatedInstruction`, `ZydisUtils/`) | jump and address table of one trampoline, annotated instructions | constructor, `build` | `apply_hook_x64`, the Zydis encoder | displacements between table and code, choice of a scratch register, encode failures |
| `Main.cpp` | `original_messageboxa_x64` | `start`, the hook function | every application thread that calls `MessageBoxA` | installation races with calls |
| `SystemInfo/` | lazily filled copy of `SYSTEM_INFO` | getters | the search | first call from two threads |
| `EnumMappings/` | none | formatting | diagnostics | none |
| concurrent hooking (`HookLib/HookLib.h:103-127, 292-299`) | protection of pages; `active_hooks` | `ensure_protection`, insert, find, erase | patching threads | unchecked calls, shared pages, no lock |
| `lib/Zydis` | vendored | decode, encode | everything above | external |

What makes them correct:

* search: a returned block is in rel32 reach of the function and was free when
  it was taken; the search gives up only if there was no such block; it ends.
* hooks: calls of a hooked function reach the hook function last asked for; the
  trampoline does what the moved instructions did and goes on behind them;
  unhooking gives the function its own code back; no entry leads into released
  memory; a trampoline belongs to one hook; other functions are untouched.
* builder: rewritten code has the effect of the original for every kind of
  instruction; tables and code do not overlap.
* installation: a call that arrives at any moment runs the function or the hook
  and, through it, the function.

## Modules

| module | models |
|---|---|
| `AddressSpace` | the numbers of the search: bounds, pages, displacements |
| `NearAllocation` | abstract specification of the search: allocate in reach, or give up, in one step |
| `AllocateAround` | `allocate_around_2gb`; implements `NearAllocation` |
| `AllocateAroundProofs` | its proofs |
| `CodeMemory` | memory of instruction bytes; decoding, following jumps, memcpy, memset, `place_jump`, `place_qword_jump`, `relocate` |
| `Detour` | abstract specification of hooking: one route per function |
| `HookLib` | `apply_hook_x64` (both paths), `remove_hook`; implements `Detour` |
| `HookLibProofs` | its proofs, near and far |
| `HookedCalls` | `Main.cpp` and threads that run the hooked function; composes with `HookLib` |
| `HookedCallsProofs` | its proofs |
| `TrampolineBuilder` | annotation, tables, rewriting, registers, encoder failures; what the rewritten code does |
| `TrampolineBuilderProofs` | its proofs |
| `HookX86` | `apply_hook_x86`, over `CodeMemory` |
| `HookX86Proofs` | its proofs |
| `ConcurrentHooks` | `ensure_protection` and `active_hooks` under several patching threads |
| `ConcurrentHooksProofs` | its proofs |
| `SystemInfo` | the lazily filled sizes, read by several threads |
| `SystemInfoProofs` | its proofs |
| `CodeMemoryProofs` | lemmas about `CodeMemory` for the proofs above |
| `MC...` | instances for TLC, one `.cfg` per run |

### The search

`pc` is the position in the function: `high` and `low` are the two loops,
`alloc` lies between `found = true` and `VirtualAlloc`. A probe (`ProbeHigh`,
`ProbeLow`) is one `VirtualQuery` with the branch that follows it; `free` is the
set of pages in state `MEM_FREE`. `OtherTakes` and `OtherReleases` are the other
threads. `TryAlloc` fails when the region was taken since the query, and may fail
at any time for want of memory. `low_bound` is computed as the code does, modulo
the size of the address space; `InReach` and `Fits32` are not. `untouched`
remembers which pages were free during the whole call, so that a block that was
never available is not held against the search.

`apply_hook_x64` sees only the result: `HookLib` takes any block of `NearBlocks`
or of `FarBlocks`. `HookSizes` (5 to 19) in `AddressSpace` is what `HookLib`
computes as `size` on the near path: `SpecTypeOK` of `HookLibProofs` rests on
the bound `size <= needed_size + 14`.

### Memory and instructions

A cell of memory is `<<i, k>>`, byte `k` of instruction `i`. An address decodes
only if a whole instruction lies there, so a jump that is half written, padded
over or cut off by another store does not decode. Instructions keep their length,
their kind and one operand. What the properties tell apart is where an operand
leads, so displacements are numbers and the rel32 cast is `Wrap32`; everything
else about an instruction is one number that names it.

`relocate` rewrites `raw.disp` of instructions marked relative. In Zydis a
RIP-relative memory operand is in `raw.disp`, a branch displacement in `raw.imm`;
the kinds `RelDisp` and `RelImm` keep the two apart.

The bytes of one instruction differ from those of another in every cell, also
when their first bytes would be equal. A function that is hooked again is
therefore torn between the two stores of `place_jump`, although its opcode byte
does not change.

### Hooks

One patching thread. Variables: `pc`, `loc` (parameters and locals), `size`,
`active_hooks`, `mem`, `live` (blocks allocated and not released), and history
(`calls`, `pristine`, `taken`, `wanted`) that no action reads in a guard but the
bound on `calls`. One call of `apply_hook_x64` is

    ApplyHookX64  Disassemble*  EndSizing  BuildNear  PlaceOpcode  PlaceDisp  PadNops  Record
                                           BuildFar   PlaceFarJump

and one of `remove_hook` is `RemoveHook FreeTrampoline`. The two stores of
`place_jump` to the live entry are separate steps; a `memcpy` or `memset` is one.
The trampoline is private until the entry leads to it, so it is built in one
step. A call whose two allocations fail, or that unhooks a function that is not
hooked, changes nothing and is no step. `PadNops` goes to `crashed` when fewer
bytes than needed were covered: `size - 5` is unsigned and the memset runs off
mapped memory.

`Disassemble` adds the length of the instruction at the offset, or, where the
bytes are no instruction of the model, one of `JunkLens`; `EndSizing` may then
also end the loop. The runs take no junk lengths: bytes that do not decode end
it.

What `TrampolineBuilder` makes of the stolen instructions is one block of code
with a length from `CodeLens`; its tables, the jump back and the jump to the hook
are modelled entry by entry. `ensure_protection` is left out of this module: with
one thread it only makes the stores possible.

### Hooked calls

`HookedCalls` extends `HookLib` with the threads of the process and the pointer
`original`. Its actions are those of `HookLib` with what they mean to running
threads (`Patch`, `Unhook`, `Release`), `start` (`StartHooks`, `StartAssigns`,
`StartFails`) and the threads' own: `Call`, `Execute` (one instruction, fetched
from `mem` as it is at that moment), `MessageBoxA_hook_x64` (the call through the
pointer), `Return`. A thread carries the offset of the instruction of the function
that is due; executing anything else is `Lost`, and so is returning early. An
instruction written over in part does not decode: what it would run is not asked.

Nothing in the library stops other threads, so calls can be lost. `exposed` marks
a call that was met by a window: inside the bytes being overwritten, at the entry
while it is half written or half restored, in the hook before `start` stored the
pointer, in the hook or the trampoline when it is released. `LostOnlyInWindow`
says that there is no other. `memcpy` in `remove_hook` is one step in which a
thread at the entry may read a mixture.

A RIP-relative instruction comes back from `remove_hook` with the wrong operand
(its bytes are saved from the trampoline, after relocation), after which calls go
astray in any case; the bodies of this run have none.

### The builder

Offsets count from `cave_address`, and registers have the numbers of
`ZydisRegister`, on which `fit_register` computes. A stolen instruction is a
record of what rewriting tells apart: relative or not, memory or immediate, which
operand, width, the other register, whether the encoder knows a form with a
register. `Annotate` is a round of the first pass, `CopyInstruction`,
`RewriteBranch` and `RewriteData` one of `build`, by the branches of
`rewrite_instruction`. What the encoder returns is a sequence of one instruction,
or of none if it fails, which it may for an instruction that is only copied as well
(`Copied`). A LOOP is relative but no jump to `is_jump`, and becomes `push`, load and
`pop`. `Garbage` and `Leftover` are what an uninitialized `size`
and an operand that was never copied may hold.

What code does is computed on a machine whose registers, flags, stack and stored
value are terms over their initial values, so that two pieces of code have the
same effect only if they compute the same from every state.

`HookLib!build` keeps taking the result as one block: it needs only where code,
tables and jumps lie, which `Layout` secures.

### x86 hooks

`HookX86` counts as `compute_hook_size` does, in 64-bit mode: `Length64` gives
the lengths of the instructions that are others there, 0 if they are none.
`place_jump` is one step, unlike in `HookLib`. The result may be whatever its
register held, for want of a `return`. `HotPatchable` describes the prologues the
README starts from; for them all is right but that the trampoline is not returned
(`HotPatchRight`, which is about the block that was allocated).

### Concurrent hooking

`ConcurrentHooks` has one function per thread, and of it the pages its first bytes
touch. `Unprotect`, `Write`, `Reprotect` are the three lines of
`ensure_protection`; either call may fail, which nobody checks. A store to a page that
is not writable ends the process (`Running`).

`apply_hook_x64` begins with `Unprotect`, also for a function that is hooked already,
and `remove_hook` with `Find`; `UpdateBegins` and `Update` are the insert of the one
and the erase of the other. The iterator `it` is kept from `Find` to `Update`. It may
become stale: when `find` meets a change of the map that is under way, or when
another thread inserts before the erase and the table rehashes (`Rehashed`). Of what a
race on an `unordered_map` may do, the model has the lost update and, for an erase by
a stale iterator, that the entry stays; these are the mildest. `spoilt` and `raced`
mark where a window was met.

### SystemInfo

Getters check, initialize and read again. The two stores of `init` come in any
order. `AddressSpace` takes the values as constants, which `SizesKnown` and
`FieldsStable` justify.

## Runs

`tlc -config <cfg> <module>`; deadlock is checked unless noted.

| run | cfg | shows |
|---|---|---|
| `search` | `MCAllocateAround.cfg` | `TypeOK`, `JumpsReach`, `NoMissedBlock`, `NearAllocationSpec` (refinement), `SearchEnds` |
| `near_hooks` | `MCHookLibNear.cfg` | near path: `TypeOK`, `OwnTrampolines`, `NoDangling`, `HooksRoute`, `StolenCodeRunsButBranches`, `RestoresAllButRelocated`, `OnlySavedOverwritten`, `DetourSpec` (refinement), `CallsReturn` |
| `far_hooks` | `MCHookLibFar.cfg` | both paths mixed: `NoDangling`, `HooksRoute` |
| `far_padding` | `MCFarPad.cfg` | violates `HooksRoute`: the padding of a far hook starts at the function, over the jump |
| `builder` | `MCTrampolineBuilder.cfg` | `TypeOK`, `Layout`, `BranchesHitTable`, `EffectKeptIfRewritable` |
| `direct_branches` | `MCExample.cfg` | violates `EntriesLead`: a direct branch gets the address 0 |
| `hooked_calls` | `MCHookedCalls.cfg` | `CallTypeOK`, `LostOnlyInWindow`, `HookRuns`, `CallsEnd` |
| `null_original` | `MCNullOriginal.cfg` | violates `HookHasOriginal`: the hook runs before `start` has its pointer |
| `x86_hooks` | `MCHookX86.cfg` | `HotPatchRight`, `EntryLast` |
| `x86_padding` | `MCX86Pads.cfg` | violates `OnlySavedOverwritten`: padding behind the moved instructions |
| `concurrent_hooks` | `MCConcurrentHooks.cfg` | `TypeOK`, `FaultOnlyIfSpoilt`, `ProtectionKept`, `RecordsMatch` |
| `system_info` | `MCSystemInfo.cfg` | `TypeOK`, `SizesKnown`, `FieldsStable` |

Bounds of `search`: 16-byte pages, two to a granule, and rel32 reaching three
granules, so that each loop probes two blocks, one bound falls inside a granule,
a block spans two pages and can be half taken. All subsets of the pages within
reach, and of those of the first block a jump cannot reach, are tried as
initially free; other threads use one block above the function
whole and one below it in half. About 28,000 states.

Bounds of `near_hooks`: two functions, two hook functions, three blocks on both
sides of the functions, three calls of `apply_hook_x64` (`MaxCalls`) and any
number of removals. Three calls are the least that hook a function twice beside
another one, or hook, unhook and hook again beside another one; a fourth only
repeats one of these. The bodies are a prologue of exactly 5 bytes, one with a
RIP-relative instruction first, one with it across the fifth byte, one with an
operand that is in reach of the blocks above the function only, and one with a
call. The bound is also what keeps the state space finite: an instruction that is
hooked and restored over and over moves its displacement each time. Memory holds
just the cells a call can touch. About 79,000 states. Deadlock checking is off:
after the last call the system stops.

Bounds of `far_hooks`: one near and two far blocks, bodies whose instructions end
at byte 14 (other bodies run into `far_padding`), a function of three bytes with
nothing behind it, rewritten code as long as the original or longer. About 48,000
states. Deadlock checking is off for the same reason, and because hooking the short
function, or a far hook over a far hook, covers too few decodable bytes and
crashes.

Bounds of `builder`: every combination of cmp, add and mov, memory as first or
second operand, fourteen registers that differ in width, number range and need of
a prefix, an operand near and one far from address 0, with and without a register
form; and 21 mixtures of branches, data and plain instructions, among them
the largest number of branches in reach, six with something that fails to encode or
comes out shorter than counted, and three with LOOPs: the longest code with three of
them, which just fits, and with four and with seven, where it does not. A copied
instruction may fail in any of them. The operand that is never
copied may hold RAX or RCX. The same kinds of instruction in other places give
nothing new, since an instruction is rewritten by itself but for `runtime_address`
and the table. About 7,300 states.

Bounds of `hooked_calls`: one function of 12 bytes, one hook function, two blocks,
three installations, any number of removals and calls, one calling thread. Threads
only read memory and never each other, so that a second one adds no behaviour of
the first. Two bodies: a hot-patch prologue, and one whose fifth byte is inside an
instruction. About 26,000 states. The rest stops with the bound, so deadlock is not
checked.

Bounds of `x86_hooks`: six bodies, one per way the counting can go, two calls, so
that a hooked function is hooked again. Deadlock is not checked for the same reason.

Bounds of `concurrent_hooks`: three threads; two share a page, one of them lies
across two. Three are the least for a window of one pair to be open while a third
comes and goes. Five calls in all (`MaxCalls`): enough for all three to be hooked, for one of
them to be unhooked and hooked again, and for two to be unhooked, or one hooked again,
while the third is in the middle. About 3.0 million states.

Bounds of `system_info`: three threads, so that two can initialize while a third
reads.

Fairness: in `hooked_calls` every calling thread is scheduled (weak fairness of
`Run` for each); nothing is assumed of `start` or of those who remove hooks. The
search and the hooks: the thread that called into the library is scheduled (weak fairness on
the steps of a call in progress: `Search`, `Continue`). Nothing is assumed of
other threads, and not that anyone calls again. The operating system answers
every call it is given; no lock is taken, so nothing can hold a call up.

## What holds only in part

Where the code does not keep what its documentation promises in general, a property
says how far it does. The conditions below are those of the properties. Where that
contradicts what the repository's README.md promises, a finding quotes the promise,
also though the property holds: such findings name `near_hooks` (moved branches),
`builder` (high addresses without RAX; LOOPs) and `x86_hooks` (the missing result).

* `StolenCodeRunsButBranches`: moved code does what it did exactly if it is
  `Movable`. A relative branch is not, since `relocate` writes a field that the
  encoding of a branch does not have, although README.md:56-60 says that it is
  adjusted, and widened if need be; nor is an operand out of reach of the
  trampoline, whose displacement is cut to 32 bits.
* `RestoresAllButRelocated`: a RIP-relative instruction is not restored. It is about
  near hooks: the saved bytes of a far hook are the first ones of what
  `TrampolineBuilder` made, which removal writes to the function whatever they are.
* `OnlySavedOverwritten` and `DetourSpec` hold for near hooks. A far hook over a
  near one keeps the bytes saved first, and overwrites more than those.
* `HooksRoute` holds for near hooks, and for far ones that cover 14 bytes exactly.
  It takes `StoreOutcomes = {TRUE}`: the store of the far target goes into an array
  declared `const`, and a build that drops it would break every far hook.
* `Layout`: the tables stay apart whatever is stolen, but code and tables only with up to
  three LOOPs, each of which grows from 2 bytes to 12. Four may run into the jump table,
  and seven do, by 9 bytes with the jump behind them.
* `EffectKeptIfRewritable`: a data instruction keeps its effect exactly if it is
  `Rewritable`. It is not when the scratch register is the register operand (RAX is
  chosen for a cmp of memory with EAX, and may be for an operand that was never
  set), when the scratch register is not RAX and the address needs 64 bits (README.md:92 and
  117-119 would load it through the relocation table), when the
  operand is a byte (its register becomes AH or the like) or part of RSP, when
  memory is the destination, or when there is no form with a register (lea; loop,
  which is no jump to `is_jump`).
* `BranchesHitTable` holds for direct branches, if everything up to them could be
  encoded. A call through memory comes out a byte shorter than counted on; the
  seventh short branch cannot reach its entry; and after something that could not be
  encoded, `runtime_address` has grown by a stale or an uninitialized size.
  `EntriesLead` fails for every direct branch.
* `HotPatchRight` holds for `HotPatchable` prologues, and says nothing of the result,
  which is not the trampoline (README.md:43) but what a register held. Those that are not may be
  padded over (`x86_padding`), counted wrongly (instructions with another length, or
  none, in 64-bit mode) or moved without being relocated (a call).
* `LostOnlyInWindow`, `FaultOnlyIfSpoilt`, `ProtectionKept` and `RecordsMatch` name
  the windows the code leaves open, and hold outside of them.
* `NoMissedBlock` holds when `Base + Size >= Reach`, for functions above 2 GB: below,
  `low_bound` wraps around and the search downwards ends at once.

## Proofs

Checked by `tlapm` in the modules whose names end in `Proofs`, for all values of the
constants that satisfy the named assumptions.

`AllocateAroundProofs`, from `SpaceAssumption`, `HookSizesAssumption` and
`PagesAssumption` (user addresses leave 2 GB of room above, the first granule is
never mapped, a block is smaller than rel32 reaches): `SpecTypeOK`,
`SpecJumpsReach`, `SpecNoMissedBlock` (under `Reach <= Base + Size`) and
`SpecNearAllocation`, that each step is a step of `NearAllocation` or a stutter.
The invariant `SearchInv` adds to `TypeOK` the progress of the two loops (every
block between the function and `curr` has lost a page since the call began, which
is what `NoMissedBlock` needs at the end) and what `pc` says about the result.
The arithmetic of granules is in lemmas of its own; `LowBound` splits on whether
the subtraction wraps.

`HookLibProofs`, from `ReachAssumption`, `PlacesAssumption` and
`ImagesAssumption` (the first 28 bytes of a block are memory of the model):
`SpecTypeOK` and `SpecOwnTrampolines`, for any functions, blocks, memory contents
and bodies, near and far (`HookInv`). `TypeOK` is not inductive: that the bytes copied are
mapped, and no more than 28, follows from `InCall`, by which the bytes sized so
far are mapped and at most 14 more than needed; the release in `FreeTrampoline`
needs that the hook being removed is registered. The lemmas before it say that
each memory operator keeps the extent and the type of memory.

From these and `NearLayout`, in the same module: `SpecHooksRoute`, `SpecNoDangling`,
`SpecOnlySavedOverwritten`, `SpecRestoresAllButRelocated`, `SpecStolenCodeRuns` (this
one also from `WholeTexts`) and `SpecDetour`, that each step is a step of `Detour` or
a stutter. `NearLayout` says that all blocks are near and in reach, that they and the
texts of functions lie apart, that memory has room for an entry and a trampoline, and
that no function begins with a jump; texts are 29 bytes long, so that functions are at least that far
apart. `WholeTexts` says that the text of each function is
whole instructions. The module `MCHookLib` has TLC evaluate both on the instance of
`near_hooks` (`NearInstance`). `NearLayout` is needed: `SpecDetour` and
`SpecOnlySavedOverwritten` fail with far hooks, see above, and a hook on a function
that begins with a jump cannot be told from the function itself.

`HooksRoute` speaks of calls in between, and of the end of two jumps. The invariant
`RouteInv` says of every hooked function whose entry is not being written that its
jump leads to that of a trampoline, written in full, in a block which is allocated, is
not the one being built, and is not registered for another function (`Routed`). It
need not be the block in `active_hooks`, since hooking twice leaves the first entry
there; that is why it takes a statement about all blocks. For the function being
hooked, `Written` says how far its trampoline and entry are written. The rest says
that no function that is not hooked, and no saved bytes, begin with a jump, so that
restoring takes the route away; and every store is shown to leave the other
functions and blocks alone (`OthersKept`). `RouteOf` then gives the route of a
function by `pc` alone, and with it the refinement is a case per action. `SavedInv`
adds that memory behind the saved bytes is untouched, and that hooking again starts on
a jump of 5 bytes, hence covers no more than was saved first (`TailsKept`).

`CopyInv` follows the instructions themselves: the text of a function that is not
being changed, the text it had when it was last hooked, the saved bytes and the copy in
its trampoline are cell for cell the function's own, except where an instruction has a
RIP-relative operand: `relocate` writes into the copy, the saved bytes are the copy's,
and `remove_hook` writes them back to the function. Hooking again changes neither the
first copy nor the saved bytes.
`WholeInv` adds that texts and saved bytes begin and end on instruction boundaries; the
theorem about stolen code then compares, instruction by instruction, what the copy does
with what the text did, and finds them different just where something is not `Movable`.

`HookedCallsProofs`, from `CallLayout` (`NearLayout`; the function is whole
instructions without jumps, and without branches or relative operands where it is
patched; it, the blocks and the hook functions lie apart), which `MCHookedCalls` has
TLC evaluate (`CallInstance`): `SpecCallTypeOK`, `SpecLostOnlyInWindow` and
`SpecHookRuns`, for any number of threads. A call is lost in one step, but whether it
may be depends on all that happened since it began; so the invariant `CallInv` says
where a call that met no window is (`OnCourse`): in the function at the
instruction that is due and outside of what is overwritten, on the way through the
jumps to the hook, or in the stolen code of a trampoline in use. `FunctionInv` says what
the function and its trampoline look like meanwhile, and `StartInv` that `start` has
the pointer whenever no call of the library is under way. That the pointer is null only
before it is assigned needs that address 0 is not a block, which is part of
`PlacesAssumption`.

`CodeMemoryProofs` has the lemmas about memory that both need, with those on what
a jump written to memory leads to (`JumpPoked`, `JumpFollow`).

`HookX86Proofs`, from `X86Assumption` and `PlacesAssumption` (blocks lie apart from
the function's text and the jumps reach): `SpecHotPatchRight` and `SpecEntryLast`,
for any memory, blocks, instruction lengths and number of calls. The invariant says
that counting stays on the instructions of a hot-patchable prologue and so ends at
5 (`Counting`), and which cells have been written when (`Written`); the
trampoline's jump and the entry survive each other's stores because blocks and
function lie apart.

`TrampolineBuilderProofs`, from `BodiesAssumption` and `NumbersAssumption`:
`SpecTypeOK`, `SpecBranchesHitTable`, `SpecLayout`, for every body and whichever
encodings fail, and `SpecEffectKept` from `EqualOperands`. The invariant for
`SpecLayout` bounds the bytes encoded by the bytes stolen (`Sized`): an instruction of
n bytes becomes at most n + 8 with a memory operand, which has at least 6 bytes, n +
10 if it is a LOOP, which has at least 2, and n otherwise (`Grows`). So d of the first
kind and l of the second grow by 8d + 10l at most; and since all but the last
end below byte 14, 6d + 2l is at most 13 before the last. Likewise the table has at
most as many entries as branches were stolen.

Branches hit their table entries because `runtime_address` is `size` as long as
everything was encoded as counted, and the tables have two entries more than branches
were rewritten (`HitInv`). For the effect of data instructions, `Emitted` says which
instructions the rewriting may have written: push, load, the operation and pop, with
RAX, RCX or RDX as scratch register, and `Placed` that the absolute address is the
operand's. Running them is the recursive function of `After`, which is shown to exist
for code as short as this. `MovedEffect` and `MissingEffect` then compare the two
machines, in the cases of `Rewritable` and in all others: the theorem says not only that
effects are kept but also that they are lost in every other case. `EqualOperands` says
that an immediate operand comes second and that a register operand is as wide as the one
that replaces memory where there is such a form; TLC evaluates it on the instance
of `builder` (`OperandsInstance`), which has a movzx in it that is of no such form.

`ConcurrentHooksProofs`, from `RegionAssumption` and `MaxCallsAssumption`: all four properties, for any
number of threads, pages and calls. `PageInv` says that outside of `spoilt` only one thread
is inside `ensure_protection` for a page, and that it holds the page's own
protection in `old_protection`; `MapInv` that outside of `raced` what a thread read
of the map is still true of its own entry (`SeenInv`), and the iterator it holds
is valid; and that the bytes of a function are overwritten exactly by a thread that
then inserts (`IteratorInv`).

`SystemInfoProofs`, from no assumption but the module's: `SpecTypeOK`,
`SpecSizesKnown`, `SpecFieldsStable`.

Only model-checked: `HooksRoute` and `NoDangling` for far hooks (`far_hooks`), whose
argument by near layout does not apply, and liveness (`SearchEnds`, `CallsReturn`,
`CallsEnd`; liveness under fairness is out of the prover's reach). Every other property
of a passing run is a theorem. No module with a theorem is recursive.

## Not modelled

* `EnumMappings` formats Windows constants as text, and nothing calls it. Error
  texts, console output, `ZydisUtils::encode_and_format`, `to_string` and
  `SystemInfo::last_error_string` have no effect on state.
* `lib/Zydis/Zydis.h` is the vendored header of another project, nearly 12,000 lines
  of declarations; its code is not in the repository. Its decoder and encoder are
  modelled from how the library uses them.
* `DllMain` only starts the thread of `start`. The `HookLib` of `start` is a local
  that is destroyed when `start` returns; `HookedCalls` lets it live on, which is the
  harder case, since hooks can then be removed.
* A `memcpy` or `memset` is one step; only the two stores of `place_jump`, and
  fetching the entry during `remove_hook`'s `memcpy`, are split.
* Of undefined behaviour, what the models take: either outcome of the store into a
  const array, lost updates of the map and entries left by stale iterators, any
  result of a function without `return`, any value in the builder's uninitialized
  variables, and in `old_protection` one of the two protections that pages have: any
  other value makes the second `VirtualProtect` fail, which is a step as well.
* A trampoline that no entry records, after a function was hooked twice, is never
  released (`HookLib/HookLib.h:53, 103`). Nothing says that it should be, so no
  property does.

## Plan

What is left to prove is `HooksRoute` and `NoDangling` for far hooks that cover 14
bytes exactly, next to near ones: `Routed` has to allow for an entry of 14 bytes that
leads to the hook function in one jump, and `NearLayout` for blocks out of reach.
