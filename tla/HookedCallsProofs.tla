-------------------------- MODULE HookedCallsProofs --------------------------
(***************************************************************************)
(* Proofs about HookedCalls, for any number of threads and any function of *)
(* CallLayout: a thread that met none of the windows in which the library  *)
(* takes no care of running threads is on course, and runs the hook when   *)
(* it should.                                                              *)
(***************************************************************************)
EXTENDS HookedCalls, HookLibProofs

-----------------------------------------------------------------------------
(* The inductive invariant *)

Hooked == Entry \in DOMAIN active_hooks

\* The trampoline of the function, registered or to be, and how many bytes of the
\* function it stands for.
Block  == IF Hooked THEN active_hooks[Entry].trampoline ELSE loc.tramp
Stolen == IF Hooked THEN Len(active_hooks[Entry].original_bytes) ELSE size

\* The entry is a jump to the hook.
Diverted == Entered \/ (Hooked /\ pc = "idle")

\* The first n bytes of the function are whole instructions that can be moved.
Covers(n) ==
  /\ n \in 0 .. TextLen /\ Boundary(pristine, n)
  /\ \A o \in 0 .. n - 1 : At(pristine, Entry + o).op \notin RelDisp \cup RelImm

\* From offset n on the function is as it was at the start.
TextFrom(n) == \A o \in n .. TextLen - 1 : mem[Entry + o] = pristine[Entry + o]

Changed == IF pc = "disp" THEN 1 ELSE IF Diverted THEN Stolen ELSE 0

FunctionInv ==
  /\ IF Hooked THEN pc \in {"idle", "free"} ELSE active_hooks = << >>
  /\ Calling \/ Hooked => Stolen <= 19 /\ Covers(Stolen)
  /\ Calling /\ size < 5 => pc = "sizing"
  /\ TextFrom(Changed)
  /\ Hooked => \E t \in Targets : Trampoline(mem, Block, Stolen, t)
  /\ Hooked /\ pc = "idle" => JumpAt(mem, Entry, Block + Stolen + 5)

\* start waits for the call it makes, and then has the address of the trampoline.
StartInv ==
  /\ Calling => applying
  /\ pc = "free" => ~applying
  /\ applying /\ pc = "idle" => Hooked
  /\ Hooked /\ ~applying => original = Block

\* Offset d is inside the bytes being overwritten.
Hidden(d) == 0 < d /\ d < Stolen /\ (pc = "disp" \/ Diverted)

\* Where a call may be that met no window: in the function, between its entry and
\* the hook, or in the stolen code.
InFunction(c) ==
  \/ c.at = End /\ c.due = TextLen
  \/ c.due < TextLen /\ c.at = Entry + c.due /\ ~Hidden(c.due)

ToHook(c) ==
  (Entered \/ Hooked) /\ c.due = 0 /\ (c.at = Block + Stolen + 5 \/ c.at \in Targets)

InStolen(c) == Hooked /\ c.due <= Stolen /\ c.at = Block + c.due

OnCourse(c) ==
  /\ c.at = Outside \/ InFunction(c) \/ ToHook(c) \/ InStolen(c)
  /\ c.owed /\ ~c.hooked => ToHook(c) \/ (c.at = Entry /\ Hooked /\ pc = "idle")

ThreadInv(c) == Boundary(pristine, c.due) /\ (~c.exposed => OnCourse(c))

ThreadsInv == \A t \in Threads : ThreadInv(threads[t])

CallInv == CopyInv /\ FunctionInv /\ StartInv /\ CallTypeOK /\ ThreadsInv

-----------------------------------------------------------------------------
(* Places *)

LEMMA TheFunction ==
  /\ Functions = {Entry} /\ FarBlocks = {} /\ Entry \in Nat /\ Entry # 0
  /\ Function = Entry /\ Targets \subseteq Nat /\ Entry \in Functions
<1>1. PICK f \in Functions : Functions = {f} /\ FarBlocks = {}
  BY OneFunction
<1>2. Entry = f
  BY <1>1 DEF Entry, Function
<1> QED BY <1>1, <1>2, PlacesAssumption DEF Entry

LEMMA Layout ==
  ASSUME CallLayout, CopyInv
  PROVE  /\ NearLayout
         /\ TextLen \in Nat /\ TextLen >= 5 /\ End = Entry + TextLen /\ End \in Nat
         /\ End \notin Targets
         /\ DOMAIN mem = DOMAIN pristine /\ DOMAIN mem \subseteq Nat
         /\ DOMAIN mem \cap (Targets \cup {End}) = {}
         /\ \A o \in 0 .. TextLen - 1 : Entry + o \in DOMAIN mem
         /\ Boundary(pristine, 0)
<1>1. pristine \in Images /\ DOMAIN mem = DOMAIN pristine /\ NearLayout
  BY CopyTypes, StateTypes DEF CallLayout
<1>2. /\ DOMAIN pristine \subseteq Nat /\ DOMAIN pristine \cap (Targets \cup {End}) = {}
      /\ Entry .. End - 1 \subseteq DOMAIN pristine /\ Boundary(pristine, 0)
  BY <1>1 DEF CallLayout
<1>3. TextLen \in Nat /\ TextLen >= 5 /\ End = Entry + TextLen /\ End \notin Targets
  BY DEF CallLayout, End, Entry
<1>4. End \in Nat /\ \A o \in 0 .. TextLen - 1 : Entry + o \in Entry .. End - 1
  BY <1>3, TheFunction
<1> QED BY <1>1, <1>2, <1>3, <1>4

\* The function and a block have no cell in common.
LEMMA WholeTextApart ==
  ASSUME CallLayout, CopyInv, NEW b \in NearBlocks, NEW o \in 0 .. TextLen - 1
  PROVE  ~InBlock(b, Entry + o)
<1>1. End <= b \/ b + BlockSize <= Entry
  BY DEF CallLayout
<1>2. /\ End = Entry + TextLen /\ Entry \in Nat /\ TextLen \in Nat
      /\ b \in Int /\ BlockSize \in Nat
  BY Layout, TheFunction, Places
<1> QED BY <1>1, <1>2 DEF InBlock

-----------------------------------------------------------------------------
(* Instructions of the function *)

LEMMA PristineText ==
  ASSUME CallLayout, CopyInv, NEW o \in 0 .. TextLen - 1, Boundary(pristine, o),
         NEW i, i = At(pristine, Entry + o)
  PROVE  /\ i.len \in Nat /\ o + i.len <= TextLen /\ Boundary(pristine, o + i.len)
         /\ pristine[Entry + o] = <<i, 0>>
         /\ \A k \in 0 .. i.len - 1 : pristine[Entry + o + k] = <<i, k>>
         /\ i.op \notin {"code", "ptr", "zero", "unmapped", "jmp", "qjmp"}
         /\ o < 5 => i.op \notin RelDisp \cup RelImm
<1>1. pristine \in Images /\ NearLayout /\ Entry + o \in DOMAIN pristine
  BY Layout, CopyTypes, StateTypes
<1>2. pristine[Entry + o] \in Cell
  BY <1>1, ImagesAssumption
<1>3. pristine[Entry + o][2] = 0
  BY DEF Boundary
<1>4. i \in Instruction /\ pristine[Entry + o] = <<i, 0>>
  BY <1>2, <1>3 DEF Cell, At
<1>5. /\ Decodes(pristine, Entry + o) /\ ~IsJump(pristine[Entry + o])
      /\ Boundary(pristine, o + i.len)
      /\ o < 5 => i.op \notin RelDisp \cup RelImm
  BY <1>1, <1>3 DEF CallLayout
<1>6. i.len \in Nat
  BY <1>4 DEF Instruction
<1>7. o + i.len <= TextLen
  BY <1>5, <1>6, Layout DEF Boundary
<1>8. \A k \in 0 .. i.len - 1 : pristine[Entry + o + k] = <<i, k>>
  BY <1>5 DEF Decodes, Intact
<1>9. i.op \notin {"code", "ptr", "zero", "unmapped", "jmp", "qjmp"}
  BY <1>5 DEF Decodes, IsJump, At
<1> QED BY <1>4, <1>5, <1>6, <1>7, <1>8, <1>9

\* Where its cells stand, the instruction decodes.
LEMMA TextDecodes ==
  ASSUME CallLayout, CopyInv, NEW o \in 0 .. TextLen - 1, Boundary(pristine, o),
         NEW m, NEW a \in Int, a \in DOMAIN m, m[a] = pristine[Entry + o],
         \A k \in 0 .. At(pristine, Entry + o).len - 1 :
           a + k \in DOMAIN m /\ m[a + k] = pristine[Entry + (o + k)]
  PROVE  Decodes(m, a) /\ At(m, a) = At(pristine, Entry + o)
<1>1. PICK i : i = At(pristine, Entry + o)
  OBVIOUS
<1>2. /\ i.len \in Nat /\ pristine[Entry + o] = <<i, 0>>
      /\ \A k \in 0 .. i.len - 1 : pristine[Entry + o + k] = <<i, k>>
      /\ i.op \notin {"code", "ptr", "zero", "unmapped"}
  BY <1>1, PristineText
<1>3. At(m, a) = i /\ m[a][2] = 0
  BY <1>2 DEF At
<1>4. ASSUME NEW k \in 0 .. i.len - 1
      PROVE  a + k \in DOMAIN m /\ m[a + k] = <<i, k>>
  <2>1. Entry + (o + k) = Entry + o + k
    BY <1>2, TheFunction
  <2> QED BY <1>1, <1>2, <2>1
<1> QED BY <1>1, <1>2, <1>3, <1>4 DEF Decodes, Intact

\* An instruction that begins before a boundary ends there or before.
LEMMA WithinBoundary ==
  ASSUME CallLayout, CopyInv, NEW n \in 0 .. TextLen, Boundary(pristine, n),
         NEW o \in 0 .. n - 1, Boundary(pristine, o)
  PROVE  o + At(pristine, Entry + o).len <= n
<1>1. PICK i : i = At(pristine, Entry + o)
  OBVIOUS
<1>2. TextLen \in Nat /\ o \in 0 .. TextLen - 1 /\ n \in Nat
  BY Layout
<1>3. /\ i.len \in Nat /\ o + i.len <= TextLen
      /\ \A k \in 0 .. i.len - 1 : pristine[Entry + o + k] = <<i, k>>
  BY <1>1, <1>2, PristineText
<1>4. ASSUME o + i.len > n
      PROVE  FALSE
  <2>1. n < TextLen /\ n - o \in 0 .. i.len - 1 /\ n - o # 0
    BY <1>2, <1>3, <1>4
  <2>2. Entry + o + (n - o) = Entry + n
    BY <1>2, TheFunction
  <2>3. pristine[Entry + n] = <<i, n - o>>
    BY <1>3, <2>1, <2>2
  <2>4. pristine[Entry + n][2] = 0
    BY <1>2, <2>1 DEF Boundary
  <2> QED BY <2>1, <2>3, <2>4
<1> QED BY <1>1, <1>2, <1>3, <1>4

-----------------------------------------------------------------------------
(* What the invariant says of the function *)

LEMMA CallFacts ==
  ASSUME CallLayout, CopyInv, FunctionInv, Calling
  PROVE  /\ ~Hooked /\ loc.fn = Entry /\ loc.tramp \in NearBlocks /\ size \in 0 .. 19
         /\ Block = loc.tramp /\ Stolen = size /\ Covers(size) /\ ~loc.far
         /\ Patching => Trampoline(mem, loc.tramp, size, loc.target)
         /\ loc.target \in Targets
<1>1. ~Hooked
  BY DEF FunctionInv, Calling
<1>2. /\ loc.fn \in Functions /\ loc.tramp \in NearBlocks /\ size \in 0 .. 19 /\ ~loc.far
      /\ loc.target \in Targets
  BY CopyTypes, Layout, CallPlaces
<1>3. Patching => Trampoline(mem, loc.tramp, size, loc.target)
  BY CopyTypes, Layout DEF RouteInv, Written
<1>4. Covers(Stolen)
  BY DEF FunctionInv
<1> QED BY <1>1, <1>2, <1>3, <1>4, TheFunction DEF Block, Stolen

LEMMA HookFacts ==
  ASSUME CallLayout, CopyInv, FunctionInv, Hooked
  PROVE  /\ Block \in NearBlocks /\ Block \in Int /\ Stolen \in 5 .. 19
         /\ Covers(Stolen)
         /\ Block = active_hooks[Entry].trampoline
         /\ Stolen = Len(active_hooks[Entry].original_bytes)
         /\ pc \in {"idle", "free"}
<1>1. Block = active_hooks[Entry].trampoline /\ Stolen = Len(active_hooks[Entry].original_bytes)
  BY DEF Block, Stolen
<1>2. Block \in NearBlocks /\ Block \in Int
  BY <1>1, CopyTypes, StateTypes, Layout, Places DEF RouteInv, Hooked
<1>3. TailKept(Entry)
  BY DEF CopyInv, SavedInv, TailsKept, Hooked
<1>4. PICK n \in 5 .. MaxStolen : Len(active_hooks[Entry].original_bytes) = n
  BY <1>3 DEF TailKept
<1>5. Stolen <= 19 /\ Covers(Stolen) /\ pc \in {"idle", "free"}
  BY DEF FunctionInv
<1>6. Stolen \in 5 .. 19
  BY <1>1, <1>4, <1>5 DEF MaxStolen
<1> QED BY <1>1, <1>2, <1>5, <1>6

\* No stolen instruction was relocated: the trampoline begins with the bytes that the
\* function had at the start, and these are saved.
LEMMA StolenCells ==
  ASSUME CallLayout, CopyInv, FunctionInv, Hooked
  PROVE  /\ \A o \in 0 .. Stolen - 1 :
              /\ Block + o \in DOMAIN mem /\ mem[Block + o] = pristine[Entry + o]
              /\ active_hooks[Entry].original_bytes[o + 1] = pristine[Entry + o]
         /\ JumpAt(mem, Block + Stolen, Entry + Stolen)
<1>1. PICK b \in NearBlocks : b = Block
  BY HookFacts
<1>2. PICK n \in 5 .. 19 : n = Stolen
  BY HookFacts
<1>3. TakenClean(Entry) /\ EntryCopied(Entry)
  BY DEF CopyInv, CopiesKept, Hooked
<1>4. PICK s : s = active_hooks[Entry].original_bytes
  OBVIOUS
<1>5. Copied(mem, taken[Entry], Entry, b, n) /\ \A o \in 0 .. n - 1 : s[o + 1] = mem[b + o]
  BY <1>1, <1>2, <1>3, <1>4, HookFacts DEF EntryCopied
<1>6. PICK T : T = taken[Entry]
  OBVIOUS
<1>7. ASSUME NEW o \in 0 .. n - 1
      PROVE  b + o \in DOMAIN mem /\ mem[b + o] = pristine[Entry + o]
  <2>1. o \in DOMAIN T /\ b + o \in DOMAIN mem /\ mem[b + o] = MovedCell(T[o], Entry, b)
    BY <1>5, <1>6 DEF Copied
  <2>2. At(pristine, Entry + o).op \notin RelDisp
    BY <1>2, HookFacts DEF Covers
  <2>3. T[o] = pristine[Entry + o]
    BY <1>3, <1>6, <2>1, <2>2 DEF TakenClean
  <2>4. T[o][1].op \notin RelDisp
    BY <2>2, <2>3 DEF At
  <2> QED BY <2>1, <2>3, <2>4 DEF MovedCell
<1>8. JumpAt(mem, b + n, Entry + n)
  BY <1>5 DEF Copied
<1> QED BY <1>1, <1>2, <1>4, <1>5, <1>7, <1>8

LEMMA TextFromKept ==
  ASSUME CallLayout, CopyInv, NEW n \in Nat, TextFrom(n), NEW k \in Nat, n <= k,
         pristine' = pristine,
         \A x \in DOMAIN mem : x \in Entry + k .. End - 1 => mem'[x] = mem[x]
  PROVE  TextFrom(k)'
<1> SUFFICES ASSUME NEW o \in k .. TextLen - 1
             PROVE  mem'[Entry + o] = pristine'[Entry + o]
  BY DEF TextFrom
<1>1. TextLen \in Nat /\ End = Entry + TextLen /\ Entry \in Nat
  BY Layout, TheFunction
<1>2. o \in 0 .. TextLen - 1 /\ o \in n .. TextLen - 1
  BY <1>1
<1>3. mem[Entry + o] = pristine[Entry + o] /\ Entry + o \in DOMAIN mem
  BY <1>2, Layout DEF TextFrom
<1>4. Entry + o \in Entry + k .. End - 1
  BY <1>1
<1> QED BY <1>3, <1>4

\* A write to a block leaves the function alone.
LEMMA BlockWrite ==
  ASSUME CallLayout, CopyInv, NEW b \in NearBlocks, NEW n \in Nat, TextFrom(n),
         pristine' = pristine,
         \A x \in DOMAIN mem : ~InBlock(b, x) => mem'[x] = mem[x]
  PROVE  TextFrom(n)'
<1>1. TextLen \in Nat /\ End = Entry + TextLen /\ Entry \in Nat
  BY Layout, TheFunction
<1>2. ASSUME NEW x \in DOMAIN mem, x \in Entry + n .. End - 1
      PROVE  mem'[x] = mem[x]
  <2>1. x - Entry \in 0 .. TextLen - 1 /\ Entry + (x - Entry) = x
    BY <1>1, <1>2
  <2>2. ~InBlock(b, x)
    BY <2>1, WholeTextApart
  <2> QED BY <2>2
<1> QED BY <1>2, TextFromKept

-----------------------------------------------------------------------------
(* Steps of the library *)

LEMMA LibraryStep == [CallNext]_<<vars, callVars>> => [Next]_vars
<1>1. Function \in Functions
  BY TheFunction
<1> SUFFICES ASSUME CallNext PROVE Next \/ UNCHANGED vars
  BY DEF vars, callVars
<1>2. CASE StartHooks
  BY <1>1, <1>2 DEF StartHooks, Next
<1>3. CASE Unhook
  BY <1>1, <1>3 DEF Unhook, Next
<1>4. CASE Prepare
  BY <1>4 DEF Prepare, Next, Continue
<1>5. CASE Patch
  BY <1>5 DEF Patch, Next, Continue
<1>6. CASE Release
  BY <1>6 DEF Release, Next, Continue
<1>7. CASE StartAssigns \/ StartFails
  BY <1>7 DEF StartAssigns, StartFails
<1>8. ASSUME NEW t \in Threads, Call(t) \/ Run(t)
      PROVE  UNCHANGED vars
  BY <1>8 DEF Call, Run, Return, Execute, MessageBoxA_hook_x64, Step
<1> QED BY <1>2, <1>3, <1>4, <1>5, <1>6, <1>7, <1>8 DEF CallNext

LEMMA CopyStep ==
  ASSUME CallLayout, CopyInv, [CallNext]_<<vars, callVars>> PROVE CopyInv'
BY LibraryStep, NextCopy DEF CallLayout

LEMMA StartHooksFunction ==
  ASSUME CallLayout, CopyInv, FunctionInv, StartHooks PROVE FunctionInv'
<1>1. PICK t \in Targets : ApplyHookX64(Entry, t)
  BY TheFunction DEF StartHooks
<1>2. PICK far \in BOOLEAN : \E b \in (IF far THEN FarBlocks ELSE NearBlocks) \ live :
        mem' = Fill(mem, b, BlockSize, Zero)
  BY <1>1 DEF ApplyHookX64
<1>3. PICK b \in NearBlocks : mem' = Fill(mem, b, BlockSize, Zero)
  BY <1>2, TheFunction
<1>4. /\ pc = "idle" /\ pc' = "sizing" /\ size' = 0 /\ active_hooks = << >>
      /\ UNCHANGED <<active_hooks, pristine>>
  BY <1>1 DEF ApplyHookX64, StartHooks
<1>5. ~Hooked /\ ~Hooked'
  BY <1>4 DEF Hooked
<1>6. TextFrom(0)
  BY <1>4, <1>5 DEF FunctionInv, Changed, Diverted, Entered
<1>7. \A x \in DOMAIN mem : ~InBlock(b, x) => mem'[x] = mem[x]
  BY <1>3 DEF Fill, InBlock
<1>8. TextFrom(0)'
  BY <1>4, <1>6, <1>7, BlockWrite
<1>9. Changed' = 0 /\ Stolen' = 0 /\ Calling'
  BY <1>4, <1>5 DEF Changed, Diverted, Entered, Stolen, Calling
<1>10. Covers(0)'
  BY <1>4, Layout DEF Covers, Boundary
<1> QED BY <1>4, <1>5, <1>8, <1>9, <1>10 DEF FunctionInv

\* While it counts, the library decodes instructions of the function.
LEMMA SizingText ==
  ASSUME CallLayout, CopyInv, FunctionInv, pc = "sizing", size < 5
  PROVE  /\ size \in 0 .. TextLen - 1 /\ Boundary(pristine, size)
         /\ Decodes(mem, Entry + size)
         /\ At(mem, Entry + size) = At(pristine, Entry + size)
<1>1. Calling
  BY DEF Calling
<1>2. /\ size \in 0 .. 19 /\ Covers(size) /\ ~Hooked
  BY <1>1, CallFacts
<1>3. TextFrom(0)
  BY <1>2 DEF FunctionInv, Changed, Diverted, Entered
<1>4. size \in 0 .. TextLen - 1 /\ Boundary(pristine, size)
  BY <1>2, Layout DEF Covers
<1>5. PICK o \in 0 .. TextLen - 1 : o = size
  BY <1>4
<1>6. PICK i : i = At(pristine, Entry + o)
  OBVIOUS
<1>7. i.len \in Nat /\ o + i.len <= TextLen
  BY <1>4, <1>5, <1>6, PristineText
<1>8. Entry + o \in DOMAIN mem /\ mem[Entry + o] = pristine[Entry + o] /\ Entry \in Nat
  BY <1>3, Layout, TheFunction DEF TextFrom
<1>9. ASSUME NEW k \in 0 .. i.len - 1
      PROVE  (Entry + o) + k \in DOMAIN mem /\ mem[(Entry + o) + k] = pristine[Entry + (o + k)]
  <2>1. o + k \in 0 .. TextLen - 1 /\ (Entry + o) + k = Entry + (o + k)
    BY <1>7, <1>8, Layout
  <2> QED BY <1>3, <2>1, Layout DEF TextFrom
<1>10. Boundary(pristine, o) /\ Entry + o \in Int
  BY <1>4, <1>5, <1>8
<1>11. Decodes(mem, Entry + o) /\ At(mem, Entry + o) = At(pristine, Entry + o)
  BY <1>6, <1>8, <1>9, <1>10, TextDecodes
<1> QED BY <1>4, <1>5, <1>11

LEMMA DisassembleFunction ==
  ASSUME CallLayout, CopyInv, FunctionInv, Disassemble PROVE FunctionInv'
<1>1. /\ pc = "sizing" /\ pc' = pc /\ size < needed_size
      /\ UNCHANGED <<loc, active_hooks, mem, pristine>>
  BY DEF Disassemble, history
<1>2. Calling /\ Calling'
  BY <1>1 DEF Calling
<1>3. needed_size = 5 /\ loc.fn = Entry /\ ~Hooked /\ Covers(size) /\ size \in 0 .. 19
  BY <1>2, CallFacts DEF needed_size
<1>4. /\ size \in 0 .. TextLen - 1 /\ Boundary(pristine, size) /\ Decodes(mem, Entry + size)
      /\ At(mem, Entry + size) = At(pristine, Entry + size)
  BY <1>1, <1>3, SizingText
<1>5. PICK o \in 0 .. TextLen - 1 : o = size
  BY <1>4
<1>6. PICK i : i = At(pristine, Entry + o)
  OBVIOUS
<1>7. size' = o + i.len
  BY <1>3, <1>4, <1>5, <1>6 DEF Disassemble
<1>8. /\ i.len \in Nat /\ o + i.len <= TextLen /\ Boundary(pristine, o + i.len)
      /\ \A k \in 0 .. i.len - 1 : pristine[Entry + o + k] = <<i, k>>
      /\ i.op \notin RelDisp \cup RelImm
  BY <1>1, <1>3, <1>4, <1>5, <1>6, PristineText
<1>9. ASSUME NEW q \in 0 .. o + i.len - 1
      PROVE  At(pristine, Entry + q).op \notin RelDisp \cup RelImm
  <2>1. CASE q < o
    BY <1>3, <1>5, <2>1 DEF Covers
  <2>2. CASE q >= o
    <3>1. q - o \in 0 .. i.len - 1 /\ Entry + o + (q - o) = Entry + q
      BY <1>8, <2>2, TheFunction
    <3>2. pristine[Entry + q] = <<i, q - o>>
      BY <1>8, <3>1
    <3> QED BY <1>8, <3>2 DEF At
  <2> QED BY <1>8, <2>1, <2>2
<1>10. Covers(o + i.len)'
  <2>1. o + i.len \in 0 .. TextLen
    BY <1>8, Layout
  <2> QED BY <1>1, <1>8, <1>9, <2>1 DEF Covers, Boundary
<1>11. CopyInv'
  <2>1. [CallNext]_<<vars, callVars>> \/ [Next]_vars
    BY DEF Next, Continue
  <2> QED BY <2>1, Layout, NextCopy, CopyStep
<1>12. size' <= 19
  <2>1. TypeOK' /\ InCall' /\ loc'.far = FALSE
    BY <1>1, <1>2, <1>11, CallFacts DEF CopyInv, SavedInv, RouteInv, HookInv
  <2> QED BY <1>2, <2>1 DEF TypeOK, InCall, Calling, needed_size, MaxStolen
<1>13. ~Hooked' /\ Stolen' = size' /\ Changed' = 0 /\ Changed = 0
  BY <1>1, <1>3 DEF Hooked, Stolen, Changed, Diverted, Entered
<1>14. TextFrom(0)'
  BY <1>1, <1>13 DEF FunctionInv, TextFrom
<1> QED BY <1>1, <1>3, <1>7, <1>10, <1>12, <1>13, <1>14 DEF FunctionInv, Hooked

LEMMA EndSizingFunction ==
  ASSUME CallLayout, CopyInv, FunctionInv, EndSizing PROVE FunctionInv'
<1>1. /\ pc = "sizing" /\ pc' = "build"
      /\ size >= needed_size \/ ~Decodes(mem, loc.fn + size)
      /\ UNCHANGED <<loc, size, active_hooks, mem, pristine>>
  BY DEF EndSizing, history
<1>2. Calling
  BY <1>1 DEF Calling
<1>3. /\ needed_size = 5 /\ loc.fn = Entry /\ ~Hooked /\ Covers(size) /\ size \in 0 .. 19
  BY <1>2, CallFacts DEF needed_size
<1>4. size >= 5
  BY <1>1, <1>3, SizingText
<1>5. ~Hooked' /\ Stolen' = size /\ Changed' = 0 /\ Changed = 0
  BY <1>1, <1>3 DEF Hooked, Stolen, Changed, Diverted, Entered
<1>6. TextFrom(0)' /\ Covers(size)'
  BY <1>1, <1>3, <1>5 DEF FunctionInv, TextFrom, Covers, Boundary
<1> QED BY <1>1, <1>3, <1>4, <1>5, <1>6 DEF FunctionInv, Hooked

\* The steps that write memory for a call: they keep what it knows of the function.
LEMMA WriteFunction ==
  ASSUME CallLayout, CopyInv, FunctionInv, Calling, Calling', size >= 5,
         UNCHANGED <<loc, size, active_hooks, pristine>>,
         NEW k, k = IF pc' = "disp" THEN 1 ELSE IF Entered' THEN size ELSE 0, TextFrom(k)'
  PROVE  FunctionInv'
<1>1. ~Hooked /\ ~Hooked' /\ Covers(size) /\ size \in 0 .. 19
  BY CallFacts DEF Hooked
<1>2. /\ Stolen' = size /\ Covers(size)'
      /\ Changed' = k
  BY <1>1 DEF Stolen, Covers, Boundary, Changed, Diverted
<1> QED BY <1>1, <1>2 DEF FunctionInv, Hooked

LEMMA BuildNearFunction ==
  ASSUME CallLayout, CopyInv, FunctionInv, BuildNear PROVE FunctionInv'
<1>1. /\ pc = "build" /\ pc' = "patch"
      /\ UNCHANGED <<loc, size, active_hooks, pristine>>
  BY DEF BuildNear, history
<1>2. Calling /\ Calling'
  BY <1>1 DEF Calling
<1>3. loc.tramp \in NearBlocks /\ size \in 0 .. 19 /\ size >= 5 /\ ~Hooked
  BY <1>1, <1>2, CallFacts DEF FunctionInv
<1>4. \A x \in DOMAIN mem : ~InBlock(loc.tramp, x) => mem'[x] = mem[x]
  BY CopyTypes, Layout, BuildNearCells
<1>5. TextFrom(0)
  BY <1>1, <1>3 DEF FunctionInv, Changed, Diverted, Entered
<1>6. TextFrom(0)'
  BY <1>1, <1>3, <1>4, <1>5, BlockWrite
<1>7. 0 = IF pc' = "disp" THEN 1 ELSE IF Entered' THEN size ELSE 0
  BY <1>1 DEF Entered
<1> QED BY <1>1, <1>2, <1>3, <1>6, <1>7, WriteFunction

\* Only the first byte is written by the first store.
LEMMA OpcodeWrite ==
  ASSUME CallLayout, CopyInv, FunctionInv, PlaceOpcode
  PROVE  \A x \in DOMAIN mem : x # Entry => mem'[x] = mem[x]
<1>1. pc = "patch" /\ mem' = Poke(mem, loc.fn, Peek(EntryJump, 1, 1))
  BY DEF PlaceOpcode
<1>2. Calling
  BY <1>1 DEF Calling
<1>3. loc.fn = Entry /\ Entry \in Int /\ DOMAIN mem \subseteq Int
  BY <1>2, CallFacts, Layout, TheFunction, CopyTypes
<1>4. Len(Peek(EntryJump, 1, 1)) = 1
  BY <1>1, CopyTypes, Layout, StoreTypes
<1>5. PICK s : s = Peek(EntryJump, 1, 1)
  OBVIOUS
<1>6. mem' = Poke(mem, Entry, s) /\ Len(s) = 1
  BY <1>1, <1>3, <1>4, <1>5
<1> QED BY <1>3, <1>6 DEF Poke

LEMMA PatchFunction ==
  ASSUME CallLayout, CopyInv, FunctionInv, PlaceOpcode \/ PlaceDisp \/ PadNops
  PROVE  FunctionInv'
<1>1. /\ Calling /\ Calling' /\ pc # "sizing"
      /\ UNCHANGED <<loc, size, active_hooks, pristine>>
  BY DEF PlaceOpcode, PlaceDisp, PadNops, Calling, history
<1>2. /\ size \in 5 .. 19 /\ loc.fn = Entry /\ ~Hooked /\ Stolen = size
      /\ Entry \in Nat /\ TextLen \in Nat /\ End = Entry + TextLen
  BY <1>1, CallFacts, Layout, TheFunction DEF FunctionInv
<1>3. CASE PlaceOpcode
  <2>1. pc = "patch" /\ pc' = "disp"
    BY <1>3 DEF PlaceOpcode
  <2>2. TextFrom(0)
    BY <1>2, <2>1 DEF FunctionInv, Changed, Diverted, Entered
  <2>3. \A x \in DOMAIN mem : x \in Entry + 1 .. End - 1 => mem'[x] = mem[x]
    BY <1>2, <1>3, OpcodeWrite
  <2>4. TextFrom(1)'
    BY <1>1, <2>2, <2>3, TextFromKept
  <2>5. 1 = IF pc' = "disp" THEN 1 ELSE IF Entered' THEN size ELSE 0
    BY <2>1
  <2> QED BY <1>1, <1>2, <2>4, <2>5, WriteFunction
<1>4. CASE PlaceDisp \/ PadNops
  <2>1. pc \in {"disp", "nops"} /\ pc' \in {"nops", "record", "crashed"}
    BY <1>4 DEF PlaceDisp, PadNops
  <2>2. PICK n \in {1, size} : TextFrom(n)
    BY <1>2, <2>1 DEF FunctionInv, Changed, Diverted, Entered
  <2>3. Overwritten = size
    BY <1>2 DEF Overwritten
  <2>4. \A x \in DOMAIN mem : x \notin Entry .. Entry + size - 1 => mem'[x] = mem[x]
    BY <1>2, <1>4, <2>3, CopyTypes, Layout, StoreWrites
  <2>5. \A x \in DOMAIN mem : x \in Entry + size .. End - 1 => mem'[x] = mem[x]
    BY <1>2, <2>4
  <2>6. PICK k \in 5 .. 19 : k = size
    BY <1>2
  <2>7. TextFrom(k)'
    BY <1>1, <1>2, <2>2, <2>5, <2>6, TextFromKept
  <2>8. k = IF pc' = "disp" THEN 1 ELSE IF Entered' THEN size ELSE 0
    BY <2>1, <2>6 DEF Entered
  <2> QED BY <1>1, <1>2, <2>7, <2>8, WriteFunction
<1> QED BY <1>3, <1>4

\* The hook that is registered is the one that the call has built.
LEMMA RecordHook ==
  ASSUME CallLayout, CopyInv, FunctionInv, Record
  PROVE  /\ ~Hooked /\ Hooked' /\ Block' = loc.tramp /\ Stolen' = size /\ size \in 5 .. 19
         /\ active_hooks'[Entry].trampoline = loc.tramp
<1>1. /\ pc = "record" /\ UNCHANGED <<mem, pristine>>
      /\ active_hooks' = [g \in DOMAIN active_hooks \cup {loc.fn} |->
                            IF g \in DOMAIN active_hooks THEN active_hooks[g]
                            ELSE create_hook_entry(loc.tramp, size)]
  BY DEF Record
<1>2. Calling
  BY <1>1 DEF Calling
<1>3. size \in 5 .. 19 /\ loc.fn = Entry /\ ~Hooked
  BY <1>1, <1>2, CallFacts DEF FunctionInv
<1>4. active_hooks'[Entry] = create_hook_entry(loc.tramp, size) /\ Hooked'
  BY <1>1, <1>3 DEF Hooked
<1>5. Len(Peek(mem, loc.tramp, size)) = size
  <2>1. HookInv
    BY CopyTypes, Layout
  <2>2. /\ mem \in [DOMAIN pristine -> Cell] /\ loc.tramp \in Int /\ size \in Nat
        /\ loc.tramp .. loc.tramp + size - 1 \subseteq DOMAIN pristine
    BY <1>2, <2>1, CallTypes, MemoryType DEF HookInv, Calling
  <2> QED BY <2>2, PeekType
<1>6. Block' = loc.tramp /\ Stolen' = size /\ active_hooks'[Entry].trampoline = loc.tramp
  BY <1>4, <1>5 DEF Block, Stolen, create_hook_entry
<1> QED BY <1>3, <1>4, <1>6

LEMMA RecordFunction ==
  ASSUME CallLayout, CopyInv, FunctionInv, Record PROVE FunctionInv'
<1>1. pc = "record" /\ pc' = "idle" /\ UNCHANGED <<mem, pristine>>
  BY DEF Record
<1>2. /\ ~Hooked /\ Hooked' /\ Block' = loc.tramp /\ Stolen' = size /\ size \in 5 .. 19
  BY RecordHook
<1>3. Calling /\ Patching /\ Entered /\ Diverted /\ Diverted' /\ ~Calling'
  BY <1>1, <1>2 DEF Calling, Patching, Entered, Diverted
<1>4. /\ Covers(size) /\ loc.fn = Entry /\ loc.target \in Targets /\ Stolen = size
      /\ Trampoline(mem, loc.tramp, size, loc.target)
  BY <1>3, CallFacts
<1>5. JumpAt(mem, Entry, loc.tramp + size + 5)
  BY <1>3, <1>4, CopyTypes, Layout DEF RouteInv, Written
<1>6. PICK n \in 5 .. 19 : n = size
  BY <1>2
<1>7. Changed = n /\ Changed' = n /\ Stolen' = n
  BY <1>1, <1>2, <1>3, <1>4, <1>6 DEF Changed
<1>8. TextFrom(n)
  BY <1>7 DEF FunctionInv
<1>9. TextFrom(n)' /\ Covers(n)'
  BY <1>1, <1>4, <1>6, <1>8 DEF TextFrom, Covers, Boundary
<1>10. PICK b : b = loc.tramp
  OBVIOUS
<1>11. \E t \in Targets : Trampoline(mem', b, n, t)
  BY <1>1, <1>4, <1>6, <1>10
<1>12. Block' = b /\ JumpAt(mem', Entry, b + n + 5)
  BY <1>1, <1>2, <1>5, <1>6, <1>10
<1> QED BY <1>1, <1>2, <1>3, <1>7, <1>9, <1>11, <1>12 DEF FunctionInv

LEMMA RemoveHookFunction ==
  ASSUME CallLayout, CopyInv, FunctionInv, RemoveHook(Function) PROVE FunctionInv'
<1> DEFINE s == active_hooks[Entry].original_bytes
<1>1. /\ pc = "idle" /\ pc' = "free" /\ Hooked /\ mem' = Poke(mem, Entry, s)
      /\ UNCHANGED <<active_hooks, size, pristine>>
  BY TheFunction DEF RemoveHook, Hooked, history
<1>2. PICK b \in NearBlocks : b = Block
  BY <1>1, HookFacts
<1>3. PICK n \in 5 .. 19 : n = Stolen
  BY <1>1, HookFacts
<1>4. Covers(n) /\ n <= TextLen /\ Len(s) = n /\ TextLen \in Nat
  BY <1>1, <1>3, HookFacts, Layout DEF Covers
<1>5. \A o \in 0 .. n - 1 : s[o + 1] = pristine[Entry + o]
  BY <1>1, <1>3, StolenCells
<1>6. s \in Seq(Cell) /\ DOMAIN mem \subseteq Int /\ Entry \in Nat
  BY <1>1, CopyTypes, Layout, TheFunction DEF HookInv, TypeOK, Hooked
<1> HIDE DEF s
<1>7. /\ DOMAIN mem' = DOMAIN mem
      /\ \A k \in 0 .. n - 1 : Entry + k \in DOMAIN mem => mem'[Entry + k] = s[k + 1]
      /\ \A x \in DOMAIN mem : x \notin Entry .. Entry + n - 1 => mem'[x] = mem[x]
  <2>1. /\ DOMAIN Poke(mem, Entry, s) = DOMAIN mem
        /\ \A k \in 0 .. Len(s) - 1 : Entry + k \in DOMAIN mem =>
             Poke(mem, Entry, s)[Entry + k] = s[k + 1]
        /\ \A x \in DOMAIN mem : x \notin Entry .. Entry + Len(s) - 1 =>
             Poke(mem, Entry, s)[x] = mem[x]
    <3>1. Entry \in Int
      BY <1>6
    <3> QED BY <1>6, <3>1, PokeCells
  <2> QED BY <1>1, <1>4, <2>1
<1>8. TextFrom(n)
  BY <1>1, <1>3 DEF FunctionInv, Changed, Diverted
<1>9. TextFrom(0)'
  <2> SUFFICES ASSUME NEW o \in 0 .. TextLen - 1
               PROVE  mem'[Entry + o] = pristine'[Entry + o]
    BY DEF TextFrom
  <2>1. Entry + o \in DOMAIN mem
    BY Layout
  <2>2. CASE o < n
    BY <1>1, <1>4, <1>5, <1>7, <2>1, <2>2
  <2>3. CASE o >= n
    <3>1. o \in n .. TextLen - 1 /\ Entry + o \notin Entry .. Entry + n - 1
      BY <1>4, <1>6, <2>3
    <3> QED BY <1>1, <1>7, <1>8, <2>1, <3>1 DEF TextFrom
  <2> QED BY <1>4, <2>2, <2>3
<1>10. ASSUME NEW x \in DOMAIN mem, InBlock(b, x)
       PROVE  mem'[x] = mem[x]
  <2>1. CASE x \in Entry .. Entry + n - 1
    <3>1. x - Entry \in 0 .. TextLen - 1 /\ Entry + (x - Entry) = x
      BY <1>4, <1>6, <2>1
    <3>2. ~InBlock(b, x)
      BY <3>1, WholeTextApart
    <3> QED BY <1>10, <3>2
  <2>2. CASE x \notin Entry .. Entry + n - 1
    BY <1>7, <2>2
  <2> QED BY <2>1, <2>2
<1>11. PICK t \in Targets : Trampoline(mem, b, n, t)
  BY <1>1, <1>2, <1>3 DEF FunctionInv
<1>12. Trampoline(mem', b, n, t)
  BY <1>7, <1>10, <1>11, TrampolineKept, Layout
<1>13. /\ Hooked' /\ Block' = b /\ Stolen' = n /\ Changed' = 0
       /\ ~Calling' /\ pc' = "free" /\ Covers(n)'
  BY <1>1, <1>2, <1>3, <1>4
  DEF Hooked, Block, Stolen, Changed, Diverted, Entered, Calling, Covers, Boundary
<1> QED BY <1>9, <1>12, <1>13 DEF FunctionInv

LEMMA FreeTrampolineFunction ==
  ASSUME CallLayout, CopyInv, FunctionInv, FreeTrampoline PROVE ~Hooked' /\ FunctionInv'
<1>1. /\ pc = "free" /\ pc' = "idle" /\ loc.fn \in DOMAIN active_hooks
      /\ UNCHANGED pristine
      /\ active_hooks' = [f \in DOMAIN active_hooks \ {loc.fn} |-> active_hooks[f]]
  BY CopyTypes, Layout DEF FreeTrampoline, HookInv, InCall
<1>2. loc.fn = Entry /\ Hooked /\ DOMAIN active_hooks = {Entry}
  <2>1. DOMAIN active_hooks \subseteq {Entry}
    BY CopyTypes, Layout, TheFunction DEF HookInv, TypeOK
  <2> QED BY <1>1, <2>1 DEF Hooked
<1>3. active_hooks' = << >> /\ ~Hooked'
  <2>1. active_hooks' = [f \in {} |-> active_hooks[f]]
    BY <1>1, <1>2
  <2>2. active_hooks' \in Seq({}) /\ DOMAIN active_hooks' = {}
    BY <2>1
  <2> QED BY <2>2, EmptySeq DEF Hooked
<1>4. PICK b \in NearBlocks : b = active_hooks[Entry].trampoline
  BY <1>2, HookFacts
<1>5. \A x \in DOMAIN mem : ~InBlock(b, x) => mem'[x] = mem[x]
  BY <1>2, <1>4 DEF FreeTrampoline, Fill, InBlock
<1>6. TextFrom(0)
  BY <1>1 DEF FunctionInv, Changed, Diverted, Entered
<1>7. TextFrom(0)'
  BY <1>1, <1>5, <1>6, BlockWrite
<1>8. ~Calling' /\ Changed' = 0
  BY <1>1, <1>3 DEF Calling, Changed, Diverted, Entered
<1> QED BY <1>3, <1>7, <1>8 DEF FunctionInv

LEMMA SameFunction ==
  ASSUME FunctionInv, UNCHANGED vars PROVE FunctionInv' /\ (Hooked' <=> Hooked) /\ Block' = Block
BY DEF vars, history, FunctionInv, Hooked, Block, Stolen, Changed, Diverted, Entered, Calling,
       Covers, Boundary, TextFrom

LEMMA FunctionStep ==
  ASSUME CallLayout, CopyInv, FunctionInv, [CallNext]_<<vars, callVars>> PROVE FunctionInv'
<1>1. CASE UNCHANGED vars
  BY <1>1, SameFunction
<1>2. CASE StartHooks
  BY <1>2, StartHooksFunction
<1>3. CASE Prepare
  BY <1>3, DisassembleFunction, EndSizingFunction, BuildNearFunction, RecordFunction
  DEF Prepare
<1>4. CASE Patch
  BY <1>4, PatchFunction DEF Patch
<1>5. CASE Unhook
  BY <1>5, RemoveHookFunction DEF Unhook
<1>6. CASE Release
  BY <1>6, FreeTrampolineFunction DEF Release
<1>7. CASE StartAssigns \/ StartFails
  BY <1>1, <1>7 DEF StartAssigns, StartFails
<1>8. ASSUME NEW t \in Threads, Call(t) \/ Run(t)
      PROVE  FunctionInv'
  BY <1>1, <1>8 DEF Call, Run, Return, Execute, MessageBoxA_hook_x64, Step
<1> QED BY <1>1, <1>2, <1>3, <1>4, <1>5, <1>6, <1>7, <1>8 DEF CallNext, vars, callVars

-----------------------------------------------------------------------------
(* start and its variables *)

LEMMA StartStep ==
  ASSUME CallLayout, CopyInv, FunctionInv, StartInv, CallTypeOK,
         [CallNext]_<<vars, callVars>>
  PROVE  StartInv' /\ original' \in NearBlocks \cup {0} /\ applying' \in BOOLEAN
<1>1. original \in NearBlocks \cup {0} /\ applying \in BOOLEAN
  BY DEF CallTypeOK
<1>2. CASE UNCHANGED <<vars, original, applying>>
  <2>1. (Hooked' <=> Hooked) /\ Block' = Block /\ pc' = pc
    BY <1>2, SameFunction DEF vars
  <2> QED BY <1>1, <1>2, <2>1 DEF StartInv, Calling
<1>3. CASE StartHooks
  <2>1. pc' = "sizing" /\ applying' = TRUE /\ original' = original
    BY <1>3 DEF StartHooks, ApplyHookX64
  <2> QED BY <1>1, <2>1 DEF StartInv
<1>4. CASE StartAssigns
  <2>1. /\ applying /\ pc = "idle" /\ applying' = FALSE /\ UNCHANGED vars
        /\ original' = active_hooks[Entry].trampoline
    BY <1>4, TheFunction DEF StartAssigns
  <2>2. Hooked
    BY <2>1 DEF StartInv
  <2>3. original' = Block /\ Block \in NearBlocks /\ Block' = Block /\ pc' = pc
    BY <2>1, <2>2, HookFacts, SameFunction DEF vars
  <2> QED BY <2>1, <2>3 DEF StartInv, Calling
<1>5. CASE StartFails
  <2>1. /\ ~applying /\ pc = "idle" /\ original' = 0 /\ applying' = applying
        /\ UNCHANGED vars /\ ~Hooked
    BY <1>5 DEF StartFails, Hooked
  <2>2. ~Hooked' /\ pc' = pc
    BY <2>1, SameFunction DEF vars
  <2> QED BY <1>1, <2>1, <2>2 DEF StartInv, Calling
<1>6. CASE Prepare \/ Patch
  <2>1. /\ pc \notin {"idle", "free"} /\ pc' # "free" /\ UNCHANGED <<original, applying>>
        /\ pc' = "idle" => Record
    BY <1>6 DEF Prepare, Patch, Disassemble, EndSizing, BuildNear, PlaceOpcode, PlaceDisp,
                PadNops, Record, callVars
  <2>2. applying
    BY <2>1 DEF StartInv, Calling
  <2>3. pc' = "idle" => Hooked'
    BY <2>1, RecordHook
  <2> QED BY <1>1, <2>1, <2>2, <2>3 DEF StartInv
<1>7. CASE Unhook
  <2>1. /\ ~applying /\ Hooked /\ pc' = "free"
        /\ UNCHANGED <<original, applying, active_hooks>>
    BY <1>7, TheFunction DEF Unhook, RemoveHook, Hooked
  <2>2. Block' = Block
    BY <2>1 DEF Block, Hooked
  <2> QED BY <1>1, <2>1, <2>2 DEF StartInv, Calling
<1>8. CASE Release
  <2>1. pc = "free" /\ pc' = "idle" /\ UNCHANGED <<original, applying>> /\ ~Hooked'
    BY <1>8, FreeTrampolineFunction DEF Release, FreeTrampoline
  <2> QED BY <1>1, <2>1 DEF StartInv, Calling
<1>9. ASSUME NEW t \in Threads, Call(t) \/ Run(t)
      PROVE  UNCHANGED <<vars, original, applying>>
  BY <1>9 DEF Call, Run, Return, Execute, MessageBoxA_hook_x64, Step
<1> QED BY <1>2, <1>3, <1>4, <1>5, <1>6, <1>7, <1>8, <1>9 DEF CallNext, callVars

-----------------------------------------------------------------------------
(* A thread runs one instruction *)

\* What a thread knows of its call.
CallRecord ==
  [at : DOMAIN pristine \cup Targets \cup {End, Outside, Lost}, due : 0 .. TextLen,
   hooked : BOOLEAN, exposed : BOOLEAN, owed : BOOLEAN]

Goto(x) == IF x \in DOMAIN mem \cup Targets \cup {End} THEN x ELSE Lost

\* From c the thread goes to place `to`, where the instruction at offset d is due.
Runs(c, to, d) ==
  LET i == At(mem, c.at)
      o == Entry + c.due
  IN  \/ ~Decodes(mem, c.at) /\ to = Lost /\ d = c.due
      \/ /\ Decodes(mem, c.at) /\ i.op \in {"jmp", "qjmp"}
         /\ to = Goto(Follow(mem, c.at)) /\ d = c.due
      \/ /\ Decodes(mem, c.at) /\ i.op \notin {"jmp", "qjmp"}
         /\ o \in DOMAIN pristine /\ SameEffect(i, c.at, At(pristine, o), o)
         /\ to = Goto(c.at + i.len) /\ d = c.due + i.len
      \/ /\ Decodes(mem, c.at) /\ i.op \notin {"jmp", "qjmp"}
         /\ ~(o \in DOMAIN pristine /\ SameEffect(i, c.at, At(pristine, o), o))
         /\ to \in {Goto(c.at + 1), Lost} /\ d = c.due

LEMMA ExecuteRuns ==
  ASSUME CallLayout, CopyInv, FunctionInv, CallTypeOK, NEW t \in Threads, Execute(t),
         NEW c, c = threads[t]
  PROVE  /\ c.at \in DOMAIN mem
         /\ \E to, d :
              /\ Runs(c, to, d)
              /\ threads'[t] = [at |-> to, due |-> d, hooked |-> c.hooked, owed |-> c.owed,
                                exposed |-> c.exposed \/ (pc = "disp" /\ c.at = Entry)]
<1>1. c \in CallRecord /\ threads \in [Threads -> CallRecord]
  BY DEF CallTypeOK, CallRecord
<1>2. pc = "disp" => loc.fn = Entry
  BY CallFacts DEF Calling
<1> DEFINE b == IF pc = "disp" /\ c.at = loc.fn THEN [c EXCEPT !.exposed = TRUE] ELSE c
           i == At(mem, c.at)
           o == Function + c.due
           e == c.exposed \/ (pc = "disp" /\ c.at = Entry)
           goto(x) == IF x \in DOMAIN mem \cup Targets \cup {End} THEN x ELSE Lost
           r == IF ~Decodes(mem, c.at) THEN [b EXCEPT !.at = Lost]
                ELSE IF i.op \in {"jmp", "qjmp"} THEN [b EXCEPT !.at = goto(Follow(mem, c.at))]
                ELSE IF o \in DOMAIN pristine /\ SameEffect(i, c.at, At(pristine, o), o)
                THEN [b EXCEPT !.at = goto(c.at + i.len), !.due = @ + i.len]
                ELSE [b EXCEPT !.at = IF i = Nop[1] THEN goto(c.at + 1) ELSE Lost]
<1>3. c.at \in DOMAIN mem /\ threads' = [threads EXCEPT ![t] = r]
  BY DEF Execute, Step
<1>4. threads'[t] = r
  BY <1>1, <1>3
<1>5. b = [at |-> c.at, due |-> c.due, hooked |-> c.hooked, exposed |-> e, owed |-> c.owed]
  BY <1>1, <1>2 DEF CallRecord
<1>6. o = Entry + c.due
  BY TheFunction
<1> HIDE DEF b
<1>7. ASSUME NEW to, NEW d, Runs(c, to, d),
             r = [at |-> to, due |-> d, hooked |-> c.hooked, exposed |-> e, owed |-> c.owed]
      PROVE  \E x, y :
               /\ Runs(c, x, y)
               /\ threads'[t] = [at |-> x, due |-> y, hooked |-> c.hooked, owed |-> c.owed,
                                 exposed |-> e]
  BY <1>4, <1>7
<1>8. CASE ~Decodes(mem, c.at)
  <2>1. Runs(c, Lost, c.due)
    BY <1>8 DEF Runs
  <2>2. r = [at |-> Lost, due |-> c.due, hooked |-> c.hooked, exposed |-> e,
              owed |-> c.owed]
    BY <1>5, <1>8
  <2> QED BY <1>3, <1>7, <2>1, <2>2
<1>9. CASE Decodes(mem, c.at) /\ i.op \in {"jmp", "qjmp"}
  <2>1. Runs(c, goto(Follow(mem, c.at)), c.due)
    BY <1>9 DEF Runs, Goto
  <2>2. r = [at |-> goto(Follow(mem, c.at)), due |-> c.due, hooked |-> c.hooked, exposed |-> e,
              owed |-> c.owed]
    BY <1>5, <1>9
  <2> QED BY <1>3, <1>7, <2>1, <2>2
<1>10. CASE /\ Decodes(mem, c.at) /\ i.op \notin {"jmp", "qjmp"}
            /\ o \in DOMAIN pristine /\ SameEffect(i, c.at, At(pristine, o), o)
  <2>1. Runs(c, goto(c.at + i.len), c.due + i.len)
    BY <1>6, <1>10 DEF Runs, Goto
  <2>2. r = [at |-> goto(c.at + i.len), due |-> c.due + i.len, hooked |-> c.hooked, exposed |-> e,
              owed |-> c.owed]
    BY <1>5, <1>10
  <2> QED BY <1>3, <1>7, <2>1, <2>2
<1>11. CASE /\ Decodes(mem, c.at) /\ i.op \notin {"jmp", "qjmp"}
            /\ ~(o \in DOMAIN pristine /\ SameEffect(i, c.at, At(pristine, o), o))
  <2>1. PICK to : to = IF i = Nop[1] THEN goto(c.at + 1) ELSE Lost
    OBVIOUS
  <2>2. Runs(c, to, c.due)
    BY <1>6, <1>11, <2>1 DEF Runs, Goto
  <2>3. r = [at |-> to, due |-> c.due, hooked |-> c.hooked, exposed |-> e,
              owed |-> c.owed]
    BY <1>5, <1>11, <2>1
  <2> QED BY <1>3, <1>7, <2>2, <2>3
<1> QED BY <1>8, <1>9, <1>10, <1>11

LEMMA RunsType ==
  ASSUME CallLayout, CopyInv, NEW c \in CallRecord, Boundary(pristine, c.due),
         NEW to, NEW d, Runs(c, to, d)
  PROVE  /\ to \in DOMAIN pristine \cup Targets \cup {End, Outside, Lost}
         /\ d \in 0 .. TextLen /\ Boundary(pristine, d)
<1>1. DOMAIN mem = DOMAIN pristine /\ DOMAIN mem \cap (Targets \cup {End}) = {}
      /\ TextLen \in Nat /\ End = Entry + TextLen
  BY Layout
<1>2. to \in DOMAIN pristine \cup Targets \cup {End, Outside, Lost}
  BY <1>1 DEF Runs, Goto
<1>3. c.due \in 0 .. TextLen
  BY DEF CallRecord
<1>4. CASE d = c.due
  BY <1>2, <1>3, <1>4
<1>5. CASE d # c.due
  <2>1. /\ Entry + c.due \in DOMAIN pristine /\ d = c.due + At(mem, c.at).len
        /\ SameEffect(At(mem, c.at), c.at, At(pristine, Entry + c.due), Entry + c.due)
    BY <1>5 DEF Runs
  <2>2. c.due \in 0 .. TextLen - 1
    BY <1>1, <1>3, <2>1
  <2>3. PICK o \in 0 .. TextLen - 1 : o = c.due
    BY <2>2
  <2>4. PICK i : i = At(pristine, Entry + o)
    OBVIOUS
  <2>5. i.len \in Nat /\ o + i.len <= TextLen /\ Boundary(pristine, o + i.len)
    BY <2>3, <2>4, PristineText
  <2>6. d = o + i.len
    BY <2>1, <2>3, <2>4 DEF SameEffect
  <2> QED BY <1>1, <1>2, <2>5, <2>6
<1> QED BY <1>4, <1>5

\* A jump to the hook stands behind the stolen code.
LEMMA HookBuilt ==
  ASSUME CallLayout, CopyInv, FunctionInv, Entered \/ Hooked
  PROVE  /\ Block \in NearBlocks /\ Block \in Nat /\ Stolen \in 5 .. 19 /\ Covers(Stolen)
         /\ \E t \in Targets : Trampoline(mem, Block, Stolen, t)
         /\ \A k \in 0 .. 29 : Block + k \in DOMAIN mem
         /\ Diverted => JumpAt(mem, Entry, Block + Stolen + 5)
<1>1. CASE Hooked
  <2>1. Diverted => pc = "idle"
    BY <1>1, HookFacts DEF Diverted, Entered
  <2>2. \E t \in Targets : Trampoline(mem, Block, Stolen, t)
    BY <1>1 DEF FunctionInv
  <2>3. Diverted => JumpAt(mem, Entry, Block + Stolen + 5)
    BY <1>1, <2>1 DEF FunctionInv
  <2>4. \A k \in 0 .. 29 : Block + k \in DOMAIN mem
    <3>1. (Block .. Block + 29) \subseteq DOMAIN mem /\ Block \in Int
      BY <1>1, HookFacts, CopyTypes, Layout, StateTypes
    <3> QED BY <3>1
  <2>5. Block \in Nat
    BY <1>1, HookFacts, PlacesAssumption DEF Blocks
  <2> QED BY <1>1, <2>2, <2>3, <2>4, <2>5, HookFacts
<1>2. CASE Entered /\ ~Hooked
  <2>1. Calling /\ Patching /\ pc # "sizing"
    BY <1>2 DEF Calling, Patching, Entered
  <2>2. /\ loc.fn = Entry /\ Block = loc.tramp /\ Block \in NearBlocks /\ Stolen = size
        /\ size \in 5 .. 19 /\ Covers(Stolen) /\ loc.target \in Targets
        /\ Trampoline(mem, Block, Stolen, loc.target)
    BY <2>1, CallFacts DEF FunctionInv
  <2>3. JumpAt(mem, Entry, Block + Stolen + 5)
    BY <1>2, <2>2, CopyTypes, Layout DEF RouteInv, Written
  <2>4. Block \in Nat
    BY <2>2, PlacesAssumption DEF Blocks
  <2>5. \A k \in 0 .. 29 : Block + k \in DOMAIN mem
    <3>1. (Block .. Block + 29) \subseteq DOMAIN mem
      BY <2>2, CopyTypes, Layout, StateTypes
    <3> QED BY <2>4, <3>1
  <2> QED BY <2>2, <2>3, <2>4, <2>5
<1> QED BY <1>1, <1>2

LEMMA EntryRuns ==
  ASSUME CallLayout, CopyInv, FunctionInv, Diverted
  PROVE  /\ Decodes(mem, Entry) /\ At(mem, Entry).op = "jmp"
         /\ Follow(mem, Entry) = Block + Stolen + 5
<1>1. Entered \/ Hooked
  BY DEF Diverted
<1>2. PICK b \in NearBlocks : b = Block /\ b \in Nat
  BY <1>1, HookBuilt
<1>3. PICK n \in 5 .. 19 : n = Stolen
  BY <1>1, HookBuilt
<1>4. PICK t \in Targets : Trampoline(mem, b, n, t)
  BY <1>1, <1>2, <1>3, HookBuilt
<1>5. JumpAt(mem, Entry, b + n + 5)
  BY <1>1, <1>2, <1>3, HookBuilt
<1>6. Leads(mem, Entry, b, n, t) /\ n \in 0 .. 19
  BY <1>4, <1>5 DEF Leads
<1>7. Decodes(mem, Entry) /\ At(mem, Entry).op = "jmp" /\ Follow(mem, Entry) = b + n + 5
  <2>1. NearLayout
    BY Layout
  <2>2. PICK f \in Functions : f = Entry
    BY TheFunction
  <2>3. PICK m : m = mem
    OBVIOUS
  <2>4. Leads(m, f, b, n, t)
    BY <1>6, <2>2, <2>3
  <2>5. /\ Decodes(m, f) /\ At(m, f).op = "jmp" /\ Follow(m, f) = b + n + 5
    BY <1>6, <2>1, <2>4, LeadsFollow
  <2> QED BY <2>2, <2>3, <2>5
<1> QED BY <1>2, <1>3, <1>7

LEMMA ForwardRuns ==
  ASSUME CallLayout, CopyInv, FunctionInv, Entered \/ Hooked
  PROVE  /\ Decodes(mem, Block + Stolen + 5) /\ At(mem, Block + Stolen + 5).op = "qjmp"
         /\ Follow(mem, Block + Stolen + 5) \in Targets
<1>1. PICK b \in NearBlocks : b = Block /\ b \in Nat
  BY HookBuilt
<1>2. PICK n \in 5 .. 19 : n = Stolen
  BY HookBuilt
<1>3. PICK t \in Targets : Trampoline(mem, b, n, t)
  BY <1>1, <1>2, HookBuilt
<1>4. PICK a \in Int : a = b + n + 5
  BY <1>1
<1>5. WrittenAt(mem, a, QwordJmp(a, b + 80)) /\ WrittenAt(mem, b + 80, Pointer(t))
  BY <1>3, <1>4 DEF Trampoline
<1>6. Reach \in Nat /\ Reach >= 80
  BY Layout, Places
<1>7. Follow(mem, a) = t
  <2>1. b + 80 \in Int /\ (b + 80) - (a + 6) \in -Reach .. Reach - 1
    BY <1>1, <1>4, <1>6
  <2> QED BY <1>5, <2>1, QwordFollow
<1>8. Follow(mem, a) # Broken
  BY <1>7, TheFunction DEF Broken
<1>9. Decodes(mem, a)
  BY <1>8 DEF Follow
<1>10. At(mem, a).op = "qjmp"
  <2>1. PICK q : q = QwordJmp(a, b + 80)
    OBVIOUS
  <2>2. q.op = "qjmp" /\ q.len = 6
    BY <2>1 DEF QwordJmp, Ins
  <2>3. mem[a + 0] = <<q, 0>>
    BY <1>5, <2>1, <2>2 DEF WrittenAt
  <2>4. mem[a] = <<q, 0>>
    BY <2>3
  <2> QED BY <2>2, <2>4 DEF At
<1>11. Block + Stolen + 5 = a
  BY <1>1, <1>2, <1>4
<1> QED BY <1>7, <1>9, <1>10, <1>11

\* Where the instruction that is due stands, it runs.
LEMMA DueRuns ==
  ASSUME CallLayout, CopyInv, NEW c \in CallRecord, c.due < TextLen,
         Boundary(pristine, c.due), NEW i, i = At(pristine, Entry + c.due),
         Decodes(mem, c.at), At(mem, c.at) = i,
         c.at = Entry + c.due \/ i.op \notin RelDisp \cup RelImm,
         NEW to, NEW d, Runs(c, to, d)
  PROVE  to = Goto(c.at + i.len) /\ d = c.due + i.len
<1>1. c.due \in 0 .. TextLen - 1
  BY Layout DEF CallRecord
<1>2. PICK o \in 0 .. TextLen - 1 : o = c.due
  BY <1>1
<1>3. i.op \notin {"jmp", "qjmp"} /\ Entry + o \in DOMAIN pristine
  BY <1>2, PristineText, Layout
<1>4. SameEffect(i, c.at, At(pristine, Entry + c.due), Entry + c.due)
  BY DEF SameEffect
<1> QED BY <1>2, <1>3, <1>4 DEF Runs

-----------------------------------------------------------------------------
(* A call that met no window stays on course *)

LEMMA FunctionRuns ==
  ASSUME CallLayout, CopyInv, FunctionInv, NEW c \in CallRecord, Boundary(pristine, c.due),
         c.due < TextLen, c.at = Entry + c.due, ~Hidden(c.due),
         c.due # 0 \/ ~(pc = "disp" \/ Diverted),
         NEW to, NEW d, Runs(c, to, d), NEW r, r.at = to, r.due = d
  PROVE  InFunction(r)
<1>1. PICK o \in 0 .. TextLen - 1 : o = c.due
  BY Layout DEF CallRecord
<1>2. PICK i : i = At(pristine, Entry + o)
  OBVIOUS
<1>3. /\ i.len \in Nat /\ o + i.len <= TextLen /\ TextLen \in Nat /\ Entry \in Nat
      /\ End = Entry + TextLen
  BY <1>1, <1>2, PristineText, Layout, TheFunction
<1>4. Stolen \in Int /\ Changed \in Int /\ Changed <= o
  <2>1. CASE pc = "disp" \/ Diverted
    <3>1. o # 0 /\ (pc # "disp" => Entered \/ Hooked)
      BY <1>1, <2>1 DEF Diverted
    <3>2. CASE pc = "disp"
      <4>1. Calling /\ Changed = 1
        BY <3>2 DEF Calling, Changed
      <4> QED BY <3>1, <4>1, CallFacts
    <3>3. CASE pc # "disp"
      <4>1. Stolen \in 5 .. 19
        BY <3>1, <3>3, HookBuilt
      <4>2. Changed = Stolen /\ Stolen <= o
        BY <1>1, <2>1, <3>1, <3>3, <4>1 DEF Changed, Hidden
      <4> QED BY <4>1, <4>2
    <3> QED BY <3>2, <3>3
  <2>2. CASE ~(pc = "disp" \/ Diverted)
    <3>1. Changed = 0
      BY <2>2 DEF Changed
    <3>2. Stolen \in Int
      <4>1. CASE Hooked
        BY <4>1, HookFacts
      <4>2. CASE ~Hooked
        BY <4>2, CopyTypes, Layout DEF Stolen, HookInv, TypeOK
      <4> QED BY <4>1, <4>2
    <3> QED BY <3>1, <3>2
  <2> QED BY <2>1, <2>2
<1>5. \A q \in o .. TextLen - 1 :
        Entry + q \in DOMAIN mem /\ mem[Entry + q] = pristine[Entry + q]
  BY <1>3, <1>4, Layout DEF FunctionInv, TextFrom
<1>6. ASSUME NEW k \in 0 .. i.len - 1
      PROVE  (Entry + o) + k \in DOMAIN mem /\ mem[(Entry + o) + k] = pristine[Entry + (o + k)]
  <2>1. o + k \in o .. TextLen - 1 /\ (Entry + o) + k = Entry + (o + k)
    BY <1>3
  <2> QED BY <1>5, <2>1
<1>7. Decodes(mem, Entry + o) /\ At(mem, Entry + o) = i
  <2>1. o \in o .. TextLen - 1 /\ Entry + o \in Int
    BY <1>3
  <2>2. Entry + o \in DOMAIN mem /\ mem[Entry + o] = pristine[Entry + o]
    BY <1>5, <2>1
  <2> QED BY <1>1, <1>2, <1>6, <2>1, <2>2, TextDecodes
<1>8. to = Goto(c.at + i.len) /\ d = c.due + i.len
  BY <1>1, <1>2, <1>7, DueRuns
<1>9. c.at + i.len = Entry + d /\ d = o + i.len
  BY <1>1, <1>3, <1>8
<1>10. CASE d = TextLen
  <2>1. c.at + i.len = End
    BY <1>3, <1>9, <1>10
  <2>2. to = End
    BY <1>8, <2>1 DEF Goto
  <2> QED BY <1>10, <2>2 DEF InFunction
<1>11. CASE d # TextLen
  <2>1. d \in 0 .. TextLen - 1 /\ d >= o
    BY <1>3, <1>9, <1>11
  <2>2. to = Entry + d
    BY <1>8, <1>9, <2>1, Layout DEF Goto
  <2>3. ~Hidden(d)
    BY <1>1, <1>4, <2>1 DEF Hidden
  <2>4. r.due < TextLen /\ r.at = Entry + r.due /\ ~Hidden(r.due)
    BY <1>3, <2>1, <2>2, <2>3
  <2> QED BY <2>4 DEF InFunction
<1> QED BY <1>10, <1>11

LEMMA StolenRuns ==
  ASSUME CallLayout, CopyInv, FunctionInv, NEW c \in CallRecord, Boundary(pristine, c.due),
         InStolen(c), NEW to, NEW d, Runs(c, to, d), NEW r, r.at = to, r.due = d
  PROVE  InFunction(r) \/ InStolen(r)
<1>1. Hooked /\ c.due <= Stolen /\ c.at = Block + c.due
  BY DEF InStolen
<1>2. PICK b \in NearBlocks : b = Block /\ b \in Nat /\ \A k \in 0 .. 29 : b + k \in DOMAIN mem
  BY <1>1, HookBuilt
<1>3. PICK n \in 5 .. 19 : n = Stolen /\ Covers(n)
  BY <1>1, HookBuilt
<1>4. /\ TextLen \in Nat /\ Entry \in Nat /\ End = Entry + TextLen
      /\ n <= TextLen /\ Boundary(pristine, n)
  BY <1>3, Layout, TheFunction DEF Covers
<1>5. CASE c.due < n
  <2>1. PICK o \in 0 .. n - 1 : o = c.due
    BY <1>5 DEF CallRecord
  <2>2. PICK i : i = At(pristine, Entry + o)
    OBVIOUS
  <2>3. o \in 0 .. TextLen - 1 /\ Boundary(pristine, o) /\ b + o \in Int
    BY <1>2, <1>4, <2>1
  <2>4. i.len \in Nat /\ o + i.len <= n
    BY <1>4, <2>2, <2>3, PristineText, WithinBoundary
  <2>5. \A q \in 0 .. n - 1 : b + q \in DOMAIN mem /\ mem[b + q] = pristine[Entry + q]
    BY <1>1, <1>2, <1>3, StolenCells
  <2>6. ASSUME NEW k \in 0 .. i.len - 1
        PROVE  (b + o) + k \in DOMAIN mem /\ mem[(b + o) + k] = pristine[Entry + (o + k)]
    <3>1. o + k \in 0 .. n - 1 /\ (b + o) + k = b + (o + k)
      BY <1>2, <2>4
    <3> QED BY <2>5, <3>1
  <2>7. Decodes(mem, b + o) /\ At(mem, b + o) = i
    <3>1. b + o \in DOMAIN mem /\ mem[b + o] = pristine[Entry + o]
      BY <2>5
    <3> QED BY <2>2, <2>3, <2>6, <3>1, TextDecodes
  <2>8. i.op \notin RelDisp \cup RelImm
    BY <1>3, <2>2 DEF Covers
  <2>9. to = Goto(c.at + i.len) /\ d = c.due + i.len
    BY <1>1, <1>2, <1>4, <1>5, <2>1, <2>2, <2>7, <2>8, DueRuns
  <2>10. c.at + i.len = b + d /\ d = o + i.len
    BY <1>1, <1>2, <2>1, <2>4, <2>9
  <2>11. to = b + d /\ d <= n
    <3>1. d \in 0 .. 29 /\ d <= n
      BY <2>4, <2>10
    <3> QED BY <1>2, <2>9, <2>10, <3>1 DEF Goto
  <2> QED BY <1>1, <1>2, <1>3, <2>11 DEF InStolen
<1>6. CASE c.due >= n
  <2>1. c.due = n /\ c.at = b + n /\ b + n \in Int
    BY <1>1, <1>2, <1>3, <1>6 DEF CallRecord
  <2>2. JumpAt(mem, b + n, Entry + n)
    BY <1>1, <1>2, <1>3, StolenCells
  <2>3. (Entry + n) - (b + n + 5) \in -Reach .. Reach - 1
    <3>1. -Reach <= b - Entry /\ b - Entry + 19 < Reach /\ Reach \in Nat
      BY Layout, Places, TheFunction DEF NearLayout
    <3> QED BY <1>2, <1>4, <3>1
  <2>4. Follow(mem, b + n) = Entry + n /\ Entry + n \in Int
    BY <1>4, <2>1, <2>2, <2>3, JumpFollow
  <2>5. Follow(mem, b + n) # Broken
    BY <1>4, <2>4 DEF Broken
  <2>6. Decodes(mem, b + n) /\ At(mem, b + n).op \in {"jmp", "qjmp"}
    BY <2>5 DEF Follow
  <2>7. to = Goto(Entry + n) /\ d = n
    BY <2>1, <2>4, <2>6 DEF Runs
  <2>8. to = Entry + n
    <3>1. CASE n = TextLen
      BY <1>4, <2>7, <3>1 DEF Goto
    <3>2. CASE n # TextLen
      <4>1. n \in 0 .. TextLen - 1
        BY <1>4, <3>2
      <4> QED BY <2>7, <4>1, Layout DEF Goto
    <3> QED BY <3>1, <3>2
  <2>9. ~Hidden(d)
    BY <1>3, <2>7 DEF Hidden
  <2> QED BY <1>4, <2>7, <2>8, <2>9 DEF InFunction
<1> QED BY <1>3, <1>5, <1>6 DEF CallRecord

LEMMA HookRunsNext ==
  ASSUME CallLayout, CopyInv, FunctionInv, NEW c, c.at \in DOMAIN mem, ToHook(c),
         NEW to, NEW d, Runs(c, to, d), NEW r, r.at = to, r.due = d
  PROVE  ToHook(r)
<1>1. (Entered \/ Hooked) /\ c.due = 0 /\ c.at = Block + Stolen + 5
  BY Layout DEF ToHook
<1>2. PICK t \in Targets : Follow(mem, c.at) = t
  BY <1>1, ForwardRuns
<1>3. Decodes(mem, c.at) /\ At(mem, c.at).op = "qjmp"
  BY <1>1, ForwardRuns
<1>4. to = t /\ d = 0
  BY <1>1, <1>2, <1>3 DEF Runs, Goto
<1> QED BY <1>1, <1>4 DEF ToHook

\* A call that the hook concerns is at a hook function or in the trampoline, and so
\* not in the function.
LEMMA HookPlaces ==
  ASSUME CallLayout, CopyInv, FunctionInv, NEW c, c.due \in Nat, ToHook(c) \/ InStolen(c)
  PROVE  \/ c.at \in Targets
         \/ c.at \in DOMAIN mem /\ c.at \in Block .. Block + BlockSize - 1
<1>1. Entered \/ Hooked
  BY DEF ToHook, InStolen
<1>2. PICK b \in NearBlocks : b = Block /\ b \in Nat /\ \A k \in 0 .. 29 : b + k \in DOMAIN mem
  BY <1>1, HookBuilt
<1>3. PICK n \in 5 .. 19 : n = Stolen
  BY <1>1, HookBuilt
<1>4. BlockSize \in Nat /\ BlockSize >= 88
  BY Layout, Places
<1>5. CASE c.at \notin Targets
  <2>1. PICK k \in 0 .. 29 : c.at = b + k
    <3>1. CASE ToHook(c)
      <4>1. c.at = b + (n + 5) /\ n + 5 \in 0 .. 29
        BY <1>2, <1>3, <1>5, <3>1 DEF ToHook
      <4> QED BY <4>1
    <3>2. CASE InStolen(c)
      <4>1. c.at = b + c.due /\ c.due \in 0 .. 29
        BY <1>2, <1>3, <3>2 DEF InStolen
      <4> QED BY <4>1
    <3> QED BY <3>1, <3>2
  <2> QED BY <1>2, <1>4, <2>1
<1> QED BY <1>5

LEMMA HookApart ==
  ASSUME CallLayout, CopyInv, FunctionInv, NEW c, c.due \in Nat, ToHook(c) \/ InStolen(c)
  PROVE  /\ c.at # End /\ c.at \in Nat
         /\ \A o \in 0 .. TextLen - 1 : c.at # Entry + o
<1>1. CASE c.at \in Targets
  <2>1. c.at # End /\ c.at \in Nat /\ c.at \notin DOMAIN mem
    BY <1>1, Layout, TheFunction
  <2> QED BY <2>1, Layout
<1>2. CASE c.at \notin Targets
  <2>1. c.at \in DOMAIN mem /\ c.at \in Block .. Block + BlockSize - 1
    BY <1>2, HookPlaces
  <2>2. PICK b \in NearBlocks : b = Block
    BY HookBuilt DEF ToHook, InStolen
  <2>3. c.at # End /\ c.at \in Nat
    BY <2>1, Layout
  <2>4. InBlock(b, c.at)
    BY <2>1, <2>2, <2>3, Layout, Places DEF InBlock
  <2> QED BY <2>3, <2>4, WholeTextApart
<1> QED BY <1>1, <1>2

\* An instruction takes a call from a place on course to another.
LEMMA CourseKept ==
  ASSUME CallLayout, CopyInv, FunctionInv, NEW c \in CallRecord, Boundary(pristine, c.due),
         OnCourse(c), c.at \in DOMAIN mem, ~(pc = "disp" /\ c.at = Entry),
         NEW to, NEW d, Runs(c, to, d),
         NEW r, r.at = to, r.due = d, r.owed = c.owed, r.hooked = c.hooked
  PROVE  OnCourse(r)
<1>1. c.due \in 0 .. TextLen /\ c.due \in Nat /\ TextLen \in Nat /\ Entry \in Nat
  BY Layout, TheFunction DEF CallRecord
<1>2. CASE ToHook(c)
  <2>1. ToHook(r)
    BY <1>2, HookRunsNext
  <2> QED BY <2>1 DEF OnCourse
<1>3. CASE ~ToHook(c) /\ InStolen(c)
  <2>1. InFunction(r) \/ InStolen(r)
    BY <1>3, StolenRuns
  <2>2. Entry + 0 = Entry /\ 0 \in 0 .. TextLen - 1
    BY <1>1, Layout
  <2>3. c.at # Entry
    BY <1>1, <1>3, <2>2, HookApart
  <2>4. c.owed => c.hooked
    BY <1>3, <2>3 DEF OnCourse, CallRecord
  <2> QED BY <2>1, <2>4 DEF OnCourse
<1>4. CASE ~ToHook(c) /\ ~InStolen(c)
  <2>1. c.at # Outside /\ c.at # End
    BY Layout DEF Outside
  <2>2. c.due < TextLen /\ c.at = Entry + c.due /\ ~Hidden(c.due)
    BY <1>4, <2>1 DEF OnCourse, InFunction
  <2>3. CASE c.due = 0 /\ (pc = "disp" \/ Diverted)
    <3>1. c.at = Entry /\ Diverted
      BY <1>1, <2>2, <2>3
    <3>2. Entered \/ Hooked
      BY <3>1 DEF Diverted
    <3>3. to = Goto(Block + Stolen + 5) /\ d = 0
      BY <2>3, <3>1, EntryRuns DEF Runs
    <3>4. Block + Stolen + 5 \in DOMAIN mem
      <4>1. PICK b \in Nat : b = Block /\ \A k \in 0 .. 29 : b + k \in DOMAIN mem
        BY <3>2, HookBuilt
      <4>2. PICK n \in 5 .. 19 : n = Stolen
        BY <3>2, HookBuilt
      <4>3. b + n + 5 = b + (n + 5) /\ n + 5 \in 0 .. 29
        BY <4>1, <4>2
      <4> QED BY <4>1, <4>2, <4>3
    <3>5. ToHook(r)
      BY <3>2, <3>3, <3>4 DEF ToHook, Goto
    <3> QED BY <3>5 DEF OnCourse
  <2>4. CASE c.due # 0 \/ ~(pc = "disp" \/ Diverted)
    <3>1. InFunction(r)
      BY <2>2, <2>4, FunctionRuns
    <3>2. ~(c.at = Entry /\ Hooked /\ pc = "idle")
      BY <1>1, <2>2, <2>4 DEF Diverted
    <3>3. c.owed => c.hooked
      BY <1>4, <3>2 DEF OnCourse, CallRecord
    <3> QED BY <3>1, <3>3 DEF OnCourse
  <2> QED BY <2>3, <2>4
<1> QED BY <1>2, <1>3, <1>4

-----------------------------------------------------------------------------
(* Steps of threads *)

LEMMA NewCallRight ==
  ASSUME CallLayout, CopyInv, FunctionInv, NEW a \in {Entry, Outside}
  PROVE  NewCall(a) \in CallRecord /\ ThreadInv(NewCall(a))
<1>1. PICK w : w = (a = Entry /\ pc = "idle" /\ ~applying /\ active_hooks # << >>)
  OBVIOUS
<1>2. PICK c : c = [at |-> a, due |-> 0, hooked |-> FALSE, exposed |-> FALSE, owed |-> w]
  OBVIOUS
<1>3. NewCall(a) = c
  BY <1>1, <1>2 DEF NewCall
<1>4. Entry + 0 = Entry /\ 0 \in 0 .. TextLen - 1 /\ Entry \in DOMAIN pristine /\ TextLen \in Nat
  <2>1. Entry + 0 = Entry /\ 0 \in 0 .. TextLen - 1 /\ TextLen \in Nat
    BY Layout, TheFunction
  <2> QED BY <2>1, Layout
<1>5. w \in BOOLEAN /\ (w => a = Entry /\ Hooked /\ pc = "idle")
  BY <1>1 DEF FunctionInv
<1>6. c \in CallRecord
  BY <1>2, <1>4, <1>5 DEF CallRecord
<1>7. c.at = a /\ c.due = 0 /\ c.owed = w
  BY <1>2
<1>8. c.at = Outside \/ InFunction(c)
  BY <1>4, <1>7, Layout DEF InFunction, Hidden
<1>9. OnCourse(c)
  BY <1>5, <1>7, <1>8 DEF OnCourse
<1>10. Boundary(pristine, c.due)
  BY <1>7, Layout
<1> QED BY <1>3, <1>6, <1>9, <1>10 DEF ThreadInv

LEMMA ReturnRight ==
  ASSUME CallLayout, CallInv, NEW t \in Threads, Return(t)
  PROVE  threads'[t] \in CallRecord /\ ThreadInv(threads'[t])
<1>1. PICK c \in CallRecord : c = threads[t]
  BY DEF CallInv, CallTypeOK, CallRecord
<1>2. /\ c.at = End /\ threads \in [Threads -> CallRecord]
      /\ threads' = [threads EXCEPT ![t] = IF c.due = TextLen THEN NewCall(Outside)
                                           ELSE [c EXCEPT !.at = Lost]]
  BY <1>1 DEF Return, Step, CallInv, CallTypeOK, CallRecord
<1>3. CASE c.due = TextLen
  BY <1>2, <1>3, NewCallRight DEF CallInv
<1>4. CASE c.due # TextLen
  <2>1. PICK r : r = [c EXCEPT !.at = Lost]
    OBVIOUS
  <2>2. r \in CallRecord /\ r.due = c.due /\ r.exposed = c.exposed
    BY <2>1 DEF CallRecord
  <2>3. c.due \in Nat /\ Boundary(pristine, c.due)
    BY <1>1 DEF CallRecord, CallInv, ThreadsInv, ThreadInv
  <2>4. c.exposed
    <3>1. ASSUME OnCourse(c)
          PROVE  FALSE
      <4>1. ~ToHook(c) /\ ~InStolen(c)
        BY <1>2, <2>3, HookApart DEF CallInv
      <4>2. End # Outside /\ \A o \in 0 .. TextLen - 1 : End # Entry + o
        BY Layout, TheFunction DEF Outside, CallInv
      <4>3. c.due < TextLen /\ c.at = Entry + c.due
        BY <1>2, <1>4, <3>1, <4>1, <4>2 DEF OnCourse, InFunction
      <4>4. c.due \in 0 .. TextLen - 1
        BY <2>3, <4>3, Layout DEF CallInv
      <4> QED BY <1>2, <4>2, <4>3, <4>4
    <3> QED BY <1>1, <3>1 DEF CallInv, ThreadsInv, ThreadInv
  <2>5. threads'[t] = r
    BY <1>2, <1>4, <2>1
  <2> QED BY <2>2, <2>3, <2>4, <2>5 DEF ThreadInv
<1> QED BY <1>3, <1>4

LEMMA ExecuteRight ==
  ASSUME CallLayout, CallInv, NEW t \in Threads, Execute(t)
  PROVE  threads'[t] \in CallRecord /\ ThreadInv(threads'[t])
<1>1. PICK c \in CallRecord : c = threads[t]
  BY DEF CallInv, CallTypeOK, CallRecord
<1>2. PICK to, d :
        /\ c.at \in DOMAIN mem /\ Runs(c, to, d)
        /\ threads'[t] = [at |-> to, due |-> d, hooked |-> c.hooked, owed |-> c.owed,
                          exposed |-> c.exposed \/ (pc = "disp" /\ c.at = Entry)]
  BY <1>1, ExecuteRuns DEF CallInv
<1>3. PICK r : r = threads'[t]
  OBVIOUS
<1>4. /\ r.at = to /\ r.due = d /\ r.hooked = c.hooked /\ r.owed = c.owed
      /\ r.exposed = (c.exposed \/ (pc = "disp" /\ c.at = Entry))
  BY <1>2, <1>3
<1>5. Boundary(pristine, c.due) /\ (~c.exposed => OnCourse(c))
  BY <1>1 DEF CallInv, ThreadsInv, ThreadInv
<1>6. /\ to \in DOMAIN pristine \cup Targets \cup {End, Outside, Lost}
      /\ d \in 0 .. TextLen /\ Boundary(pristine, d)
  BY <1>2, <1>5, RunsType DEF CallInv
<1>7. r \in CallRecord
  BY <1>2, <1>3, <1>6 DEF CallRecord
<1>8. ~r.exposed => OnCourse(r)
  BY <1>2, <1>4, <1>5, CourseKept DEF CallInv
<1> QED BY <1>3, <1>4, <1>6, <1>7, <1>8 DEF ThreadInv

LEMMA HookRight ==
  ASSUME CallLayout, CallInv, NEW t \in Threads, MessageBoxA_hook_x64(t)
  PROVE  threads'[t] \in CallRecord /\ ThreadInv(threads'[t])
<1>1. PICK c \in CallRecord : c = threads[t]
  BY DEF CallInv, CallTypeOK, CallRecord
<1>2. PICK r : r = [c EXCEPT !.at = IF original = 0 THEN Lost ELSE original,
                             !.hooked = TRUE, !.exposed = @ \/ applying]
  OBVIOUS
<1>3. c.at \in Targets /\ threads'[t] = r
  <2>1. threads \in [Threads -> CallRecord]
    BY DEF CallInv, CallTypeOK, CallRecord
  <2> QED BY <1>1, <1>2, <2>1 DEF MessageBoxA_hook_x64, Step
<1>4. original \in NearBlocks \cup {0} /\ applying \in BOOLEAN
  BY DEF CallInv, CallTypeOK
<1>5. original # 0 => original \in DOMAIN pristine
  <2>1. \A b \in NearBlocks : b \in DOMAIN mem
    BY CopyTypes, Layout, StateTypes DEF CallInv
  <2> QED BY <1>4, <2>1, Layout DEF CallInv
<1>6. /\ r \in CallRecord /\ r.due = c.due /\ r.hooked = TRUE
      /\ r.at = IF original = 0 THEN Lost ELSE original
      /\ r.exposed = (c.exposed \/ applying)
  BY <1>2, <1>4, <1>5 DEF CallRecord
<1>7. Boundary(pristine, c.due) /\ (~c.exposed => OnCourse(c)) /\ c.due \in 0 .. TextLen
  BY <1>1 DEF CallInv, ThreadsInv, ThreadInv, CallRecord
<1>8. ASSUME ~r.exposed
      PROVE  OnCourse(r)
  <2>1. OnCourse(c) /\ ~applying
    BY <1>4, <1>6, <1>7, <1>8
  <2>2. c.at \notin DOMAIN mem /\ c.at # End /\ c.at \in Nat /\ TextLen \in Nat
    BY <1>3, Layout, TheFunction DEF CallInv
  <2>3. ~InFunction(c)
    <3>1. ASSUME c.due < TextLen, c.at = Entry + c.due
          PROVE  FALSE
      <4>1. c.due \in 0 .. TextLen - 1
        BY <1>7, <2>2, <3>1
      <4> QED BY <2>2, <3>1, <4>1, Layout DEF CallInv
    <3> QED BY <2>2, <3>1 DEF InFunction
  <2>4. ~InStolen(c)
    <3>1. ASSUME InStolen(c)
          PROVE  FALSE
      <4>1. PICK b \in Nat : b = Block /\ \A k \in 0 .. 29 : b + k \in DOMAIN mem
        BY <3>1, HookBuilt DEF InStolen, CallInv
      <4>2. Stolen \in 5 .. 19
        BY <3>1, HookBuilt DEF InStolen, CallInv
      <4>3. c.at = b + c.due /\ c.due \in 0 .. 29
        BY <1>7, <3>1, <4>1, <4>2, <2>2 DEF InStolen
      <4> QED BY <2>2, <4>1, <4>3
    <3> QED BY <3>1
  <2>5. ToHook(c)
    BY <2>1, <2>2, <2>3, <2>4 DEF OnCourse, Outside
  <2>6. Hooked /\ original = Block /\ c.due = 0
    BY <2>1, <2>5 DEF ToHook, CallInv, StartInv, Entered, Calling
  <2>7. Block \in Nat /\ Block \in NearBlocks /\ Stolen \in 5 .. 19
    BY <2>6, HookBuilt DEF CallInv
  <2>8. Block # 0
    BY <2>7, PlacesAssumption DEF Blocks
  <2>9. r.at = Block + r.due /\ r.due <= Stolen
    BY <1>6, <2>6, <2>7, <2>8
  <2> QED BY <1>6, <2>6, <2>9 DEF OnCourse, InStolen
<1> QED BY <1>3, <1>6, <1>7, <1>8 DEF ThreadInv

LEMMA ThreadStep ==
  ASSUME CallLayout, CallInv, NEW t \in Threads, Call(t) \/ Run(t)
  PROVE  threads' \in [Threads -> CallRecord] /\ \A u \in Threads : ThreadInv(threads'[u])
<1>1. threads \in [Threads -> CallRecord] /\ \A u \in Threads : ThreadInv(threads[u])
  BY DEF CallInv, CallTypeOK, CallRecord, ThreadsInv
<1>2. \E r : threads' = [threads EXCEPT ![t] = r]
  BY DEF Call, Run, Return, Execute, MessageBoxA_hook_x64, Step
<1>3. threads'[t] \in CallRecord /\ ThreadInv(threads'[t])
  <2>1. CASE Call(t)
    <3>1. threads'[t] = NewCall(Entry)
      BY <1>1, <2>1 DEF Call, Step
    <3> QED BY <3>1, NewCallRight DEF CallInv
  <2>2. CASE Run(t)
    BY <2>2, ReturnRight, ExecuteRight, HookRight DEF Run
  <2> QED BY <2>1, <2>2
<1>4. \A u \in Threads \ {t} : threads'[u] = threads[u]
  BY <1>1, <1>2
<1>5. threads' \in [Threads -> CallRecord]
  BY <1>1, <1>2, <1>3
<1>6. ASSUME NEW u \in Threads
      PROVE  ThreadInv(threads'[u])
  BY <1>1, <1>3, <1>4
<1> QED BY <1>5, <1>6

LEMMA SameCourse ==
  ASSUME UNCHANGED vars, FunctionInv, NEW c, ThreadInv(c) PROVE ThreadInv(c)'
BY DEF vars, history, ThreadInv, Boundary, OnCourse, InFunction, Hidden, ToHook, InStolen,
       Diverted, Entered, Hooked, Block, Stolen

-----------------------------------------------------------------------------
(* Steps of the library, as a call sees them that meets no window *)

\* A call that the hook does not concern yet, or no longer.
LEMMA QuietCourse ==
  ASSUME NEW c, OnCourse(c), ~ToHook(c), ~InStolen(c), ~(Hooked /\ pc = "idle"),
         ~Hidden(c.due)'
  PROVE  OnCourse(c)'
BY DEF OnCourse, InFunction

\* The hook stays where it is, and hides no more than before.
LEMMA HookCourse ==
  ASSUME NEW c, OnCourse(c), ~(c.at = Entry /\ Hooked /\ pc = "idle"),
         (Entered \/ Hooked)', Hooked => Hooked', Block' = Block, Stolen' = Stolen,
         Hidden(c.due)' => Hidden(c.due)
  PROVE  OnCourse(c)'
<1>1. ToHook(c) => ToHook(c)'
  BY DEF ToHook
<1>2. InStolen(c) => InStolen(c)'
  BY DEF InStolen
<1>3. InFunction(c) => InFunction(c)'
  BY DEF InFunction
<1> QED BY <1>1, <1>2, <1>3 DEF OnCourse

LEMMA StartHooksCourse ==
  ASSUME CallLayout, CopyInv, FunctionInv, NEW c, OnCourse(c), StartHooks PROVE OnCourse(c)'
<1>1. pc = "idle" /\ pc' = "sizing" /\ active_hooks = << >> /\ active_hooks' = active_hooks
  BY DEF StartHooks, ApplyHookX64
<1>2. ~Hooked /\ ~Entered /\ ~Hidden(c.due)'
  BY <1>1 DEF Hooked, Entered, Hidden, Diverted
<1> QED BY <1>2, QuietCourse DEF ToHook, InStolen

LEMMA PrepareCourse ==
  ASSUME CallLayout, CopyInv, FunctionInv, NEW c, OnCourse(c), Prepare PROVE OnCourse(c)'
<1>1. CASE Disassemble \/ EndSizing \/ BuildNear
  <2>1. /\ pc \in {"sizing", "build"} /\ pc' \in {"sizing", "build", "patch"}
        /\ active_hooks' = active_hooks
    BY <1>1 DEF Disassemble, EndSizing, BuildNear
  <2>2. ~Hooked
    BY <2>1 DEF FunctionInv
  <2>3. ~Hooked /\ ~Entered /\ ~Hidden(c.due)'
    BY <2>1, <2>2 DEF Hooked, Entered, Hidden, Diverted
  <2> QED BY <2>3, QuietCourse DEF ToHook, InStolen
<1>2. CASE Record
  <2>1. /\ ~Hooked /\ Hooked' /\ Block' = Block /\ Stolen' = Stolen
    BY <1>2, RecordHook DEF Block, Stolen
  <2>2. pc = "record"
    BY <1>2 DEF Record
  <2>3. Hidden(c.due)' => Hidden(c.due)
    BY <2>1, <2>2 DEF Hidden, Diverted, Entered
  <2> QED BY <2>1, <2>3, HookCourse
<1> QED BY <1>1, <1>2 DEF Prepare

LEMMA PatchCourse ==
  ASSUME CallLayout, CopyInv, FunctionInv, NEW c \in CallRecord, OnCourse(c),
         PlaceOpcode \/ PlaceDisp \/ PadNops,
         c.at \notin Entry + 1 .. Entry + size - 1
  PROVE  OnCourse(c)'
<1>1. Calling /\ UNCHANGED <<loc, size, active_hooks>>
  BY DEF PlaceOpcode, PlaceDisp, PadNops, Calling
<1>2. ~Hooked /\ ~Hooked' /\ Block' = Block /\ Stolen' = Stolen /\ Stolen = size
  BY <1>1, CallFacts DEF Hooked, Block, Stolen
<1>3. size \in Nat /\ c.due \in Nat /\ Entry \in Nat
  BY <1>1, CallFacts, TheFunction, Layout DEF CallRecord
<1>4. CASE PlaceOpcode \/ PlaceDisp
  <2>1. pc \in {"patch", "disp"}
    BY <1>4 DEF PlaceOpcode, PlaceDisp
  <2>2. ~ToHook(c) /\ ~InStolen(c)
    BY <1>2, <2>1 DEF ToHook, InStolen, Entered
  <2>3. CASE c.at = Entry + c.due
    <3>1. ~Hidden(c.due)'
      BY <1>2, <1>3, <2>3 DEF Hidden
    <3> QED BY <1>2, <2>2, <3>1, QuietCourse
  <2>4. CASE c.at # Entry + c.due
    <3>1. c.at = Outside \/ (c.at = End /\ c.due = TextLen)
      BY <2>2, <2>4 DEF OnCourse, InFunction
    <3> QED BY <1>2, <2>2, <3>1 DEF OnCourse, InFunction
  <2> QED BY <2>3, <2>4
<1>5. CASE PadNops
  <2>1. pc = "nops" /\ pc' \in {"record", "crashed"}
    BY <1>5 DEF PadNops
  <2>2. Entered /\ Entered'
    BY <2>1 DEF Entered
  <2>3. Hidden(c.due)' => Hidden(c.due)
    BY <1>2, <2>2 DEF Hidden, Diverted
  <2> QED BY <1>2, <2>2, <2>3, HookCourse
<1> QED BY <1>4, <1>5

LEMMA UnhookCourse ==
  ASSUME CallLayout, CopyInv, FunctionInv, NEW c, OnCourse(c), c.at # Entry,
         RemoveHook(Function)
  PROVE  OnCourse(c)'
<1>1. pc = "idle" /\ pc' = "free" /\ Hooked /\ active_hooks' = active_hooks
  BY TheFunction DEF RemoveHook, Hooked
<1>2. Hooked' /\ Block' = Block /\ Stolen' = Stolen /\ ~Hidden(c.due)'
  BY <1>1 DEF Hooked, Block, Stolen, Hidden, Diverted, Entered
<1> QED BY <1>2, HookCourse

LEMMA ReleaseCourse ==
  ASSUME CallLayout, CopyInv, FunctionInv, NEW c \in CallRecord, OnCourse(c), FreeTrampoline,
         c.at \notin Targets, c.at \notin Block .. Block + BlockSize - 1
  PROVE  OnCourse(c)'
<1>1. pc = "free" /\ pc' = "idle" /\ ~Hooked'
  BY FreeTrampolineFunction DEF FreeTrampoline
<1>2. ~ToHook(c) /\ ~InStolen(c)
  BY HookPlaces, Layout DEF CallRecord
<1>3. ~Hidden(c.due)'
  BY <1>1 DEF Hidden, Diverted, Entered
<1> QED BY <1>1, <1>2, <1>3, QuietCourse

-----------------------------------------------------------------------------
(* Every step *)

LEMMA PristineKept == [CallNext]_<<vars, callVars>> => pristine' = pristine
<1> SUFFICES ASSUME [Next]_vars PROVE pristine' = pristine
  BY LibraryStep
<1>1. CASE Continue
  BY <1>1 DEF Continue, Disassemble, EndSizing, BuildNear, BuildFar, PlaceOpcode, PlaceDisp,
              PlaceFarJump, PadNops, Record, FreeTrampoline, history
<1>2. CASE \E f \in Functions, t \in Targets : ApplyHookX64(f, t)
  BY <1>2 DEF ApplyHookX64
<1>3. CASE \E f \in Functions : RemoveHook(f)
  BY <1>3 DEF RemoveHook, history
<1> QED BY <1>1, <1>2, <1>3 DEF Next, vars

\* A call is still right that is still on course, and one that has met a window.
LEMMA CallKept ==
  ASSUME pristine' = pristine, NEW c, ThreadInv(c), ~c.exposed => OnCourse(c)'
  PROVE  ThreadInv(c)'
BY DEF ThreadInv, Boundary

LEMMA CallExposed ==
  ASSUME pristine' = pristine, NEW c, ThreadInv(c), NEW r, r.due = c.due, r.exposed = TRUE
  PROVE  ThreadInv(r)'
BY DEF ThreadInv, Boundary

LEMMA SameThreads ==
  ASSUME CallInv, pristine' = pristine, threads' = threads,
         \A c \in CallRecord : OnCourse(c) => OnCourse(c)'
  PROVE  threads' \in [Threads -> CallRecord] /\ ThreadsInv'
<1>1. threads \in [Threads -> CallRecord] /\ \A t \in Threads : ThreadInv(threads[t])
  BY DEF CallInv, CallTypeOK, CallRecord, ThreadsInv
<1>2. ASSUME NEW t \in Threads
      PROVE  ThreadInv(threads[t])'
  <2>1. PICK c \in CallRecord : c = threads[t]
    BY <1>1
  <2>2. ~c.exposed => OnCourse(c)'
    BY <1>1, <2>1 DEF ThreadInv
  <2>3. ThreadInv(c)'
    BY <1>1, <2>1, <2>2, CallKept
  <2> QED BY <2>1, <2>3
<1> QED BY <1>1, <1>2 DEF ThreadsInv

LEMMA ExposedThreads ==
  ASSUME CallInv, pristine' = pristine, NEW T, Expose(T),
         \A t \in Threads \ T : \A c \in CallRecord :
           c = threads[t] /\ OnCourse(c) => OnCourse(c)'
  PROVE  threads' \in [Threads -> CallRecord] /\ ThreadsInv'
<1>1. threads \in [Threads -> CallRecord] /\ \A t \in Threads : ThreadInv(threads[t])
  BY DEF CallInv, CallTypeOK, CallRecord, ThreadsInv
<1>2. ASSUME NEW t \in Threads
      PROVE  threads'[t] \in CallRecord /\ ThreadInv(threads[t])'
  <2>1. PICK c \in CallRecord : c = threads[t]
    BY <1>1
  <2>2. PICK r : r = threads'[t]
    OBVIOUS
  <2>3. CASE t \in T
    <3>1. r = [c EXCEPT !.exposed = TRUE]
      BY <2>1, <2>2, <2>3 DEF Expose
    <3>2. r \in CallRecord /\ r.due = c.due /\ r.exposed = TRUE
      BY <3>1 DEF CallRecord
    <3>3. ThreadInv(r)'
      BY <1>1, <2>1, <3>2, CallExposed
    <3> QED BY <2>2, <3>2, <3>3
  <2>4. CASE t \notin T
    <3>1. r = c
      BY <2>1, <2>2, <2>4 DEF Expose
    <3>2. ~c.exposed => OnCourse(c)'
      BY <1>1, <2>1, <2>4 DEF ThreadInv
    <3>3. ThreadInv(c)'
      BY <1>1, <2>1, <3>2, CallKept
    <3> QED BY <2>2, <3>1, <3>3
  <2> QED BY <2>3, <2>4
<1>3. threads' \in [Threads -> CallRecord]
  BY <1>2 DEF Expose
<1> QED BY <1>2, <1>3 DEF ThreadsInv

LEMMA UnhookThreads ==
  ASSUME CallLayout, CallInv, Unhook PROVE threads' \in [Threads -> CallRecord] /\ ThreadsInv'
<1>1. threads \in [Threads -> CallRecord] /\ \A t \in Threads : ThreadInv(threads[t])
  BY DEF CallInv, CallTypeOK, CallRecord, ThreadsInv
<1>2. RemoveHook(Function) /\ pristine' = pristine
  BY PristineKept DEF Unhook, CallNext
<1>3. PICK T : threads' = [t \in Threads |->
                 IF threads[t].at # Entry THEN threads[t]
                 ELSE [threads[t] EXCEPT !.exposed = TRUE, !.at = IF t \in T THEN Lost ELSE @]]
  BY DEF Unhook
<1>4. ASSUME NEW t \in Threads
      PROVE  threads'[t] \in CallRecord /\ ThreadInv(threads[t])'
  <2>1. PICK c \in CallRecord : c = threads[t]
    BY <1>1
  <2>2. PICK r : r = threads'[t]
    OBVIOUS
  <2>3. CASE c.at = Entry
    <3>1. r = [c EXCEPT !.exposed = TRUE, !.at = IF t \in T THEN Lost ELSE c.at]
      BY <1>3, <2>1, <2>2, <2>3
    <3>2. r \in CallRecord /\ r.due = c.due /\ r.exposed = TRUE
      BY <3>1 DEF CallRecord
    <3>3. ThreadInv(r)'
      BY <1>1, <1>2, <2>1, <3>2, CallExposed
    <3> QED BY <2>2, <3>2, <3>3
  <2>4. CASE c.at # Entry
    <3>1. r = c
      BY <1>3, <2>1, <2>2, <2>4
    <3>2. ~c.exposed => OnCourse(c)'
      BY <1>1, <1>2, <2>1, <2>4, UnhookCourse DEF ThreadInv, CallInv
    <3>3. ThreadInv(c)'
      BY <1>1, <1>2, <2>1, <3>2, CallKept
    <3> QED BY <2>2, <3>1, <3>3
  <2> QED BY <2>3, <2>4
<1>5. threads' \in [Threads -> CallRecord]
  BY <1>3, <1>4
<1> QED BY <1>4, <1>5 DEF ThreadsInv

LEMMA LibraryThreads ==
  ASSUME CallLayout, CallInv, StartHooks \/ Prepare \/ Patch \/ Unhook \/ Release
  PROVE  threads' \in [Threads -> CallRecord] /\ ThreadsInv'
<1>1. pristine' = pristine
  BY PristineKept DEF CallNext
<1>2. CASE StartHooks \/ Prepare
  <2>1. threads' = threads
    BY <1>2 DEF StartHooks, Prepare, callVars
  <2>2. \A c \in CallRecord : OnCourse(c) => OnCourse(c)'
    BY <1>2, StartHooksCourse, PrepareCourse DEF CallInv
  <2> QED BY <1>1, <2>1, <2>2, SameThreads
<1>3. CASE Patch
  <2>1. /\ PlaceOpcode \/ PlaceDisp \/ PadNops
        /\ Expose(ThreadsAt(loc.fn + 1 .. loc.fn + size - 1))
    BY <1>3 DEF Patch
  <2>2. loc.fn = Entry
    BY <2>1, CallFacts DEF CallInv, PlaceOpcode, PlaceDisp, PadNops, Calling
  <2>3. PICK T : T = ThreadsAt(Entry + 1 .. Entry + size - 1)
    OBVIOUS
  <2>4. ASSUME NEW t \in Threads \ T, NEW c \in CallRecord, c = threads[t], OnCourse(c)
        PROVE  OnCourse(c)'
    <3>1. c.at \notin Entry + 1 .. Entry + size - 1
      BY <2>3, <2>4 DEF ThreadsAt
    <3> QED BY <2>1, <2>4, <3>1, PatchCourse DEF CallInv
  <2> QED BY <1>1, <2>1, <2>2, <2>3, <2>4, ExposedThreads
<1>4. CASE Unhook
  BY <1>4, UnhookThreads
<1>5. CASE Release
  <2>1. pc = "free" /\ FreeTrampoline
    BY <1>5 DEF Release, FreeTrampoline
  <2>2. Hooked
    <3>1. loc.fn \in DOMAIN active_hooks /\ DOMAIN active_hooks \subseteq {Entry}
      BY <2>1, CopyTypes, Layout, TheFunction DEF CallInv, HookInv, InCall, TypeOK
    <3> QED BY <3>1 DEF Hooked
  <2>3. PICK T : T = ThreadsAt(Targets \cup (Block .. Block + BlockSize - 1))
    OBVIOUS
  <2>4. Expose(T)
    BY <1>5, <2>2, <2>3, TheFunction DEF Release, Block
  <2>5. ASSUME NEW t \in Threads \ T, NEW c \in CallRecord, c = threads[t], OnCourse(c)
        PROVE  OnCourse(c)'
    <3>1. c.at \notin Targets /\ c.at \notin Block .. Block + BlockSize - 1
      BY <2>3, <2>5 DEF ThreadsAt
    <3> QED BY <2>1, <2>5, <3>1, ReleaseCourse DEF CallInv
  <2> QED BY <1>1, <2>4, <2>5, ExposedThreads
<1> QED BY <1>2, <1>3, <1>4, <1>5

LEMMA CallStep ==
  ASSUME CallLayout, CallInv, [CallNext]_<<vars, callVars>> PROVE CallInv'
<1>1. CopyInv' /\ FunctionInv' /\ StartInv'
  BY CopyStep, FunctionStep, StartStep DEF CallInv
<1>2. pristine' = pristine
  BY PristineKept
<1>3. original' \in NearBlocks \cup {0} /\ applying' \in BOOLEAN
  BY StartStep DEF CallInv
<1>4. threads' \in [Threads -> CallRecord] /\ ThreadsInv'
  <2>1. CASE StartHooks \/ Prepare \/ Patch \/ Unhook \/ Release
    BY <2>1, LibraryThreads
  <2>2. ASSUME NEW t \in Threads, Call(t) \/ Run(t)
        PROVE  threads' \in [Threads -> CallRecord] /\ ThreadsInv'
    <3>1. threads' \in [Threads -> CallRecord] /\ \A u \in Threads : ThreadInv(threads'[u])
      BY <2>2, ThreadStep
    <3>2. UNCHANGED vars
      BY <2>2 DEF Call, Run, Return, Execute, MessageBoxA_hook_x64, Step
    <3>3. ASSUME NEW u \in Threads
          PROVE  ThreadInv(threads[u])'
      <4>1. PICK c : c = threads'[u]
        OBVIOUS
      <4>2. ThreadInv(c)'
        BY <3>1, <3>2, <4>1, SameCourse DEF CallInv
      <4> QED BY <4>1, <4>2
    <3> QED BY <3>1, <3>3 DEF ThreadsInv
  <2>3. CASE UNCHANGED <<vars, threads>>
    <3>1. ASSUME NEW c \in CallRecord, ThreadInv(c)
          PROVE  ThreadInv(c)'
      BY <2>3, <3>1, SameCourse DEF CallInv
    <3>2. threads \in [Threads -> CallRecord] /\ \A t \in Threads : ThreadInv(threads[t])
      BY DEF CallInv, CallTypeOK, CallRecord, ThreadsInv
    <3>3. ASSUME NEW t \in Threads
          PROVE  ThreadInv(threads[t])'
      <4>1. PICK c \in CallRecord : c = threads[t]
        BY <3>2
      <4>2. ThreadInv(c)' /\ threads'[t] = c
        BY <2>3, <3>1, <3>2, <4>1
      <4> QED BY <4>2
    <3> QED BY <2>3, <3>2, <3>3 DEF ThreadsInv
  <2> QED BY <2>1, <2>2, <2>3 DEF CallNext, callVars, StartAssigns, StartFails
<1>5. CallTypeOK'
  BY <1>2, <1>3, <1>4 DEF CallTypeOK, CallRecord
<1> QED BY <1>1, <1>4, <1>5 DEF CallInv

-----------------------------------------------------------------------------
(* The theorems *)

LEMMA InitCall == ASSUME CallLayout, CallInit PROVE CallInv
<1>1. /\ pc = "idle" /\ active_hooks = << >> /\ applying = FALSE /\ original = 0 /\ Init
      /\ threads = [t \in Threads |-> NewCall(Outside)]
  BY DEF CallInit, Init
<1>2. CopyInv
  BY <1>1, InitCopy DEF CallLayout
<1>3. ~Hooked /\ ~Calling /\ ~Diverted
  BY <1>1 DEF Hooked, Diverted, Calling, Entered
<1>4. FunctionInv
  <2>1. Changed = 0
    BY <1>1, <1>3 DEF Changed
  <2>2. TextFrom(0)
    BY <1>1 DEF TextFrom, Init
  <2> QED BY <1>1, <1>3, <2>1, <2>2 DEF FunctionInv
<1>5. StartInv
  BY <1>1, <1>3 DEF StartInv
<1>6. NewCall(Outside) \in CallRecord /\ ThreadInv(NewCall(Outside))
  BY <1>2, <1>4, NewCallRight
<1>7. CallTypeOK
  <2>1. threads \in [Threads -> CallRecord]
    BY <1>1, <1>6
  <2> QED BY <1>1, <2>1 DEF CallTypeOK, CallRecord
<1>8. ThreadsInv
  BY <1>1, <1>6 DEF ThreadsInv
<1> QED BY <1>2, <1>4, <1>5, <1>7, <1>8 DEF CallInv

LEMMA InvLost == ASSUME CallLayout, CallInv PROVE LostOnlyInWindow
<1> SUFFICES ASSUME NEW t \in Threads, threads[t].at = Lost, ~threads[t].exposed
             PROVE  FALSE
  BY DEF LostOnlyInWindow
<1>1. PICK c \in CallRecord : c = threads[t]
  BY DEF CallInv, CallTypeOK, CallRecord
<1>2. OnCourse(c) /\ c.at = Lost
  BY <1>1 DEF CallInv, ThreadsInv, ThreadInv
<1>3. c.due \in Nat /\ Entry \in Nat /\ End \in Nat
  BY Layout, TheFunction DEF CallInv, CallRecord
<1>4. Lost \notin Nat /\ Lost # Outside
  BY DEF Lost, Broken, Outside
<1>5. ~InFunction(c)
  BY <1>2, <1>3, <1>4 DEF InFunction
<1>6. ~ToHook(c) /\ ~InStolen(c)
  BY <1>2, <1>3, <1>4, HookApart DEF CallInv
<1> QED BY <1>2, <1>4, <1>5, <1>6 DEF OnCourse

LEMMA InvHookRuns == ASSUME CallLayout, CallInv PROVE HookRuns
<1> SUFFICES ASSUME NEW t \in Threads, threads[t].at = End, threads[t].owed,
                    ~threads[t].exposed, ~threads[t].hooked
             PROVE  FALSE
  BY DEF HookRuns
<1>1. PICK c \in CallRecord : c = threads[t]
  BY DEF CallInv, CallTypeOK, CallRecord
<1>2. OnCourse(c) /\ c.at = End /\ c.owed /\ ~c.hooked
  BY <1>1 DEF CallInv, ThreadsInv, ThreadInv
<1>3. c.due \in Nat /\ Entry \in Nat /\ TextLen \in Nat /\ TextLen >= 5 /\ End = Entry + TextLen
  BY Layout, TheFunction DEF CallInv, CallRecord
<1>4. ~ToHook(c)
  BY <1>2, <1>3, HookApart DEF CallInv
<1>5. End # Entry
  BY <1>3
<1> QED BY <1>2, <1>4, <1>5 DEF OnCourse

\* Every thread is at an instruction, a hook function, the end of the function or
\* outside it, or lost; the pointer that the hook calls through is null or the start
\* of a near block, whatever start and the removal of the hook did meanwhile.
THEOREM SpecCallTypeOK ==
  ASSUME CallLayout PROVE CallSpec => []CallTypeOK
<1>1. CallInit => CallInv
  BY InitCall
<1>2. CallInv /\ [CallNext]_<<vars, callVars>> => CallInv'
  BY CallStep
<1>3. CallInv => CallTypeOK
  BY DEF CallInv
<1> QED BY <1>1, <1>2, <1>3, PTL DEF CallSpec

\* However many threads call the function while it is hooked and unhooked, a call
\* goes wrong only if it was met in one of the windows that Expose and Execute name.
THEOREM SpecLostOnlyInWindow ==
  ASSUME CallLayout PROVE CallSpec => []LostOnlyInWindow
<1>1. CallInit => CallInv
  BY InitCall
<1>2. CallInv /\ [CallNext]_<<vars, callVars>> => CallInv'
  BY CallStep
<1>3. CallInv => LostOnlyInWindow
  BY InvLost
<1> QED BY <1>1, <1>2, <1>3, PTL DEF CallSpec

\* A call that began with the hook in place and met no window does not reach the end
\* of the function without having run the hook.
THEOREM SpecHookRuns ==
  ASSUME CallLayout PROVE CallSpec => []HookRuns
<1>1. CallInit => CallInv
  BY InitCall
<1>2. CallInv /\ [CallNext]_<<vars, callVars>> => CallInv'
  BY CallStep
<1>3. CallInv => HookRuns
  BY InvHookRuns
<1> QED BY <1>1, <1>2, <1>3, PTL DEF CallSpec
=============================================================================
