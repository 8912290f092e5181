---------------------------- MODULE HookedCalls ----------------------------
(***************************************************************************)
(* Main.cpp and the threads of the process it is injected into: `start`    *)
(* hooks one function with HookLib while other threads call it, are inside *)
(* it, or are in the hook.  The threads run the memory that HookLib writes *)
(* one instruction at a time.  Only near hooks: the code of a far one is   *)
(* opaque in HookLib.                                                      *)
(***************************************************************************)
EXTENDS HookLib

CONSTANTS
  Threads,
  TextLen   \* bytes of the function in memory; behind them a call returns

ASSUME OneFunction == \E f \in Functions : Functions = {f} /\ FarBlocks = {}

VARIABLES
  threads,    \* where each thread is, and the history of its call
  original,   \* original_messageboxa_x64; 0 is nullptr
  applying    \* start is inside apply_hook_x64 or has not stored its result

callVars == <<threads, original, applying>>

Function == CHOOSE f \in Functions : TRUE
Entry    == Function
End      == Function + TextLen
Outside  == -3      \* not in a call
Lost     == Broken  \* crashed, or runs something else than the function

\* An instruction of the function begins at offset o, or the function ends there.
Boundary(m, o) == o = TextLen \/ (o < TextLen /\ m[Entry + o][2] = 0)

\* What the proofs assume: the function is whole instructions, none of which is a
\* jump and none of which a five-byte jump overwrites has a relative operand; its
\* text and the blocks lie apart; what the hook functions are is outside memory.
CallLayout ==
  /\ NearLayout
  /\ TextLen \in Nat /\ TextLen >= 5 /\ End \notin Targets
  /\ \A b \in NearBlocks : End <= b \/ b + BlockSize <= Entry
  /\ \A m \in Images :
       /\ DOMAIN m \subseteq Nat /\ DOMAIN m \cap (Targets \cup {End}) = {}
       /\ Entry .. End - 1 \subseteq DOMAIN m
       /\ Boundary(m, 0)
       /\ \A o \in 0 .. TextLen - 1 :
            m[Entry + o][2] = 0 =>
              LET i == At(m, Entry + o)
              IN  /\ Decodes(m, Entry + o) /\ ~IsJump(m[Entry + o])
                  /\ Boundary(m, o + i.len)
                  /\ o < 5 => i.op \notin RelDisp \cup RelImm

\* due: offset of the instruction of the function that the call must run next;
\* hooked: it ran the hook; owed: it must; exposed: it was met in a window in
\* which the library takes no care of running threads.
NewCall(a) == [at |-> a, due |-> 0, hooked |-> FALSE, exposed |-> FALSE,
               owed |-> a = Entry /\ pc = "idle" /\ ~applying /\ active_hooks # << >>]

CallInit ==
  /\ Init /\ original = 0 /\ applying = FALSE
  /\ threads = [t \in Threads |-> NewCall(Outside)]

ThreadsAt(A) == {t \in Threads : threads[t].at \in A}

Expose(T) ==
  threads' = [t \in Threads |-> IF t \in T THEN [threads[t] EXCEPT !.exposed = TRUE]
                                ELSE threads[t]]

-----------------------------------------------------------------------------
(* start, and a program that removes the hook again *)

StartHooks ==
  /\ ~applying /\ active_hooks = << >>
  /\ \E t \in Targets : ApplyHookX64(Function, t)
  /\ applying' = TRUE /\ UNCHANGED <<threads, original>>

\* Mutant: the address of the jump to the hook is returned instead.
StartAssignsJump ==
  /\ applying /\ pc = "idle" /\ applying' = FALSE
  /\ original' = active_hooks[Function].trampoline + Len(active_hooks[Function].original_bytes) + 5
  /\ UNCHANGED <<vars, threads>>

StartAssigns ==
  /\ applying /\ pc = "idle" /\ applying' = FALSE
  /\ original' = active_hooks[Function].trampoline
  /\ UNCHANGED <<vars, threads>>

\* No block is free: apply_hook_x64 returns nullptr, and start assigns that.
StartFails ==
  /\ ~applying /\ pc = "idle" /\ active_hooks = << >> /\ original' = 0
  /\ UNCHANGED <<vars, threads, applying>>

\* Stores to the function: nothing stops a thread inside the bytes overwritten.
Patch ==
  /\ PlaceOpcode \/ PlaceDisp \/ PadNops
  /\ Expose(ThreadsAt(loc.fn + 1 .. loc.fn + size - 1))
  /\ UNCHANGED <<original, applying>>

Prepare ==
  /\ Disassemble \/ EndSizing \/ BuildNear \/ Record
  /\ UNCHANGED callVars

\* A thread that fetches the entry while memcpy restores it may read a mixture.
Unhook ==
  /\ ~applying /\ RemoveHook(Function)
  /\ \E T \in SUBSET ThreadsAt({Entry}) :
       threads' = [t \in Threads |->
         IF threads[t].at # Entry THEN threads[t]
         ELSE [threads[t] EXCEPT !.exposed = TRUE, !.at = IF t \in T THEN Lost ELSE @]]
  /\ UNCHANGED <<original, applying>>

\* A thread may be in the trampoline, or in a hook that will still call it.
Release ==
  LET b == active_hooks[Function].trampoline
  IN  /\ FreeTrampoline
      /\ Expose(ThreadsAt(Targets \cup (b .. b + BlockSize - 1)))
      /\ UNCHANGED <<original, applying>>

-----------------------------------------------------------------------------
(* A thread of the process *)

Step(t, r) ==
  /\ threads' = [threads EXCEPT ![t] = r]
  /\ UNCHANGED <<vars, original, applying>>

Call(t) == threads[t].at = Outside /\ Step(t, NewCall(Entry))

\* A return; only a call that ran all of the function may.
Return(t) ==
  LET c == threads[t]
  IN  /\ c.at = End
      /\ Step(t, IF c.due = TextLen THEN NewCall(Outside) ELSE [c EXCEPT !.at = Lost])

\* Jumps of the library are followed; everything else must have the effect of
\* the instruction that is due.
Execute(t) ==
  LET c == threads[t]
      a == c.at
      o == Function + c.due
      b == IF pc = "disp" /\ a = loc.fn THEN [c EXCEPT !.exposed = TRUE] ELSE c
      goto(x) == IF x \in DOMAIN mem \cup Targets \cup {End} THEN x ELSE Lost
  IN  /\ a \in DOMAIN mem
      /\ Step(t,
           IF ~Decodes(mem, a) THEN [b EXCEPT !.at = Lost]
           ELSE IF At(mem, a).op \in {"jmp", "qjmp"} THEN [b EXCEPT !.at = goto(Follow(mem, a))]
           ELSE IF /\ o \in DOMAIN pristine
                   /\ SameEffect(At(mem, a), a, At(pristine, o), o)
           THEN [b EXCEPT !.at = goto(a + At(mem, a).len), !.due = @ + At(mem, a).len]
           ELSE [b EXCEPT !.at = IF At(mem, a) = Nop[1] THEN goto(a + 1) ELSE Lost])

\* Mutant: the hook calls the function by its name.
MessageBoxA_hook_x64_by_name(t) ==
  LET c == threads[t]
  IN  /\ c.at \in Targets
      /\ Step(t, [c EXCEPT !.at = Entry, !.hooked = TRUE])

\* The call through the pointer that start has yet to assign.
MessageBoxA_hook_x64(t) ==
  LET c == threads[t]
  IN  /\ c.at \in Targets
      /\ Step(t, [c EXCEPT !.at = IF original = 0 THEN Lost ELSE original,
                           !.hooked = TRUE, !.exposed = @ \/ applying])

Run(t) == Return(t) \/ Execute(t) \/ MessageBoxA_hook_x64(t)

CallNext ==
  \/ StartHooks \/ StartAssigns \/ StartFails
  \/ Prepare \/ Patch \/ Unhook \/ Release
  \/ \E t \in Threads : Call(t) \/ Run(t)

\* Every thread is scheduled; that start goes on is not assumed.
CallSpec ==
  CallInit /\ [][CallNext]_<<vars, callVars>> /\ \A t \in Threads : WF_<<vars, callVars>>(Run(t))
-----------------------------------------------------------------------------
(* Properties *)

\* Types; the pointer that the hook calls is null or the start of a trampoline.
CallTypeOK ==
  /\ threads \in [Threads -> [at : DOMAIN pristine \cup Targets \cup {End, Outside, Lost},
                              due : 0 .. TextLen, hooked : BOOLEAN, exposed : BOOLEAN,
                              owed : BOOLEAN]]
  /\ original \in NearBlocks \cup {0} /\ applying \in BOOLEAN

\* The windows are all there are: a call goes wrong only if it was in the bytes
\* being overwritten, fetched the entry while it was half written or restored,
\* reached the hook before start assigned the result of apply_hook_x64, or was in
\* the hook or the trampoline when that was released (HookLib.h:121, Main.cpp:22).
LostOnlyInWindow == \A t \in Threads : threads[t].at = Lost => threads[t].exposed

\* A call that began with the hook in place and met no window returns only after
\* it ran the hook and, after it, the function (README.md:46).
HookRuns ==
  \A t \in Threads : LET c == threads[t]
                     IN  c.at = End /\ c.owed /\ ~c.exposed => c.hooked

\* Every call returns, or is lost: the hook does not call itself, and no jump
\* leads round in a circle, however the entry changes meanwhile.
CallsEnd == \A t \in Threads : threads[t].at # Outside ~> threads[t].at \in {Outside, Lost}

\* The hook can always transfer control back to the original function
\* (README.md:43, 46).
HookHasOriginal == \A t \in Threads : threads[t].at \in Targets => original # 0
=============================================================================
