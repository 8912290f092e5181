------------------------ MODULE MCTrampolineBuilder ------------------------
(***************************************************************************)
(* Far hooks of one function.  A body is written as the sequence of its    *)
(* instructions; Bodies wants them by offset.                              *)
(***************************************************************************)
EXTENDS TrampolineBuilder

None == {}
RAXandRCX == {53, 54}

Plain(n) ==
  [name |-> "other", len |-> n, relative |-> FALSE, mem |-> FALSE, disp |-> 0,
   mem_id |-> 0, width |-> 64, reg |-> 0, form |-> TRUE]
Jump(name, n, d) ==
  [Plain(n) EXCEPT !.name = name, !.relative = TRUE, !.disp = d]
Through(name, d) == [Jump(name, 6, d) EXCEPT !.mem = TRUE]
DataAt(name, id, w, r, d, form) ==
  [Through(name, d) EXCEPT !.len = 7, !.mem_id = id, !.width = w, !.reg = r, !.form = form]

\* The offset of instruction k of a sequence.
OffsetOf(s, k) == FoldLeft(LAMBDA n, i : n + i.len, 0, SubSeq(s, 1, k - 1))

ByOffset(s) ==
  [o \in {OffsetOf(s, k) : k \in DOMAIN s} |-> s[CHOOSE k \in DOMAIN s : OffsetOf(s, k) = o]]

\* AL SIL R9B, AX SP R9W, EAX ESP R11D, RAX RCX RSP R9; no register.
Operands == {0, 1, 11, 14, 21, 25, 30, 37, 41, 48, 53, 54, 57, 62}

WidthOf(r) == IF r = 0 THEN {8, 16, 32, 64} ELSE {Width(r)}

\* cmp, add and mov between memory, near and far from address 0, and each
\* operand; lea or movzx have no form with a register in place of memory.
DataInstructions ==
  {i \in UNION {{DataAt(name, id, w, r, d, form) : w \in WidthOf(r)} :
                   name \in {"cmp", "add", "mov"}, id \in {0, 1}, r \in Operands,
                   d \in {-19000, 300}, form \in BOOLEAN} :
     i.reg = 0 => i.mem_id = 0}

CmpR11 == DataAt("cmp", 0, 32, 48, 300, TRUE)
Jcc32  == Jump("jcc", 6, 500)
Jcc8   == Jump("jcc", 2, 40)
Call   == Jump("call", 5, 900)
Jmp8   == Jump("jmp", 2, -20)

\* Branches among instructions that can be encoded.
Mixed ==
  {<<Plain(2), a, b, Plain(9)>> :
      a \in {CmpR11, Jcc8}, b \in {Jcc8, Plain(2), Jmp8}}
  \cup {<<Jcc8, Plain(3), CmpR11, Call>>, <<Call, Jcc32, CmpR11>>,
        <<CmpR11, CmpR11>>, <<CmpR11, Plain(6), Plain(15)>>,
        <<Jmp8, Jcc8, Jcc8, Jcc8, Jcc8, Jcc8, Plain(2)>>,
        <<DataAt("cmp", 1, 64, 54, 300, TRUE), Plain(6), DataAt("mov", 1, 32, 38, 300, TRUE)>>}

\* LOOPs, each of which becomes six times as long: the longest code with three of
\* them, which just fits, and with four and with seven, where it does not.
Loop      == [Jump("loop", 2, -2) EXCEPT !.form = FALSE]
CmpRCX(n) == [DataAt("cmp", 1, 64, 54, 300, TRUE) EXCEPT !.len = n]
Looping   ==
  {<<Loop, Loop, Loop, CmpRCX(7), CmpRCX(15)>>, <<Loop, Loop, Loop, Loop, Plain(5), CmpRCX(15)>>,
   <<Loop, Loop, Loop, Loop, Loop, Loop, Loop>>}

\* What cannot be encoded, or not in the length counted on: a lea, a movzx, a loop,
\* a call through memory, a seventh short branch.
Lea     == DataAt("mov", 1, 64, 54, 300, FALSE)
Movzx   == DataAt("other", 1, 8, 38, 300, FALSE)
Failing ==
  {<<Lea, Jcc32, Plain(3)>>, <<Movzx, Plain(7)>>, <<Loop, Jcc32, Plain(6)>>,
   <<Plain(4), Through("call", 900), Call>>, <<Through("jmp", 40), Jcc8, Plain(6)>>,
   <<Jcc8, Jcc8, Jcc8, Jcc8, Jcc8, Jcc8, Jcc8>>}

MCBodies   == {ByOffset(s) : s \in Mixed \cup Failing \cup Looping \cup {<<i, Plain(8)>> : i \in DataInstructions}}
\* From the README's example: sub, xor, je, call.
BranchBody == {ByOffset(<<Plain(4), Plain(3), Jcc32, Call>>)}

\* The hypothesis of the proof about data instructions holds here.
ASSUME OperandsInstance == EqualOperands
=============================================================================
