-------------------------- MODULE CodeMemoryProofs --------------------------
(***************************************************************************)
(* What the operators of CodeMemory return: lemmas for the proofs about    *)
(* the modules that write machine code.                                    *)
(***************************************************************************)
EXTENDS CodeMemory, SequenceTheorems, TLAPS

\* An instruction of at most 15 bytes, or rewritten code of any length.
LEMMA InsType ==
  ASSUME NEW o \in Ops, NEW n \in Nat, NEW x \in Int, n <= 15 \/ o = "code"
  PROVE  Ins(o, n, x) \in Instruction
BY DEF Ins, Instruction, MaxLength

\* The bytes of an instruction.
LEMMA BytesType ==
  ASSUME NEW i \in Instruction
  PROVE  Bytes(i) \in Seq(Cell) /\ Len(Bytes(i)) = i.len
<1>1. i.len \in Nat
  BY DEF Instruction
<1>2. \A k \in 1 .. i.len : <<i, k - 1>> \in Cell
  BY <1>1 DEF Cell
<1>3. Bytes(i) \in [1 .. i.len -> Cell]
  BY <1>2 DEF Bytes
<1>4. Bytes(i) \in Seq(Cell)
  BY <1>1, <1>3, SeqDef
<1>5. DOMAIN Bytes(i) = 1 .. i.len
  BY DEF Bytes
<1> QED
  BY <1>1, <1>4, <1>5, LenProperties

\* Reading n bytes that are mapped.
LEMMA PeekType ==
  ASSUME NEW D, NEW m \in [D -> Cell], NEW a \in Int, NEW n \in Nat,
         a .. a + n - 1 \subseteq D
  PROVE  Peek(m, a, n) \in Seq(Cell) /\ Len(Peek(m, a, n)) = n
<1>1. \A k \in 1 .. n : a + k - 1 \in a .. a + n - 1
  OBVIOUS
<1>2. \A k \in 1 .. n : m[a + k - 1] \in Cell
  BY <1>1
<1>3. Peek(m, a, n) \in [1 .. n -> Cell]
  BY <1>2 DEF Peek
<1>4. Peek(m, a, n) \in Seq(Cell)
  BY <1>3, SeqDef
<1>5. DOMAIN Peek(m, a, n) = 1 .. n
  BY DEF Peek
<1> QED
  BY <1>4, <1>5, LenProperties

\* Writing keeps the extent of memory and its type.
LEMMA PokeType ==
  ASSUME NEW D, D \subseteq Int, NEW m \in [D -> Cell], NEW a \in Int,
         NEW s \in Seq(Cell)
  PROVE  Poke(m, a, s) \in [D -> Cell]
<1>1. \A x \in D : a <= x /\ x < a + Len(s) => s[x - a + 1] \in Cell
  <2> TAKE x \in D
  <2> HAVE a <= x /\ x < a + Len(s)
  <2>1. Len(s) \in Nat /\ x \in Int
    BY LenProperties
  <2>2. x - a + 1 \in 1 .. Len(s)
    BY <2>1
  <2> QED
    BY <2>2, ElementOfSeq
<1> QED
  BY <1>1 DEF Poke

LEMMA FillType ==
  ASSUME NEW D, NEW m \in [D -> Cell], NEW a, NEW n, NEW c \in Cell
  PROVE  Fill(m, a, n, c) \in [D -> Cell]
BY DEF Fill

LEMMA WrapType ==
  ASSUME NEW d \in Int PROVE Wrap32(d) \in Int
BY ReachAssumption DEF Wrap32

LEMMA RelocateType ==
  ASSUME NEW D, NEW m \in [D -> Cell], NEW to \in Int, NEW from \in Int, NEW n \in Int
  PROVE  Relocate(m, to, from, n) \in [D -> Cell]
<1>1. ASSUME NEW x \in D
      PROVE  <<[At(m, x) EXCEPT !.arg = Wrap32(@ + from - to)], m[x][2]>> \in Cell
  <2>1. m[x] \in Cell /\ At(m, x) \in Instruction /\ m[x][2] \in Nat
    BY DEF Cell, At
  <2>2. Wrap32(At(m, x).arg + from - to) \in Int
    BY <2>1, WrapType DEF Instruction
  <2>3. [At(m, x) EXCEPT !.arg = Wrap32(@ + from - to)] \in Instruction
    BY <2>1, <2>2 DEF Instruction
  <2> QED
    BY <2>1, <2>3 DEF Cell
<1> QED
  BY <1>1 DEF Relocate

LEMMA JumpTypes ==
  ASSUME NEW from \in Int, NEW to \in Int
  PROVE  /\ Bytes(Jmp(from, to)) \in Seq(Cell) /\ Len(Bytes(Jmp(from, to))) = 5
         /\ Bytes(QwordJmp(from, to)) \in Seq(Cell)
         /\ Bytes(Pointer(to)) \in Seq(Cell)
<1>1. Wrap32(to - (from + 5)) \in Int /\ Wrap32(to - (from + 6)) \in Int
  BY WrapType
<1>2. /\ Jmp(from, to) \in Instruction /\ QwordJmp(from, to) \in Instruction
      /\ Pointer(to) \in Instruction
  BY <1>1, InsType DEF Jmp, QwordJmp, Pointer, Ops
<1>3. Jmp(from, to).len = 5
  BY DEF Jmp, Ins
<1> QED
  BY <1>2, <1>3, BytesType

\* Writing one of the library's jumps, or the address for one.
LEMMA PokeJump ==
  ASSUME NEW D, D \subseteq Int, NEW m \in [D -> Cell], NEW a \in Int,
         NEW from \in Int, NEW to \in Int
  PROVE  /\ Poke(m, a, Bytes(Jmp(from, to))) \in [D -> Cell]
         /\ Poke(m, a, Bytes(QwordJmp(from, to))) \in [D -> Cell]
         /\ Poke(m, a, Bytes(Pointer(to))) \in [D -> Cell]
<1>1. /\ Bytes(Jmp(from, to)) \in Seq(Cell) /\ Bytes(QwordJmp(from, to)) \in Seq(Cell)
      /\ Bytes(Pointer(to)) \in Seq(Cell)
  BY JumpTypes
<1> QED
  BY <1>1, PokeType

LEMMA FillerTypes == Nop \in Cell /\ Zero \in Cell /\ Unmapped \in Cell
<1>1. /\ Ins("nop", 1, 0) \in Instruction /\ Ins("zero", 1, 0) \in Instruction
      /\ Ins("unmapped", 1, 0) \in Instruction
  BY InsType DEF Ops
<1> QED
  BY <1>1 DEF Nop, Zero, Unmapped, Cell

-----------------------------------------------------------------------------
(* The cells they write *)

\* A displacement that fits is stored as it is.
LEMMA WrapFits ==
  ASSUME NEW d \in -Reach .. Reach - 1 PROVE Wrap32(d) = d
<1> DEFINE x == d + Reach
           n == 2 * Reach
<1>1. x \in Int /\ n \in Int /\ 0 <= x /\ x < n
  BY ReachAssumption
<1> HIDE DEF x, n
<1>2. (x % n) = x
  BY <1>1
<1> QED BY <1>2, ReachAssumption DEF Wrap32, x, n

\* Instruction i stands at a; a near jump to `to` does.
WrittenAt(m, a, i) == \A k \in 0 .. i.len - 1 : a + k \in DOMAIN m /\ m[a + k] = <<i, k>>

JumpAt(m, a, to) ==
  \A k \in 0 .. 4 : a + k \in DOMAIN m /\ m[a + k] = <<Jmp(a, to), k>>

LEMMA JumpFollow ==
  ASSUME NEW m, NEW a \in Int, NEW to \in Int, JumpAt(m, a, to),
         to - (a + 5) \in -Reach .. Reach - 1
  PROVE  Follow(m, a) = to
<1> DEFINE j == Jmp(a, to)
<1>1. j.op = "jmp" /\ j.len = 5 /\ j.arg = to - (a + 5)
  BY WrapFits DEF Jmp, Ins
<1> HIDE DEF j
<1>2. \A k \in 0 .. 4 : a + k \in DOMAIN m /\ m[a + k] = <<j, k>>
  BY DEF JumpAt, j
<1>3. a \in DOMAIN m /\ m[a] = <<j, 0>>
  <2>1. a + 0 = a
    OBVIOUS
  <2> QED BY <1>2, <2>1
<1>4. At(m, a) = j
  BY <1>3 DEF At
<1>5. Decodes(m, a)
  BY <1>1, <1>2, <1>3, <1>4 DEF Decodes, Intact
<1> QED BY <1>1, <1>4, <1>5 DEF Follow

LEMMA JumpPoked ==
  ASSUME NEW m, NEW a \in Int, NEW to \in Int, a .. a + 4 \subseteq DOMAIN m
  PROVE  /\ JumpAt(Poke(m, a, Bytes(Jmp(a, to))), a, to)
         /\ \A x \in DOMAIN m \cap Int : x \notin a .. a + 4 =>
              Poke(m, a, Bytes(Jmp(a, to)))[x] = m[x]
         /\ DOMAIN Poke(m, a, Bytes(Jmp(a, to))) = DOMAIN m
<1> DEFINE s == Bytes(Jmp(a, to))
<1>1. Len(s) = 5
  BY JumpTypes
<1>2. \A k \in 1 .. 5 : s[k] = <<Jmp(a, to), k - 1>>
  BY DEF Bytes, Jmp, Ins
<1> HIDE DEF s
<1>3. \A k \in 0 .. 4 : a + k \in DOMAIN m /\ Poke(m, a, s)[a + k] = <<Jmp(a, to), k>>
  <2> TAKE k \in 0 .. 4
  <2>1. a + k \in DOMAIN m
    OBVIOUS
  <2>2. Poke(m, a, s)[a + k] = s[a + k - a + 1]
    BY <1>1, <2>1 DEF Poke
  <2>3. s[a + k - a + 1] = <<Jmp(a, to), k>>
    <3>1. a + k - a + 1 = k + 1 /\ k + 1 \in 1 .. 5 /\ (k + 1) - 1 = k
      OBVIOUS
    <3> QED BY <1>2, <3>1
  <2> QED BY <2>1, <2>2, <2>3
<1>4. DOMAIN Poke(m, a, s) = DOMAIN m
  BY DEF Poke
<1>5. \A x \in DOMAIN m \cap Int : x \notin a .. a + 4 => Poke(m, a, s)[x] = m[x]
  BY <1>1 DEF Poke
<1> QED BY <1>3, <1>4, <1>5 DEF JumpAt, s

\* What memcpy writes and what it leaves alone.
LEMMA PokeCells ==
  ASSUME NEW m, DOMAIN m \subseteq Int, NEW a \in Int, NEW s \in Seq(Cell)
  PROVE  /\ DOMAIN Poke(m, a, s) = DOMAIN m
         /\ \A k \in 0 .. Len(s) - 1 : a + k \in DOMAIN m => Poke(m, a, s)[a + k] = s[k + 1]
         /\ \A x \in DOMAIN m : x \notin a .. a + Len(s) - 1 => Poke(m, a, s)[x] = m[x]
<1>1. Len(s) \in Nat
  BY LenProperties
<1>2. ASSUME NEW k \in 0 .. Len(s) - 1, a + k \in DOMAIN m
      PROVE  Poke(m, a, s)[a + k] = s[k + 1]
  <2>1. a <= a + k /\ a + k < a + Len(s) /\ (a + k) - a + 1 = k + 1
    BY <1>1
  <2> QED BY <1>2, <2>1 DEF Poke
<1>3. ASSUME NEW x \in DOMAIN m, x \notin a .. a + Len(s) - 1
      PROVE  Poke(m, a, s)[x] = m[x]
  BY <1>1, <1>3 DEF Poke
<1> QED BY <1>2, <1>3 DEF Poke

LEMMA BytesPoked ==
  ASSUME NEW m, DOMAIN m \subseteq Int, NEW a \in Int, NEW i \in Instruction,
         a .. a + i.len - 1 \subseteq DOMAIN m
  PROVE  /\ DOMAIN Poke(m, a, Bytes(i)) = DOMAIN m
         /\ WrittenAt(Poke(m, a, Bytes(i)), a, i)
         /\ \A x \in DOMAIN m : x \notin a .. a + i.len - 1 => Poke(m, a, Bytes(i))[x] = m[x]
<1> DEFINE s == Bytes(i)
<1>1. s \in Seq(Cell) /\ Len(s) = i.len /\ i.len \in Nat
  BY BytesType DEF Instruction
<1>2. \A k \in 1 .. i.len : s[k] = <<i, k - 1>>
  BY DEF Bytes
<1> HIDE DEF s
<1>3. ASSUME NEW k \in 0 .. i.len - 1
      PROVE  a + k \in DOMAIN m /\ Poke(m, a, s)[a + k] = <<i, k>>
  <2>1. a + k \in DOMAIN m
    BY <1>1
  <2>2. Poke(m, a, s)[a + k] = s[k + 1]
    BY <1>1, <2>1, PokeCells
  <2>3. k + 1 \in 1 .. i.len /\ (k + 1) - 1 = k
    BY <1>1
  <2> QED BY <1>2, <2>1, <2>2, <2>3
<1>4. DOMAIN Poke(m, a, s) = DOMAIN m
  BY DEF Poke
<1>5. \A x \in DOMAIN m : x \notin a .. a + i.len - 1 => Poke(m, a, s)[x] = m[x]
  BY <1>1, PokeCells
<1> QED BY <1>3, <1>4, <1>5 DEF WrittenAt, s

\* What stands somewhere stays there as long as its cells do.
LEMMA WrittenKept ==
  ASSUME NEW m, NEW n, DOMAIN n = DOMAIN m, NEW a \in Int, NEW i, WrittenAt(m, a, i),
         \A x \in DOMAIN m : x \in a .. a + i.len - 1 => n[x] = m[x], i.len \in Nat
  PROVE  WrittenAt(n, a, i)
<1> SUFFICES ASSUME NEW k \in 0 .. i.len - 1
             PROVE  a + k \in DOMAIN n /\ n[a + k] = <<i, k>>
  BY DEF WrittenAt
<1>1. a + k \in DOMAIN m /\ m[a + k] = <<i, k>>
  BY DEF WrittenAt
<1>2. a + k \in a .. a + i.len - 1
  OBVIOUS
<1> QED BY <1>1, <1>2

\* The sizes of what the library writes.
LEMMA WrittenSizes ==
  ASSUME NEW from \in Int, NEW to \in Int
  PROVE  /\ Jmp(from, to) \in Instruction /\ Jmp(from, to).len = 5
         /\ QwordJmp(from, to) \in Instruction /\ QwordJmp(from, to).len = 6
         /\ Pointer(to) \in Instruction /\ Pointer(to).len = 8
<1>1. Wrap32(to - (from + 5)) \in Int /\ Wrap32(to - (from + 6)) \in Int
  BY WrapType
<1> QED BY <1>1, InsType DEF Jmp, QwordJmp, Pointer, Ins, Ops

\* Where a qword jump leads.
LEMMA QwordFollow ==
  ASSUME NEW m, NEW a \in Int, NEW p \in Int, NEW t,
         p - (a + 6) \in -Reach .. Reach - 1,
         WrittenAt(m, a, QwordJmp(a, p)), WrittenAt(m, p, Pointer(t))
  PROVE  Follow(m, a) = t
<1> DEFINE q == QwordJmp(a, p)
           i == Pointer(t)
<1>1. q.op = "qjmp" /\ q.len = 6 /\ q.arg = p - (a + 6)
  BY WrapFits DEF QwordJmp, Ins
<1>2. i.op = "ptr" /\ i.len = 8 /\ i.arg = t
  BY DEF Pointer, Ins
<1> HIDE DEF q, i
<1>3. (\A k \in 0 .. 5 : a + k \in DOMAIN m /\ m[a + k] = <<q, k>>)
      /\ (\A k \in 0 .. 7 : p + k \in DOMAIN m /\ m[p + k] = <<i, k>>)
  BY <1>1, <1>2 DEF WrittenAt, q, i
<1>4. a \in DOMAIN m /\ m[a] = <<q, 0>> /\ p \in DOMAIN m /\ m[p] = <<i, 0>>
  <2>1. a + 0 = a /\ p + 0 = p
    OBVIOUS
  <2> QED BY <1>3, <2>1
<1>5. At(m, a) = q /\ At(m, p) = i
  BY <1>4 DEF At
<1>6. Decodes(m, a)
  BY <1>1, <1>3, <1>4, <1>5 DEF Decodes, Intact
<1>7. Intact(m, p)
  BY <1>2, <1>3, <1>4, <1>5 DEF Intact
<1>8. a + 6 + At(m, a).arg = p
  BY <1>1, <1>5
<1> QED BY <1>1, <1>2, <1>5, <1>6, <1>7, <1>8 DEF Follow
=============================================================================
