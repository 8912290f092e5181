----------------------- MODULE TrampolineBuilderProofs -----------------------
(***************************************************************************)
(* Type correctness of TrampolineBuilder; that its code and its tables     *)
(* never run into each other; that branches hit their table entries; and   *)
(* what rewritten data instructions do; for every body it may be given.    *)
(***************************************************************************)
EXTENDS TrampolineBuilder, FiniteSetTheorems, TLAPS

\* The annotated instructions are those of the body, one behind the other.
Listed ==
  /\ offset \in DOMAIN body \cup 14 .. 28
  /\ annotated_instructions = << >> => offset = 0
  /\ \A k \in 1 .. Len(annotated_instructions) :
       LET a == annotated_instructions[k]
       IN  /\ a.at \in DOMAIN body /\ a.raw = body[a.at]
           /\ k = 1 => a.at = 0
           /\ k < Len(annotated_instructions) =>
                annotated_instructions[k + 1].at = a.at + a.raw.len
           /\ k = Len(annotated_instructions) => offset = a.at + a.raw.len

\* The bytes of the function that are rewritten so far.
Consumed ==
  IF code = << >> THEN 0
  ELSE annotated_instructions[Len(code)].at + annotated_instructions[Len(code)].raw.len

\* What is known in each phase.
Phases ==
  /\ pc = "annotate" => table = << >>
  /\ pc = "built" => Len(table) = 1
  /\ pc \in {"rewrite", "done"} => Len(table) >= 2
  /\ pc \in {"annotate", "built"} => code = << >> /\ size = 0

\* How many bytes an instruction may become: a LOOP 10 more than it has, an instruction
\* with a memory operand 8 more, any other no more.
Grows(i, g) ==
  \/ i.name = "loop" /\ g <= i.len + 10
  \/ i.name # "loop" /\ (g <= i.len \/ (i.len >= 6 /\ g <= i.len + 8))

\* When c bytes, among them l LOOPs, were rewritten to s, with t entries in the table:
\* before the last instruction some d instructions with a memory operand took 6 bytes
\* each, and the LOOPs 2 each; a branch takes at least two for its table entry.
Sized(c, s, t, l) ==
  /\ c <= 13 => \E d \in Nat : 6 * d + 2 * l <= c /\ s <= c + 8 * d + 10 * l
  /\ l <= 3 => s <= 75
  /\ 2 * (t - 2) <= c

Bounded == Sized(Consumed, size, Len(table), Cardinality(Loops))

BuildInv == TypeOK /\ Listed /\ Phases

-----------------------------------------------------------------------------
(* The instructions of a body and what the encoder makes of them *)

LEMMA BodyFacts ==
  ASSUME NEW b \in Bodies, NEW o \in DOMAIN b
  PROVE  /\ o \in 0 .. 13 /\ b[o] \in Instruction
         /\ b[o].len \in 1 .. 15 /\ b[o].disp \in Int /\ b[o].reg \in 0 .. 68
         /\ b[o].mem_id \in {0, 1}
         /\ b[o].relative <=> b[o].name \in Branches \/ b[o].mem
         /\ b[o].mem => b[o].len >= 6
         /\ b[o].relative => b[o].len >= 2
         /\ b[o].name = "loop" => ~b[o].form
         /\ o + b[o].len \in DOMAIN b \cup 14 .. 28
BY BodiesAssumption, SMT DEF Instruction

\* A scratch register is found, and is one of the first three of 64 bits.
LEMMA UnusedType ==
  ASSUME NEW i \in Instruction, NEW r \in UnusedRegisters(i)
  PROVE  r \in 53 .. 68 /\ r \in 53 .. 55
<1>1. PICK left \in {{}} \cup {{q} : q \in Leftover} : r = Min((53 .. 68) \ ({RSP, i.reg} \cup left))
  BY DEF UnusedRegisters
<1> DEFINE S == (53 .. 68) \ ({RSP, i.reg} \cup left)
<1>2. PICK q \in {53, 54, 55} : q \in S /\ \A s \in S : q <= s
  <2>1. CASE 53 \in S
    BY <2>1, SMT
  <2>2. CASE 53 \notin S /\ 54 \in S
    BY <2>2, SMT
  <2>3. CASE 53 \notin S /\ 54 \notin S
    <3>1. 55 \in S
      <4>1. left = {} \/ \E q \in Leftover : left = {q}
        BY <1>1
      <4>2. 53 \in {RSP, i.reg} \cup left /\ 54 \in {RSP, i.reg} \cup left
        BY <2>3, SMT
      <4> QED BY <4>1, <4>2, SMT DEF RSP
    <3> QED BY <3>1, <2>3, SMT
  <2> QED BY <2>1, <2>2, <2>3
<1>3. Min(S) \in S /\ Min(S) <= q
  BY <1>2, SMT DEF Min
<1>4. r \in S /\ r <= 55
  BY <1>1, <1>2, <1>3
<1> HIDE DEF S
<1>5. r \in 53 .. 68
  BY <1>4 DEF S
<1> QED BY <1>4, <1>5

LEMMA PushPopType ==
  ASSUME NEW r \in 53 .. 68
  PROVE  /\ Push(r) \in Seq(Encoded) /\ Pop(r) \in Seq(Encoded)
         /\ Length(Push(r)) \in 1 .. 2 /\ Length(Pop(r)) \in 1 .. 2
         /\ r \in 53 .. 55 => Length(Push(r)) = 1 /\ Length(Pop(r)) = 1
<1>1. \A n \in {1, 2}, o \in {"push", "pop"} : [op |-> o, reg |-> r, len |-> n] \in Encoded
  BY SMT DEF Encoded
<1>2. Push(r) # << >> /\ Pop(r) # << >>
  BY DEF Push, Pop
<1>3. r \in 53 .. 55 => Index(r) < 8
  BY SMT DEF Index
<1> QED BY <1>1, <1>2, <1>3, SMT DEF Push, Pop, Length

LEMMA LoadType ==
  ASSUME NEW r \in 53 .. 68, NEW a \in Int
  PROVE  Load(r, a) \in Seq(Encoded) /\ Length(Load(r, a)) \in 0 .. 10
<1>1. \A n \in {8, 10} : [op |-> "load", reg |-> r, addr |-> a, len |-> n] \in Encoded
  BY SMT DEF Encoded
<1> QED BY <1>1, SMT DEF Load, Length

LEMMA FitType ==
  ASSUME NEW r \in 53 .. 68, NEW other \in 0 .. 68
  PROVE  fit_register(r, other) \in 1 .. 68
BY SMT DEF fit_register, Width

LEMMA OpType ==
  ASSUME NEW i \in Instruction, NEW r \in 1 .. 68, i.len >= 6
  PROVE  /\ WithRegister(i, r) \in Seq(Encoded)
         /\ Length(WithRegister(i, r)) \in 0 .. i.len - 4
<1> DEFINE pair == IF i.mem_id = 0 THEN <<<<"reg", r>>, <<"reg", i.reg>>>>
                                   ELSE <<<<"reg", i.reg>>, <<"reg", r>>>>
           x == [op |-> "op", name |-> i.name, len |-> i.len - 4, args |-> pair]
<1>1. i.len \in Nat /\ i.reg \in 0 .. 68 /\ i.name \in Names /\ i.len - 4 \in Nat
  BY SMT DEF Instruction
<1>2. pair \in ({"reg"} \X (0 .. 68)) \X ({"reg"} \X (0 .. 68))
  <2>1. <<"reg", r>> \in {"reg"} \X (0 .. 68) /\ <<"reg", i.reg>> \in {"reg"} \X (0 .. 68)
    BY <1>1, SMT
  <2> QED BY <2>1
<1>3. WithRegister(i, r) = << >> \/ WithRegister(i, r) = <<x>>
  BY Zenon DEF WithRegister
<1> HIDE DEF pair
<1>4. x \in Encoded /\ x.len = i.len - 4
  BY <1>1, <1>2, SMT DEF Encoded
<1> DEFINE W == WithRegister(i, r)
<1>5. W = << >> \/ W = <<x>>
  BY <1>3
<1> HIDE DEF x, W
<1>6. ASSUME W = << >> PROVE W \in Seq(Encoded) /\ Length(W) \in 0 .. i.len - 4
  BY <1>6, <1>1, SMT DEF Length
<1>7. ASSUME W = <<x>> PROVE W \in Seq(Encoded) /\ Length(W) \in 0 .. i.len - 4
  <2>1. W \in Seq(Encoded) /\ W # << >> /\ W[1] = x
    BY <1>4, <1>7, SMT
  <2> QED BY <2>1, <1>1, <1>4, SMT DEF Length
<1>8. W \in Seq(Encoded) /\ Length(W) \in 0 .. i.len - 4
  BY <1>5, <1>6, <1>7
<1> QED BY <1>8 DEF W

LEMMA CopiedType ==
  ASSUME NEW i, i.len \in 1 .. 15, NEW e \in Copied(i)
  PROVE  e \in Seq(Encoded) /\ Length(e) \in 0 .. i.len
<1>1. \/ e = << >>
      \/ \E n \in {i.len, i.len - 3} \cap 1 .. 15 : e = <<[op |-> "same", len |-> n]>>
  BY DEF Copied
<1>2. CASE e = << >>
  BY <1>2, SMT DEF Length
<1>3. ASSUME NEW n \in {i.len, i.len - 3} \cap 1 .. 15, e = <<[op |-> "same", len |-> n]>>
      PROVE  e \in Seq(Encoded) /\ Length(e) \in 0 .. i.len
  <2> DEFINE x == [op |-> "same", len |-> n]
  <2>1. x \in Encoded /\ x.len = n
    BY SMT DEF Encoded
  <2>2. e = <<x>>
    BY <1>3
  <2> HIDE DEF x
  <2>3. e # << >> /\ e[1] = x /\ e \in Seq(Encoded)
    BY <2>1, <2>2, SMT
  <2>4. Length(e) = n
    BY <2>1, <2>3 DEF Length
  <2>5. n \in 0 .. i.len
    BY SMT
  <2> QED BY <2>3, <2>4, <2>5
<1> QED BY <1>1, <1>2, <1>3

LEMMA BranchType ==
  ASSUME TypeOK, NEW b \in Bodies, NEW o \in DOMAIN b, NEW d \in Int,
         NEW e \in Branch(b[o], d), IsBranch(b[o])
  PROVE  /\ e \in Seq(Encoded)
         /\ Length(e) \in 0 .. b[o].len
         /\ e # << >> => e[1].len = Length(e)
<1>1. b[o].len \in 1 .. 15 /\ (b[o].mem => b[o].len >= 6)
  BY BodyFacts
<1>2. \A n \in Nat : [op |-> "branch", at |-> size, disp |-> d, len |-> n] \in Encoded
  BY SMT DEF Encoded, TypeOK
<1>3. \/ e = << >>
      \/ \E n \in 1 .. b[o].len : e = <<[op |-> "branch", at |-> size, disp |-> d, len |-> n]>>
  BY <1>1, SMT DEF Branch
<1>4. CASE e = << >>
  BY <1>4, <1>1, SMT DEF Length
<1>5. CASE \E n \in 1 .. b[o].len : e = <<[op |-> "branch", at |-> size, disp |-> d, len |-> n]>>
  <2>1. PICK n \in 1 .. b[o].len : e = <<[op |-> "branch", at |-> size, disp |-> d, len |-> n]>>
    BY <1>5
  <2> DEFINE x == [op |-> "branch", at |-> size, disp |-> d, len |-> n]
  <2>2. x \in Encoded /\ x.len = n /\ n \in Nat
    BY <1>1, <1>2, SMT
  <2>3. e = <<x>>
    BY <2>1
  <2> HIDE DEF x
  <2>4. e # << >> /\ e[1] = x /\ e \in Seq(Encoded)
    BY <2>2, <2>3, SMT
  <2> QED BY <2>2, <2>4, <1>1, SMT DEF Length
<1> QED BY <1>3, <1>4, <1>5
-----------------------------------------------------------------------------
(* Steps *)

LEMMA SizedStart == ASSUME NEW t \in 0 .. 2 PROVE Sized(0, 0, t, 0)
<1>1. 6 * 0 + 2 * 0 <= 0 /\ 0 <= 0 + 8 * 0 + 10 * 0
  BY SMT
<1> QED BY <1>1, SMT DEF Sized

\* An instruction i that becomes g bytes, and k more entries in the table.
LEMMA SizedStep ==
  ASSUME NEW c \in 0 .. 13, NEW s \in Nat, NEW t \in Nat, NEW l \in Nat, Sized(c, s, t, l),
         NEW i, i.len \in 1 .. 15, i.name = "loop" => i.len >= 2,
         NEW g \in Nat, Grows(i, g), NEW k \in Nat, 2 * k <= i.len,
         NEW m, m = l + IF i.name = "loop" THEN 1 ELSE 0
  PROVE  Sized(c + i.len, s + g, t + k, m)
<1>1. PICK d \in Nat : 6 * d + 2 * l <= c /\ s <= c + 8 * d + 10 * l
  BY DEF Sized
<1>2. PICK n \in 1 .. 15 : n = i.len
  OBVIOUS
<1>3. 2 * (t - 2) <= c /\ 2 * k <= n
  BY <1>2 DEF Sized
<1>4. \/ m = l + 1 /\ n >= 2 /\ g <= n + 10
      \/ m = l /\ (g <= n \/ (n >= 6 /\ g <= n + 8))
  BY <1>2 DEF Grows
<1>5. m <= 3 => s + g <= 75
  <2>1. CASE m = l + 1 /\ n >= 2 /\ g <= n + 10
    BY <1>1, <2>1, SMT
  <2>2. CASE m = l /\ (g <= n \/ (n >= 6 /\ g <= n + 8))
    BY <1>1, <2>2, SMT
  <2> QED BY <1>4, <2>1, <2>2
<1>6. \E x \in Nat : 6 * x + 2 * m <= c + n /\ s + g <= c + n + 8 * x + 10 * m
  <2>1. CASE m = l + 1 /\ n >= 2 /\ g <= n + 10
    <3>1. 6 * d + 2 * m <= c + n /\ s + g <= c + n + 8 * d + 10 * m
      BY <1>1, <2>1, SMT
    <3> QED BY <3>1
  <2>2. CASE m = l /\ g <= n
    <3>1. 6 * d + 2 * m <= c + n /\ s + g <= c + n + 8 * d + 10 * m
      BY <1>1, <2>2, SMT
    <3> QED BY <3>1
  <2>3. CASE m = l /\ n >= 6 /\ g <= n + 8
    <3>1. 6 * (d + 1) + 2 * m <= c + n /\ s + g <= c + n + 8 * (d + 1) + 10 * m
      BY <1>1, <2>3, SMT
    <3>2. d + 1 \in Nat
      BY SMT
    <3> QED BY <3>1, <3>2
  <2> QED BY <1>4, <2>1, <2>2, <2>3
<1>7. 2 * (t + k - 2) <= c + n
  BY <1>3, SMT
<1> QED BY <1>2, <1>5, <1>6, <1>7 DEF Sized

LEMMA InitBuildInv == Init => BuildInv /\ Bounded
<1> SUFFICES ASSUME Init PROVE BuildInv /\ Bounded
  OBVIOUS
<1>1. Consumed = 0
  BY DEF Init, Consumed
<1>2. TypeOK
  BY SMT DEF Init, TypeOK
<1>3. Listed
  BY BodiesAssumption, SMT DEF Init, Listed
<1>4. Phases
  BY SMT DEF Init, Phases
<1>5. code = << >> /\ size = 0 /\ Len(table) = 0
  BY DEF Init
<1>6. Cardinality(Loops) = 0
  BY <1>5, FS_EmptySet DEF Loops
<1>7. Bounded
  BY <1>1, <1>5, <1>6, SizedStart DEF Bounded
<1> QED BY <1>2, <1>3, <1>4, <1>7 DEF BuildInv

LEMMA AnnotateInv == BuildInv /\ Annotate => BuildInv' /\ (Bounded => Bounded')
<1> SUFFICES ASSUME BuildInv, Annotate PROVE BuildInv' /\ (Bounded => Bounded')
  OBVIOUS
<1> DEFINE a == Annotated(body[offset], offset)
           A == annotated_instructions
           T == [raw : Instruction, at : 0 .. 13, absolute_address : Int]
<1>1. /\ A \in Seq(T) /\ body \in Bodies /\ offset \in DOMAIN body /\ A' = Append(A, a)
      /\ offset' = offset + body[offset].len /\ body' = body
  BY Zenon DEF BuildInv, TypeOK, Annotate
<1>2. /\ offset \in 0 .. 13 /\ body[offset] \in Instruction /\ body[offset].len \in 1 .. 15
      /\ body[offset].disp \in Int /\ offset' \in DOMAIN body \cup 14 .. 28
  BY <1>1, BodyFacts
<1>3. a \in T /\ a.at = offset /\ a.raw = body[offset]
  BY <1>2, NumbersAssumption, SMT DEF Annotated
<1> HIDE DEF a
<1>4. TypeOK'
  <2>1. DOMAIN body \subseteq 0 .. 13
    BY <1>1, BodiesAssumption
  <2>2. A' \in Seq(T) /\ Len(A') = Len(A) + 1
    BY <1>1, <1>3, SMT
  <2> QED BY <1>1, <1>2, <2>1, <2>2, SMT DEF BuildInv, TypeOK, Annotate
<1>5. Listed'
  <2>1. Len(A') = Len(A) + 1 /\ A'[Len(A) + 1] = a /\ \A k \in 1 .. Len(A) : A'[k] = A[k]
    BY <1>1, <1>3, SMT
  <2>2. A = << >> => offset = 0
    BY DEF BuildInv, Listed
  <2>3. A' # << >> /\ Len(A) \in Nat /\ (Len(A) = 0 => A = << >>)
    BY <1>1, <1>3, SMT
  <2> SUFFICES ASSUME NEW k \in 1 .. Len(A')
               PROVE  /\ A'[k].at \in DOMAIN body /\ A'[k].raw = body[A'[k].at]
                      /\ k = 1 => A'[k].at = 0
                      /\ k < Len(A') => A'[k + 1].at = A'[k].at + A'[k].raw.len
                      /\ k = Len(A') => offset' = A'[k].at + A'[k].raw.len
    BY <1>1, <1>2, <2>3, Zenon DEF Listed
  <2>4. CASE k = Len(A) + 1
    BY <2>4, <2>1, <2>2, <2>3, <1>1, <1>3, SMT
  <2>5. CASE k \in 1 .. Len(A)
    <3>1. /\ A[k].at \in DOMAIN body /\ A[k].raw = body[A[k].at]
          /\ k = 1 => A[k].at = 0
          /\ k < Len(A) => A[k + 1].at = A[k].at + A[k].raw.len
          /\ k = Len(A) => offset = A[k].at + A[k].raw.len
      BY <2>5 DEF BuildInv, Listed
    <3>2. CASE k < Len(A)
      <4>1. k + 1 \in 1 .. Len(A)
        BY <3>2, <2>3, <2>5, SMT
      <4> QED BY <3>1, <3>2, <4>1, <2>1, <2>3, <2>5, SMT
    <3>3. CASE k = Len(A)
      BY <3>1, <3>3, <2>1, <2>3, <1>3, SMT
    <3> QED BY <3>2, <3>3, <2>3, <2>5, SMT
  <2> QED BY <2>1, <2>3, <2>4, <2>5, SMT
<1>6. Phases' /\ (Bounded => Bounded')
  <2>1. code = << >> /\ code' = code /\ table' = table /\ size' = size /\ pc' = pc
    BY DEF Annotate, BuildInv, Phases
  <2>2. Consumed = 0 /\ Consumed' = 0
    BY <2>1 DEF Consumed
  <2>3. Loops = {} /\ Loops' = {}
    BY <2>1 DEF Loops
  <2>4. Bounded => Bounded'
    BY <2>1, <2>2, <2>3, Zenon DEF Bounded
  <2> QED BY <2>1, <2>4, Zenon DEF BuildInv, Phases
<1> QED BY <1>4, <1>5, <1>6 DEF BuildInv

LEMMA TablesInv ==
  BuildInv /\ (initialize_tables \/ BuildBegins) => BuildInv' /\ Bounded'
<1> SUFFICES ASSUME BuildInv, initialize_tables \/ BuildBegins
             PROVE  BuildInv' /\ Bounded'
  OBVIOUS
<1>1. /\ UNCHANGED <<body, offset, annotated_instructions, code, size, runtime_address>>
      /\ code = << >> /\ size = 0
  BY SMT DEF initialize_tables, BuildBegins, BuildInv, Phases
<1>2. /\ table \in Seq(Int)
      /\ \/ pc' = "built" /\ table = << >> /\ table' = Append(table, Function + offset)
         \/ pc' = "rewrite" /\ Len(table) = 1 /\ table' = Append(table, Hook)
  BY SMT DEF initialize_tables, BuildBegins, place_relocation, BuildInv, Phases, TypeOK
<1>3. /\ table' \in Seq(Int)
      /\ \/ pc' = "built" /\ Len(table') = 1
         \/ pc' = "rewrite" /\ Len(table') = 2
  <2>1. Function + offset \in Int /\ Hook \in Int
    BY NumbersAssumption, SMT DEF BuildInv, TypeOK
  <2>2. \A x \in Int : Append(table, x) \in Seq(Int) /\ Len(Append(table, x)) = Len(table) + 1
    BY <1>2, SMT
  <2>3. table = << >> => Len(table) = 0
    OBVIOUS
  <2>4. CASE pc' = "built" /\ table = << >> /\ table' = Append(table, Function + offset)
    <3>1. table' \in Seq(Int) /\ Len(table') = Len(table) + 1
      BY <2>1, <2>2, <2>4
    <3> QED BY <3>1, <2>3, <2>4, SMT
  <2>5. CASE pc' = "rewrite" /\ Len(table) = 1 /\ table' = Append(table, Hook)
    <3>1. table' \in Seq(Int) /\ Len(table') = Len(table) + 1
      BY <2>1, <2>2, <2>5
    <3> QED BY <3>1, <2>5, SMT
  <2> QED BY <1>2, <2>4, <2>5
<1>4. TypeOK'
  BY <1>1, <1>3, Zenon DEF BuildInv, TypeOK
<1>5. Listed'
  BY <1>1, Zenon DEF BuildInv, Listed
<1>6. Consumed' = 0
  BY <1>1 DEF Consumed
<1> DEFINE n == Len(table')
<1>7. code' = << >> /\ size' = 0 /\ ((pc' = "built" /\ n = 1) \/ (pc' = "rewrite" /\ n = 2))
  BY <1>1, <1>3
<1>8. Phases' /\ Bounded'
  <2> HIDE DEF n
  <2>2. pc' # "annotate" /\ (pc' = "built" => n = 1) /\ (pc' \in {"rewrite", "done"} => n >= 2)
    BY <1>7, SMT
  <2>3. Phases'
    BY <1>7, <2>2, Zenon DEF Phases, n
  <2>4. Loops' = {}
    BY <1>7 DEF Loops
  <2>5. Cardinality(Loops') = 0
    BY <2>4, FS_EmptySet
  <2>6. n \in 0 .. 2
    BY <1>7, SMT
  <2>7. Sized(0, 0, n, 0)
    BY <2>6, SizedStart
  <2>8. Bounded'
    BY <1>6, <1>7, <2>5, <2>7, Zenon DEF Bounded, n
  <2> QED BY <2>3, <2>8
<1> QED BY <1>4, <1>5, <1>8 DEF BuildInv

LEMMA CurrentFacts ==
  ASSUME BuildInv, Rewriting
  PROVE  /\ Current.at \in DOMAIN body /\ Current.raw = body[Current.at]
         /\ Current.absolute_address \in Int
         /\ Consumed = Current.at
<1> DEFINE A == annotated_instructions
           T == [raw : Instruction, at : 0 .. 13, absolute_address : Int]
<1>1. A \in Seq(T) /\ Len(A) \in Nat /\ code \in Seq(Seq(Encoded)) /\ Len(code) \in Nat
  BY SMT DEF BuildInv, TypeOK
<1>2. Len(code) + 1 \in 1 .. Len(A)
  BY <1>1, SMT DEF Rewriting
<1> HIDE DEF T
<1>3. Current \in T
  BY <1>1, <1>2, SMT DEF Current
<1>4. /\ Current.at \in DOMAIN body /\ Current.raw = body[Current.at]
      /\ Len(code) + 1 = 1 => Current.at = 0
  BY <1>2, Zenon DEF BuildInv, Listed, Current
<1> USE DEF T
<1>5. CASE code = << >>
  BY <1>5, <1>4, <1>3, SMT DEF Consumed
<1>6. CASE code # << >>
  <2>1. Len(code) \in 1 .. Len(A) /\ Len(code) < Len(A)
    BY <1>1, <1>2, <1>6, SMT
  <2>2. A[Len(code) + 1].at = A[Len(code)].at + A[Len(code)].raw.len
    BY <2>1, Zenon DEF BuildInv, Listed
  <2> QED BY <2>2, <1>6, <1>3, <1>4, SMT DEF Consumed, Current
<1> QED BY <1>5, <1>6

LEMMA LoopsStep ==
  ASSUME BuildInv, Rewriting, NEW e, code' = Append(code, e), UNCHANGED annotated_instructions
  PROVE  /\ Cardinality(Loops) \in Nat
         /\ Cardinality(Loops') = Cardinality(Loops) + IF Current.raw.name = "loop" THEN 1 ELSE 0
<1>1. PICK n : n = Len(code)
  OBVIOUS
<1>2. n \in Nat /\ DOMAIN code = 1 .. n /\ DOMAIN code' = 1 .. n + 1
  <2> DEFINE S == Seq(Encoded)
  <2>1. code \in Seq(S)
    BY DEF BuildInv, TypeOK
  <2> HIDE DEF S
  <2> QED BY <1>1, <2>1
<1>3. Rewritten(n + 1) = Current.raw /\ \A k : Rewritten(k)' = Rewritten(k)
  BY <1>1 DEF Rewritten, Current
<1>4. Loops = {k \in 1 .. n : Rewritten(k).name = "loop"}
  BY <1>2 DEF Loops
<1>5. Loops' = {k \in 1 .. n + 1 : Rewritten(k).name = "loop"}
  BY <1>2, <1>3 DEF Loops
<1> DEFINE A == Loops
           B == Loops'
<1>6. A \subseteq 1 .. n /\ B = A \cup (IF Current.raw.name = "loop" THEN {n + 1} ELSE {})
  BY <1>2, <1>3, <1>4, <1>5
<1> HIDE DEF A, B
<1>7. IsFiniteSet(1 .. n)
  BY <1>2, FS_Interval
<1>8. IsFiniteSet(A) /\ Cardinality(A) \in Nat
  BY <1>6, <1>7, FS_Subset, FS_CardinalityType
<1>9. n + 1 \notin A
  BY <1>2, <1>6
<1>10. Cardinality(B) = Cardinality(A) + IF Current.raw.name = "loop" THEN 1 ELSE 0
  <2>1. CASE Current.raw.name = "loop"
    <3>1. B = A \cup {n + 1}
      BY <1>6, <2>1
    <3> QED BY <1>8, <1>9, <2>1, <3>1, FS_AddElement
  <2>2. CASE Current.raw.name # "loop"
    <3>1. B = A
      BY <1>6, <2>2
    <3> QED BY <1>8, <2>2, <3>1
  <2> QED BY <2>1, <2>2
<1> QED BY <1>8, <1>10 DEF A, B

\* What a rewriting step must respect.
LEMMA EmitInv ==
  ASSUME BuildInv, Rewriting, NEW e \in Seq(Encoded), NEW g \in Nat,
         code' = Append(code, e),
         size' = size + g, runtime_address' \in Nat,
         UNCHANGED <<pc, body, offset, annotated_instructions>>,
         table' \in Seq(Int), Len(table') >= Len(table),
         2 * (Len(table') - Len(table)) <= Current.raw.len
  PROVE  /\ BuildInv'
         /\ Bounded /\ Grows(Current.raw, g) => Bounded'
<1> DEFINE A == annotated_instructions
<1>1. /\ code \in Seq(Seq(Encoded)) /\ A \in Seq([raw : Instruction, at : 0 .. 13, absolute_address : Int])
      /\ size \in Nat /\ table \in Seq(Int) /\ body \in Bodies
  BY DEF BuildInv, TypeOK
<1>2. /\ code' \in Seq(Seq(Encoded)) /\ Len(code') = Len(code) + 1 /\ code' # << >>
      /\ Len(code) \in Nat /\ Len(A) \in Nat
  <2> DEFINE S == Seq(Encoded)
  <2>1. code \in Seq(S) /\ e \in S
    BY <1>1
  <2> HIDE DEF S
  <2>2. code' \in Seq(S) /\ Len(code') = Len(code) + 1 /\ code' # << >> /\ Len(code) \in Nat
    BY <2>1, SMT
  <2>3. Len(A) \in Nat
    BY <1>1, SMT
  <2> QED BY <2>2, <2>3 DEF S
<1>3. TypeOK'
  BY <1>1, <1>2, SMT DEF BuildInv, TypeOK, Rewriting
<1>4. Listed'
  BY DEF BuildInv, Listed
<1>5. Phases'
  <2>1. pc = "rewrite" /\ Len(table) >= 2 /\ Len(table') \in Nat /\ Len(table) \in Nat
    BY <1>1, SMTT(30) DEF Rewriting, BuildInv, Phases
  <2> QED BY <2>1, SMT DEF Phases
<1>6. ASSUME Bounded, Grows(Current.raw, g) PROVE Bounded'
  <2>1. Consumed' = Current.at + Current.raw.len
    BY <1>2, Zenon DEF Consumed, Current
  <2>2. /\ Current.at \in 0 .. 13 /\ Current.raw.len \in 1 .. 15 /\ Consumed = Current.at
        /\ Current.raw.name = "loop" => Current.raw.len >= 2
    <3> DEFINE j == body[Current.at]
    <3>1. /\ Current.at \in DOMAIN body /\ Current.raw = j /\ Consumed = Current.at
      BY CurrentFacts
    <3>2. /\ Current.at \in 0 .. 13 /\ j.len \in 1 .. 15
          /\ (j.relative <=> j.name \in Branches \/ j.mem) /\ (j.relative => j.len >= 2)
      BY <1>1, <3>1, BodyFacts, ZenonT(30)
    <3>3. j.name = "loop" => j.len >= 2
      BY <3>2 DEF Branches
    <3> QED BY <3>1, <3>2, <3>3
  <2>3. /\ Cardinality(Loops) \in Nat
        /\ Cardinality(Loops') = Cardinality(Loops) + IF Current.raw.name = "loop" THEN 1 ELSE 0
    BY LoopsStep
  <2>4. PICK k \in Nat : k = Len(table') - Len(table) /\ 2 * k <= Current.raw.len
    <3> DEFINE t == Len(table)
               u == Len(table')
               x == Current.raw.len
    <3>1. t \in Nat /\ u \in Nat /\ u >= t /\ 2 * (u - t) <= x
      BY <1>1, SMT
    <3> HIDE DEF t, u, x
    <3>2. u - t \in Nat /\ 2 * (u - t) <= x
      BY <3>1, SMT
    <3> QED BY <3>2 DEF t, u, x
  <2>5. Len(table) \in Nat /\ Len(table') \in Nat /\ size \in Nat
    BY <1>1, SMT
  <2>6. Len(table') = Len(table) + k
    BY <2>4, <2>5, SMT
  <2>7. Sized(Current.at, size, Len(table), Cardinality(Loops))
    BY <1>6, <2>2 DEF Bounded
  <2>8. Sized(Current.at + Current.raw.len, size + g, Len(table) + k, Cardinality(Loops'))
    BY <1>6, <2>2, <2>3, <2>4, <2>5, <2>7, SizedStep
  <2> QED BY <2>1, <2>6, <2>8, Zenon DEF Bounded
<1> QED BY <1>3, <1>4, <1>5, <1>6 DEF BuildInv

LEMMA CopyInv ==
  BuildInv /\ CopyInstruction => BuildInv' /\ (Bounded => Bounded')
<1> SUFFICES ASSUME BuildInv, CopyInstruction PROVE BuildInv' /\ (Bounded => Bounded')
  OBVIOUS
<1>1. PICK e \in Copied(Current.raw) :
        /\ code' = Append(code, e)
        /\ size' = size + Length(e) /\ runtime_address' = runtime_address + Length(e)
  BY Zenon DEF CopyInstruction
<1>2. /\ Rewriting /\ ~Current.raw.relative
      /\ UNCHANGED <<pc, body, offset, annotated_instructions, table>>
      /\ body \in Bodies /\ table \in Seq(Int) /\ runtime_address \in Nat
  BY DEF CopyInstruction, BuildInv, TypeOK
<1>3. Current.raw.len \in 1 .. 15 /\ Current.raw.name # "loop"
  <2> DEFINE j == body[Current.at]
  <2>1. Current.at \in DOMAIN body /\ Current.raw = j
    BY <1>2, CurrentFacts
  <2>2. j.len \in 1 .. 15 /\ (j.relative <=> j.name \in Branches \/ j.mem)
    BY <1>2, <2>1, BodyFacts, ZenonT(30)
  <2> QED BY <1>2, <2>1, <2>2 DEF Branches
<1>4. e \in Seq(Encoded) /\ Length(e) \in 0 .. Current.raw.len
  BY <1>1, <1>3, CopiedType
<1> DEFINE l == Current.raw.len
           g == Length(e)
<1>5. l \in 1 .. 15 /\ g \in 0 .. l /\ runtime_address' = runtime_address + g
  BY <1>1, <1>3, <1>4
<1>6. Grows(Current.raw, g)
  BY <1>3, <1>5 DEF Grows
<1> HIDE DEF l, g
<1>7. /\ runtime_address' \in Nat /\ g \in Nat
      /\ table' \in Seq(Int) /\ Len(table') >= Len(table) /\ 2 * (Len(table') - Len(table)) <= l
  BY <1>2, <1>5, SMT
<1> QED BY <1>1, <1>2, <1>4, <1>6, <1>7, EmitInv DEF l, g

LEMMA BranchInv ==
  BuildInv /\ RewriteBranch => BuildInv' /\ (Bounded => Bounded')
<1> SUFFICES ASSUME BuildInv, RewriteBranch PROVE BuildInv' /\ (Bounded => Bounded')
  OBVIOUS
<1> DEFINE l == Current.raw.len
           d == 80 + 8 * Len(table) - (runtime_address + l)
<1>1. PICK e \in Branch(Current.raw, d) :
        /\ code' = Append(code, e)
        /\ size' = size + Length(e)
        /\ \E n \in IF e = << >> THEN Garbage ELSE {e[1].len} :
             runtime_address' = runtime_address + n
  BY Zenon DEF RewriteBranch
<1>2. /\ Rewriting /\ IsBranch(Current.raw) /\ table' = Append(table, Current.absolute_address)
      /\ UNCHANGED <<pc, body, offset, annotated_instructions>>
      /\ body \in Bodies /\ table \in Seq(Int) /\ runtime_address \in Nat /\ TypeOK
  BY DEF RewriteBranch, place_relocation, BuildInv, TypeOK
<1>3. /\ Current.at \in DOMAIN body /\ Current.raw = body[Current.at]
      /\ Current.absolute_address \in Int
  BY <1>2, CurrentFacts
<1>4. l \in 2 .. 15
  <2>1. Current.raw.relative
    BY <1>2 DEF IsBranch
  <2>2. l \in 1 .. 15 /\ l >= 2
    BY <1>2, <1>3, <2>1, BodyFacts, ZenonT(30)
  <2> HIDE DEF l
  <2> QED BY <2>2, SMT
<1>5. Len(table) \in Nat /\ d \in Int
  <2> HIDE DEF l
  <2> QED BY <1>2, <1>4, SMT
<1>6. e \in Seq(Encoded) /\ Length(e) \in 0 .. l /\ (e # << >> => e[1].len = Length(e))
  <2> HIDE DEF d
  <2>1. e \in Branch(body[Current.at], d) /\ IsBranch(body[Current.at])
    BY <1>1, <1>2, <1>3
  <2> QED BY <1>2, <1>3, <1>5, <2>1, BranchType
<1>7. runtime_address' \in Nat
  <2>1. PICK n \in IF e = << >> THEN Garbage ELSE {e[1].len} : runtime_address' = runtime_address + n
    BY <1>1
  <2>2. n \in Nat
    BY <2>1, <1>4, <1>6, NumbersAssumption, SMT
  <2> QED BY <1>2, <2>1, <2>2, SMT
<1>8. table' \in Seq(Int) /\ Len(table') = Len(table) + 1
  <2> DEFINE x == Current.absolute_address
  <2>1. x \in Int /\ table' = Append(table, x)
    BY <1>2, <1>3
  <2> HIDE DEF x
  <2> QED BY <1>2, <2>1, SMT
<1> DEFINE g == Length(e)
<1>9. g \in 0 .. l
  BY <1>6
<1> HIDE DEF l, g
<1>10. /\ g \in Nat /\ g <= l
       /\ Len(table') >= Len(table) /\ 2 * (Len(table') - Len(table)) <= l
  BY <1>4, <1>5, <1>8, <1>9, SMT
<1>11. Grows(Current.raw, g)
  BY <1>2, <1>10 DEF Grows, IsBranch, l
<1> QED BY <1>1, <1>2, <1>6, <1>7, <1>8, <1>10, <1>11, EmitInv DEF l, g

\* What is neither a branch nor to be copied is a LOOP, or has a memory operand.
LEMMA DataInv ==
  BuildInv /\ RewriteData => BuildInv' /\ (Bounded => Bounded')
<1> SUFFICES ASSUME BuildInv, RewriteData PROVE BuildInv' /\ (Bounded => Bounded')
  OBVIOUS
<1> DEFINE i  == Current.raw
           a  == Current.absolute_address
           ld(r) == Load(r, a)
           op(r) == WithRegister(i, fit_register(r, i.reg))
           w(r)  == IF ld(r) = << >> THEN Length(Push(r)) ELSE Length(ld(r))
           g(r)  == Length(Push(r)) + Length(ld(r)) + Length(op(r)) + Length(Pop(r))
           e(r)  == Push(r) \o ld(r) \o op(r) \o Pop(r)
<1>1. PICK r \in UnusedRegisters(i) :
        /\ code' = Append(code, e(r))
        /\ size' = size + Length(Push(r)) + Length(ld(r)) + Length(op(r)) + Length(Pop(r))
        /\ runtime_address' = runtime_address + Length(Push(r)) + w(r)
             + (IF op(r) = << >> THEN w(r) ELSE Length(op(r))) + Length(Pop(r))
  BY Zenon DEF RewriteData
<1>2. /\ Rewriting /\ i.relative /\ ~IsBranch(i)
      /\ UNCHANGED <<pc, body, offset, annotated_instructions, table>>
      /\ body \in Bodies /\ table \in Seq(Int) /\ runtime_address \in Nat /\ size \in Nat
  BY DEF RewriteData, BuildInv, TypeOK
<1>3. Current.at \in DOMAIN body /\ i = body[Current.at] /\ a \in Int
  BY <1>2, CurrentFacts
<1>4. /\ i \in Instruction /\ i.len \in 1 .. 15 /\ i.reg \in 0 .. 68 /\ i.len >= 2
      /\ (i.mem => i.len >= 6) /\ (i.name = "loop" => ~i.form)
      /\ (i.name \in Branches \/ i.mem)
  <2> DEFINE j == body[Current.at]
  <2>1. /\ j \in Instruction /\ j.len \in 1 .. 15 /\ j.reg \in 0 .. 68
        /\ (j.relative <=> j.name \in Branches \/ j.mem)
        /\ (j.mem => j.len >= 6) /\ (j.relative => j.len >= 2) /\ (j.name = "loop" => ~j.form)
    BY <1>2, <1>3, BodyFacts, ZenonT(30)
  <2>2. i = j /\ i.relative
    BY <1>2, <1>3
  <2> HIDE DEF i, j
  <2> QED BY <2>1, <2>2
<1>5. i.name = "loop" \/ i.mem
  BY <1>2, <1>4, SMT DEF IsBranch, Branches
<1>6. r \in 53 .. 68 /\ r \in 53 .. 55 /\ fit_register(r, i.reg) \in 1 .. 68
  BY <1>1, <1>4, UnusedType, FitType
<1>7. /\ op(r) \in Seq(Encoded) /\ Length(op(r)) \in 0 .. 15
      /\ i.mem => Length(op(r)) \in 0 .. i.len - 4
      /\ i.name = "loop" => Length(op(r)) = 0
  <2>0. i.name = "loop" => Length(op(r)) = 0
    <3>1. i.name = "loop" => op(r) = << >>
      BY <1>4, Zenon DEF WithRegister
    <3>2. Length(<< >>) = 0
      BY DEF Length
    <3> QED BY <3>1, <3>2
  <2>1. CASE i.mem
    <3>1. op(r) \in Seq(Encoded) /\ Length(op(r)) \in 0 .. i.len - 4
      BY <2>1, <1>4, <1>6, OpType
    <3> DEFINE q == Length(op(r))
               l == i.len
    <3>2. q \in 0 .. l - 4 /\ l \in 1 .. 15
      BY <3>1, <1>4
    <3> HIDE DEF q, l
    <3>3. q \in 0 .. 15
      BY <3>2, SMT
    <3> QED BY <3>1, <3>3, <2>0 DEF q
  <2>2. CASE ~i.mem
    <3>1. ~i.form
      BY <2>2, <1>4, <1>5
    <3>2. op(r) = << >>
      BY <3>1, Zenon DEF WithRegister
    <3> QED BY <3>2, <2>2, SMT DEF Length
  <2> QED BY <2>1, <2>2
<1>8. /\ Push(r) \in Seq(Encoded) /\ Pop(r) \in Seq(Encoded) /\ ld(r) \in Seq(Encoded)
      /\ Length(Push(r)) = 1 /\ Length(Pop(r)) = 1 /\ Length(ld(r)) \in 0 .. 10
  BY <1>3, <1>6, PushPopType, LoadType
<1>9. e(r) \in Seq(Encoded)
  <2> DEFINE S == Encoded
             c1 == Push(r)
             c2 == ld(r)
             c3 == op(r)
             c4 == Pop(r)
  <2>1. c1 \in Seq(S) /\ c2 \in Seq(S) /\ c3 \in Seq(S) /\ c4 \in Seq(S)
    BY <1>7, <1>8
  <2> HIDE DEF S, c1, c2, c3, c4
  <2>2. c1 \o c2 \o c3 \o c4 \in Seq(S)
    BY <2>1, SMT
  <2> QED BY <2>2 DEF S, c1, c2, c3, c4
<1> DEFINE n1 == Length(Push(r))
           n2 == Length(ld(r))
           n3 == Length(op(r))
           n4 == Length(Pop(r))
           l  == i.len
           u  == w(r)
           v  == IF op(r) = << >> THEN w(r) ELSE Length(op(r))
<1>10. u \in 0 .. 10 /\ v \in 0 .. 15
  <2>1. u = n1 \/ u = n2
    OBVIOUS
  <2>2. v = u \/ v = n3
    OBVIOUS
  <2>3. n1 = 1 /\ n2 \in 0 .. 10 /\ n3 \in 0 .. 15
    BY <1>7, <1>8
  <2> HIDE DEF u, v, n1, n2, n3
  <2> QED BY <2>1, <2>2, <2>3, SMT
<1>11. /\ runtime_address' = runtime_address + n1 + u + v + n4
       /\ size' = size + n1 + n2 + n3 + n4 /\ g(r) = n1 + n2 + n3 + n4
       /\ n1 = 1 /\ n2 \in 0 .. 10 /\ n3 \in 0 .. 15 /\ n4 = 1
       /\ l \in 2 .. 15 /\ (i.mem => n3 \in 0 .. l - 4 /\ l >= 6) /\ (i.name = "loop" => n3 = 0)
  BY <1>1, <1>4, <1>7, <1>8
<1>12. /\ runtime_address' \in Nat /\ g(r) \in Nat /\ size' = size + g(r)
       /\ i.mem => l >= 6 /\ g(r) <= l + 8
       /\ i.name = "loop" => g(r) <= l + 10
  <2> DEFINE x == g(r)
             m == i.mem
             p == i.name = "loop"
  <2>1. /\ x = n1 + n2 + n3 + n4 /\ (m => n3 \in 0 .. l - 4 /\ l >= 6) /\ (p => n3 = 0)
        /\ n1 = 1 /\ n2 \in 0 .. 10 /\ n3 \in 0 .. 15 /\ n4 = 1 /\ l \in 2 .. 15
        /\ runtime_address' = runtime_address + n1 + u + v + n4
        /\ size' = size + n1 + n2 + n3 + n4
    BY <1>11
  <2> HIDE DEF x, m, p, n1, n2, n3, n4, u, v, l
  <2>2. /\ runtime_address' \in Nat /\ x \in Nat /\ size' = size + x
        /\ (m => l >= 6 /\ x <= l + 8) /\ (p => x <= l + 10)
    BY <1>2, <1>10, <2>1, SMT
  <2> QED BY <2>2 DEF x, m, p
<1>13. table' = table /\ Len(table') >= Len(table) /\ 2 * (Len(table') - Len(table)) <= l
  <2>1. Len(table) \in Nat /\ table' = table
    BY <1>2, SMT
  <2> HIDE DEF l
  <2> QED BY <2>1, <1>11, SMT
<1> DEFINE gr == g(r)
           er == e(r)
<1>14. Grows(i, gr)
  BY <1>5, <1>12 DEF Grows
<1>15. /\ gr \in Nat /\ size' = size + gr /\ er \in Seq(Encoded) /\ code' = Append(code, er)
  BY <1>1, <1>9, <1>12
<1> HIDE DEF gr, er
<1>16. table' \in Seq(Int)
  BY <1>2, <1>13
<1> QED BY <1>2, <1>12, <1>13, <1>14, <1>15, <1>16, EmitInv

LEMMA NextInv == BuildInv /\ [Next]_vars => BuildInv' /\ (Bounded => Bounded')
<1> SUFFICES ASSUME BuildInv, [Next]_vars PROVE BuildInv' /\ (Bounded => Bounded')
  OBVIOUS
<1>1. CASE Annotate
  BY <1>1, AnnotateInv
<1>2. CASE initialize_tables \/ BuildBegins
  BY <1>2, TablesInv
<1>3. CASE CopyInstruction
  BY <1>3, CopyInv
<1>4. CASE RewriteBranch
  BY <1>4, BranchInv
<1>5. CASE RewriteData
  BY <1>5, DataInv
<1>6. CASE PlaceCode
  <2>1. /\ UNCHANGED <<body, offset, annotated_instructions, table, code, size, runtime_address>>
        /\ pc = "rewrite" /\ pc' = "done"
    BY <1>6 DEF PlaceCode
  <2>2. TypeOK' /\ Listed'
    BY <2>1, Zenon DEF BuildInv, TypeOK, Listed
  <2>3. Phases'
    BY <2>1, SMT DEF BuildInv, Phases
  <2>4. Consumed' = Consumed /\ Loops' = Loops
    BY <2>1 DEF Consumed, Loops, Rewritten
  <2>5. Bounded => Bounded'
    BY <2>1, <2>4, Zenon DEF Bounded
  <2> QED BY <2>2, <2>3, <2>5 DEF BuildInv
<1>7. CASE UNCHANGED vars
  BY <1>7, Zenon DEF vars, BuildInv, TypeOK, Listed, Phases, Bounded, Consumed, Loops, Rewritten
<1> QED BY <1>1, <1>2, <1>3, <1>4, <1>5, <1>6, <1>7 DEF Next

-----------------------------------------------------------------------------
(* Branches and the jump table *)

\* While everything could be encoded, build knows where it is.
Exact == (\A j \in DOMAIN code : Complete(j)) => runtime_address = size

\* Behind the two entries made first there is one for each branch.
Counted ==
  pc \in {"rewrite", "done"} => Len(table) = 2 + Cardinality(BranchesAt)

HitInv == Exact /\ Counted /\ BranchesHitTable

IsData(i) == i.relative /\ ~IsBranch(i)

\* The code for one more instruction leaves what was said of the others.
LEMMA AppendedCode ==
  ASSUME BuildInv, NEW e, code' = Append(code, e), NEW n, n = Len(code),
         UNCHANGED annotated_instructions
  PROVE  /\ n \in Nat /\ DOMAIN code = 1 .. n /\ DOMAIN code' = 1 .. n + 1
         /\ code'[n + 1] = e
         /\ \A k \in 1 .. n : code'[k] = code[k] /\ (Complete(k)' <=> Complete(k))
         /\ Complete(n + 1)' <=> Len(e) = IF IsData(Rewritten(n + 1)) THEN 4 ELSE 1
         /\ BranchesAt = {j \in BranchesAt' : j <= n}
         /\ BranchesAt' = BranchesAt \cup (IF IsBranch(Rewritten(n + 1)) THEN {n + 1} ELSE {})
<1>1. code \in Seq(Seq(Encoded))
  BY DEF BuildInv, TypeOK
<1>2. n \in Nat /\ DOMAIN code = 1 .. n
  <2> DEFINE S == Seq(Encoded)
  <2> HIDE DEF S
  <2> QED BY <1>1 DEF S
<1>3. DOMAIN code' = 1 .. n + 1 /\ code'[n + 1] = e /\ \A k \in 1 .. n : code'[k] = code[k]
  <2> DEFINE S == Seq(Encoded)
  <2> HIDE DEF S
  <2> QED BY <1>1, <1>2 DEF S
<1>4. \A k : (Rewritten(k) = Rewritten(k)') /\ (IsBranch(Rewritten(k))' <=> IsBranch(Rewritten(k)))
  BY DEF Rewritten, IsBranch
<1>5. \A k \in 1 .. n + 1 : k \in Data' <=> IsData(Rewritten(k))
  BY <1>3, <1>4 DEF Data, IsData
<1>6. \A k \in 1 .. n : k \in Data <=> IsData(Rewritten(k))
  BY <1>2 DEF Data, IsData
<1>7. ASSUME NEW k \in 1 .. n PROVE Complete(k)' <=> Complete(k)
  <2>1. k \in 1 .. n + 1
    BY <1>2
  <2>2. (k \in Data') <=> (k \in Data)
    BY <1>5, <1>6, <2>1
  <2> QED BY <1>3, <2>2 DEF Complete
<1>8. Complete(n + 1)' <=> Len(e) = IF IsData(Rewritten(n + 1)) THEN 4 ELSE 1
  <2>1. n + 1 \in 1 .. n + 1
    BY <1>2
  <2> QED BY <1>3, <1>5, <2>1 DEF Complete
<1>9. /\ BranchesAt = {j \in 1 .. n : IsBranch(Rewritten(j))}
      /\ BranchesAt' = {j \in 1 .. n + 1 : IsBranch(Rewritten(j))}
  BY <1>2, <1>3, <1>4 DEF BranchesAt
<1>10. BranchesAt = {j \in BranchesAt' : j <= n}
  BY <1>2, <1>9
<1>11. BranchesAt' = BranchesAt \cup (IF IsBranch(Rewritten(n + 1)) THEN {n + 1} ELSE {})
  BY <1>2, <1>9
<1> QED BY <1>2, <1>3, <1>7, <1>8, <1>10, <1>11

\* What a rewriting step must respect.
LEMMA EmitHit ==
  ASSUME BuildInv, HitInv, Rewriting, NEW e, code' = Append(code, e),
         UNCHANGED <<pc, annotated_instructions>>,
         Len(table') = Len(table) + IF IsBranch(Current.raw) THEN 1 ELSE 0,
         Len(e) = (IF IsData(Current.raw) THEN 4 ELSE 1) /\ runtime_address = size
           => runtime_address' = size',
         IsBranch(Current.raw) /\ ~Current.raw.mem /\ Len(e) = 1 /\ runtime_address = size
           => e[1].at + e[1].len + e[1].disp = 80 + 8 * Len(table)
  PROVE  HitInv'
<1> DEFINE B == BranchesAt
<1>0. PICK n : n = Len(code)
  OBVIOUS
<1>1. /\ n \in Nat /\ DOMAIN code = 1 .. n /\ DOMAIN code' = 1 .. n + 1
      /\ code'[n + 1] = e
      /\ \A k \in 1 .. n : code'[k] = code[k] /\ (Complete(k)' <=> Complete(k))
      /\ Complete(n + 1)' <=> Len(e) = IF IsData(Rewritten(n + 1)) THEN 4 ELSE 1
      /\ B = {j \in BranchesAt' : j <= n}
      /\ BranchesAt' = B \cup (IF IsBranch(Rewritten(n + 1)) THEN {n + 1} ELSE {})
  BY <1>0, AppendedCode
<1>2. Rewritten(n + 1) = Current.raw
  BY <1>0 DEF Rewritten, Current
<1>3. pc = "rewrite" /\ Len(table) = 2 + Cardinality(B)
  BY DEF Rewriting, HitInv, Counted
<1>4. B \subseteq 1 .. n /\ IsFiniteSet(B) /\ Cardinality(B) \in Nat
  <2>1. B \subseteq 1 .. n
    BY <1>1 DEF BranchesAt
  <2> HIDE DEF B
  <2>2. IsFiniteSet(1 .. n)
    BY <1>1, FS_Interval
  <2>3. IsFiniteSet(B)
    BY <2>1, <2>2, FS_Subset
  <2> QED BY <2>1, <2>3, FS_CardinalityType
<1>5. Cardinality(BranchesAt') = Cardinality(B) + IF IsBranch(Current.raw) THEN 1 ELSE 0
  <2>1. n + 1 \notin B
    BY <1>1, <1>4
  <2> HIDE DEF B
  <2>2. CASE IsBranch(Current.raw)
    <3>1. BranchesAt' = B \cup {n + 1}
      BY <1>1, <1>2, <2>2
    <3> QED BY <1>4, <2>1, <2>2, <3>1, FS_AddElement
  <2>3. CASE ~IsBranch(Current.raw)
    <3>1. BranchesAt' = B
      BY <1>1, <1>2, <2>3
    <3> QED BY <1>4, <2>3, <3>1
  <2> QED BY <2>2, <2>3
<1>6. Counted'
  <2> HIDE DEF B
  <2> QED BY <1>3, <1>4, <1>5 DEF Counted
<1>7. ASSUME \A j \in 1 .. n : Complete(j)' PROVE runtime_address = size
  <2>1. \A j \in DOMAIN code : Complete(j)
    BY <1>1, <1>7
  <2> QED BY <2>1 DEF HitInv, Exact
<1>8. Exact'
  <2> SUFFICES ASSUME \A j \in 1 .. n + 1 : Complete(j)'
               PROVE  runtime_address' = size'
    BY <1>1 DEF Exact
  <2>1. \A j \in 1 .. n : j \in 1 .. n + 1
    BY <1>1
  <2>2. n + 1 \in 1 .. n + 1
    BY <1>1
  <2>3. runtime_address = size
    BY <1>7, <2>1
  <2>4. Len(e) = IF IsData(Current.raw) THEN 4 ELSE 1
    BY <1>1, <1>2, <2>2
  <2> QED BY <2>3, <2>4
<1>9. ASSUME NEW k \in BranchesAt', ~Rewritten(k).mem, \A j \in 1 .. k : Complete(j)'
      PROVE  LET b == code'[k][1]
             IN  b.at + b.len + b.disp
                   = 80 + 8 * (1 + Cardinality({j \in BranchesAt' : j <= k}))
  <2>1. k \in 1 .. n + 1 /\ IsBranch(Rewritten(k))
    <3>1. k \in B => k \in DOMAIN code /\ IsBranch(Rewritten(k))
      BY DEF BranchesAt
    <3> HIDE DEF B
    <3> QED BY <1>1, <1>9, <3>1
  <2>2. CASE k \in 1 .. n
    <3>1. k \in B
      BY <1>1, <2>2
    <3>2. \A j \in 1 .. k : Complete(j)
      <4>1. \A j \in 1 .. k : j \in 1 .. n
        BY <1>1, <2>2
      <4> QED BY <1>1, <1>9, <4>1
    <3>3. code'[k] = code[k]
      BY <1>1, <2>2
    <3>4. {j \in BranchesAt' : j <= k} = {j \in BranchesAt : j <= k}
      BY <1>1, <1>4, <2>2
    <3> QED BY <1>9, <3>1, <3>2, <3>3, <3>4 DEF HitInv, BranchesHitTable
  <2>3. CASE k = n + 1
    <3>1. \A j \in 1 .. n : j \in 1 .. k
      BY <1>1, <2>3
    <3>2. runtime_address = size
      BY <1>7, <1>9, <3>1
    <3>3. IsBranch(Current.raw) /\ ~Current.raw.mem
      BY <1>2, <1>9, <2>1, <2>3
    <3>4. k \in 1 .. k
      BY <1>1, <2>3
    <3>5. Len(e) = 1
      <4>1. Complete(n + 1)'
        BY <1>9, <2>3, <3>4 DEF Complete
      <4> QED BY <1>1, <1>2, <3>3, <4>1 DEF IsData
    <3>6. e[1].at + e[1].len + e[1].disp = 80 + 8 * Len(table)
      BY <3>2, <3>3, <3>5
    <3>7. {j \in BranchesAt' : j <= k} = BranchesAt'
      <4> HIDE DEF B
      <4> QED BY <1>1, <1>4, <2>3
    <3>8. Len(table) = 1 + Cardinality(BranchesAt')
      <4> HIDE DEF B
      <4> QED BY <1>3, <1>4, <1>5, <3>3
    <3> QED BY <1>1, <2>3, <3>6, <3>7, <3>8
  <2> QED BY <1>1, <2>1, <2>2, <2>3
<1>10. BranchesHitTable'
  <2>1. \A k : Rewritten(k)' = Rewritten(k)
    BY DEF Rewritten
  <2> QED BY <1>9, <2>1 DEF BranchesHitTable
<1> QED BY <1>6, <1>8, <1>10 DEF HitInv

LEMMA InitHit == Init => HitInv
<1> SUFFICES ASSUME Init PROVE HitInv
  OBVIOUS
<1>1. code = << >> /\ runtime_address = size /\ pc = "annotate"
  BY DEF Init
<1>2. DOMAIN code = {}
  BY <1>1
<1> QED BY <1>1, <1>2 DEF HitInv, Exact, Counted, BranchesHitTable, BranchesAt

LEMMA CopyHit == BuildInv /\ HitInv /\ CopyInstruction => HitInv'
<1> SUFFICES ASSUME BuildInv, HitInv, CopyInstruction PROVE HitInv'
  OBVIOUS
<1>1. PICK e \in Copied(Current.raw) :
        /\ code' = Append(code, e)
        /\ size' = size + Length(e) /\ runtime_address' = runtime_address + Length(e)
  BY Zenon DEF CopyInstruction
<1>2. /\ Rewriting /\ ~Current.raw.relative /\ UNCHANGED <<pc, annotated_instructions>>
      /\ Len(table') = Len(table) /\ Len(table) \in Nat
  BY DEF CopyInstruction, BuildInv, TypeOK
<1>3. Len(table') = Len(table) + IF IsBranch(Current.raw) THEN 1 ELSE 0
  BY <1>2 DEF IsBranch
<1>4. runtime_address = size => runtime_address' = size'
  BY <1>1
<1>5. ~IsBranch(Current.raw)
  BY <1>2 DEF IsBranch
<1> QED BY <1>1, <1>2, <1>3, <1>4, <1>5, EmitHit

LEMMA BranchHit == BuildInv /\ HitInv /\ RewriteBranch => HitInv'
<1> SUFFICES ASSUME BuildInv, HitInv, RewriteBranch PROVE HitInv'
  OBVIOUS
<1> DEFINE i == Current.raw
           t == Len(table)
           d == 80 + 8 * t - (runtime_address + i.len)
<1>1. PICK e \in Branch(i, d) :
        /\ code' = Append(code, e)
        /\ size' = size + Length(e)
        /\ \E n \in IF e = << >> THEN Garbage ELSE {e[1].len} :
             runtime_address' = runtime_address + n
  BY Zenon DEF RewriteBranch
<1>2. /\ Rewriting /\ IsBranch(i) /\ table' = Append(table, Current.absolute_address)
      /\ UNCHANGED <<pc, annotated_instructions>>
      /\ table \in Seq(Int) /\ runtime_address \in Nat /\ size \in Nat /\ body \in Bodies
  BY DEF RewriteBranch, place_relocation, BuildInv, TypeOK
<1>3. /\ Current.at \in DOMAIN body /\ i = body[Current.at]
      /\ Current.absolute_address \in Int
  BY <1>2, CurrentFacts
<1>4. i.len \in Nat
  <2>1. i.len \in 1 .. 15
    BY <1>2, <1>3, BodyFacts
  <2> QED BY <2>1
<1>5. Len(table') = t + 1 /\ t \in Nat
  BY <1>2, <1>3
<1>6. \/ e = << >>
      \/ \E n \in Nat : /\ e = <<[op |-> "branch", at |-> size, disp |-> d, len |-> n]>>
                        /\ ~i.mem => n = i.len
  <2> HIDE DEF d, i
  <2> QED BY <1>1, <1>4 DEF Branch, i
<1>7. Len(e) = 1 /\ runtime_address = size => runtime_address' = size'
  <2> SUFFICES ASSUME Len(e) = 1, runtime_address = size PROVE runtime_address' = size'
    OBVIOUS
  <2>1. e # << >>
    <3>1. Len(<< >>) # 1
      OBVIOUS
    <3> QED BY <3>1, Zenon
  <2>2. Length(e) = e[1].len
    BY <2>1 DEF Length
  <2> QED BY <1>1, <2>1, <2>2
<1>8. ASSUME ~i.mem, Len(e) = 1, runtime_address = size
      PROVE  e[1].at + e[1].len + e[1].disp = 80 + 8 * t
  <2>1. e # << >>
    <3>1. Len(<< >>) # 1
      OBVIOUS
    <3> QED BY <1>8, <3>1, Zenon
  <2>2. e = <<[op |-> "branch", at |-> size, disp |-> d, len |-> i.len]>>
    BY <1>6, <1>8, <2>1
  <2>3. e[1].at = size /\ e[1].len = i.len /\ e[1].disp = d
    BY <2>2
  <2> HIDE DEF t
  <2>4. size + i.len + d = 80 + 8 * t
    BY <1>2, <1>4, <1>5, <1>8
  <2> QED BY <2>3, <2>4
<1> QED BY <1>1, <1>2, <1>5, <1>7, <1>8, EmitHit DEF IsData

LEMMA PartsLength ==
  ASSUME NEW a, NEW b, NEW c, NEW d,
         \A s \in {a, b, c, d} : s = << >> \/ \E x : s = <<x>>
  PROVE  /\ Len(a \o b \o c \o d) = Len(a) + Len(b) + Len(c) + Len(d)
         /\ \A s \in {a, b, c, d} : Len(s) \in Nat /\ Len(s) <= 1
<1>1. PICK xa : a = << >> \/ a = <<xa>>
  OBVIOUS
<1>2. PICK xb : b = << >> \/ b = <<xb>>
  OBVIOUS
<1>3. PICK xc : c = << >> \/ c = <<xc>>
  OBVIOUS
<1>4. PICK xd : d = << >> \/ d = <<xd>>
  OBVIOUS
<1> DEFINE S == {xa, xb, xc, xd}
<1>5. \A x \in S : <<x>> \in Seq(S) /\ Len(<<x>>) = 1
  BY SMT
<1>6. << >> \in Seq(S) /\ Len(<< >>) = 0
  BY SMT
<1>7. /\ a \in Seq(S) /\ b \in Seq(S) /\ c \in Seq(S) /\ d \in Seq(S)
      /\ \A s \in {a, b, c, d} : Len(s) \in {0, 1}
  BY <1>1, <1>2, <1>3, <1>4, <1>5, <1>6, Zenon
<1> HIDE DEF S
<1>8. Len(a \o b \o c \o d) = Len(a) + Len(b) + Len(c) + Len(d)
  BY <1>7, SMT
<1>9. \A n \in {0, 1} : n \in Nat /\ n <= 1
  OBVIOUS
<1> QED BY <1>7, <1>8, <1>9, Zenon

\* Of four parts none is missing.
LEMMA DataHit == BuildInv /\ HitInv /\ RewriteData => HitInv'
<1> SUFFICES ASSUME BuildInv, HitInv, RewriteData PROVE HitInv'
  OBVIOUS
<1> DEFINE i  == Current.raw
           a  == Current.absolute_address
<1>1. PICK r \in UnusedRegisters(i) :
        LET load   == Load(r, a)
            op     == WithRegister(i, fit_register(r, i.reg))
            loaded == IF load = << >> THEN Length(Push(r)) ELSE Length(load)
        IN  /\ code' = Append(code, Push(r) \o load \o op \o Pop(r))
            /\ size' = size + Length(Push(r)) + Length(load) + Length(op) + Length(Pop(r))
            /\ runtime_address' = runtime_address + Length(Push(r)) + loaded
                 + (IF op = << >> THEN loaded ELSE Length(op)) + Length(Pop(r))
  BY Zenon DEF RewriteData
<1> DEFINE ld == Load(r, a)
           op == WithRegister(i, fit_register(r, i.reg))
           e  == Push(r) \o ld \o op \o Pop(r)
<1>2. /\ Rewriting /\ i.relative /\ ~IsBranch(i)
      /\ UNCHANGED <<pc, annotated_instructions>>
      /\ Len(table') = Len(table) /\ Len(table) \in Nat
  BY DEF RewriteData, BuildInv, TypeOK
<1>3. ld \in {<< >>} \/ \E x : ld = <<x>>
  BY DEF Load
<1>4. op \in {<< >>} \/ \E x : op = <<x>>
  BY Zenon DEF WithRegister
<1>5. (\E x : Push(r) = <<x>>) /\ (\E x : Pop(r) = <<x>>)
  BY DEF Push, Pop
<1>6. ASSUME Len(e) = 4 PROVE ld # << >> /\ op # << >>
  <2> HIDE DEF ld, op
  <2>1. /\ Len(e) = Len(Push(r)) + Len(ld) + Len(op) + Len(Pop(r))
        /\ Len(Push(r)) <= 1 /\ Len(ld) <= 1 /\ Len(op) <= 1 /\ Len(Pop(r)) <= 1
        /\ {Len(Push(r)), Len(ld), Len(op), Len(Pop(r))} \subseteq Nat
    BY <1>3, <1>4, <1>5, PartsLength
  <2>2. Len(<< >>) = 0
    OBVIOUS
  <2> QED BY <1>6, <2>1, <2>2
<1>7. code' = Append(code, e)
  BY <1>1
<1>8. Len(e) = 4 /\ runtime_address = size => runtime_address' = size'
  <2> SUFFICES ASSUME Len(e) = 4, runtime_address = size PROVE runtime_address' = size'
    OBVIOUS
  <2>1. ld # << >> /\ op # << >>
    BY <1>6
  <2> HIDE DEF e
  <2> QED BY <1>1, <2>1
<1> HIDE DEF e
<1>9. Len(table') = Len(table) + IF IsBranch(i) THEN 1 ELSE 0
  BY <1>2
<1> QED BY <1>2, <1>7, <1>8, <1>9, EmitHit DEF IsData

LEMMA NextHit == BuildInv /\ HitInv /\ [Next]_vars => HitInv'
<1> SUFFICES ASSUME BuildInv, HitInv, [Next]_vars PROVE HitInv'
  OBVIOUS
<1>1. ASSUME code = << >>, UNCHANGED <<code, size, runtime_address>>,
             pc' = "rewrite" => Len(table') = 2, pc' # "done"
      PROVE  HitInv'
  <2>1. DOMAIN code = {} /\ DOMAIN code' = {}
    BY <1>1
  <2>2. BranchesAt' = {}
    BY <2>1 DEF BranchesAt
  <2>3. Cardinality(BranchesAt') = 0
    BY <2>2, FS_EmptySet
  <2>4. Exact'
    BY <1>1, <2>1 DEF HitInv, Exact
  <2>5. Counted'
    BY <1>1, <2>3 DEF Counted
  <2> QED BY <2>2, <2>4, <2>5 DEF HitInv, BranchesHitTable
<1>2. CASE Annotate
  <2>1. code = << >> /\ UNCHANGED <<pc, code, size, runtime_address>> /\ pc = "annotate"
    BY <1>2 DEF Annotate, BuildInv, Phases
  <2> QED BY <1>1, <2>1
<1>3. CASE initialize_tables
  <2>1. code = << >> /\ UNCHANGED <<code, size, runtime_address>> /\ pc' = "built"
    BY <1>3 DEF initialize_tables, BuildInv, Phases
  <2> QED BY <1>1, <2>1
<1>4. CASE BuildBegins
  <2>1. code = << >> /\ UNCHANGED <<code, size, runtime_address>> /\ pc' = "rewrite"
    BY <1>4 DEF BuildBegins, BuildInv, Phases
  <2>2. table \in Seq(Int) /\ Len(table) = 1 /\ table' = Append(table, Hook) /\ Hook \in Int
    BY <1>4, NumbersAssumption DEF BuildBegins, place_relocation, BuildInv, Phases, TypeOK
  <2>3. \A x \in Int : Append(table, x) \in Seq(Int) /\ Len(Append(table, x)) = Len(table) + 1
    <3>1. table \in Seq(Int)
      BY <2>2
    <3> QED BY <3>1, SMT
  <2>4. Len(table') = 2
    BY <2>2, <2>3
  <2> QED BY <1>1, <2>1, <2>4
<1>5. CASE CopyInstruction
  BY <1>5, CopyHit
<1>6. CASE RewriteBranch
  BY <1>6, BranchHit
<1>7. CASE RewriteData
  BY <1>7, DataHit
<1>8. CASE PlaceCode \/ UNCHANGED vars
  <2>1. /\ UNCHANGED <<annotated_instructions, table, code, size, runtime_address>>
        /\ pc' = pc \/ (pc = "rewrite" /\ pc' = "done")
    BY <1>8 DEF PlaceCode, vars
  <2>2. /\ \A k : Complete(k)' <=> Complete(k)
        /\ \A k : Rewritten(k)' = Rewritten(k)
        /\ BranchesAt' = BranchesAt
    BY <2>1 DEF Complete, Rewritten, Data, BranchesAt, IsBranch
  <2>3. Exact'
    BY <2>1, <2>2 DEF HitInv, Exact
  <2>4. Counted'
    BY <2>1, <2>2 DEF HitInv, Counted
  <2>5. BranchesHitTable'
    BY <2>1, <2>2 DEF HitInv, BranchesHitTable
  <2> QED BY <2>3, <2>4, <2>5 DEF HitInv
<1> QED BY <1>2, <1>3, <1>4, <1>5, <1>6, <1>7, <1>8 DEF Next

-----------------------------------------------------------------------------
(* What rewritten data instructions do *)

\* What the instruction itself does.
LEMMA OperationStep ==
  ASSUME NEW m, NEW c, c.op = "op",
         NEW v, v = IF c.name = "mov" THEN Value(m, c.args[2])
                    ELSE <<"result", c.name, Value(m, c.args[1]), Value(m, c.args[2])>>,
         NEW e, e = IF c.name = "mov" THEN m ELSE [m EXCEPT !.flags = v]
  PROVE  Execute(m, c) = IF c.name \in {"cmp", "loop"} THEN e ELSE Store(e, c.args[1], v)
BY SMT DEF Execute

\* What a recursive function computes for code of at most four instructions.
LEMMA AfterSteps ==
  ASSUME NEW c, Len(c) \in 0 .. 4
  PROVE  \E m : /\ m[0] = Start /\ After(c) = m[Len(c)]
                /\ \A n \in 1 .. Len(c) : m[n] = Execute(m[n - 1], c[n])
<1> DEFINE F(f) == [n \in 0 .. Len(c) |-> IF n = 0 THEN Start ELSE Execute(f[n - 1], c[n])]
           m == CHOOSE f : f = F(f)
<1>1. After(c) = m[Len(c)]
  BY DEF After
<1> DEFINE m1 == Execute(Start, c[1])
           m2 == Execute(m1, c[2])
           m3 == Execute(m2, c[3])
           m4 == Execute(m3, c[4])
           g == [n \in 0 .. Len(c) |-> IF n = 0 THEN Start ELSE IF n = 1 THEN m1
                                       ELSE IF n = 2 THEN m2 ELSE IF n = 3 THEN m3 ELSE m4]
<1>2. g = F(g)
  <2>1. ASSUME NEW n \in 0 .. Len(c)
        PROVE  g[n] = IF n = 0 THEN Start ELSE Execute(g[n - 1], c[n])
    <3> HIDE DEF m1, m2, m3, m4
    <3>1. CASE n = 0
      BY <3>1
    <3>2. CASE n = 1
      <4>1. n - 1 = 0 /\ n - 1 \in 0 .. Len(c)
        BY <3>2
      <4> QED BY <3>2, <4>1 DEF m1
    <3>3. CASE n = 2
      <4>1. n - 1 = 1 /\ n - 1 \in 0 .. Len(c)
        BY <3>3
      <4> QED BY <3>3, <4>1 DEF m2
    <3>4. CASE n = 3
      <4>1. n - 1 = 2 /\ n - 1 \in 0 .. Len(c)
        BY <3>4
      <4> QED BY <3>4, <4>1 DEF m3
    <3>5. CASE n = 4
      <4>1. n - 1 = 3 /\ n - 1 \in 0 .. Len(c)
        BY <3>5
      <4> QED BY <3>5, <4>1 DEF m4
    <3> QED BY <3>1, <3>2, <3>3, <3>4, <3>5
  <2> HIDE DEF m1, m2, m3, m4
  <2> QED BY <2>1, Zenon
<1>3. m = F(m)
  <2> HIDE DEF F, g
  <2> QED BY <1>2
<1> HIDE DEF m
<1>4. \A n \in 0 .. Len(c) : m[n] = IF n = 0 THEN Start ELSE Execute(m[n - 1], c[n])
  BY <1>3, Zenon
<1>5. m[0] = Start /\ \A n \in 1 .. Len(c) : m[n] = Execute(m[n - 1], c[n])
  BY <1>4
<1> QED BY <1>1, <1>5

Machine(g, s, f, d) == [reg |-> g, stack |-> s, flags |-> f, stored |-> d]

\* The registers with rsp at depth n, and v in register x.
Registers(n, x, v) ==
  [k \in 0 .. 15 |-> IF k = 4 THEN <<"rsp", n>> ELSE IF k = x THEN v ELSE <<"r", k>>]

\* Behind pop: rsp and the scratch register as they were at the start.
Popped(g, x) == [k \in 0 .. 15 |-> IF k = x THEN <<"r", x>> ELSE IF k = 4 THEN <<"rsp", 0>> ELSE g[k]]

LEMMA Scratch ==
  ASSUME NEW r \in 53 .. 55
  PROVE  /\ Index(r) = r - 53 /\ r - 53 \in 0 .. 2 /\ Width(r) = 64 /\ ~High(r)
         /\ Push(r)[1].op = "push" /\ Push(r)[1].reg = r /\ Len(Push(r)) = 1
         /\ Pop(r)[1].op = "pop" /\ Pop(r)[1].reg = r /\ Len(Pop(r)) = 1
<1>1. Index(r) = r - 53 /\ r - 53 \in 0 .. 2 /\ Width(r) = 64 /\ ~High(r)
  BY SMT DEF Index, Width, High
<1>2. /\ Push(r)[1].op = "push" /\ Push(r)[1].reg = r /\ Len(Push(r)) = 1
      /\ Pop(r)[1].op = "pop" /\ Pop(r)[1].reg = r /\ Len(Pop(r)) = 1
  BY SMT DEF Push, Pop
<1> QED BY <1>1, <1>2

\* The register chosen for the memory operand is part of the scratch register, and
\* as wide as the other operand; for one byte it is the second of the register.
LEMMA Fitted ==
  ASSUME NEW r, NEW other, NEW q, NEW x, r \in 53 .. 55, other \in 0 .. 68,
         q = fit_register(r, other), x = r - 53
  PROVE  /\ q \in 1 .. 68 /\ Index(q) = x
         /\ Width(other) \in {0, 8, 16, 32, 64}
         /\ other = 0 => Width(q) = 64 /\ Width(other) = 0 /\ ~High(q)
         /\ other # 0 => Width(q) = Width(other) /\ (High(q) <=> Width(other) = 8)
BY SMT DEF fit_register, Width, Index, High

LEMMA PushRuns ==
  ASSUME NEW r \in 53 .. 55, NEW x, x = r - 53, NEW c, c.op = "push", c.reg = r
  PROVE  Execute(Start, c) = Machine(Registers(1, x, <<"r", x>>), << <<"r", x>> >>, <<"flags">>, << >>)
<1>1. Index(c.reg) = x /\ x \in 0 .. 2
  BY Scratch
<1>2. Execute(Start, c) = [Start EXCEPT !.stack = Append(@, Start.reg[x]),
                                        !.reg[4] = <<"rsp", Len(Start.stack) + 1>>]
  BY <1>1 DEF Execute
<1>3. /\ Start.stack = << >> /\ Start.reg[x] = <<"r", x>> /\ Start.flags = <<"flags">>
      /\ Start.stored = << >> /\ Start.reg = [k \in 0 .. 15 |-> IF k = 4 THEN <<"rsp", 0>> ELSE <<"r", k>>]
      /\ Start = [reg |-> Start.reg, stack |-> Start.stack, flags |-> Start.flags, stored |-> Start.stored]
  BY <1>1 DEF Start
<1>4. Append(Start.stack, Start.reg[x]) = << <<"r", x>> >> /\ Len(Start.stack) + 1 = 1
  BY <1>3
<1>5. [Start.reg EXCEPT ![4] = <<"rsp", 1>>] = Registers(1, x, <<"r", x>>)
  BY <1>1, <1>3 DEF Registers
<1>6. Execute(Start, c) = [reg |-> [Start.reg EXCEPT ![4] = <<"rsp", Len(Start.stack) + 1>>],
                           stack |-> Append(Start.stack, Start.reg[x]),
                           flags |-> Start.flags, stored |-> Start.stored]
  BY <1>2, <1>3
<1> QED BY <1>3, <1>4, <1>5, <1>6 DEF Machine

LEMMA LoadRuns ==
  ASSUME NEW r \in 53 .. 55, NEW x, x = r - 53, NEW a, NEW s, NEW f, NEW d,
         NEW c, c.op = "load", c.reg = r, c.addr = a
  PROVE  Execute(Machine(Registers(1, x, <<"r", x>>), s, f, d), c)
           = Machine(Registers(1, x, <<"at", a>>), s, f, d)
<1>1. Index(c.reg) = x /\ x \in 0 .. 2
  BY Scratch
<1>2. PICK g : g = Registers(1, x, <<"r", x>>)
  OBVIOUS
<1>3. Execute(Machine(g, s, f, d), c) = Machine([g EXCEPT ![x] = <<"at", a>>], s, f, d)
  BY <1>1 DEF Execute, Machine
<1>4. [g EXCEPT ![x] = <<"at", a>>] = Registers(1, x, <<"at", a>>)
  <2>1. PICK v, w : v = <<"at", a>> /\ w = <<"r", x>>
    OBVIOUS
  <2>2. g = [k \in 0 .. 15 |-> IF k = 4 THEN <<"rsp", 1>> ELSE IF k = x THEN w ELSE <<"r", k>>]
    BY <1>2, <2>1 DEF Registers
  <2>3. DOMAIN g = 0 .. 15 /\ x \in 0 .. 15 /\ x # 4
    BY <1>1, <2>2
  <2>4. [g EXCEPT ![x] = v] = [k \in 0 .. 15 |-> IF k = x THEN v ELSE g[k]]
    BY <2>3
  <2>5. ASSUME NEW k \in 0 .. 15
        PROVE  (IF k = x THEN v ELSE g[k])
                 = IF k = 4 THEN <<"rsp", 1>> ELSE IF k = x THEN v ELSE <<"r", k>>
    BY <2>2, <2>3
  <2>6. [g EXCEPT ![x] = v] = Registers(1, x, v)
    BY <2>4, <2>5, Zenon DEF Registers
  <2> QED BY <2>1, <2>6
<1> QED BY <1>2, <1>3, <1>4

\* The stack between push and pop.
Saved(x) == << <<"r", x>> >>

LEMMA PopRuns ==
  ASSUME NEW r, NEW x, NEW g, NEW f, NEW d, NEW c,
         r \in 53 .. 55, x = r - 53, DOMAIN g = 0 .. 15, c.op = "pop", c.reg = r
  PROVE  Execute(Machine(g, Saved(x), f, d), c) = Machine(Popped(g, x), << >>, f, d)
<1>1. Index(c.reg) = x /\ x \in 0 .. 2
  BY Scratch
<1>2. PICK t : t = <<"r", x>>
  OBVIOUS
<1>3. Front(<<t>>) = << >> /\ Last(<<t>>) = t /\ Len(<<t>>) - 1 = 0
  BY SMT DEF Front, Last
<1>4. Execute(Machine(g, <<t>>, f, d), c)
        = Machine([g EXCEPT ![4] = <<"rsp", 0>>, ![x] = t], << >>, f, d)
  BY <1>1, <1>3 DEF Execute, Machine
<1>5. [g EXCEPT ![4] = <<"rsp", 0>>, ![x] = t] = Popped(g, x)
  BY <1>1, <1>2 DEF Popped
<1> QED BY <1>2, <1>4, <1>5 DEF Saved

LEMMA Join ==
  ASSUME NEW S, NEW s \in Seq(S), NEW t \in Seq(S), NEW n, n = Len(s), Len(t) <= 1
  PROVE  /\ s \o t \in Seq(S) /\ Len(s \o t) = n + Len(t)
         /\ \A k \in 1 .. n : (s \o t)[k] = s[k]
         /\ Len(t) = 1 => (s \o t)[n + 1] = t[1]
BY SMT

LEMMA AfterTwo ==
  ASSUME NEW c, Len(c) = 2 PROVE After(c) = Execute(Execute(Start, c[1]), c[2])
<1>1. Len(c) \in 0 .. 4
  BY SMT
<1>2. PICK m : /\ m[0] = Start /\ After(c) = m[Len(c)]
               /\ \A n \in 1 .. Len(c) : m[n] = Execute(m[n - 1], c[n])
  BY <1>1, AfterSteps
<1>3. 1 \in 1 .. Len(c) /\ 2 \in 1 .. Len(c) /\ 1 - 1 = 0 /\ 2 - 1 = 1
  BY SMT
<1>4. m[1] = Execute(m[0], c[1]) /\ m[2] = Execute(m[1], c[2])
  BY <1>2, <1>3
<1> QED BY <1>2, <1>4

LEMMA AfterThree ==
  ASSUME NEW c, Len(c) = 3
  PROVE  After(c) = Execute(Execute(Execute(Start, c[1]), c[2]), c[3])
<1>1. Len(c) \in 0 .. 4
  BY SMT
<1>2. PICK m : /\ m[0] = Start /\ After(c) = m[Len(c)]
               /\ \A n \in 1 .. Len(c) : m[n] = Execute(m[n - 1], c[n])
  BY <1>1, AfterSteps
<1>3. /\ 1 \in 1 .. Len(c) /\ 2 \in 1 .. Len(c) /\ 3 \in 1 .. Len(c)
      /\ 1 - 1 = 0 /\ 2 - 1 = 1 /\ 3 - 1 = 2
  BY SMT
<1>4. /\ m[1] = Execute(m[0], c[1]) /\ m[2] = Execute(m[1], c[2])
      /\ m[3] = Execute(m[2], c[3])
  BY <1>2, <1>3
<1> QED BY <1>2, <1>4

LEMMA AfterFour ==
  ASSUME NEW c, Len(c) = 4
  PROVE  After(c) = Execute(Execute(Execute(Execute(Start, c[1]), c[2]), c[3]), c[4])
<1>1. Len(c) \in 0 .. 4
  BY SMT
<1>2. PICK m : /\ m[0] = Start /\ After(c) = m[Len(c)]
               /\ \A n \in 1 .. Len(c) : m[n] = Execute(m[n - 1], c[n])
  BY <1>1, AfterSteps
<1>3. /\ 1 \in 1 .. Len(c) /\ 2 \in 1 .. Len(c) /\ 3 \in 1 .. Len(c) /\ 4 \in 1 .. Len(c)
      /\ 1 - 1 = 0 /\ 2 - 1 = 1 /\ 3 - 1 = 2 /\ 4 - 1 = 3
  BY SMT
<1>4. /\ m[1] = Execute(m[0], c[1]) /\ m[2] = Execute(m[1], c[2])
      /\ m[3] = Execute(m[2], c[3]) /\ m[4] = Execute(m[3], c[4])
  BY <1>2, <1>3
<1> QED BY <1>2, <1>4

\* What the operand holds when the moved instruction runs: the loaded value, or what
\* the scratch register held if the load could not be encoded.
Loaded(r, a) == IF r = RAX \/ a < Reach THEN <<"at", a>> ELSE <<"r", r - 53>>

Before(r, a) == Machine(Registers(1, r - 53, Loaded(r, a)), Saved(r - 53), <<"flags">>, << >>)

LEMMA JoinFour ==
  ASSUME NEW p, NEW l, NEW o, NEW q, NEW t, NEW u, NEW c,
         t = << >> \/ t = <<l>>, u = << >> \/ u = <<o>>, c = <<p>> \o t \o u \o <<q>>
  PROVE  /\ t = << >> /\ u = << >> => Len(c) = 2 /\ c[1] = p /\ c[2] = q
         /\ t = << >> /\ u = <<o>> => Len(c) = 3 /\ c[1] = p /\ c[2] = o /\ c[3] = q
         /\ t = <<l>> /\ u = << >> => Len(c) = 3 /\ c[1] = p /\ c[2] = l /\ c[3] = q
         /\ t = <<l>> /\ u = <<o>> => Len(c) = 4 /\ c[1] = p /\ c[2] = l /\ c[3] = o /\ c[4] = q
<1>1. PICK S : p \in S /\ l \in S /\ o \in S /\ q \in S
  <2>1. p \in {p, l, o, q} /\ l \in {p, l, o, q} /\ o \in {p, l, o, q} /\ q \in {p, l, o, q}
    OBVIOUS
  <2> QED BY <2>1, Zenon
<1>2. PICK v, w : v = <<p>> /\ w = <<q>>
  OBVIOUS
<1>3. v \in Seq(S) /\ w \in Seq(S) /\ Len(v) = 1 /\ Len(w) = 1 /\ Len(w) <= 1 /\ v[1] = p /\ w[1] = q
  BY <1>1, <1>2
<1>4. ASSUME NEW s, NEW e \in S, s = << >> \/ s = <<e>>
      PROVE  /\ s \in Seq(S) /\ Len(s) <= 1 /\ Len(s) \in Nat
             /\ (s = << >> => Len(s) = 0) /\ (s = <<e>> => Len(s) = 1 /\ s[1] = e)
  <2>1. << >> \in Seq(S) /\ Len(<< >>) = 0 /\ <<e>> \in Seq(S) /\ Len(<<e>>) = 1 /\ <<e>>[1] = e
    BY <1>4
  <2>2. PICK y, z : y = << >> /\ z = <<e>>
    OBVIOUS
  <2>3. /\ y \in Seq(S) /\ z \in Seq(S) /\ Len(y) = 0 /\ Len(z) = 1 /\ z[1] = e
        /\ s = y \/ s = z
    BY <1>4, <2>1, <2>2
  <2>4. /\ s \in Seq(S) /\ Len(s) <= 1 /\ Len(s) \in Nat
        /\ (s = y => Len(s) = 0) /\ (s = z => Len(s) = 1 /\ s[1] = e)
    <3>1. y # z
      BY <2>3
    <3>2. CASE s = y
      BY <2>3, <3>1, <3>2
    <3>3. CASE s = z
      <4>1. s \in Seq(S) /\ Len(s) = 1 /\ s[1] = e /\ s # y
        BY <2>3, <3>1, <3>3, Zenon
      <4>2. Len(s) <= 1 /\ Len(s) \in Nat
        BY <4>1
      <4> QED BY <4>1, <4>2, Zenon
    <3> QED BY <2>3, <3>2, <3>3
  <2> QED BY <2>2, <2>4
<1>5. /\ t \in Seq(S) /\ Len(t) <= 1 /\ Len(t) \in Nat
      /\ (t = << >> => Len(t) = 0) /\ (t = <<l>> => Len(t) = 1 /\ t[1] = l)
      /\ u \in Seq(S) /\ Len(u) <= 1 /\ Len(u) \in Nat
      /\ (u = << >> => Len(u) = 0) /\ (u = <<o>> => Len(u) = 1 /\ u[1] = o)
  BY <1>1, <1>4
<1>6. PICK c1 : c1 = v \o t
  OBVIOUS
<1>7. PICK c2 : c2 = c1 \o u
  OBVIOUS
<1>8. c = c2 \o w
  BY <1>2, <1>6, <1>7
<1>9. /\ c1 \in Seq(S) /\ Len(c1) = 1 + Len(t) /\ c1[1] = p
      /\ Len(t) = 1 => c1[2] = t[1]
  <2>1. /\ v \o t \in Seq(S) /\ Len(v \o t) = 1 + Len(t)
        /\ \A k \in 1 .. 1 : (v \o t)[k] = v[k]
        /\ Len(t) = 1 => (v \o t)[1 + 1] = t[1]
    BY <1>3, <1>5, Join
  <2> QED BY <1>3, <1>6, <2>1
<1>10. /\ c2 \in Seq(S) /\ Len(c2) = Len(c1) + Len(u) /\ \A k \in 1 .. Len(c1) : c2[k] = c1[k]
       /\ Len(u) = 1 => c2[Len(c1) + 1] = u[1]
  BY <1>5, <1>7, <1>9, Join
<1>11. /\ c \in Seq(S) /\ Len(c) = Len(c2) + 1 /\ \A k \in 1 .. Len(c2) : c[k] = c2[k]
       /\ c[Len(c2) + 1] = q
  <2>1. /\ c2 \o w \in Seq(S) /\ Len(c2 \o w) = Len(c2) + Len(w)
        /\ \A k \in 1 .. Len(c2) : (c2 \o w)[k] = c2[k]
        /\ Len(w) = 1 => (c2 \o w)[Len(c2) + 1] = w[1]
    <3>1. c2 \in Seq(S) /\ w \in Seq(S) /\ Len(w) <= 1
      BY <1>3, <1>10
    <3> QED BY <3>1, Join
  <2> QED BY <1>3, <1>8, <2>1
<1> QED BY <1>5, <1>9, <1>10, <1>11

\* What the encoder makes of the four requests; op is the instruction itself.
Parts(r, a, op) == Push(r) \o Load(r, a) \o op \o Pop(r)

LEMMA DataRuns ==
  ASSUME NEW r, NEW a, NEW o, NEW c, NEW op,
         r \in 53 .. 55, a \in Int, op = << >> \/ op = <<o>>, c = Parts(r, a, op)
  PROVE  /\ After(c) = Execute(IF op = << >> THEN Before(r, a) ELSE Execute(Before(r, a), o), Pop(r)[1])
         /\ c[1].reg = r
<1>1. c = Push(r) \o Load(r, a) \o op \o Pop(r)
  BY DEF Parts
<1>2. PICK p, q : /\ Push(r) = <<p>> /\ p.op = "push" /\ p.reg = r
                  /\ Pop(r) = <<q>> /\ q = Pop(r)[1]
  BY Scratch DEF Push, Pop
<1>3. PICK ld : ld = Load(r, a) /\ c = <<p>> \o ld \o op \o <<q>>
  BY <1>1, <1>2
<1>4. PICK x : x = r - 53
  OBVIOUS
<1>5. PICK s : s = Saved(x)
  OBVIOUS
<1>6. PICK m1 : m1 = Machine(Registers(1, x, <<"r", x>>), s, <<"flags">>, << >>)
  OBVIOUS
<1>7. Execute(Start, p) = m1
  BY <1>2, <1>4, <1>5, <1>6, PushRuns DEF Saved
<1>8. PICK b : b = Before(r, a)
  OBVIOUS
<1>9. PICK e : e = Execute(b, o)
  OBVIOUS
<1>10. \/ Load(r, a) = << >> /\ b = m1
      \/ \E l : Load(r, a) = <<l>> /\ Execute(m1, l) = b
  <2>1. CASE r = RAX \/ a < Reach
    <3>1. ~(r # RAX /\ a >= Reach)
      BY <2>1, NumbersAssumption
    <3>2. PICK l : Load(r, a) = <<l>> /\ l.op = "load" /\ l.reg = r /\ l.addr = a
      <4> DEFINE l == [op |-> "load", reg |-> r, addr |-> a, len |-> IF r = RAX THEN 10 ELSE 8]
      <4>1. Load(r, a) = <<l>>
        BY <3>1 DEF Load
      <4>2. l.op = "load" /\ l.reg = r /\ l.addr = a
        OBVIOUS
      <4> HIDE DEF l
      <4> QED BY <4>1, <4>2
    <3>3. b = Machine(Registers(1, x, <<"at", a>>), s, <<"flags">>, << >>)
      BY <2>1, <1>4, <1>5, <1>8 DEF Before, Loaded
    <3> QED BY <3>2, <3>3, <1>4, <1>6, LoadRuns
  <2>2. CASE ~(r = RAX \/ a < Reach)
    <3>1. r # RAX /\ a >= Reach
      BY <2>2, NumbersAssumption
    <3>2. Load(r, a) = << >>
      BY <3>1 DEF Load
    <3>3. b = m1
      BY <2>2, <1>4, <1>5, <1>6, <1>8 DEF Before, Loaded
    <3> QED BY <3>2, <3>3
  <2> QED BY <2>1, <2>2
<1>11. PICK z : z = Execute(IF op = << >> THEN b ELSE e, q)
  OBVIOUS
<1>12. After(c) = z /\ c[1] = p
  <2>1. CASE Load(r, a) = << >> /\ b = m1 /\ op = << >>
    <3>1. Len(c) = 2 /\ c[1] = p /\ c[2] = q
      <4>1. ld = << >> /\ op = << >>
        BY <1>3, <2>1
      <4> QED BY <1>3, <4>1, JoinFour
    <3> QED BY <3>1, <1>7, <1>11, <2>1, AfterTwo
  <2>2. CASE Load(r, a) = << >> /\ b = m1 /\ op = <<o>>
    <3>1. Len(c) = 3 /\ c[1] = p /\ c[2] = o /\ c[3] = q
      <4>1. ld = << >> /\ op = <<o>>
        BY <1>3, <2>2
      <4> QED BY <1>3, <4>1, JoinFour
    <3>2. op # << >>
      BY <2>2
    <3> QED BY <3>1, <3>2, <1>7, <1>9, <1>11, <2>2, AfterThree
  <2>3. ASSUME NEW l, Load(r, a) = <<l>>, Execute(m1, l) = b, op = << >>
        PROVE  After(c) = z /\ c[1] = p
    <3>1. Len(c) = 3 /\ c[1] = p /\ c[2] = l /\ c[3] = q
      <4>1. ld = <<l>> /\ op = << >>
        BY <1>3, <2>3
      <4> QED BY <1>3, <4>1, JoinFour
    <3> QED BY <3>1, <1>7, <1>11, <2>3, AfterThree
  <2>4. ASSUME NEW l, Load(r, a) = <<l>>, Execute(m1, l) = b, op = <<o>>
        PROVE  After(c) = z /\ c[1] = p
    <3>1. Len(c) = 4 /\ c[1] = p /\ c[2] = l /\ c[3] = o /\ c[4] = q
      <4>1. ld = <<l>> /\ op = <<o>>
        BY <1>3, <2>4
      <4> QED BY <1>3, <4>1, JoinFour
    <3>2. op # << >>
      BY <2>4
    <3> QED BY <3>1, <3>2, <1>7, <1>9, <1>11, <2>4, AfterFour
  <2> QED BY <1>10, <2>1, <2>2, <2>3, <2>4
<1> QED BY <1>2, <1>8, <1>9, <1>11, <1>12

LEMMA WithoutRuns ==
  ASSUME NEW r, NEW a, NEW c, NEW k, r \in 53 .. 55, a \in Int, c = Parts(r, a, << >>), k = Pop(r)[1]
  PROVE  After(c) = Execute(Before(r, a), k) /\ c[1].reg = r
BY DataRuns

LEMMA WithRuns ==
  ASSUME NEW r, NEW a, NEW c, NEW k, NEW o, NEW op, r \in 53 .. 55, a \in Int,
         c = Parts(r, a, op), op = <<o>>, op # << >>, k = Pop(r)[1]
  PROVE  After(c) = Execute(Execute(Before(r, a), o), k) /\ c[1].reg = r
<1>1. /\ After(c) = Execute(IF op = << >> THEN Before(r, a) ELSE Execute(Before(r, a), o), Pop(r)[1])
      /\ c[1].reg = r
  BY DataRuns
<1> QED BY <1>1

\* What a register operand holds, and the registers with v stored into one.
RegValue(g, q) == IF q = 0 THEN <<"immediate">> ELSE Part(g[Index(q)], Width(q), High(q))

\* Operands, and what is in memory.
Reg(q)         == <<"reg", q>>
Mem(a, w)      == <<"mem", a, w>>
MemValue(a, w) == Part(<<"at", a>>, w, FALSE)
Cell(a, w, v)  == <<a, w, v>>

Stored(g, q, v) ==
  [k \in 0 .. 15 |->
     IF k # Index(q) THEN g[k]
     ELSE IF Width(q) \in {32, 64} THEN v ELSE <<"insert", Width(q), High(q), g[k], v>>]

LEMMA RegRead ==
  ASSUME NEW g, NEW s, NEW f, NEW d, NEW m, NEW q, NEW x, m = Machine(g, s, f, d), x = Reg(q)
  PROVE  Value(m, x) = RegValue(g, q)
<1>1. m.reg = g
  BY DEF Machine
<1>2. x[1] # "mem" /\ x[2] = q /\ (x = <<"reg", 0>> <=> q = 0)
  BY DEF Reg
<1> QED BY <1>1, <1>2, Zenon DEF Value, RegValue

LEMMA MemRead ==
  ASSUME NEW m, NEW a, NEW w, NEW x, x = Mem(a, w)
  PROVE  Value(m, x) = MemValue(a, w)
<1>1. x[1] = "mem" /\ x[2] = a /\ x[3] = w /\ x # <<"reg", 0>>
  BY DEF Mem
<1> QED BY <1>1, Zenon DEF Value, MemValue

LEMMA RegWrite ==
  ASSUME NEW g, NEW s, NEW f, NEW d, NEW m, NEW q, NEW x, NEW v, m = Machine(g, s, f, d),
         DOMAIN g = 0 .. 15, x = Reg(q)
  PROVE  Store(m, x, v) = Machine(Stored(g, q, v), s, f, d)
<1>1. m = [reg |-> g, stack |-> s, flags |-> f, stored |-> d] /\ m.reg = g
  BY DEF Machine
<1>2. x[1] # "mem" /\ x[2] = q
  BY DEF Reg
<1>3. PICK y : y = Index(q)
  OBVIOUS
<1>4. PICK u : u = IF Width(q) \in {32, 64} THEN v ELSE <<"insert", Width(q), High(q), g[y], v>>
  OBVIOUS
<1>5. Store(m, x, v) = [m EXCEPT !.reg[y] = u]
  BY <1>1, <1>2, <1>3, <1>4 DEF Store
<1>6. [m EXCEPT !.reg[y] = u] = [reg |-> [g EXCEPT ![y] = u], stack |-> s, flags |-> f, stored |-> d]
  BY <1>1
<1>7. [g EXCEPT ![y] = u] = [k \in 0 .. 15 |-> IF k = y THEN u ELSE g[k]]
  OBVIOUS
<1>8. [g EXCEPT ![y] = u] = Stored(g, q, v)
  BY <1>3, <1>4, <1>7, Zenon DEF Stored
<1> QED BY <1>5, <1>6, <1>8 DEF Machine

LEMMA MemWrite ==
  ASSUME NEW g, NEW s, NEW f, NEW d, NEW m, NEW a, NEW w, NEW x, NEW v, m = Machine(g, s, f, d),
         x = Mem(a, w)
  PROVE  Store(m, x, v) = Machine(g, s, f, Cell(a, w, v))
<1>1. m = [reg |-> g, stack |-> s, flags |-> f, stored |-> d]
  BY DEF Machine
<1>2. x[1] = "mem" /\ x[2] = a /\ x[3] = w
  BY DEF Mem
<1>3. PICK u : u = <<x[2], x[3], v>>
  OBVIOUS
<1>4. Store(m, x, v) = [m EXCEPT !.stored = u]
  BY <1>2, <1>3 DEF Store
<1>5. [m EXCEPT !.stored = u] = [reg |-> g, stack |-> s, flags |-> f, stored |-> u]
  BY <1>1
<1> QED BY <1>2, <1>3, <1>4, <1>5 DEF Machine, Cell

Result(n, v, w) == <<"result", n, v, w>>

LEMMA Operations ==
  ASSUME NEW g, NEW s, NEW f, NEW d, NEW m, NEW y, NEW z, NEW c, NEW u, NEW w, NEW t,
         m = Machine(g, s, f, d), c.op = "op", c.args = <<y, z>>,
         u = Value(m, y), w = Value(m, z), t = Result(c.name, u, w)
  PROVE  Execute(m, c) = IF c.name \in {"cmp", "loop"} THEN Machine(g, s, t, d)
                         ELSE IF c.name = "mov" THEN Store(m, y, w)
                         ELSE Store(Machine(g, s, t, d), y, t)
<1>1. PICK n : n = c.name
  OBVIOUS
<1>2. c.args[1] = y /\ c.args[2] = z
  OBVIOUS
<1>3. [m EXCEPT !.flags = t] = Machine(g, s, t, d)
  BY DEF Machine
<1>4. PICK v : v = IF n = "mov" THEN w ELSE t
  OBVIOUS
<1>5. PICK e : e = IF n = "mov" THEN m ELSE [m EXCEPT !.flags = v]
  OBVIOUS
<1>6. Execute(m, c) = IF n \in {"cmp", "loop"} THEN e ELSE Store(e, y, v)
  <2>1. v = IF c.name = "mov" THEN Value(m, c.args[2])
            ELSE <<"result", c.name, Value(m, c.args[1]), Value(m, c.args[2])>>
    BY <1>1, <1>2, <1>4 DEF Result
  <2>2. Execute(m, c) = IF c.name \in {"cmp", "loop"} THEN e ELSE Store(e, c.args[1], v)
    BY <1>1, <1>5, <2>1, OperationStep
  <2> QED BY <1>1, <1>2, <2>2
<1>7. CASE n = "mov"
  BY <1>1, <1>4, <1>5, <1>6, <1>7
<1>8. CASE n # "mov"
  BY <1>1, <1>3, <1>4, <1>5, <1>6, <1>8
<1> QED BY <1>7, <1>8

\* An instruction on two register operands, and one that reads or writes memory.
LEMMA RegisterOperation ==
  ASSUME NEW g, NEW s, NEW f, NEW d, NEW m, NEW p, NEW q, NEW c, NEW u, NEW w, NEW t,
         NEW y, NEW z, m = Machine(g, s, f, d), DOMAIN g = 0 .. 15,
         c.op = "op", c.args = <<y, z>>, y = Reg(p), z = Reg(q),
         u = RegValue(g, p), w = RegValue(g, q), t = Result(c.name, u, w)
  PROVE  Execute(m, c) = IF c.name \in {"cmp", "loop"} THEN Machine(g, s, t, d)
                         ELSE IF c.name = "mov" THEN Machine(Stored(g, p, w), s, f, d)
                         ELSE Machine(Stored(g, p, t), s, t, d)
<1>1. u = Value(m, y)
  BY RegRead
<1>2. w = Value(m, z)
  BY RegRead
<1>3. Store(m, y, w) = Machine(Stored(g, p, w), s, f, d)
  BY RegWrite
<1>4. Store(Machine(g, s, t, d), y, t) = Machine(Stored(g, p, t), s, t, d)
  BY RegWrite
<1>5. Execute(m, c) = IF c.name \in {"cmp", "loop"} THEN Machine(g, s, t, d)
                      ELSE IF c.name = "mov" THEN Store(m, y, w)
                      ELSE Store(Machine(g, s, t, d), y, t)
  BY <1>1, <1>2, Operations
<1> QED BY <1>3, <1>4, <1>5

LEMMA MemoryRead ==
  ASSUME NEW g, NEW s, NEW f, NEW d, NEW m, NEW p, NEW a, NEW b, NEW c, NEW u, NEW w, NEW t,
         NEW y, NEW z, m = Machine(g, s, f, d), DOMAIN g = 0 .. 15,
         c.op = "op", c.args = <<y, z>>, y = Reg(p), z = Mem(a, b),
         u = RegValue(g, p), w = MemValue(a, b), t = Result(c.name, u, w)
  PROVE  Execute(m, c) = IF c.name \in {"cmp", "loop"} THEN Machine(g, s, t, d)
                         ELSE IF c.name = "mov" THEN Machine(Stored(g, p, w), s, f, d)
                         ELSE Machine(Stored(g, p, t), s, t, d)
<1>1. u = Value(m, y)
  BY RegRead
<1>2. w = Value(m, z)
  BY MemRead
<1>3. Store(m, y, w) = Machine(Stored(g, p, w), s, f, d)
  BY RegWrite
<1>4. Store(Machine(g, s, t, d), y, t) = Machine(Stored(g, p, t), s, t, d)
  BY RegWrite
<1>5. Execute(m, c) = IF c.name \in {"cmp", "loop"} THEN Machine(g, s, t, d)
                      ELSE IF c.name = "mov" THEN Store(m, y, w)
                      ELSE Store(Machine(g, s, t, d), y, t)
  BY <1>1, <1>2, Operations
<1> QED BY <1>3, <1>4, <1>5

LEMMA MemoryWrite ==
  ASSUME NEW g, NEW s, NEW f, NEW d, NEW m, NEW q, NEW a, NEW b, NEW c, NEW u, NEW w, NEW t,
         NEW y, NEW z, m = Machine(g, s, f, d), DOMAIN g = 0 .. 15,
         c.op = "op", c.args = <<y, z>>, y = Mem(a, b), z = Reg(q),
         u = MemValue(a, b), w = RegValue(g, q), t = Result(c.name, u, w)
  PROVE  Execute(m, c) = IF c.name \in {"cmp", "loop"} THEN Machine(g, s, t, d)
                         ELSE IF c.name = "mov" THEN Machine(g, s, f, Cell(a, b, w))
                         ELSE Machine(g, s, t, Cell(a, b, t))
<1>1. u = Value(m, y)
  BY MemRead
<1>2. w = Value(m, z)
  BY RegRead
<1>3. Store(m, y, w) = Machine(g, s, f, Cell(a, b, w))
  BY MemWrite
<1>4. Store(Machine(g, s, t, d), y, t) = Machine(g, s, t, Cell(a, b, t))
  BY MemWrite
<1>5. Execute(m, c) = IF c.name \in {"cmp", "loop"} THEN Machine(g, s, t, d)
                      ELSE IF c.name = "mov" THEN Store(m, y, w)
                      ELSE Store(Machine(g, s, t, d), y, t)
  BY <1>1, <1>2, Operations
<1> QED BY <1>3, <1>4, <1>5

LEMMA OtherRegisters ==
  ASSUME NEW x, NEW v, NEW g, x \in 0 .. 2, g = Registers(1, x, v)
  PROVE  \A k \in 0 .. 15 : k \notin {4, x} => g[k] = Start.reg[k]
BY SMT DEF Registers, Start

\* A register r for the operand at a of an instruction with operand p besides, and w
\* bits wide; the registers when it runs; its address and the size of its operand.
Scratched(r, a, p, w) ==
  /\ r \in 53 .. 55 /\ a \in Int /\ p \in 0 .. 68 /\ w \in {8, 16, 32, 64}
  /\ p # 0 => w = Width(p)

Loading(r, a) == Registers(1, r - 53, Loaded(r, a))

\* The memory operand is loaded, and the register in its place is as wide.
Reached(r, a) == r = RAX \/ a < Reach
Whole(p, w)   == IF p = 0 THEN w = 64 ELSE w > 8

\* The register read instead of memory holds the operand of the instruction, if it
\* was loaded and the whole of it is read.
LEMMA OperandKept ==
  ASSUME NEW r, NEW a, NEW reg, NEW w, Scratched(r, a, reg, w)
  PROVE  RegValue(Loading(r, a), fit_register(r, reg)) = MemValue(a, w)
           <=> Reached(r, a) /\ Whole(reg, w)
<1>0. PICK q, x, g : q = fit_register(r, reg) /\ x = r - 53 /\ g = Registers(1, x, Loaded(r, a))
  OBVIOUS
<1>1. /\ r \in 53 .. 55 /\ a \in Int /\ reg \in 0 .. 68 /\ w \in {8, 16, 32, 64}
      /\ reg # 0 => w = Width(reg)
  BY DEF Scratched
<1> USE <1>0, <1>1
<1>2. PICK L : L = Loaded(r, a)
  OBVIOUS
<1>3. g = Registers(1, x, L)
  BY <1>2
<1>4. g[x] = L
  BY <1>3, SMT DEF Registers
<1>5. /\ q # 0 /\ Index(q) = x /\ Width(q) = (IF reg = 0 THEN 64 ELSE w)
      /\ (High(q) <=> Width(reg) = 8) /\ (reg = 0 => Width(reg) # 8)
  BY Fitted
<1>6. RegValue(g, q) = Part(L, IF reg = 0 THEN 64 ELSE w, High(q))
  BY <1>4, <1>5 DEF RegValue
<1>7. PICK t, u : t = <<"at", a>> /\ u = <<"r", x>>
  OBVIOUS
<1>8. t # u /\ t[1] = "at" /\ u[1] = "r"
  BY <1>7
<1>9. /\ L = t <=> (r = RAX \/ a < Reach)
      /\ L = t \/ L = u
  BY <1>2, <1>7, <1>8 DEF Loaded
<1>10. High(q) \in BOOLEAN
  BY DEF High
<1>11. PICK h \in BOOLEAN : h = High(q)
  BY <1>10
<1>12. ASSUME NEW s \in {t, u}
       PROVE  Part(s, IF reg = 0 THEN 64 ELSE w, h) = Part(t, w, FALSE)
                <=> s = t /\ (IF reg = 0 THEN w = 64 ELSE w > 8)
  <2>1. CASE reg = 0
    <3>1. Part(s, 64, h) = s
      BY DEF Part
    <3>2. s[1] # "part"
      BY <1>8
    <3>3. Part(t, w, FALSE) = t \/ (w # 64 /\ Part(t, w, FALSE)[1] = "part")
      BY DEF Part
    <3>4. w = 64 => Part(t, w, FALSE) = t
      BY DEF Part
    <3>5. w # 64 => Part(t, w, FALSE)[1] = "part"
      BY DEF Part
    <3> QED BY <2>1, <3>1, <3>2, <3>4, <3>5
  <2>2. CASE reg # 0 /\ w = 64
    BY <2>2 DEF Part
  <2>3. CASE reg # 0 /\ w # 64
    <3>1. PICK y, z : y = <<"part", w, h, s>> /\ z = <<"part", w, FALSE, t>>
      OBVIOUS
    <3>2. Part(s, w, h) = y /\ Part(t, w, FALSE) = z
      BY <2>3, <3>1 DEF Part
    <3>3. h <=> w = 8
      BY <1>5, <1>11, <2>3
    <3>4. y = z <=> h = FALSE /\ s = t
      BY <3>1
    <3>5. h = FALSE <=> w > 8
      BY <3>3
    <3> QED BY <2>3, <3>2, <3>4, <3>5
  <2> QED BY <2>1, <2>2, <2>3
<1>13. RegValue(g, q) = Part(t, w, FALSE) <=> L = t /\ (IF reg = 0 THEN w = 64 ELSE w > 8)
  BY <1>6, <1>9, <1>11, <1>12
<1>14. MemValue(a, w) = Part(t, w, FALSE)
  BY <1>7 DEF MemValue
<1> QED BY <1>7, <1>9, <1>13, <1>14 DEF Reached, Whole, Loading

\* The other operand is what it was, unless it is rsp, which push moved, or the
\* scratch register.
LEMMA OtherKept ==
  ASSUME NEW r, NEW a, NEW reg, NEW w, Scratched(r, a, reg, w), Reached(r, a)
  PROVE  RegValue(Loading(r, a), reg) = RegValue(Start.reg, reg)
           <=> reg = 0 \/ Index(reg) \notin {4, r - 53}
<1>0. PICK x, g : x = r - 53 /\ g = Registers(1, x, Loaded(r, a))
  OBVIOUS
<1>1. r \in 53 .. 55 /\ a \in Int /\ reg \in 0 .. 68
  BY DEF Scratched
<1> USE <1>0, <1>1
<1>2. PICK L : L = <<"at", a>>
  OBVIOUS
<1>3. g = Registers(1, x, L)
  BY <1>2 DEF Loaded, Reached
<1>5. /\ x \in 0 .. 2 /\ g[x] = L /\ Start.reg[x] = <<"r", x>>
      /\ g[4] = <<"rsp", 1>> /\ Start.reg[4] = <<"rsp", 0>>
      /\ \A k \in 0 .. 15 : k \notin {4, x} => g[k] = Start.reg[k]
  <2>1. x \in 0 .. 2
    OBVIOUS
  <2>2. g[x] = L
    BY <2>1, <1>3 DEF Registers
  <2>3. g[4] = <<"rsp", 1>>
    BY <2>1, <1>3 DEF Registers
  <2>4. Start.reg[x] = <<"r", x>> /\ Start.reg[4] = <<"rsp", 0>>
    BY <2>1 DEF Start
  <2>5. \A k \in 0 .. 15 : k \notin {4, x} => g[k] = Start.reg[k]
    BY <2>1, <1>3, OtherRegisters
  <2> QED BY <2>1, <2>2, <2>3, <2>4, <2>5
<1>6. g[x] # Start.reg[x] /\ g[4] # Start.reg[4]
  BY <1>2, <1>5
<1>7. reg # 0 => Index(reg) \in 0 .. 15
  BY SMT DEF Index
<1>8. reg # 0 => (g[Index(reg)] = Start.reg[Index(reg)] <=> Index(reg) \notin {4, x})
  BY <1>5, <1>6, <1>7
<1>9. ASSUME NEW s, NEW t, NEW v, NEW h PROVE Part(s, v, h) = Part(t, v, h) <=> s = t
  <2>1. PICK y, z : y = <<"part", v, h, s>> /\ z = <<"part", v, h, t>>
    OBVIOUS
  <2>2. y = z <=> s = t
    BY <2>1
  <2>3. CASE v = 64
    BY <2>3 DEF Part
  <2>4. CASE v # 64
    BY <2>1, <2>2, <2>4 DEF Part
  <2> QED BY <2>3, <2>4
<1>10. reg # 0 => (RegValue(g, reg) = RegValue(Start.reg, reg)
                     <=> g[Index(reg)] = Start.reg[Index(reg)])
  BY <1>9 DEF RegValue
<1>11. reg = 0 => RegValue(g, reg) = RegValue(Start.reg, reg)
  BY DEF RegValue
<1> QED BY <1>8, <1>10, <1>11 DEF Loading

\* A result in the destination survives the restoring of rsp and of the scratch
\* register, unless it is in one of these.
LEMMA DestKept ==
  ASSUME NEW x, NEW g, NEW l, NEW q, NEW v, NEW v0, x \in 0 .. 2, g = Registers(1, x, l),
         q \in 1 .. 68, v0 # <<"rsp", 0>>, v0 # <<"r", x>>
  PROVE  Popped(Stored(g, q, v), x) = Stored(Start.reg, q, v0)
           <=> Index(q) \notin {4, x} /\ v = v0
<1>1. PICK y : y = Index(q) /\ y \in 0 .. 15
  BY SMT DEF Index
<1>2. /\ \A k \in 0 .. 15 : k \notin {4, x} => g[k] = Start.reg[k]
      /\ Start.reg[4] = <<"rsp", 0>> /\ Start.reg[x] = <<"r", x>>
  <2>1. \A k \in 0 .. 15 : k \notin {4, x} => g[k] = Start.reg[k]
    BY OtherRegisters
  <2>2. Start.reg[4] = <<"rsp", 0>> /\ Start.reg[x] = <<"r", x>>
    BY DEF Start
  <2> QED BY <2>1, <2>2
<1>3. PICK A, B : A = Popped(Stored(g, q, v), x) /\ B = Stored(Start.reg, q, v0)
  OBVIOUS
<1> DEFINE put(e, w) == IF Width(q) \in {32, 64} THEN w ELSE <<"insert", Width(q), High(q), e, w>>
<1>4. PICK e, e0 : e = put(g[y], v) /\ e0 = put(Start.reg[y], v0)
  OBVIOUS
<1>5. /\ A = [k \in 0 .. 15 |-> IF k = x THEN <<"r", x>> ELSE IF k = 4 THEN <<"rsp", 0>>
                                ELSE IF k # y THEN g[k] ELSE e]
      /\ B = [k \in 0 .. 15 |-> IF k # y THEN Start.reg[k] ELSE e0]
  <2>1. ASSUME NEW k \in 0 .. 15
        PROVE  /\ Stored(g, q, v)[k] = IF k # y THEN g[k] ELSE e
               /\ (IF k # y THEN Start.reg[k] ELSE put(Start.reg[k], v0))
                    = IF k # y THEN Start.reg[k] ELSE e0
    BY <1>1, <1>4, Zenon DEF Stored
  <2>2. A = [k \in 0 .. 15 |-> IF k = x THEN <<"r", x>> ELSE IF k = 4 THEN <<"rsp", 0>>
                               ELSE Stored(g, q, v)[k]]
    BY <1>3, Zenon DEF Popped
  <2>3. B = [k \in 0 .. 15 |-> IF k # y THEN Start.reg[k] ELSE put(Start.reg[k], v0)]
    BY <1>1, <1>3, Zenon DEF Stored
  <2> HIDE DEF put
  <2> QED BY <2>1, <2>2, <2>3, Zenon
<1>6. CASE y \in {4, x}
  <2>1. A[y] = <<"r", x>> \/ A[y] = <<"rsp", 0>>
    BY <1>1, <1>5, <1>6
  <2>2. B[y] = e0
    BY <1>1, <1>5
  <2>3. e0 # <<"r", x>> /\ e0 # <<"rsp", 0>>
    <3>1. CASE Width(q) \in {32, 64}
      BY <3>1, <1>4
    <3>2. CASE Width(q) \notin {32, 64}
      <4>1. e0 = <<"insert", Width(q), High(q), Start.reg[y], v0>>
        BY <3>2, <1>4
      <4>2. e0[1] = "insert"
        BY <4>1
      <4>3. \A i, j : <<i, j>>[1] = i
        OBVIOUS
      <4> QED BY <4>2, <4>3
    <3> QED BY <3>1, <3>2
  <2> QED BY <1>1, <1>3, <1>6, <2>1, <2>2, <2>3
<1>7. CASE y \notin {4, x}
  <2>1. g[y] = Start.reg[y]
    BY <1>1, <1>2, <1>7
  <2>2. e = e0 <=> v = v0
    <3>1. CASE Width(q) \in {32, 64}
      BY <3>1, <1>4
    <3>2. CASE Width(q) \notin {32, 64}
      <4>1. PICK w, h, u : w = Width(q) /\ h = High(q) /\ u = g[y]
        OBVIOUS
      <4>2. e = <<"insert", w, h, u, v>> /\ e0 = <<"insert", w, h, u, v0>>
        BY <3>2, <1>4, <2>1, <4>1
      <4> QED BY <4>2
    <3> QED BY <3>1, <3>2
  <2>3. A[y] = e /\ B[y] = e0
    BY <1>1, <1>5, <1>7
  <2>4. ASSUME e = e0 PROVE A = B
    <3>1. ASSUME NEW k \in 0 .. 15
          PROVE  (IF k = x THEN <<"r", x>> ELSE IF k = 4 THEN <<"rsp", 0>>
                  ELSE IF k # y THEN g[k] ELSE e)
                   = IF k # y THEN Start.reg[k] ELSE e0
      BY <1>2, <1>7, <2>4, Zenon
    <3> QED BY <1>5, <3>1, Zenon
  <2> QED BY <1>1, <1>3, <1>7, <2>2, <2>3, <2>4
<1> QED BY <1>6, <1>7

LEMMA SameMachine ==
  ASSUME NEW g, NEW s, NEW f, NEW d, NEW g0, NEW s0, NEW f0, NEW d0
  PROVE  Machine(g, s, f, d) = Machine(g0, s0, f0, d0) <=> g = g0 /\ s = s0 /\ f = f0 /\ d = d0
BY DEF Machine

\* Values of different kinds are different.
LEMMA MemKind ==
  ASSUME NEW a, NEW w, NEW k, NEW v, v = MemValue(a, w)
  PROVE  v # <<"r", k>> /\ v # <<"rsp", 0>>
<1>1. v[1] \in {"at", "part"}
  BY DEF MemValue, Part
<1>2. <<"r", k>>[1] = "r" /\ <<"rsp", 0>>[1] = "rsp"
  OBVIOUS
<1> QED BY <1>1, <1>2

LEMMA ResultKind ==
  ASSUME NEW n, NEW v, NEW u, NEW k, NEW t, t = Result(n, v, u)
  PROVE  t # <<"r", k>> /\ t # <<"rsp", 0>> /\ t # <<"flags">>
<1>1. t[1] = "result"
  BY DEF Result
<1>2. <<"r", k>>[1] = "r" /\ <<"rsp", 0>>[1] = "rsp" /\ <<"flags">>[1] = "flags"
  OBVIOUS
<1> QED BY <1>1, <1>2

LEMMA SameResult ==
  ASSUME NEW n, NEW v, NEW u, NEW v0, NEW u0
  PROVE  Result(n, v, u) = Result(n, v0, u0) <=> v = v0 /\ u = u0
BY DEF Result

LEMMA CellKind == ASSUME NEW a, NEW w, NEW v PROVE Cell(a, w, v) # << >>
BY DEF Cell

\* The instruction as it was, with its memory operand at b.
Moved(i, b) ==
  LET m == <<"mem", b, i.width>>
      r == <<"reg", i.reg>>
  IN  [op |-> "op", name |-> i.name, args |-> IF i.mem_id = 0 THEN <<m, r>> ELSE <<r, m>>]

\* What it does: V is its memory operand, W the other one.
LEMMA OriginalRuns ==
  ASSUME NEW i, NEW b, NEW c, NEW V, NEW W, NEW R, NEW g, NEW s, NEW f, NEW d, NEW w, NEW p, NEW n,
         g = Start.reg, s = Start.stack, f = Start.flags, d = Start.stored,
         w = i.width, p = i.reg, n = i.name,
         c = Moved(i, b), V = MemValue(b, w), W = RegValue(g, p), i.mem_id \in {0, 1},
         R = IF i.mem_id = 0 THEN Result(n, V, W) ELSE Result(n, W, V)
  PROVE  Execute(Start, c) =
           IF n \in {"cmp", "loop"} THEN Machine(g, s, R, d)
           ELSE IF i.mem_id = 0
             THEN IF n = "mov" THEN Machine(g, s, f, Cell(b, w, W)) ELSE Machine(g, s, R, Cell(b, w, R))
             ELSE IF n = "mov" THEN Machine(Stored(g, p, V), s, f, d)
                  ELSE Machine(Stored(g, p, R), s, R, d)
<1>1. PICK y, z : y = Mem(b, w) /\ z = Reg(p)
  OBVIOUS
<1>2. c.op = "op" /\ c.name = n /\ c.args = IF i.mem_id = 0 THEN <<y, z>> ELSE <<z, y>>
  BY <1>1 DEF Moved, Mem, Reg
<1>3. Start = Machine(g, s, f, d) /\ DOMAIN g = 0 .. 15
  BY DEF Start, Machine
<1>4. PICK m : m = Start
  OBVIOUS
<1>5. CASE i.mem_id = 0
  <2>1. /\ c.op = "op" /\ c.args = <<y, z>> /\ R = Result(c.name, V, W)
        /\ m = Machine(g, s, f, d) /\ DOMAIN g = 0 .. 15
    BY <1>2, <1>3, <1>4, <1>5
  <2>2. Execute(m, c) = IF c.name \in {"cmp", "loop"} THEN Machine(g, s, R, d)
                        ELSE IF c.name = "mov" THEN Machine(g, s, f, Cell(b, w, W))
                        ELSE Machine(g, s, R, Cell(b, w, R))
    BY <1>1, <2>1, MemoryWrite
  <2> QED BY <1>2, <1>4, <1>5, <2>2
<1>6. CASE i.mem_id = 1
  <2>1. /\ c.op = "op" /\ c.args = <<z, y>> /\ R = Result(c.name, W, V)
        /\ m = Machine(g, s, f, d) /\ DOMAIN g = 0 .. 15
    BY <1>2, <1>3, <1>4, <1>6
  <2>2. Execute(m, c) = IF c.name \in {"cmp", "loop"} THEN Machine(g, s, R, d)
                        ELSE IF c.name = "mov" THEN Machine(Stored(g, p, V), s, f, d)
                        ELSE Machine(Stored(g, p, R), s, R, d)
    BY <1>1, <2>1, MemoryRead
  <2> QED BY <1>2, <1>4, <1>6, <2>2
<1> QED BY <1>5, <1>6

\* What it does with register q for its memory operand.
LEMMA MovedRuns ==
  ASSUME NEW i, NEW o, NEW V, NEW W, NEW R, NEW g, NEW s, NEW f, NEW d, NEW m, NEW p, NEW q, NEW n,
         m = Machine(g, s, f, d), DOMAIN g = 0 .. 15, WithRegister(i, q) = <<o>>,
         p = i.reg, n = i.name, V = RegValue(g, q), W = RegValue(g, p), i.mem_id \in {0, 1},
         R = IF i.mem_id = 0 THEN Result(n, V, W) ELSE Result(n, W, V)
  PROVE  Execute(m, o) =
           IF n \in {"cmp", "loop"} THEN Machine(g, s, R, d)
           ELSE IF i.mem_id = 0
             THEN IF n = "mov" THEN Machine(Stored(g, q, W), s, f, d)
                  ELSE Machine(Stored(g, q, R), s, R, d)
             ELSE IF n = "mov" THEN Machine(Stored(g, p, V), s, f, d)
                  ELSE Machine(Stored(g, p, R), s, R, d)
<1>1. PICK y, z : y = Reg(q) /\ z = Reg(p)
  OBVIOUS
<1>2. o.op = "op" /\ o.name = n /\ o.args = IF i.mem_id = 0 THEN <<y, z>> ELSE <<z, y>>
  <2>1. WithRegister(i, q) # << >>
    OBVIOUS
  <2>2. PICK e : /\ WithRegister(i, q) = <<e>>
                 /\ e.op = "op" /\ e.name = n /\ e.args = IF i.mem_id = 0 THEN <<y, z>> ELSE <<z, y>>
    <3> DEFINE e == [op |-> "op", name |-> i.name, len |-> i.len - 4,
                     args |-> IF i.mem_id = 0 THEN <<<<"reg", q>>, <<"reg", i.reg>>>>
                                              ELSE <<<<"reg", i.reg>>, <<"reg", q>>>>]
    <3>1. WithRegister(i, q) = <<e>>
      BY <2>1, Zenon DEF WithRegister
    <3>2. e.op = "op" /\ e.name = n /\ e.args = IF i.mem_id = 0 THEN <<y, z>> ELSE <<z, y>>
      BY <1>1 DEF Reg
    <3> HIDE DEF e
    <3> QED BY <3>1, <3>2
  <2>3. e = o
    BY <2>2
  <2> QED BY <2>2, <2>3
<1>5. CASE i.mem_id = 0
  <2>1. o.op = "op" /\ o.args = <<y, z>> /\ R = Result(o.name, V, W)
    BY <1>2, <1>5
  <2>2. Execute(m, o) = IF o.name \in {"cmp", "loop"} THEN Machine(g, s, R, d)
                        ELSE IF o.name = "mov" THEN Machine(Stored(g, q, W), s, f, d)
                        ELSE Machine(Stored(g, q, R), s, R, d)
    BY <1>1, <2>1, RegisterOperation
  <2> QED BY <1>2, <1>5, <2>2
<1>6. CASE i.mem_id = 1
  <2>1. o.op = "op" /\ o.args = <<z, y>> /\ R = Result(o.name, W, V)
    BY <1>2, <1>6
  <2>2. Execute(m, o) = IF o.name \in {"cmp", "loop"} THEN Machine(g, s, R, d)
                        ELSE IF o.name = "mov" THEN Machine(Stored(g, p, V), s, f, d)
                        ELSE Machine(Stored(g, p, R), s, R, d)
    BY <1>1, <2>1, RegisterOperation
  <2> QED BY <1>2, <1>6, <2>2
<1> QED BY <1>5, <1>6

\* Pop leaves all registers but the destination as they were.
LEMMA LoadingPopped ==
  ASSUME NEW r, NEW a, r \in 53 .. 55
  PROVE  Popped(Loading(r, a), r - 53) = Start.reg /\ DOMAIN Loading(r, a) = 0 .. 15
<1>1. PICK x, v, g : x = r - 53 /\ v = Loaded(r, a) /\ g = Registers(1, x, v)
  OBVIOUS
<1>2. Start.reg = [k \in 0 .. 15 |-> IF k = 4 THEN <<"rsp", 0>> ELSE <<"r", k>>]
  BY DEF Start
<1>3. g = [k \in 0 .. 15 |-> IF k = 4 THEN <<"rsp", 1>> ELSE IF k = x THEN v ELSE <<"r", k>>]
  BY <1>1 DEF Registers
<1>4. x \in 0 .. 2
  BY <1>1
<1>5. ASSUME NEW k \in 0 .. 15
      PROVE  (IF k = x THEN <<"r", x>> ELSE IF k = 4 THEN <<"rsp", 0>> ELSE g[k])
               = IF k = 4 THEN <<"rsp", 0>> ELSE <<"r", k>>
  BY <1>3, <1>4
<1>6. Popped(g, x) = Start.reg
  BY <1>2, <1>5, Zenon DEF Popped
<1> QED BY <1>1, <1>3, <1>6 DEF Loading

\* When the instruction is moved, the code does what it did if and only if its
\* operands are read and written as before.
LEMMA MovedEffect ==
  ASSUME NEW i, NEW r, NEW a, NEW p, NEW w, NEW q, NEW o, NEW k,
         p = i.reg, w = i.width, Scratched(r, a, p, w), q = fit_register(r, p),
         WithRegister(i, q) = <<o>>, k.op = "pop", k.reg = r,
         i.name \in {"other", "mov", "cmp", "add"}, i.mem_id \in {0, 1}, p = 0 => i.mem_id = 0
  PROVE  Execute(Execute(Before(r, a), o), k) = Execute(Start, Moved(i, a)) <=>
           /\ i.name # "cmp" => i.mem_id = 1
           /\ Whole(p, w) /\ (p # 0 => Index(p) \notin {4, r - 53})
           /\ Reached(r, a)
<1>1. PICK x, g, s, f, d :
        x = r - 53 /\ g = Loading(r, a) /\ s = Saved(x) /\ f = Start.flags /\ d = Start.stored
  OBVIOUS
<1>2. PICK g0, s0 : g0 = Start.reg /\ s0 = Start.stack
  OBVIOUS
<1>3. PICK n : n = i.name
  OBVIOUS
<1>4. PICK V, W, V0, W0 : /\ V = RegValue(g, q) /\ W = RegValue(g, p)
                          /\ V0 = MemValue(a, w) /\ W0 = RegValue(g0, p)
  OBVIOUS
<1>5. PICK R, R0 : /\ R = IF i.mem_id = 0 THEN Result(n, V, W) ELSE Result(n, W, V)
                   /\ R0 = IF i.mem_id = 0 THEN Result(n, V0, W0) ELSE Result(n, W0, V0)
  OBVIOUS
<1>6. /\ r \in 53 .. 55 /\ a \in Int /\ p \in 0 .. 68 /\ x \in 0 .. 2
      /\ n \in {"other", "mov", "cmp", "add"}
  BY <1>1, <1>3 DEF Scratched
<1>7. Popped(g, x) = g0 /\ DOMAIN g = 0 .. 15
  BY <1>1, <1>2, <1>6, LoadingPopped
<1>8. s0 = << >> /\ d = << >> /\ f = <<"flags">>
  BY <1>1, <1>2 DEF Start
<1>9. Before(r, a) = Machine(g, s, f, d)
  BY <1>1, <1>8 DEF Before, Loading
<1>10. Execute(Before(r, a), o) =
         IF n \in {"cmp", "loop"} THEN Machine(g, s, R, d)
         ELSE IF i.mem_id = 0
           THEN IF n = "mov" THEN Machine(Stored(g, q, W), s, f, d) ELSE Machine(Stored(g, q, R), s, R, d)
           ELSE IF n = "mov" THEN Machine(Stored(g, p, V), s, f, d) ELSE Machine(Stored(g, p, R), s, R, d)
  BY <1>3, <1>4, <1>5, <1>6, <1>7, <1>9, MovedRuns
<1>11. PICK c : c = Moved(i, a)
  OBVIOUS
<1>12. Execute(Start, c) =
         IF n \in {"cmp", "loop"} THEN Machine(g0, s0, R0, d)
         ELSE IF i.mem_id = 0
           THEN IF n = "mov" THEN Machine(g0, s0, f, Cell(a, w, W0)) ELSE Machine(g0, s0, R0, Cell(a, w, R0))
           ELSE IF n = "mov" THEN Machine(Stored(g0, p, V0), s0, f, d) ELSE Machine(Stored(g0, p, R0), s0, R0, d)
  BY <1>1, <1>2, <1>3, <1>4, <1>5, <1>6, <1>11, OriginalRuns
<1>13. ASSUME NEW h, NEW e, NEW b, DOMAIN h = 0 .. 15
       PROVE  Execute(Machine(h, s, e, b), k) = Machine(Popped(h, x), s0, e, b)
  BY <1>1, <1>6, <1>8, <1>13, PopRuns
<1>14. V = V0 <=> Reached(r, a) /\ Whole(p, w)
  BY <1>1, <1>4, OperandKept
<1>15. Reached(r, a) => (W = W0 <=> p = 0 \/ Index(p) \notin {4, x})
  BY <1>1, <1>2, <1>4, OtherKept
<1>16. /\ R = R0 <=> V = V0 /\ W = W0
       /\ V0 # <<"rsp", 0>> /\ V0 # <<"r", x>> /\ R0 # <<"rsp", 0>> /\ R0 # <<"r", x>>
  <2>1. V0 # <<"rsp", 0>> /\ V0 # <<"r", x>>
    BY <1>4, MemKind
  <2>2. CASE i.mem_id = 0
    <3>1. R = Result(n, V, W) /\ R0 = Result(n, V0, W0)
      BY <1>5, <2>2
    <3> QED BY <2>1, <3>1, SameResult, ResultKind
  <2>3. CASE i.mem_id # 0
    <3>1. R = Result(n, W, V) /\ R0 = Result(n, W0, V0)
      BY <1>5, <2>3
    <3> QED BY <2>1, <3>1, SameResult, ResultKind
  <2> QED BY <2>2, <2>3
<1>17. ASSUME NEW v PROVE DOMAIN Stored(g, p, v) = 0 .. 15 /\ DOMAIN Stored(g, q, v) = 0 .. 15
  BY DEF Stored
<1>18. \A v : Cell(a, w, v) # d
  BY <1>8, CellKind
<1> DEFINE same == Execute(Execute(Before(r, a), o), k) = Execute(Start, c)
           kept == /\ n # "cmp" => i.mem_id = 1
                   /\ Whole(p, w) /\ (p # 0 => Index(p) \notin {4, x}) /\ Reached(r, a)
<1>19. ASSUME n = "cmp" PROVE same <=> kept
  <2>1. Execute(Execute(Before(r, a), o), k) = Machine(g0, s0, R, d)
    BY <1>7, <1>10, <1>13, <1>19
  <2>2. Execute(Start, c) = Machine(g0, s0, R0, d)
    BY <1>12, <1>19
  <2>3. Machine(g0, s0, R, d) = Machine(g0, s0, R0, d) <=> R = R0
    BY SameMachine
  <2> QED BY <1>14, <1>15, <1>16, <1>19, <2>1, <2>2, <2>3
<1>20. ASSUME n # "cmp", i.mem_id = 0 PROVE same <=> kept
  <2>1. PICK h, e : Execute(Execute(Before(r, a), o), k) = Machine(h, s0, e, d)
    <3>1. CASE n = "mov"
      BY <1>6, <1>10, <1>13, <1>17, <1>20, <3>1
    <3>2. CASE n # "mov"
      BY <1>6, <1>10, <1>13, <1>17, <1>20, <3>2
    <3> QED BY <3>1, <3>2
  <2>2. PICK h0, e0, v : Execute(Start, c) = Machine(h0, s0, e0, Cell(a, w, v))
    <3>1. CASE n = "mov"
      BY <1>6, <1>12, <1>20, <3>1
    <3>2. CASE n # "mov"
      BY <1>6, <1>12, <1>20, <3>2
    <3> QED BY <3>1, <3>2
  <2>3. Machine(h, s0, e, d) # Machine(h0, s0, e0, Cell(a, w, v))
    BY <1>18, SameMachine
  <2> QED BY <1>20, <2>1, <2>2, <2>3
<1>21. ASSUME n = "mov", i.mem_id = 1 PROVE same <=> kept
  <2>1. p \in 1 .. 68
    BY <1>6, <1>21
  <2>2. Execute(Execute(Before(r, a), o), k) = Machine(Popped(Stored(g, p, V), x), s0, f, d)
    BY <1>10, <1>13, <1>17, <1>21
  <2>3. Execute(Start, c) = Machine(Stored(g0, p, V0), s0, f, d)
    BY <1>12, <1>21
  <2>4. Machine(Popped(Stored(g, p, V), x), s0, f, d) = Machine(Stored(g0, p, V0), s0, f, d)
          <=> Popped(Stored(g, p, V), x) = Stored(g0, p, V0)
    BY SameMachine
  <2>5. Popped(Stored(g, p, V), x) = Stored(g0, p, V0) <=> Index(p) \notin {4, x} /\ V = V0
    <3>1. PICK l : g = Registers(1, x, l)
      BY <1>1 DEF Loading
    <3>2. V0 # <<"rsp", 0>> /\ V0 # <<"r", x>>
      BY <1>16
    <3> QED BY <1>2, <1>6, <2>1, <3>1, <3>2, DestKept
  <2> QED BY <1>14, <1>21, <2>1, <2>2, <2>3, <2>4, <2>5
<1>22. ASSUME n \notin {"cmp", "mov"}, i.mem_id = 1 PROVE same <=> kept
  <2>1. p \in 1 .. 68
    BY <1>6, <1>22
  <2>2. Execute(Execute(Before(r, a), o), k) = Machine(Popped(Stored(g, p, R), x), s0, R, d)
    BY <1>6, <1>10, <1>13, <1>17, <1>22
  <2>3. Execute(Start, c) = Machine(Stored(g0, p, R0), s0, R0, d)
    BY <1>6, <1>12, <1>22
  <2>4. Machine(Popped(Stored(g, p, R), x), s0, R, d) = Machine(Stored(g0, p, R0), s0, R0, d)
          <=> Popped(Stored(g, p, R), x) = Stored(g0, p, R0) /\ R = R0
    BY SameMachine
  <2>5. Popped(Stored(g, p, R), x) = Stored(g0, p, R0) <=> Index(p) \notin {4, x} /\ R = R0
    <3>1. PICK l : g = Registers(1, x, l)
      BY <1>1 DEF Loading
    <3>2. R0 # <<"rsp", 0>> /\ R0 # <<"r", x>>
      BY <1>16
    <3> QED BY <1>2, <1>6, <2>1, <3>1, <3>2, DestKept
  <2> QED BY <1>14, <1>15, <1>16, <1>22, <2>1, <2>2, <2>3, <2>4, <2>5
<1>23. same <=> kept
  <2> HIDE DEF same, kept
  <2> QED BY <1>6, <1>19, <1>20, <1>21, <1>22
<1> QED BY <1>1, <1>3, <1>11, <1>23

LEMMA StoredDiffers ==
  ASSUME NEW p, NEW y, NEW v, NEW g, p \in 1 .. 68, y = Index(p), g = Start.reg,
         v # <<"rsp", 0>>, v # <<"r", y>>
  PROVE  Stored(g, p, v) # g
<1>1. y \in 0 .. 15
  BY SMT DEF Index
<1>2. g[y] = IF y = 4 THEN <<"rsp", 0>> ELSE <<"r", y>>
  BY <1>1 DEF Start
<1>3. PICK u : u = IF Width(p) \in {32, 64} THEN v ELSE <<"insert", Width(p), High(p), g[y], v>>
  OBVIOUS
<1>4. Stored(g, p, v)[y] = u
  BY <1>1, <1>3 DEF Stored
<1>5. u # <<"rsp", 0>> /\ u # <<"r", y>>
  <2>1. CASE Width(p) \in {32, 64}
    BY <1>3, <2>1
  <2>2. CASE Width(p) \notin {32, 64}
    <3>1. u = <<"insert", Width(p), High(p), g[y], v>>
      BY <1>3, <2>2
    <3>2. u[1] = "insert"
      BY <3>1
    <3>3. <<"rsp", 0>>[1] = "rsp" /\ <<"r", y>>[1] = "r"
      OBVIOUS
    <3> QED BY <3>2, <3>3
  <2> QED BY <2>1, <2>2
<1> QED BY <1>2, <1>4, <1>5

\* When it is left out, the code does nothing, and the instruction did something.
LEMMA MissingEffect ==
  ASSUME NEW i, NEW r, NEW a, NEW b, NEW p, NEW k, r \in 53 .. 55, p = i.reg, p \in 0 .. 68,
         k.op = "pop", k.reg = r, i.mem_id \in {0, 1},
         i.mem_id = 1 /\ i.name # "loop" => p # 0
  PROVE  Execute(Before(r, a), k) # Execute(Start, Moved(i, b))
<1>1. PICK x, g, s, f, d :
        x = r - 53 /\ g = Loading(r, a) /\ s = Saved(x) /\ f = Start.flags /\ d = Start.stored
  OBVIOUS
<1>2. PICK g0, s0 : g0 = Start.reg /\ s0 = Start.stack
  OBVIOUS
<1>3. PICK n, w, c, y : n = i.name /\ w = i.width /\ c = Moved(i, b) /\ y = Index(p)
  OBVIOUS
<1>4. PICK V0, W0 : V0 = MemValue(b, w) /\ W0 = RegValue(g0, p)
  OBVIOUS
<1>5. PICK R0 : R0 = IF i.mem_id = 0 THEN Result(n, V0, W0) ELSE Result(n, W0, V0)
  OBVIOUS
<1>6. Popped(g, x) = g0 /\ DOMAIN g = 0 .. 15
  BY <1>1, <1>2, LoadingPopped
<1>7. s0 = << >> /\ d = << >> /\ f = <<"flags">>
  BY <1>1, <1>2 DEF Start
<1>8. Execute(Before(r, a), k) = Machine(g0, s0, f, d)
  <2>1. Before(r, a) = Machine(g, Saved(x), f, d)
    BY <1>1, <1>7 DEF Before, Loading
  <2>2. Execute(Machine(g, Saved(x), f, d), k) = Machine(Popped(g, x), << >>, f, d)
    <3>1. x = r - 53 /\ DOMAIN g = 0 .. 15
      BY <1>1, <1>6
    <3> QED BY <3>1, PopRuns
  <2> QED BY <1>6, <1>7, <2>1, <2>2
<1>9. Execute(Start, c) =
        IF n \in {"cmp", "loop"} THEN Machine(g0, s0, R0, d)
        ELSE IF i.mem_id = 0
          THEN IF n = "mov" THEN Machine(g0, s0, f, Cell(b, w, W0)) ELSE Machine(g0, s0, R0, Cell(b, w, R0))
          ELSE IF n = "mov" THEN Machine(Stored(g0, p, V0), s0, f, d) ELSE Machine(Stored(g0, p, R0), s0, R0, d)
  BY <1>1, <1>2, <1>3, <1>4, <1>5, OriginalRuns
<1>10. R0 # f
  <2>1. CASE i.mem_id = 0
    BY <1>5, <1>7, <2>1, ResultKind
  <2>2. CASE i.mem_id # 0
    BY <1>5, <1>7, <2>2, ResultKind
  <2> QED BY <2>1, <2>2
<1>11. \A v : Cell(b, w, v) # d
  BY <1>7, CellKind
<1>12. CASE n \in {"cmp", "loop"} \/ (i.mem_id = 1 /\ n # "mov")
  <2>1. PICK h : Execute(Start, c) = Machine(h, s0, R0, d)
    BY <1>9, <1>12
  <2>2. Machine(g0, s0, f, d) # Machine(h, s0, R0, d)
    BY <1>10, SameMachine
  <2> QED BY <1>3, <1>8, <2>1, <2>2
<1>13. CASE n \notin {"cmp", "loop"} /\ i.mem_id = 0
  <2>1. PICK e, v : Execute(Start, c) = Machine(g0, s0, e, Cell(b, w, v))
    <3>1. CASE n = "mov"
      BY <1>9, <1>13, <3>1
    <3>2. CASE n # "mov"
      BY <1>9, <1>13, <3>2
    <3> QED BY <3>1, <3>2
  <2>2. Machine(g0, s0, f, d) # Machine(g0, s0, e, Cell(b, w, v))
    BY <1>11, SameMachine
  <2> QED BY <1>3, <1>8, <2>1, <2>2
<1>14. CASE n = "mov" /\ i.mem_id = 1
  <2>1. Execute(Start, c) = Machine(Stored(g0, p, V0), s0, f, d)
    BY <1>9, <1>14
  <2>2. V0 # <<"rsp", 0>> /\ V0 # <<"r", y>>
    BY <1>4, MemKind
  <2>3. p \in 1 .. 68
    BY <1>3, <1>14
  <2>4. Stored(g0, p, V0) # g0
    BY <1>2, <1>3, <2>2, <2>3, StoredDiffers
  <2>5. Machine(g0, s0, f, d) # Machine(Stored(g0, p, V0), s0, f, d)
    BY <2>4, SameMachine
  <2> QED BY <1>3, <1>8, <2>1, <2>5
<1> QED BY <1>12, <1>13, <1>14

\* The code for a data instruction i with scratch register r and its operand at a.
Moving(i, r, a) == Parts(r, a, WithRegister(i, fit_register(r, i.reg)))

\* A data instruction, loaded from a, whose operand is at b.
IsMoved(i, r, a, b) ==
  /\ r \in 53 .. 55 /\ a \in Int /\ i.reg \in 0 .. 68 /\ i.mem_id \in {0, 1}
  /\ i.name \in {"loop", "other", "mov", "cmp", "add"}
  /\ i.mem => a = b /\ (i.reg = 0 => i.mem_id = 0)
  /\ i.mem /\ i.form => Scratched(r, b, i.reg, i.width)
  /\ ~i.mem => i.name = "loop"
  /\ i.name = "loop" => ~i.form

\* The conditions of Rewritable.
Fits(i, r, b) ==
  /\ i.form /\ (i.name # "cmp" => i.mem_id = 1)
  /\ Whole(i.reg, i.width) /\ (i.reg # 0 => Index(i.reg) \notin {4, r - 53})
  /\ Reached(r, b)

LEMMA DataEffect ==
  ASSUME NEW i, NEW r, NEW a, NEW b, NEW c, IsMoved(i, r, a, b), c = Moving(i, r, a)
  PROVE  c[1].reg = r /\ (After(c) = Execute(Start, Moved(i, b)) <=> Fits(i, r, b))
<1>1. PICK p, w, q, op, k :
        /\ p = i.reg /\ w = i.width /\ q = fit_register(r, p) /\ op = WithRegister(i, q)
        /\ k = Pop(r)[1]
  OBVIOUS
<1>2. /\ r \in 53 .. 55 /\ a \in Int /\ p \in 0 .. 68 /\ i.mem_id \in {0, 1}
  BY <1>1 DEF IsMoved
<1>3. k.op = "pop" /\ k.reg = r
  BY <1>1, <1>2, Scratch
<1>4. c = Parts(r, a, op)
  BY <1>1 DEF Moving
<1>5. CASE op = << >>
  <2>1. After(c) = Execute(Before(r, a), k) /\ c[1].reg = r
    <3>1. c = Parts(r, a, << >>)
      BY <1>4, <1>5
    <3> QED BY <1>1, <1>2, <3>1, WithoutRuns
  <2>2. i.mem_id = 1 /\ i.name # "loop" => p # 0
    BY <1>1 DEF IsMoved
  <2>3. Execute(Before(r, a), k) # Execute(Start, Moved(i, b))
    BY <1>1, <1>2, <1>3, <2>2, MissingEffect
  <2>4. ~Fits(i, r, b)
    <3> SUFFICES ASSUME Fits(i, r, b) PROVE FALSE
      OBVIOUS
    <3>1. i.form /\ Whole(p, w)
      BY <1>1 DEF Fits
    <3>2. High(q) /\ p \in 9 .. 20
      <4>1. ~(~i.form \/ (High(q) /\ i.reg \in 9 .. 20)) => \E e : op = <<e>>
        BY <1>1, Zenon DEF WithRegister
      <4>2. \A e : <<e>> # << >>
        OBVIOUS
      <4> QED BY <1>1, <1>5, <3>1, <4>1, <4>2
    <3>3. i.mem
      BY <3>1 DEF IsMoved
    <3>4. w = Width(p)
      BY <1>1, <3>1, <3>2, <3>3 DEF IsMoved, Scratched
    <3>5. Width(p) = 8
      BY <3>2 DEF Width
    <3> QED BY <3>1, <3>2, <3>4, <3>5 DEF Whole
  <2> QED BY <2>1, <2>3, <2>4
<1>6. ASSUME NEW o, op = <<o>>
      PROVE  c[1].reg = r /\ (After(c) = Execute(Start, Moved(i, b)) <=> Fits(i, r, b))
  <2>0. op # << >>
    BY <1>6
  <2>1. After(c) = Execute(Execute(Before(r, a), o), k) /\ c[1].reg = r
    <3>1. k = Pop(r)[1] /\ op = <<o>>
      BY <1>1, <1>6
    <3> QED BY <1>2, <1>4, <2>0, <3>1, WithRuns
  <2>2. i.form
    <3>1. ~i.form => op = << >>
      BY <1>1, Zenon DEF WithRegister
    <3> QED BY <2>0, <3>1
  <2>3. /\ i.mem /\ a = b /\ Scratched(r, a, p, w) /\ (p = 0 => i.mem_id = 0)
        /\ i.name \in {"other", "mov", "cmp", "add"}
    BY <1>1, <2>2 DEF IsMoved
  <2>4. WithRegister(i, q) = <<o>>
    BY <1>1, <1>6
  <2>5. Execute(Execute(Before(r, a), o), k) = Execute(Start, Moved(i, a)) <=>
          /\ i.name # "cmp" => i.mem_id = 1
          /\ Whole(p, w) /\ (p # 0 => Index(p) \notin {4, r - 53})
          /\ Reached(r, a)
    BY <1>1, <1>2, <1>3, <2>3, <2>4, MovedEffect
  <2> QED BY <1>1, <2>1, <2>2, <2>3, <2>5 DEF Fits
<1>7. op = << >> \/ \E o : op = <<o>>
  BY <1>1, Zenon DEF WithRegister
<1> QED BY <1>5, <1>6, <1>7

-----------------------------------------------------------------------------
(* Which code is made for data instructions *)

\* Only a memory operand has an address, that of its place.
Placed ==
  \A k \in 1 .. Len(annotated_instructions) :
    LET a == annotated_instructions[k]
    IN  a.absolute_address = IF a.raw.mem THEN Operand(a) ELSE 0

DataCode(a) == {Moving(a.raw, r, a.absolute_address) : r \in 53 .. 55}

Emitted ==
  \A k \in 1 .. Len(code) :
    IsData(annotated_instructions[k].raw) => code[k] \in DataCode(annotated_instructions[k])

EffectInv == Placed /\ Emitted

LEMMA EmitEffect ==
  ASSUME BuildInv, EffectInv, Rewriting, NEW e, code' = Append(code, e),
         UNCHANGED annotated_instructions, IsData(Current.raw) => e \in DataCode(Current)
  PROVE  EffectInv'
<1>1. PICK n : n = Len(code)
  OBVIOUS
<1>2. /\ n \in Nat /\ DOMAIN code' = 1 .. n + 1 /\ code'[n + 1] = e
      /\ \A k \in 1 .. n : code'[k] = code[k]
  BY <1>1, AppendedCode
<1>3. Len(code') = n + 1
  <2> DEFINE S == Seq(Encoded)
  <2>1. code \in Seq(S)
    BY DEF BuildInv, TypeOK
  <2> HIDE DEF S
  <2> QED BY <1>1, <2>1
<1>4. Current = annotated_instructions[n + 1]
  BY <1>1 DEF Current
<1>5. ASSUME NEW k \in 1 .. n + 1, IsData(annotated_instructions[k].raw)
      PROVE  code'[k] \in DataCode(annotated_instructions[k])
  <2>1. CASE k \in 1 .. n
    BY <1>1, <1>2, <1>5, <2>1 DEF EffectInv, Emitted
  <2>2. CASE k = n + 1
    BY <1>2, <1>4, <1>5, <2>2
  <2> QED BY <1>2, <2>1, <2>2
<1>6. Emitted'
  <2>1. Emitted' <=> \A k \in 1 .. Len(code') :
          IsData(annotated_instructions'[k].raw) => code'[k] \in DataCode(annotated_instructions'[k])
    BY DEF Emitted, IsData, IsBranch, DataCode, Moving
  <2> QED BY <1>3, <1>5, <2>1
<1>7. Placed'
  BY DEF EffectInv, Placed, Operand
<1> QED BY <1>6, <1>7 DEF EffectInv

LEMMA AnnotateEffect == BuildInv /\ EffectInv /\ Annotate => EffectInv'
<1> SUFFICES ASSUME BuildInv, EffectInv, Annotate PROVE EffectInv'
  OBVIOUS
<1>1. PICK A, n, i, o : A = annotated_instructions /\ n = Len(A) /\ i = body[offset] /\ o = offset
  OBVIOUS
<1>2. PICK a : a = Annotated(i, o)
  OBVIOUS
<1>3. annotated_instructions' = Append(A, a) /\ code = << >> /\ code' = << >>
  BY <1>1, <1>2 DEF Annotate, BuildInv, Phases
<1>4. a.absolute_address = IF a.raw.mem THEN Operand(a) ELSE 0
  BY <1>2 DEF Annotated, Operand
<1>5. PICK S : A \in Seq(S) /\ a \in S
  <2>1. PICK T : A \in Seq(T)
    BY <1>1 DEF BuildInv, TypeOK
  <2>2. PICK S : S = T \cup {a}
    OBVIOUS
  <2>3. A \in [1 .. Len(A) -> S] /\ Len(A) \in Nat
    BY <2>1, <2>2
  <2>4. A \in Seq(S)
    BY <2>3
  <2> QED BY <2>2, <2>4
<1>6. PICK B : B = Append(A, a)
  OBVIOUS
<1>7. Len(B) = n + 1 /\ n \in Nat /\ B[n + 1] = a /\ \A k \in 1 .. n : B[k] = A[k]
  BY <1>1, <1>5, <1>6
<1>8. ASSUME NEW k \in 1 .. n + 1
      PROVE  B[k].absolute_address = IF B[k].raw.mem THEN Operand(B[k]) ELSE 0
  <2>1. CASE k \in 1 .. n
    BY <1>1, <1>7, <2>1 DEF EffectInv, Placed
  <2>2. CASE k = n + 1
    BY <1>4, <1>7, <2>2
  <2> QED BY <1>7, <2>1, <2>2
<1>9. Placed'
  <2>1. annotated_instructions' = B
    BY <1>3, <1>6
  <2>2. Placed' <=> \A k \in 1 .. Len(annotated_instructions') :
          annotated_instructions'[k].absolute_address
            = IF annotated_instructions'[k].raw.mem THEN Operand(annotated_instructions'[k]) ELSE 0
    BY DEF Placed, Operand
  <2> QED BY <1>7, <1>8, <2>1, <2>2
<1>10. Emitted'
  <2>1. Len(code') = 0
    BY <1>3
  <2> QED BY <2>1 DEF Emitted
<1> QED BY <1>9, <1>10 DEF EffectInv

LEMMA DataStepEffect == BuildInv /\ EffectInv /\ RewriteData => EffectInv'
<1> SUFFICES ASSUME BuildInv, EffectInv, RewriteData PROVE EffectInv'
  OBVIOUS
<1>1. PICK r \in UnusedRegisters(Current.raw) :
        code' = Append(code, Push(r) \o Load(r, Current.absolute_address)
                               \o WithRegister(Current.raw, fit_register(r, Current.raw.reg)) \o Pop(r))
  BY Zenon DEF RewriteData
<1>2. Rewriting /\ UNCHANGED annotated_instructions /\ body \in Bodies
  BY DEF RewriteData, BuildInv, TypeOK
<1>3. PICK e : e = Moving(Current.raw, r, Current.absolute_address)
  OBVIOUS
<1>4. code' = Append(code, e)
  BY <1>1, <1>3, Zenon DEF Moving, Parts
<1>5. r \in 53 .. 55
  <2>1. Current.raw \in Instruction
    BY <1>2, CurrentFacts, BodyFacts
  <2> QED BY <1>1, <2>1, UnusedType
<1>6. e \in DataCode(Current)
  BY <1>3, <1>5 DEF DataCode
<1> QED BY <1>2, <1>4, <1>6, EmitEffect

LEMMA NextEffect == BuildInv /\ EffectInv /\ [Next]_vars => EffectInv'
<1> SUFFICES ASSUME BuildInv, EffectInv, [Next]_vars PROVE EffectInv'
  OBVIOUS
<1>1. CASE Annotate
  BY <1>1, AnnotateEffect
<1>2. CASE initialize_tables \/ BuildBegins \/ PlaceCode \/ UNCHANGED vars
  <2>1. UNCHANGED <<annotated_instructions, code>>
    BY <1>2 DEF initialize_tables, BuildBegins, PlaceCode, vars
  <2> QED BY <2>1 DEF EffectInv, Placed, Emitted, Operand, IsData, IsBranch, DataCode, Moving
<1>3. CASE CopyInstruction
  <2>1. PICK e : code' = Append(code, e)
    BY <1>3, Zenon DEF CopyInstruction
  <2>2. Rewriting /\ ~IsData(Current.raw) /\ UNCHANGED annotated_instructions
    BY <1>3 DEF CopyInstruction, IsData
  <2> QED BY <2>1, <2>2, EmitEffect
<1>4. CASE RewriteBranch
  <2>1. PICK e : code' = Append(code, e)
    BY <1>4, Zenon DEF RewriteBranch
  <2>2. Rewriting /\ ~IsData(Current.raw) /\ UNCHANGED annotated_instructions
    BY <1>4 DEF RewriteBranch, IsData
  <2> QED BY <2>1, <2>2, EmitEffect
<1>5. CASE RewriteData
  BY <1>5, DataStepEffect
<1> QED BY <1>1, <1>2, <1>3, <1>4, <1>5 DEF Next

\* Under EqualOperands each of them was made of what DataEffect asks for.
LEMMA MovedFacts ==
  ASSUME EqualOperands, NEW d, NEW o, NEW i, NEW r, NEW b, NEW a, d \in Bodies, o \in DOMAIN d,
         i = d[o], IsData(i), r \in 53 .. 55, b = Function + o + i.len + i.disp,
         a = IF i.mem THEN b ELSE 0
  PROVE  IsMoved(i, r, a, b)
<1>1. /\ i \in Instruction /\ i.len \in 1 .. 15 /\ i.disp \in Int /\ i.reg \in 0 .. 68
      /\ i.mem_id \in {0, 1} /\ (i.relative <=> i.name \in Branches \/ i.mem)
      /\ i.name = "loop" => ~i.form
      /\ o \in 0 .. 13
  BY BodyFacts
<1>2. i.name \in Names /\ i.width \in {8, 16, 32, 64}
  BY <1>1 DEF Instruction
<1>3. i.relative /\ i.name \notin {"jcc", "jmp", "call"}
  BY DEF IsData, IsBranch
<1>4. b \in Int /\ a \in Int
  <2>1. PICK l, e : l = i.len /\ e = i.disp
    OBVIOUS
  <2>2. b = Function + o + l + e /\ l \in Int /\ e \in Int /\ o \in Int /\ Function \in Int
    BY <1>1, <2>1, NumbersAssumption
  <2>3. b \in Int
    BY <2>2
  <2> QED BY <2>3
<1>5. i.mem => IF i.reg = 0 THEN i.mem_id = 0 ELSE i.form => i.width = Width(i.reg)
  BY DEF EqualOperands
<1>6. i.mem /\ i.form => Scratched(r, b, i.reg, i.width)
  BY <1>1, <1>2, <1>4, <1>5 DEF Scratched
<1>7. i.name \in {"loop", "other", "mov", "cmp", "add"} /\ (~i.mem => i.name = "loop")
  BY <1>1, <1>2, <1>3 DEF Names, Branches
<1> QED BY <1>1, <1>4, <1>5, <1>6, <1>7 DEF IsMoved

LEMMA EffectKept ==
  ASSUME EqualOperands, BuildInv, EffectInv
  PROVE  EffectKeptIfRewritable
<1> SUFFICES ASSUME NEW k \in Data PROVE SameEffect(k) <=> Rewritable(k)
  BY DEF EffectKeptIfRewritable
<1>1. k \in 1 .. Len(code) /\ k \in 1 .. Len(annotated_instructions)
  <2> DEFINE S == Seq(Encoded)
  <2>1. k \in DOMAIN code /\ code \in Seq(S) /\ Len(code) <= Len(annotated_instructions)
    BY DEF Data, BuildInv, TypeOK
  <2> HIDE DEF S
  <2>2. k \in 1 .. Len(code) /\ Len(code) \in Nat
    BY <2>1
  <2>3. Len(annotated_instructions) \in Nat
    BY DEF BuildInv, TypeOK
  <2> QED BY <2>1, <2>2, <2>3
<1>2. PICK A, i, o, c : /\ A = annotated_instructions[k] /\ i = A.raw /\ o = A.at /\ c = code[k]
  OBVIOUS
<1>3. body \in Bodies /\ o \in DOMAIN body /\ i = body[o]
  BY <1>1, <1>2 DEF BuildInv, TypeOK, Listed
<1>4. IsData(i)
  BY <1>2 DEF Data, IsData, Rewritten
<1>5. PICK b, a : b = Operand(A) /\ a = A.absolute_address
  OBVIOUS
<1>6. b = Function + o + i.len + i.disp /\ a = IF i.mem THEN b ELSE 0
  BY <1>1, <1>2, <1>5 DEF Operand, EffectInv, Placed
<1>7. PICK r \in 53 .. 55 : c = Moving(i, r, a)
  BY <1>1, <1>2, <1>4, <1>5 DEF EffectInv, Emitted, DataCode
<1>8. IsMoved(i, r, a, b)
  BY <1>3, <1>4, <1>6, <1>7, MovedFacts
<1>9. c[1].reg = r /\ (After(c) = Execute(Start, Moved(i, b)) <=> Fits(i, r, b))
  BY <1>7, <1>8, DataEffect
<1>10. Original(A) = Moved(i, b)
  BY <1>2, <1>5 DEF Original, Moved
<1>11. SameEffect(k) <=> After(c) = Execute(Start, Moved(i, b))
  BY <1>2, <1>10 DEF SameEffect
<1>12. Index(r) = r - 53
  BY <1>7, Scratch
<1>13. Rewritable(k) <=>
         /\ i.form /\ (i.name # "cmp" => i.mem_id = 1)
         /\ IF i.reg = 0 THEN i.width = 64 ELSE i.width > 8 /\ Index(i.reg) \notin {4, r - 53}
         /\ r # RAX => b < Reach
  BY <1>2, <1>5, <1>9, <1>12 DEF Rewritable, Rewritten
<1>14. Fits(i, r, b) <=> Rewritable(k)
  BY <1>13 DEF Fits, Whole, Reached
<1> QED BY <1>9, <1>11, <1>14

-----------------------------------------------------------------------------
(* The theorems *)

\* Whatever is stolen and whichever encodings fail, a scratch register is found
\* and an instruction is rewritten only after it was annotated.
THEOREM SpecTypeOK == Spec => []TypeOK
<1>1. Init => BuildInv
  BY InitBuildInv
<1>2. BuildInv /\ [Next]_vars => BuildInv'
  BY NextInv
<1>3. BuildInv => TypeOK
  BY DEF BuildInv
<1> QED BY <1>1, <1>2, <1>3, PTL DEF Spec

\* At the end the code was made from less than 14 bytes and one instruction more; with
\* three LOOPs at most it ends before the jump table, which, with any number of them,
\* ends before the address table.
THEOREM SpecLayout == Spec => []Layout
<1> DEFINE Inv == BuildInv /\ Bounded
<1>1. Init => Inv
  BY InitBuildInv
<1>2. Inv /\ [Next]_vars => Inv'
  BY NextInv
<1>3. Inv => Layout
  <2> SUFFICES ASSUME Inv PROVE Layout
    OBVIOUS
  <2> DEFINE t == Len(table)
  <2>1. Consumed \in 0 .. 28
    <3>1. CASE code = << >>
      BY <3>1, SMT DEF Consumed
    <3>2. CASE code # << >>
      <4> DEFINE a == annotated_instructions[Len(code)]
      <4>1. Len(code) \in 1 .. Len(annotated_instructions) /\ body \in Bodies
        BY <3>2, SMT DEF BuildInv, TypeOK
      <4>2. a.at \in DOMAIN body /\ a.raw = body[a.at]
        BY <4>1, Zenon DEF BuildInv, Listed
      <4>3. a.at \in 0 .. 13 /\ a.raw.len \in 1 .. 15
        BY <4>1, <4>2, BodyFacts
      <4>4. Consumed = a.at + a.raw.len
        BY <3>2 DEF Consumed
      <4> DEFINE c == a.at
                 n == a.raw.len
      <4>5. Consumed = c + n /\ c \in 0 .. 13 /\ n \in 1 .. 15
        BY <4>3, <4>4
      <4> HIDE DEF c, n
      <4> QED BY <4>5, SMT
    <3> QED BY <3>1, <3>2
  <2> DEFINE l == Cardinality(Loops)
  <2>2. t \in Nat /\ size \in Nat
    BY SMT DEF BuildInv, TypeOK
  <2>3. (l <= 3 => size <= 75) /\ 2 * (t - 2) <= Consumed
    BY Zenon DEF Bounded, Sized
  <2> HIDE DEF t, l
  <2>4. (l <= 3 => size + 5 <= 80) /\ 80 + 8 * (t - 1) + 6 <= 256
    BY <2>1, <2>2, <2>3, SMT
  <2> QED BY <2>4 DEF Layout, t, l
<1> QED BY <1>1, <1>2, <1>3, PTL DEF Spec

\* However the code before it was rewritten, a direct branch leads to its own entry of
\* the jump table, unless something before it could not be encoded.
THEOREM SpecBranchesHitTable == Spec => []BranchesHitTable
<1> DEFINE Inv == BuildInv /\ HitInv
<1>1. Init => Inv
  BY InitBuildInv, InitHit
<1>2. Inv /\ [Next]_vars => Inv'
  BY NextInv, NextHit
<1>3. Inv => BranchesHitTable
  BY DEF HitInv
<1> QED BY <1>1, <1>2, <1>3, PTL DEF Spec

\* However a data instruction is rewritten, the code does what it did and nothing else
\* in exactly the cases that Rewritable lists.
THEOREM SpecEffectKept ==
  ASSUME EqualOperands
  PROVE  Spec => []EffectKeptIfRewritable
<1> DEFINE Inv == BuildInv /\ EffectInv
<1>1. Init => Inv
  <2> SUFFICES ASSUME Init PROVE EffectInv
    BY InitBuildInv
  <2>1. Len(code) = 0 /\ Len(annotated_instructions) = 0
    BY DEF Init
  <2> QED BY <2>1 DEF EffectInv, Placed, Emitted
<1>2. Inv /\ [Next]_vars => Inv'
  BY NextInv, NextEffect
<1>3. Inv => EffectKeptIfRewritable
  BY EffectKept
<1> QED BY <1>1, <1>2, <1>3, PTL DEF Spec
=============================================================================
