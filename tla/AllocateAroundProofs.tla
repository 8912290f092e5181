------------------------ MODULE AllocateAroundProofs ------------------------
(***************************************************************************)
(* Proofs about allocate_around_2gb for every address space, hooked        *)
(* function and set of pages.  The inductive invariant SearchInv says how  *)
(* far the search has come and that every block it has left behind was in  *)
(* use at some moment.                                                     *)
(***************************************************************************)
EXTENDS AllocateAround, TLAPS

-----------------------------------------------------------------------------
(* Division with remainder *)

LEMMA DivMod ==
  ASSUME NEW x \in Int, NEW g \in Nat \ {0}
  PROVE  /\ x = g * (x \div g) + (x % g)
         /\ x \div g \in Int
         /\ x % g \in 0 .. g - 1
OBVIOUS

LEMMA ModUnique ==
  ASSUME NEW x \in Int, NEW k \in Int, NEW g \in Nat \ {0},
         NEW r \in 0 .. g - 1, x = g * k + r
  PROVE  x % g = r
<1> DEFINE q == x \div g
<1>1. q \in Int /\ x = g * q + (x % g) /\ x % g \in 0 .. g - 1
  BY DivMod
<1> HIDE DEF q
<1>2. g * (q - k) = r - (x % g)
  <2>1. g * q - g * k = r - (x % g)
    BY <1>1
  <2> QED
    BY <1>1, <2>1
<1>3. CASE q - k >= 1
  <2>1. g * (q - k) >= g
    BY <1>1, <1>3
  <2>2. r - (x % g) >= g
    BY <2>1, <1>2
  <2> QED
    BY <2>2, DivMod
<1>4. CASE q - k <= -1
  <2>1. g * (q - k) <= -g
    BY <1>1, <1>4
  <2>2. r - (x % g) <= -g
    BY <2>1, <1>2
  <2> QED
    BY <2>2, DivMod
<1>5. CASE q = k
  BY <1>5, <1>2, DivMod
<1> QED
  BY <1>3, <1>4, <1>5

LEMMA MultMod ==
  ASSUME NEW k \in Int, NEW g \in Nat \ {0}
  PROVE  (g * k) % g = 0
<1> DEFINE x == g * k
<1>1. x \in Int /\ x = g * k + 0 /\ 0 \in 0 .. g - 1
  OBVIOUS
<1> HIDE DEF x
<1>2. x % g = 0
  BY <1>1, ModUnique
<1> QED
  BY <1>2 DEF x

\* Stepping by the granularity keeps an address aligned.
LEMMA AlignedStep ==
  ASSUME NEW x \in Int, NEW g \in Nat \ {0}, x % g = 0
  PROVE  (x + g) % g = 0 /\ (x - g) % g = 0
<1> DEFINE k == x \div g
<1>1. k \in Int /\ x = g * k
  BY DivMod
<1> HIDE DEF k
<1>2. x + g = g * (k + 1) /\ x - g = g * (k - 1)
  BY <1>1
<1>3. (g * (k + 1)) % g = 0 /\ (g * (k - 1)) % g = 0
  BY <1>1, MultMod
<1> QED
  BY <1>2, <1>3

\* Two aligned addresses that differ are a granule apart.
LEMMA AlignedGap ==
  ASSUME NEW x \in Int, NEW y \in Int, NEW g \in Nat \ {0},
         x % g = 0, y % g = 0, x < y
  PROVE  x + g <= y
<1> DEFINE i == x \div g
<1> DEFINE j == y \div g
<1>1. i \in Int /\ x = g * i
  BY DivMod
<1>2. j \in Int /\ y = g * j
  BY DivMod
<1> HIDE DEF i, j
<1>3. i < j
  BY <1>1, <1>2
<1>4. g * (j - i - 1) >= 0
  BY <1>1, <1>2, <1>3
<1> QED
  BY <1>1, <1>2, <1>4

-----------------------------------------------------------------------------
(* The bounds of the search *)

LEMMA BaseAligned ==
  /\ base_aligned \in Nat /\ base_aligned % Gran = 0
  /\ base_aligned <= Base /\ Base < base_aligned + Gran
  /\ Gran <= base_aligned
<1> USE SpaceAssumption
<1>1. base_aligned = Gran * (Base \div Gran) + 0 /\ Base \div Gran \in Int
  BY DivMod DEF base_aligned
<1>2. base_aligned % Gran = 0
  BY <1>1, ModUnique
<1>3. base_aligned \in Int /\ base_aligned <= Base /\ Base < base_aligned + Gran
  BY DivMod DEF base_aligned
<1>4. 0 < base_aligned
  BY <1>3
<1>5. 0 % Gran = 0
  BY ModUnique
<1>6. Gran <= base_aligned
  BY <1>2, <1>3, <1>4, <1>5, AlignedGap
<1> QED
  BY <1>2, <1>3, <1>6

LEMMA HighBound == high_bound = Base + Reach - Size
<1>1. Base + Reach - Size \in Nat /\ Base + Reach - Size < Space
  BY SpaceAssumption
<1> QED
  BY <1>1, SpaceAssumption DEF high_bound

\* The subtraction for low_bound either does not wrap or wraps to an address
\* above the function, which ends the downward search at once.
LEMMA LowBound ==
  /\ low_bound \in Nat
  /\ Reach <= Base + Size => low_bound = Base - Reach + Size
  /\ Base + Size < Reach => Base < low_bound
<1> USE SpaceAssumption
<1>1. CASE Reach <= Base + Size
  <2>1. Base - Reach + Size \in Nat /\ Base - Reach + Size < Space
    BY <1>1
  <2> QED
    BY <1>1, <2>1 DEF low_bound
<1>2. CASE Base + Size < Reach
  <2>1. low_bound = Base - Reach + Size + Space
    BY <1>2 DEF low_bound
  <2> QED
    BY <1>2, <2>1
<1> QED
  BY <1>1, <1>2

-----------------------------------------------------------------------------
(* The inductive invariant *)

WasUsed(a) == ~(PagesAt(a) \subseteq untouched)

\* Where each loop can be, and what it found in use on the way there.
Progress ==
  /\ pc = "high" =>
       /\ base_aligned < curr
       /\ \A a \in Blocks : base_aligned < a /\ a < curr => WasUsed(a)
  /\ pc \in {"low", "none"} => \A a \in Blocks : base_aligned < a => WasUsed(a)
  /\ pc = "low" =>
       /\ curr < base_aligned
       /\ Reach <= Base + Size => \A a \in Blocks : curr < a => WasUsed(a)
  /\ pc = "none" /\ Reach <= Base + Size => \A a \in Blocks : WasUsed(a)

\* What is allocated, or about to be, is within reach.
Outcome ==
  /\ pc = "alloc" => InReach(curr)
  /\ pc \in {"high", "low", "alloc"} => result = Pending
  /\ pc = "none" => result = Null
  /\ pc = "done" => result # Pending
  /\ result \in Nat => /\ InReach(result) /\ result % Gran = 0
                       /\ PagesAt(result) \cap free = {}

SearchInv == TypeOK /\ Progress /\ Outcome

LEMMA GranStep ==
  ASSUME NEW x \in Int, x % Gran = 0
  PROVE  (x + Gran) % Gran = 0 /\ (x - Gran) % Gran = 0
BY AlignedStep, SpaceAssumption, Zenon

\* No block starts strictly inside a granule.
LEMMA BlockGap ==
  ASSUME NEW x \in Int, x % Gran = 0, NEW a \in Blocks
  PROVE  /\ ~(x < a /\ a < x + Gran)
         /\ ~(x - Gran < a /\ a < x)
<1>1. a \in Int /\ a % Gran = 0 /\ Gran \in Nat \ {0}
  BY SpaceAssumption DEF Blocks
<1>2. x < a => x + Gran <= a
  BY <1>1, AlignedGap
<1>3. a < x => a + Gran <= x
  BY <1>1, AlignedGap
<1> QED
  BY <1>1, <1>2, <1>3

LEMMA InitSearchInv == Init => SearchInv
<1> SUFFICES ASSUME Init PROVE SearchInv
  OBVIOUS
<1> USE DEF Init
<1>1. TypeOK
  <2>1. curr \in Nat /\ curr % Gran = 0
    <3>1. base_aligned \in Int /\ base_aligned % Gran = 0
      BY BaseAligned
    <3>2. (base_aligned + Gran) % Gran = 0
      BY <3>1, GranStep, Zenon
    <3> QED
      BY <3>2, BaseAligned, SpaceAssumption
  <2> QED
    BY <2>1 DEF TypeOK
<1>2. Progress
  <2>1. base_aligned < curr
    BY BaseAligned, SpaceAssumption
  <2>2. ASSUME NEW a \in Blocks, base_aligned < a, a < curr
        PROVE  FALSE
    BY <2>2, BaseAligned, BlockGap
  <2> QED
    BY <2>1, <2>2 DEF Progress
<1>3. Outcome
  BY DEF Outcome, Pending
<1> QED
  BY <1>1, <1>2, <1>3 DEF SearchInv

LEMMA ProbeHighSearchInv == SearchInv /\ ProbeHigh => SearchInv'
<1> SUFFICES ASSUME SearchInv, ProbeHigh PROVE SearchInv'
  OBVIOUS
<1> USE DEF SearchInv
<1>0. /\ curr \in Nat /\ curr % Gran = 0 /\ pc = "high" /\ base_aligned < curr
      /\ curr < Base + Reach - Size
  BY HighBound DEF ProbeHigh, TypeOK, Progress
<1>1. CASE Found
  <2>1. InReach(curr)
    BY <1>0, BaseAligned, SpaceAssumption DEF InReach
  <2> QED
    BY <1>0, <1>1, <2>1
    DEF ProbeHigh, Found, TypeOK, Progress, Outcome, InReach, PagesAt
<1>2. CASE ~HasRoom(curr) /\ curr' = curr + Gran /\ UNCHANGED pc
  <2>1. curr' \in Nat /\ curr' % Gran = 0
    BY <1>0, <1>2, GranStep, SpaceAssumption
  <2>2. TypeOK'
    BY <1>0, <1>2, <2>1 DEF ProbeHigh, TypeOK
  <2>3. ASSUME NEW a \in Blocks, base_aligned < a, a < curr'
        PROVE  WasUsed(a)'
    <3>1. a <= curr
      BY <1>0, <1>2, <2>3, BlockGap DEF Blocks
    <3>2. CASE a = curr
      BY <1>2, <3>2 DEF ProbeHigh, HasRoom, TypeOK, WasUsed
    <3>3. CASE a < curr
      BY <1>0, <2>3, <3>3 DEF ProbeHigh, Progress, WasUsed
    <3> QED
      BY <1>0, <3>1, <3>2, <3>3 DEF Blocks
  <2>4. Progress'
    BY <1>0, <1>2, <2>3, BaseAligned, SpaceAssumption DEF ProbeHigh, Progress
  <2>5. Outcome'
    BY <1>0, <1>2 DEF ProbeHigh, Outcome
  <2> QED
    BY <2>2, <2>4, <2>5
<1> QED
  BY <1>1, <1>2 DEF ProbeHigh

LEMMA TurnBackSearchInv == SearchInv /\ TurnBack => SearchInv'
<1> SUFFICES ASSUME SearchInv, TurnBack PROVE SearchInv'
  OBVIOUS
<1> USE DEF SearchInv
<1>0. /\ curr \in Nat /\ pc = "high" /\ Base + Reach - Size <= curr
      /\ pc' = "low" /\ curr' = base_aligned - Gran
      /\ UNCHANGED <<result, free, untouched>>
  BY HighBound, SpaceAssumption DEF TurnBack, TypeOK
<1>1. TypeOK'
  <2>1. base_aligned \in Int /\ base_aligned % Gran = 0
    BY BaseAligned
  <2>2. (base_aligned - Gran) % Gran = 0
    BY <2>1, GranStep, Zenon
  <2>3. curr' \in Nat /\ curr' % Gran = 0
    BY <1>0, <2>2, BaseAligned, SpaceAssumption
  <2> QED
    BY <1>0, <2>3 DEF TypeOK
<1>2. ASSUME NEW a \in Blocks, base_aligned < a PROVE WasUsed(a)'
  <2>1. a < curr
    BY <1>0, SpaceAssumption DEF Blocks, InReach
  <2> QED
    BY <1>0, <1>2, <2>1 DEF Progress, WasUsed
<1>3. ASSUME NEW a \in Blocks, curr' < a PROVE WasUsed(a)'
  <2>1. base_aligned < a
    <3>1. base_aligned \in Int /\ base_aligned % Gran = 0
      BY BaseAligned
    <3>2. ~(base_aligned - Gran < a /\ a < base_aligned)
      BY <3>1, BlockGap, Zenon
    <3> QED
      BY <1>0, <1>3, <3>1, <3>2 DEF Blocks
  <2> QED
    BY <1>2, <2>1
<1>4. Progress'
  BY <1>0, <1>2, <1>3, BaseAligned, SpaceAssumption DEF Progress
<1>5. Outcome'
  BY <1>0 DEF Outcome
<1> QED
  BY <1>1, <1>4, <1>5

LEMMA ProbeLowSearchInv == SearchInv /\ ProbeLow => SearchInv'
<1> SUFFICES ASSUME SearchInv, ProbeLow PROVE SearchInv'
  OBVIOUS
<1> USE DEF SearchInv
<1>0. /\ curr \in Nat /\ curr % Gran = 0 /\ pc = "low" /\ curr < base_aligned
      /\ low_bound < curr
  BY DEF ProbeLow, TypeOK, Progress
<1>1. Reach <= Base + Size /\ Base - Reach + Size < curr
  BY <1>0, LowBound, BaseAligned, SpaceAssumption
<1>2. CASE Found
  <2>1. InReach(curr)
    BY <1>0, <1>1, BaseAligned, SpaceAssumption DEF InReach
  <2> QED
    BY <1>0, <1>2, <2>1
    DEF ProbeLow, Found, TypeOK, Progress, Outcome, InReach, PagesAt
<1>3. CASE ~HasRoom(curr) /\ curr' = curr - Gran /\ UNCHANGED pc
  <2>1. curr' \in Nat /\ curr' % Gran = 0
    <3>1. Gran <= curr
      <4>1. 0 % Gran = 0 /\ 0 < curr
        BY <1>0, LowBound, SpaceAssumption
      <4> QED
        BY <1>0, <4>1, AlignedGap, SpaceAssumption
    <3> QED
      BY <1>0, <1>3, <3>1, GranStep, SpaceAssumption
  <2>2. TypeOK'
    BY <1>0, <1>3, <2>1 DEF ProbeLow, TypeOK
  <2>3. ASSUME NEW a \in Blocks, curr' < a
        PROVE  WasUsed(a)'
    <3>1. curr <= a
      BY <1>0, <1>3, <2>3, BlockGap DEF Blocks
    <3>2. CASE a = curr
      BY <1>3, <3>2 DEF ProbeLow, HasRoom, TypeOK, WasUsed
    <3>3. CASE curr < a
      BY <1>0, <1>1, <2>3, <3>3 DEF ProbeLow, Progress, WasUsed
    <3> QED
      BY <1>0, <3>1, <3>2, <3>3 DEF Blocks
  <2>4. Progress'
    <3>1. curr' < base_aligned
      BY <1>0, <1>3, BaseAligned, SpaceAssumption
    <3>2. \A a \in Blocks : base_aligned < a => WasUsed(a)'
      BY <1>0, <1>3 DEF ProbeLow, Progress, WasUsed
    <3> QED
      BY <1>0, <1>3, <2>3, <3>1, <3>2 DEF ProbeLow, Progress
  <2>5. Outcome'
    BY <1>0, <1>3 DEF ProbeLow, Outcome
  <2> QED
    BY <2>2, <2>4, <2>5
<1> QED
  BY <1>2, <1>3 DEF ProbeLow

LEMMA NotFoundSearchInv == SearchInv /\ NotFound => SearchInv'
<1> SUFFICES ASSUME SearchInv, NotFound PROVE SearchInv'
  OBVIOUS
<1> USE DEF SearchInv
<1>0. /\ curr \in Nat /\ pc = "low" /\ curr <= low_bound
      /\ pc' = "none" /\ result' = Null
      /\ UNCHANGED <<curr, free, untouched>>
  BY LowBound DEF NotFound, TypeOK
<1>1. ASSUME NEW a \in Blocks, Reach <= Base + Size PROVE WasUsed(a)'
  <2>1. curr < a
    BY <1>0, <1>1, LowBound, SpaceAssumption DEF Blocks, InReach
  <2> QED
    BY <1>0, <1>1, <2>1 DEF Progress, WasUsed
<1>2. Progress'
  BY <1>0, <1>1 DEF Progress, WasUsed
<1>3. TypeOK' /\ Outcome'
  BY <1>0 DEF TypeOK, Outcome, Null, Pending
<1> QED
  BY <1>2, <1>3

LEMMA TryAllocSearchInv == SearchInv /\ TryAlloc => SearchInv'
BY DEF SearchInv, TryAlloc, HasRoom, TypeOK, Progress, Outcome, InReach, PagesAt,
       Null, Pending

LEMMA OthersSearchInv ==
  ASSUME SearchInv, NEW p \in OtherPages, OtherTakes(p) \/ OtherReleases(p)
  PROVE  SearchInv'
<1> USE DEF SearchInv
<1>0. /\ UNCHANGED <<pc, curr, result>> /\ untouched' \subseteq untouched
      /\ free' \subseteq Pages
      /\ pc # "done" => untouched' \subseteq free'
  BY PagesAssumption DEF OtherTakes, OtherReleases, TypeOK
<1>1. \A a : WasUsed(a) => WasUsed(a)'
  BY <1>0 DEF WasUsed, PagesAt
<1>2. Progress'
  BY <1>0, <1>1 DEF Progress
<1>3. result \in Nat => PagesAt(result) \cap free' = {}
  BY DEF OtherTakes, OtherReleases, Outcome, Null, Pending
<1>4. TypeOK' /\ Outcome'
  BY <1>0, <1>3 DEF TypeOK, Outcome, InReach, PagesAt
<1> QED
  BY <1>2, <1>4

LEMMA NextSearchInv == SearchInv /\ [Next]_vars => SearchInv'
<1> SUFFICES ASSUME SearchInv, [Next]_vars PROVE SearchInv'
  OBVIOUS
<1>1. CASE Search
  BY <1>1, ProbeHighSearchInv, TurnBackSearchInv, ProbeLowSearchInv,
     NotFoundSearchInv, TryAllocSearchInv DEF Search
<1>2. CASE \E p \in OtherPages : OtherTakes(p) \/ OtherReleases(p)
  BY <1>2, OthersSearchInv
<1>3. CASE UNCHANGED vars
  BY <1>3 DEF vars, SearchInv, TypeOK, Progress, Outcome, WasUsed, InReach, PagesAt
<1> QED
  BY <1>1, <1>2, <1>3 DEF Next

-----------------------------------------------------------------------------
(* The results *)

\* The search keeps its types; `curr` stays aligned and never wraps.
THEOREM SpecTypeOK == Spec => []TypeOK
<1>1. Init => SearchInv
  BY InitSearchInv
<1>2. SearchInv /\ [Next]_vars => SearchInv'
  BY NextSearchInv
<1>3. SearchInv => TypeOK
  BY DEF SearchInv
<1> QED
  BY <1>1, <1>2, <1>3, PTL DEF Spec

\* Whatever allocate_around_2gb returns, both rel32 jumps of the hook can be
\* encoded and relocate does not reject the distance.
THEOREM SpecJumpsReach == Spec => []JumpsReach
<1>1. Init => SearchInv
  BY InitSearchInv
<1>2. SearchInv /\ [Next]_vars => SearchInv'
  BY NextSearchInv
<1>3. SearchInv => JumpsReach
  <2> SUFFICES ASSUME SearchInv, result \in Nat PROVE JumpsReach
    BY DEF JumpsReach
  <2>1. InReach(result)
    BY DEF SearchInv, Outcome
  <2>2. ASSUME NEW s \in HookSizes
        PROVE  Fits32(JumpIn(result, s)) /\ Fits32(JumpBack(result, s))
    BY <2>1, SpaceAssumption, HookSizesAssumption
    DEF InReach, Fits32, JumpIn, JumpBack
  <2>3. -Reach <= Base - result /\ Base - result <= Reach
    BY <2>1, SpaceAssumption DEF InReach
  <2> QED
    BY <2>2, <2>3 DEF JumpsReach
<1> QED
  BY <1>1, <1>2, <1>3, PTL DEF Spec

\* When the function lies far enough above address 0 for low_bound not to
\* wrap, the search overlooks no block that stayed free.
THEOREM SpecNoMissedBlock ==
  ASSUME Reach <= Base + Size
  PROVE  Spec => []NoMissedBlock
<1>1. Init => SearchInv
  BY InitSearchInv
<1>2. SearchInv /\ [Next]_vars => SearchInv'
  BY NextSearchInv
<1>3. SearchInv => NoMissedBlock
  BY DEF SearchInv, Progress, NoMissedBlock, WasUsed
<1> QED
  BY <1>1, <1>2, <1>3, PTL DEF Spec

\* The search is a correct implementation of its one-step specification.
THEOREM SpecNearAllocation == Spec => NearAllocationSpec
<1>1. Init => Near!Init
  BY DEF Init, Near!Init, Pending, Near!Pending
<1>2. SearchInv /\ [Next]_vars => [Near!Next]_Near!vars
  <2> SUFFICES ASSUME SearchInv, [Next]_vars PROVE [Near!Next]_Near!vars
    OBVIOUS
  <2>1. CASE ProbeHigh \/ TurnBack \/ ProbeLow
    BY <2>1 DEF ProbeHigh, TurnBack, ProbeLow, Near!vars
  <2>2. CASE NotFound
    BY <2>2 DEF SearchInv, Outcome, NotFound, Near!Next, Near!GiveUp,
                Null, Near!Null, Pending, Near!Pending
  <2>3. CASE TryAlloc
    BY <2>3 DEF SearchInv, TypeOK, Outcome, TryAlloc, HasRoom, Near!Next, Near!GiveUp,
                Near!Allocate, InReach, Near!InReach, PagesAt, Near!PagesAt,
                num_pages_required, Near!num_pages_required,
                Null, Near!Null, Pending, Near!Pending
  <2>4. ASSUME NEW p \in OtherPages, OtherTakes(p) \/ OtherReleases(p)
        PROVE  Near!OtherThread
    <3>1. result # Null /\ result # Pending => p \notin PagesAt(result)
      <4>1. CASE OtherTakes(p)
        BY <4>1 DEF OtherTakes, SearchInv, TypeOK, Outcome
      <4> QED
        BY <2>4, <4>1 DEF OtherReleases
    <3>2. free' \in {free \cup {p}, free \ {p}} /\ UNCHANGED result
      BY <2>4 DEF OtherTakes, OtherReleases
    <3> QED
      BY <3>1, <3>2 DEF Near!OtherThread, Null, Near!Null, Pending, Near!Pending,
                    PagesAt, Near!PagesAt, num_pages_required, Near!num_pages_required
  <2>5. CASE UNCHANGED vars
    BY <2>5 DEF vars, Near!vars
  <2> QED
    BY <2>1, <2>2, <2>3, <2>4, <2>5 DEF Next, Search, Near!Next
<1>3. Spec => []SearchInv
  <2>1. Init => SearchInv
    BY InitSearchInv
  <2>2. SearchInv /\ [Next]_vars => SearchInv'
    BY NextSearchInv
  <2> QED
    BY <2>1, <2>2, PTL DEF Spec
<1> QED
  BY <1>1, <1>2, <1>3, PTL DEF Spec, NearAllocationSpec, Near!Spec
=============================================================================
