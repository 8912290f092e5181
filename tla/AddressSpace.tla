---------------------------- MODULE AddressSpace ----------------------------
(***************************************************************************)
(* The part of a Windows process's address space that allocate_around_2gb  *)
(* (HookLib.h) searches for a trampoline: the numbers it computes with and *)
(* the interval of addresses it may return.  All addresses are byte        *)
(* addresses; pointer arithmetic is unsigned and wraps at Space.           *)
(***************************************************************************)
EXTENDS Integers

CONSTANTS
  Space,      \* addresses of the machine: 2^64 in the program
  Reach,      \* half the span of a rel32 displacement: 2^31
  Gran,       \* SystemInfo::allocation_granularity(): 64 KB
  Page,       \* SystemInfo::page_size(): 4 KB
  Size,       \* bytes asked for: 0x500
  Base,       \* the function to hook: the parameter base_address
  HookSizes,  \* what compute_hook_size may return for a 5-byte jump
  Pages,      \* numbers of the pages the process may allocate
  OtherPages  \* those that other threads take and release meanwhile

ASSUME SpaceAssumption ==
  /\ Space \in Nat /\ Reach \in Nat /\ Base \in Nat
  /\ Gran \in Nat \ {0} /\ Page \in Nat \ {0} /\ Size \in Nat \ {0}
  /\ 2 * Reach <= Space
  /\ Base + Reach <= Space      \* user addresses end below 2^47
  /\ Gran <= Base               \* the first 64 KB are never mapped
  /\ Gran + Size < Reach

\* A hook of s bytes puts s bytes of code, a 5-byte and a 6-byte jump at the
\* start of the trampoline, which is Size bytes long.
ASSUME HookSizesAssumption ==
  HookSizes \subseteq Nat /\ \A s \in HookSizes : 5 <= s /\ s + 11 <= Size

ASSUME PagesAssumption ==
  Pages \subseteq Nat /\ OtherPages \subseteq Pages

Null    == -1    \* nullptr
Pending == -2    \* the call has not returned

-----------------------------------------------------------------------------
num_pages_required == (Size + Page - 1) \div Page

\* Mutant: the function's own address, not rounded down.
base_unaligned == Base

base_aligned == Base - (Base % Gran)

\* Mutant: the block's size is added instead of subtracted.
high_bound_past == (Base + Reach + Size) % Space

high_bound == (Base + Reach - Size) % Space

low_bound == (Base - Reach + Size) % Space

PagesAt(a) == a \div Page .. a \div Page + num_pages_required - 1

\* The interval whose addresses a rel32 jump from the hooked function and one
\* back to it can both span; low_bound is its lower end only if the unsigned
\* subtraction does not wrap.
InReach(a) == Base - Reach + Size < a /\ a < Base + Reach - Size

Fits32(d) == -Reach <= d /\ d < Reach

\* Displacements of the two rel32 jumps of a hook of s bytes: function ->
\* trampoline + s + 5, and trampoline + s -> function + s.
JumpIn(a, s)   == (a + s + 5) - (Base + 5)
JumpBack(a, s) == (Base + s) - (a + s + 5)
=============================================================================
