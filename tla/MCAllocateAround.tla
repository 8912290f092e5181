-------------------------- MODULE MCAllocateAround --------------------------
(***************************************************************************)
(* A scaled-down address space: 16-byte pages, two pages per granule, and  *)
(* rel32 reaching three granules each way, so that the two upward and the  *)
(* two downward probes differ and the bounds fall between granules.        *)
(***************************************************************************)
EXTENDS AllocateAround

MCHookSizes == 5 .. 19

\* The pages of the blocks within reach, and of the second one beyond it, the
\* first that a jump cannot reach.
MCPages ==
  LET within == UNION {PagesAt(a) : a \in Blocks}
      last   == Base + Reach - Size
  IN  (within \cup PagesAt(last - (last % Gran) + 2 * Gran)) \ {0, 1}

\* Others use the highest block above the function and half of a low one.
MCOtherPages == MCPages \cap {2, 10, 11}
=============================================================================
