------------------------- MODULE MCConcurrentHooks -------------------------
(***************************************************************************)
(* Functions on one page, on the next, and across their border.            *)
(***************************************************************************)
EXTENDS ConcurrentHooks

CONSTANTS t1, t2, t3

MCThreads == {t1, t2, t3}
MCPages   == {1, 2}
MCRegion  == [t \in MCThreads |-> IF t = t1 THEN {1} ELSE IF t = t2 THEN {2} ELSE {1, 2}]
MCFirst   == [t \in MCThreads |-> IF t = t2 THEN 2 ELSE 1]
=============================================================================
