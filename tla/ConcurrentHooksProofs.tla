----------------------- MODULE ConcurrentHooksProofs -----------------------
(***************************************************************************)
(* The invariants of ConcurrentHooks, for all threads, pages and places of *)
(* functions: protections and the map go wrong in the named windows only.  *)
(***************************************************************************)
EXTENDS ConcurrentHooks, TLAPS

\* On a page that no window met at most one thread is inside ensure_protection;
\* it made the page writable and remembers what it was.
PageInv ==
  \A p \in Pages \ spoilt :
    /\ \A t \in Threads : Inside(t) /\ p \in Region[t] =>
         /\ protection[p] = RWX /\ old_protection[t] = pristine[p]
         /\ \A u \in Threads \ {t} : Inside(u) => p \notin Region[u]
    /\ (\A t \in Threads : Inside(t) => p \notin Region[t]) => protection[p] = pristine[p]

\* A thread that changes the map knows the entry of every thread that raced with
\* none, and none of these is changing the map with it.
SeenInv ==
  \A u \in Threads, t \in Threads \ raced :
    u # t /\ pc[u] = "update" => pc[t] # "update" /\ (t \in seen[u] <=> t \in active_hooks)

\* What a thread does to its function it then does to the map, and only by an iterator
\* that is valid if it met no race.
IteratorInv ==
  \A t \in Threads :
    /\ pc[t] = "idle" => it[t] = "end"
    /\ pc[t] \in {"reprotect", "map", "update"} => (hooked[t] <=> it[t] = "end")
    /\ it[t] = "stale" => t \in raced

MapInv == SeenInv /\ IteratorInv

IInv == TypeOK /\ PageInv /\ FaultOnlyIfSpoilt /\ MapInv /\ RecordsMatch

LEMMA TypeStep == TypeOK /\ [Next]_vars => TypeOK'
<1> SUFFICES ASSUME TypeOK, [Next]_vars PROVE TypeOK'
  OBVIOUS
<1> USE RegionAssumption, MaxCallsAssumption DEF TypeOK, Protections, Called
<1>1. ASSUME NEW t \in Threads, Unprotect(t) PROVE TypeOK'
  <2>1. Shared(t) \subseteq Pages /\ Mixed(t) \subseteq Pages /\ Region[t] \subseteq Pages
    BY DEF Shared, Mixed
  <2>2. Reported(t) \in Protections
    BY DEF Reported
  <2> QED BY <1>1, <2>1, <2>2 DEF Unprotect, Change, new_protection
<1>2. ASSUME NEW t \in Threads, Write(t) PROVE TypeOK'
  BY <1>2 DEF Write
<1>3. ASSUME NEW t \in Threads, Reprotect(t) PROVE TypeOK'
  <2>1. Restored(t) \in Protections
    BY DEF Restored
  <2> QED BY <1>3, <2>1 DEF Reprotect, Change
<1>4. ASSUME NEW t \in Threads, UpdateBegins(t) PROVE TypeOK'
  <2>1. Changing(t) \subseteq Threads
    BY DEF Changing
  <2> QED BY <1>4, <2>1 DEF UpdateBegins
<1>5. ASSUME NEW t \in Threads, Update(t) PROVE TypeOK'
  <2>1. Updated(t) \subseteq Threads /\ seen[t] \subseteq Threads
    BY DEF Updated
  <2>2. Rehashed(t) \subseteq Threads
    BY DEF Rehashed
  <2>3. raced' \subseteq Threads /\ it' \in [Threads -> {"end", "valid", "stale"}]
    BY <1>5, <2>2 DEF Update
  <2>4. active_hooks' \subseteq Threads
    BY <1>5, <2>1 DEF Update
  <2> QED BY <1>5, <2>3, <2>4 DEF Update
<1>6. ASSUME NEW t \in Threads, Find(t) PROVE TypeOK'
  BY <1>6 DEF Find
<1>7. CASE UNCHANGED vars
  BY <1>7 DEF vars
<1> QED BY <1>1, <1>2, <1>3, <1>4, <1>5, <1>6, <1>7 DEF Next, Step

\* Threads enter ensure_protection with Unprotect and leave it with Reprotect.
LEMMA PageStep == TypeOK /\ PageInv /\ [Next]_vars => PageInv'
<1> SUFFICES ASSUME TypeOK, PageInv, [Next]_vars PROVE PageInv'
  OBVIOUS
<1> USE RegionAssumption
<1>1. ASSUME NEW t \in Threads, Unprotect(t) PROVE PageInv'
  <2>1. /\ pc[t] \in {"idle", "found"}
        /\ pc' = [pc EXCEPT ![t] = "write"] /\ pristine' = pristine
    BY <1>1 DEF Unprotect, Called
  <2>2. \A u \in Threads : Inside(u)' <=> Inside(u) \/ u = t
    BY <2>1 DEF Inside, TypeOK
  <2> SUFFICES ASSUME NEW p \in Pages \ spoilt'
               PROVE  /\ \A u \in Threads : Inside(u)' /\ p \in Region[u] =>
                           /\ protection'[p] = RWX /\ old_protection'[u] = pristine[p]
                           /\ \A v \in Threads \ {u} : Inside(v)' => p \notin Region[v]
                      /\ (\A u \in Threads : Inside(u)' => p \notin Region[u])
                           => protection'[p] = pristine[p]
    BY <2>1 DEF PageInv
  <2>3. p \in Pages \ spoilt
    BY <1>1 DEF Unprotect
  <2>4. \A u \in Threads \ {t} : old_protection'[u] = old_protection[u]
    BY <1>1 DEF Unprotect, TypeOK
  <2>5. p \notin Region[t] => protection'[p] = protection[p]
    BY <1>1, <2>3 DEF Unprotect, Change
  <2>6. CASE p \notin Region[t]
    BY <2>2, <2>3, <2>4, <2>5, <2>6 DEF PageInv
  <2>7. CASE p \in Region[t]
    <3>1. /\ p \notin Shared(t) /\ p \notin Mixed(t)
          /\ Change(t, new_protection) /\ old_protection' = [old_protection EXCEPT ![t] = Reported(t)]
      BY <1>1, <2>7 DEF Unprotect
    <3>2. \A u \in Threads \ {t} : Inside(u) => p \notin Region[u]
      BY <3>1, <2>7 DEF Shared
    <3>3. ~Inside(t)
      BY <2>1 DEF Inside
    <3>4. protection[p] = pristine[p]
      BY <3>2, <3>3, <2>3 DEF PageInv
    <3>5. protection[p] = protection[First[t]]
      BY <3>1, <2>7 DEF Mixed
    <3>6. protection'[p] = RWX /\ old_protection'[t] = pristine[p]
      BY <3>1, <3>4, <3>5, <2>7, <2>3 DEF Change, new_protection, Reported, TypeOK
    <3> QED BY <3>2, <3>6, <2>2, <2>7
  <2> QED BY <2>6, <2>7
<1>2. ASSUME NEW t \in Threads, Write(t) PROVE PageInv'
  <2>1. /\ \A u \in Threads : Inside(u)' <=> Inside(u)
        /\ UNCHANGED <<protection, old_protection, pristine, spoilt>>
    BY <1>2 DEF Write, Inside, TypeOK
  <2> QED BY <2>1 DEF PageInv
<1>3. ASSUME NEW t \in Threads, Reprotect(t) PROVE PageInv'
  <2>1. Inside(t) /\ pc' = [pc EXCEPT ![t] = "map"] /\ pristine' = pristine
    BY <1>3 DEF Reprotect, Inside
  <2>2. \A u \in Threads : Inside(u)' <=> Inside(u) /\ u # t
    BY <2>1 DEF Inside, TypeOK
  <2> SUFFICES ASSUME NEW p \in Pages \ spoilt'
               PROVE  /\ \A u \in Threads : Inside(u)' /\ p \in Region[u] =>
                           /\ protection'[p] = RWX /\ old_protection'[u] = pristine[p]
                           /\ \A v \in Threads \ {u} : Inside(v)' => p \notin Region[v]
                      /\ (\A u \in Threads : Inside(u)' => p \notin Region[u])
                           => protection'[p] = pristine[p]
    BY <2>1 DEF PageInv
  <2>3. p \in Pages \ spoilt
    BY <1>3 DEF Reprotect
  <2>4. \A u \in Threads \ {t} : old_protection'[u] = old_protection[u]
    BY <1>3 DEF Reprotect, TypeOK
  <2>5. CASE p \notin Region[t]
    <3>1. protection'[p] = protection[p]
      BY <1>3, <2>3, <2>5 DEF Reprotect, Change
    <3> QED BY <2>2, <2>3, <2>4, <2>5, <3>1 DEF PageInv
  <2>6. CASE p \in Region[t]
    <3>1. \A u \in Threads \ {t} : Inside(u) => p \notin Region[u]
      BY <2>1, <2>3, <2>6 DEF PageInv
    <3>2. protection'[p] = old_protection[t]
      BY <1>3, <2>3, <2>6 DEF Reprotect, Change, Restored
    <3> QED BY <3>1, <3>2, <2>1, <2>2, <2>3, <2>6 DEF PageInv
  <2> QED BY <2>5, <2>6
<1>4. ASSUME NEW t \in Threads, Find(t) \/ UpdateBegins(t) \/ Update(t) PROVE PageInv'
  <2>1. /\ \A u \in Threads : Inside(u)' <=> Inside(u)
        /\ UNCHANGED <<protection, old_protection, pristine, spoilt>>
    BY <1>4 DEF Find, UpdateBegins, Update, Called, Inside, TypeOK
  <2> QED BY <2>1 DEF PageInv
<1>5. CASE UNCHANGED vars
  BY <1>5 DEF vars, PageInv, Inside
<1> QED BY <1>1, <1>2, <1>3, <1>4, <1>5 DEF Next, Step

\* Only Write can fault, and a page that was not spoilt is writable there.
LEMMA FaultStep ==
  TypeOK /\ PageInv /\ FaultOnlyIfSpoilt /\ [Next]_vars => FaultOnlyIfSpoilt'
<1> SUFFICES ASSUME TypeOK, PageInv, FaultOnlyIfSpoilt, [Next]_vars,
                    NEW u \in Threads, pc'[u] = "faulted"
             PROVE  Region[u] \cap spoilt' # {}
  BY DEF FaultOnlyIfSpoilt
<1> USE RegionAssumption
<1>1. spoilt \subseteq spoilt'
  BY DEF Next, Step, Find, Unprotect, Write, Reprotect, UpdateBegins, Update, vars
<1>2. CASE pc[u] = "faulted"
  BY <1>1, <1>2 DEF FaultOnlyIfSpoilt
<1>3. CASE pc[u] # "faulted"
  <2>1. Write(u)
    BY <1>3 DEF Next, Step, Find, Unprotect, Write, Reprotect, UpdateBegins, Update, vars, TypeOK
  <2>2. PICK p \in Region[u] : protection[p] # RWX
    BY <2>1 DEF Write, TypeOK
  <2>3. p \in Pages /\ Inside(u)
    BY <2>1, <2>2 DEF Write, Inside
  <2>4. p \in spoilt
    BY <2>2, <2>3 DEF PageInv
  <2> QED BY <1>1, <2>2, <2>4
<1> QED BY <1>2, <1>3

\* Entries change in Update only, and the thread's own is then as its function.
LEMMA MapStep ==
  TypeOK /\ MapInv /\ RecordsMatch /\ [Next]_vars => MapInv' /\ RecordsMatch'
<1> SUFFICES ASSUME TypeOK, SeenInv, IteratorInv, RecordsMatch, [Next]_vars
             PROVE  SeenInv' /\ IteratorInv' /\ RecordsMatch'
  BY DEF MapInv
<1>1. ASSUME NEW w \in Threads, Find(w) \/ Unprotect(w) \/ Write(w) \/ Reprotect(w)
      PROVE  SeenInv' /\ IteratorInv' /\ RecordsMatch'
  <2>1. /\ UNCHANGED <<active_hooks, seen>> /\ raced \subseteq raced'
        /\ pc'[w] \notin {"idle", "update"}
        /\ \A t \in Threads \ {w} : pc'[t] = pc[t] /\ hooked'[t] = hooked[t] /\ it'[t] = it[t]
    BY <1>1 DEF Find, Unprotect, Write, Reprotect, TypeOK
  <2>2. /\ pc'[w] \in {"reprotect", "map", "update"} => (hooked'[w] <=> it'[w] = "end")
        /\ it'[w] = "stale" => w \in raced'
    BY <1>1 DEF Find, Unprotect, Write, Reprotect, TypeOK, IteratorInv
  <2>3. SeenInv'
    BY <2>1 DEF SeenInv
  <2>4. IteratorInv'
    BY <2>1, <2>2 DEF IteratorInv
  <2>5. RecordsMatch'
    BY <2>1 DEF RecordsMatch
  <2> QED BY <2>3, <2>4, <2>5
<1>2. ASSUME NEW w \in Threads, UpdateBegins(w) PROVE SeenInv' /\ IteratorInv' /\ RecordsMatch'
  <2>1. /\ pc[w] = "map" /\ pc' = [pc EXCEPT ![w] = "update"]
        /\ seen' = [seen EXCEPT ![w] = active_hooks]
        /\ UNCHANGED <<active_hooks, hooked, it>> /\ raced \subseteq raced'
        /\ \A u \in Threads \ {w} : pc[u] = "update" => u \in raced' /\ w \in raced'
    BY <1>2 DEF UpdateBegins, Changing
  <2>2. SeenInv'
    <3> SUFFICES ASSUME NEW u \in Threads, NEW t \in Threads \ raced', u # t, pc'[u] = "update"
                 PROVE  pc'[t] # "update" /\ (t \in seen'[u] <=> t \in active_hooks')
      BY DEF SeenInv
    <3>1. t # w \/ pc[u] # "update"
      BY <2>1
    <3>2. CASE u = w
      BY <3>2, <2>1 DEF TypeOK
    <3>3. CASE u # w
      BY <3>1, <3>3, <2>1 DEF TypeOK, SeenInv
    <3> QED BY <3>2, <3>3
  <2>3. IteratorInv'
    BY <2>1 DEF IteratorInv, TypeOK
  <2>4. RecordsMatch'
    BY <2>1 DEF RecordsMatch, TypeOK
  <2> QED BY <2>2, <2>3, <2>4
<1>3. ASSUME NEW w \in Threads, Update(w) PROVE SeenInv' /\ IteratorInv' /\ RecordsMatch'
  <2>1. /\ pc[w] = "update" /\ pc' = [pc EXCEPT ![w] = "idle"]
        /\ active_hooks' \in {Updated(w)} \cup (IF it[w] = "stale" THEN {seen[w]} ELSE {})
        /\ seen' = [seen EXCEPT ![w] = {}] /\ hooked' = hooked
    BY <1>3 DEF Update
  <2>2. PICK invalid \in {{}, Rehashed(w)} :
          /\ it' = [u \in Threads |-> IF u = w THEN "end" ELSE IF u \in invalid THEN "stale" ELSE it[u]]
          /\ raced' = raced \cup invalid
    BY <1>3 DEF Update
  <2>3. \A u \in invalid : u # w /\ it[u] # "end"
    BY <2>2 DEF Rehashed
  <2>4. \A t \in Threads \ raced : t # w => (t \in active_hooks' <=> t \in active_hooks)
    BY <2>1 DEF SeenInv, Updated
  <2>5. w \notin raced => (w \in active_hooks' <=> hooked[w])
    BY <2>1 DEF Updated, IteratorInv
  <2>6. SeenInv'
    <3> SUFFICES ASSUME NEW u \in Threads, NEW t \in Threads \ raced', u # t, pc'[u] = "update"
                 PROVE  pc'[t] # "update" /\ (t \in seen'[u] <=> t \in active_hooks')
      BY DEF SeenInv
    <3>1. u # w /\ pc[u] = "update" /\ seen'[u] = seen[u] /\ t \in Threads \ raced
      BY <2>1, <2>2 DEF TypeOK
    <3>2. t # w
      BY <3>1, <2>1 DEF SeenInv
    <3> QED BY <2>1, <2>4, <3>1, <3>2 DEF SeenInv, TypeOK
  <2>7. IteratorInv'
    <3> SUFFICES ASSUME NEW t \in Threads
                 PROVE  /\ pc'[t] = "idle" => it'[t] = "end"
                        /\ pc'[t] \in {"reprotect", "map", "update"} => (hooked'[t] <=> it'[t] = "end")
                        /\ it'[t] = "stale" => t \in raced'
      BY DEF IteratorInv
    <3>1. CASE t = w
      BY <3>1, <2>1, <2>2 DEF TypeOK
    <3>2. CASE t # w
      BY <3>2, <2>1, <2>2, <2>3 DEF TypeOK, IteratorInv
    <3> QED BY <3>1, <3>2
  <2>8. RecordsMatch'
    BY <2>1, <2>2, <2>4, <2>5 DEF RecordsMatch, TypeOK
  <2> QED BY <2>6, <2>7, <2>8
<1>4. CASE UNCHANGED vars
  BY <1>4 DEF vars, SeenInv, IteratorInv, RecordsMatch
<1> QED BY <1>1, <1>2, <1>3, <1>4 DEF Next, Step

LEMMA Inductive == (Init => IInv) /\ (IInv /\ [Next]_vars => IInv')
<1>1. Init => IInv
  <2> SUFFICES ASSUME Init PROVE IInv
    OBVIOUS
  <2>1. TypeOK
    BY MaxCallsAssumption DEF Init, TypeOK, Protections
  <2>2. PageInv /\ FaultOnlyIfSpoilt /\ MapInv /\ RecordsMatch
    BY DEF Init, PageInv, FaultOnlyIfSpoilt, MapInv, SeenInv, IteratorInv, RecordsMatch, Inside
  <2> QED BY <2>1, <2>2 DEF IInv
<1>2. IInv /\ [Next]_vars => IInv'
  BY TypeStep, PageStep, FaultStep, MapStep DEF IInv
<1> QED BY <1>1, <1>2

THEOREM SpecTypeOK == Spec => []TypeOK
<1>1. IInv => TypeOK
  BY DEF IInv
<1> QED BY <1>1, Inductive, PTL DEF Spec

\* No store faults but in the windows of ensure_protection.
THEOREM SpecFaultOnlyIfSpoilt == Spec => []FaultOnlyIfSpoilt
<1>1. IInv => FaultOnlyIfSpoilt
  BY DEF IInv
<1> QED BY <1>1, Inductive, PTL DEF Spec

\* No page changes its protection for good but in those windows.
THEOREM SpecProtectionKept == Spec => []ProtectionKept
<1>1. IInv => ProtectionKept
  BY DEF IInv, PageInv, ProtectionKept
<1> QED BY <1>1, Inductive, PTL DEF Spec

\* No entry is lost, or left over, but by an insert, find or erase at the time of
\* another's, or by a rehash between a find and its erase.
THEOREM SpecRecordsMatch == Spec => []RecordsMatch
<1>1. IInv => RecordsMatch
  BY DEF IInv
<1> QED BY <1>1, Inductive, PTL DEF Spec
=============================================================================
