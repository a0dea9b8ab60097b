---------------------------- MODULE GcHeapProofs ----------------------------
(***************************************************************************)
(* GcHeap for every set of cells, nursery size, cap and bounds: what a     *)
(* scavenge, a full collection, the accounting and the placement of an     *)
(* object preserve, and from these the invariants and the two action       *)
(* properties of the heap.                                                 *)
(***************************************************************************)
EXTENDS GcHeap, FiniteSetTheorems, TLAPS

USE SMTT(60)

(***************************************************************************)
(* Reachability.                                                           *)
(***************************************************************************)
Slots == [Cells -> SUBSET Cells]

\* Tracing visits the roots and whatever a visited object holds.
LEMMA ReachClosed ==
    ASSUME NEW edges \in Slots, NEW r \in SUBSET Cells
    PROVE  /\ r \subseteq Reach(edges, r)
           /\ \A p \in Reach(edges, r) : edges[p] \subseteq Reach(edges, r)
           /\ Reach(edges, r) \subseteq Cells
<1>1. r \subseteq Reach(edges, r)
    BY DEF Reach
<1>2. ASSUME NEW p \in Reach(edges, r), NEW c \in edges[p]
      PROVE  c \in Reach(edges, r)
    <2>1. p \in Cells /\ c \in Cells
        BY DEF Reach, Slots
    <2>2. ASSUME NEW S \in SUBSET Cells,
                 r \subseteq S, \A q \in S : edges[q] \subseteq S
          PROVE  c \in S
        <3>1. p \in S
            BY <2>2 DEF Reach
        <3>2. QED
            BY <2>2, <3>1
    <2>3. QED
        BY <2>1, <2>2 DEF Reach
<1>3. Reach(edges, r) \subseteq Cells
    BY DEF Reach
<1>4. QED
    BY <1>1, <1>2, <1>3

\* A closed set that holds the roots holds all that tracing visits.
LEMMA ReachLeast ==
    ASSUME NEW edges \in Slots, NEW r, NEW S \in SUBSET Cells,
           r \subseteq S, \A p \in S : edges[p] \subseteq S
    PROVE  Reach(edges, r) \subseteq S
BY DEF Reach

\* Roots that tracing visits anyway add nothing.
LEMMA ReachSame ==
    ASSUME NEW edges \in Slots, NEW r \in SUBSET Cells, NEW t,
           r \subseteq t, t \subseteq Reach(edges, r)
    PROVE  Reach(edges, t) = Reach(edges, r)
<1>1. t \in SUBSET Cells
    BY ReachClosed
<1>2. Reach(edges, t) \subseteq Reach(edges, r)
    BY ReachClosed, ReachLeast
<1>3. Reach(edges, r) \subseteq Reach(edges, t)
    <2>1. /\ t \subseteq Reach(edges, t)
          /\ \A p \in Reach(edges, t) : edges[p] \subseteq Reach(edges, t)
          /\ Reach(edges, t) \in SUBSET Cells
        BY <1>1, ReachClosed
    <2>2. QED
        BY <2>1, ReachLeast
<1>4. QED
    BY <1>2, <1>3

\* Dropping bodies that tracing does not visit changes nothing.
LEMMA ReachDropped ==
    ASSUME NEW edges \in Slots, NEW r \in SUBSET Cells, NEW dead,
           dead \cap Reach(edges, r) = {}
    PROVE  /\ Dropped(edges, dead) \in Slots
           /\ Reach(Dropped(edges, dead), r) = Reach(edges, r)
<1> DEFINE R == Reach(edges, r)
           d == Dropped(edges, dead)
<1>1. d \in Slots
    BY DEF Slots, Dropped
<1>2. \A c \in R : d[c] = edges[c]
    BY ReachClosed DEF Dropped
<1>3. /\ r \subseteq R /\ R \in SUBSET Cells
      /\ \A p \in R : edges[p] \subseteq R
    BY ReachClosed
<1>4. Reach(d, r) \subseteq R
    <2>1. \A p \in R : d[p] \subseteq R
        BY <1>2, <1>3
    <2> HIDE DEF d, R
    <2>2. QED
        BY <1>1, <1>3, <2>1, ReachLeast
<1>5. R \subseteq Reach(d, r)
    <2> DEFINE S == R \cap Reach(d, r)
    <2>1. /\ r \subseteq Reach(d, r)
          /\ \A p \in Reach(d, r) : d[p] \subseteq Reach(d, r)
        BY <1>1, ReachClosed
    <2>2. \A p \in S : edges[p] \subseteq S
        BY <1>2, <1>3, <2>1
    <2>3. r \subseteq S /\ S \in SUBSET Cells
        BY <1>3, <2>1
    <2>4. R \subseteq S
        <3> HIDE DEF S
        <3>1. QED
            BY <2>2, <2>3, ReachLeast
    <2>5. QED
        BY <2>4
<1>6. QED
    BY <1>1, <1>4, <1>5

(***************************************************************************)
(* What every collection starts from and leaves behind.                    *)
(***************************************************************************)
HeapTyped(h) ==
    /\ h \in Heaps
    /\ h.survivors \subseteq Young(h)
    /\ h.remembered \subseteq Old(h)

HeapOk(h, r) ==
    /\ HeapTyped(h)
    /\ \A p \in Old(h) : h.edges[p] \cap Young(h) # {} => p \in h.remembered
    /\ r \subseteq Allocated(h)
    /\ \A p \in Allocated(h) : h.edges[p] \subseteq Allocated(h)
    /\ h.stale = {}

\* g is h after some collecting: still in order, with the same objects
\* visited from r and nothing added.
Keeps(g, h, r) ==
    /\ HeapOk(g, r)
    /\ Reach(g.edges, r) = Reach(h.edges, r)
    /\ Allocated(g) \subseteq Allocated(h)

\* The fields of a heap have their types.
LEMMA HeapFields ==
    ASSUME NEW h \in Heaps
    PROVE  /\ h.space \in [Cells -> {"free", "young", "old"}]
           /\ h.survivors \in SUBSET Cells
           /\ h.edges \in Slots
           /\ h.remembered \in SUBSET Cells
           /\ h.stale \in SUBSET Cells
BY DEF Heaps, Slots

\* In a heap in order, tracing visits allocated objects only.
LEMMA ReachAllocated ==
    ASSUME NEW h, NEW r, HeapOk(h, r)
    PROVE  Reach(h.edges, r) \subseteq Allocated(h)
<1>1. h.edges \in Slots
    BY HeapFields DEF HeapOk, HeapTyped
<1>2. Allocated(h) \in SUBSET Cells
    BY DEF Allocated
<1>3. r \subseteq Allocated(h) /\ \A p \in Allocated(h) : h.edges[p] \subseteq Allocated(h)
    BY DEF HeapOk
<1>4. QED
    BY <1>1, <1>2, <1>3, ReachLeast

\* What the roots and the remembered parents hold is evacuated, and so is
\* what an evacuated object holds.
LEMMA EvacuatedClosed ==
    ASSUME NEW h, NEW r
    PROVE  /\ Evacuated(h, r) \subseteq Young(h)
           /\ r \cap Young(h) \subseteq Evacuated(h, r)
           /\ \A p \in h.remembered : h.edges[p] \cap Young(h) \subseteq Evacuated(h, r)
           /\ \A p \in Evacuated(h, r) : h.edges[p] \cap Young(h) \subseteq Evacuated(h, r)
<1> DEFINE Y == Young(h)
           seeds == (r \cup UNION {h.edges[p] : p \in h.remembered}) \cap Y
           Closed(S) == seeds \subseteq S /\ \A p \in S : h.edges[p] \cap Y \subseteq S
<1>1. Evacuated(h, r) = {c \in Y : \A S \in SUBSET Y : Closed(S) => c \in S}
    BY DEF Evacuated
<1>2. seeds \subseteq Evacuated(h, r)
    BY <1>1
<1>3. ASSUME NEW p \in Evacuated(h, r), NEW c \in h.edges[p] \cap Y
      PROVE  c \in Evacuated(h, r)
    <2>1. ASSUME NEW S \in SUBSET Y, Closed(S)
          PROVE  c \in S
        <3>1. p \in S
            BY <1>1, <2>1
        <3>2. QED
            BY <2>1, <3>1
    <2>2. QED
        BY <1>1, <2>1
<1>4. r \cap Y \subseteq seeds /\ \A p \in h.remembered : h.edges[p] \cap Y \subseteq seeds
    OBVIOUS
<1>5. Evacuated(h, r) \subseteq Y
    BY <1>1
<1>6. QED
    BY <1>2, <1>3, <1>4, <1>5

\* No young object that tracing visits is left behind.
LEMMA ReachEvacuated ==
    ASSUME NEW h, NEW r, HeapOk(h, r)
    PROVE  Reach(h.edges, r) \cap Young(h) \subseteq Evacuated(h, r)
<1> DEFINE R == Reach(h.edges, r)
           S == {c \in R : c \in Young(h) => c \in Evacuated(h, r)}
<1>1. h.edges \in Slots /\ r \in SUBSET Cells
    BY HeapFields DEF HeapOk, HeapTyped, Allocated
<1>2. /\ r \subseteq R /\ R \in SUBSET Cells
      /\ \A p \in R : h.edges[p] \subseteq R
    BY <1>1, ReachClosed
<1>3. r \subseteq S
    BY <1>2, EvacuatedClosed
<1>4. ASSUME NEW p \in S, NEW c \in h.edges[p]
      PROVE  c \in S
    <2>1. c \in R /\ p \in R
        BY <1>2
    <2>2. CASE c \notin Young(h)
        BY <2>1, <2>2
    <2>3. CASE c \in Young(h) /\ p \in Young(h)
        BY <2>1, <2>3, EvacuatedClosed
    <2>4. CASE c \in Young(h) /\ p \notin Young(h)
        <3>1. p \in Old(h)
            <4>1. p \in Allocated(h)
                BY <2>1, ReachAllocated
            <4>2. h.space \in [Cells -> {"free", "young", "old"}]
                BY HeapFields DEF HeapOk, HeapTyped
            <4>3. QED
                BY <2>4, <4>1, <4>2 DEF Allocated, Young, Old
        <3>2. p \in h.remembered
            BY <2>4, <3>1 DEF HeapOk
        <3>3. QED
            BY <2>1, <2>4, <3>2, EvacuatedClosed
    <2>5. QED
        BY <2>2, <2>3, <2>4
<1>5. S \in SUBSET Cells
    BY <1>2
<1>6. R \subseteq S
    <2>1. \A p \in S : h.edges[p] \subseteq S
        BY <1>4
    <2> HIDE DEF S
    <2>2. QED
        BY <1>1, <1>3, <1>5, <2>1, ReachLeast
<1>7. QED
    BY <1>6

(***************************************************************************)
(* The scavenge.                                                           *)
(***************************************************************************)
\* A record with fields of the right types is a heap.
LEMMA MakeHeap ==
    ASSUME NEW sp \in [Cells -> {"free", "young", "old"}], NEW su \in SUBSET Cells,
           NEW ed \in Slots, NEW re \in SUBSET Cells, NEW st \in SUBSET Cells
    PROVE  LET g == [space |-> sp, survivors |-> su, edges |-> ed,
                     remembered |-> re, stale |-> st]
           IN  /\ g \in Heaps
               /\ g.space = sp /\ g.survivors = su /\ g.edges = ed
               /\ g.remembered = re /\ g.stale = st
BY DEF Heaps, Slots

\* Young objects a scavenge leaves behind, and the parents it remembers.
Left(h, r) == Young(h) \ Evacuated(h, r)
Promoted(h, r, C) == Evacuated(h, r) \ C
Again(h, r, C) == {p \in h.remembered \cup Promoted(h, r, C) : h.edges[p] \cap C # {}}

\* The fields of the heap a scavenge leaves.
LEMMA FlippedFields ==
    ASSUME NEW h, NEW r, NEW C, NEW g, HeapOk(h, r), C \subseteq Evacuated(h, r),
           g = Flipped(h, r, C)
    PROVE  /\ g \in Heaps
           /\ Young(g) = C
           /\ Old(g) = Old(h) \cup Promoted(h, r, C)
           /\ Allocated(g) = Allocated(h) \ Left(h, r)
           /\ g.survivors = C
           /\ g.edges = Dropped(h.edges, Left(h, r))
           /\ g.remembered = Again(h, r, C)
           /\ g.stale = {}
<1> DEFINE live == Evacuated(h, r)
           dead == Young(h) \ live
           sp == [c \in Cells |-> IF c \in dead THEN "free"
                                  ELSE IF c \in live \ C THEN "old" ELSE h.space[c]]
           ed == Dropped(h.edges, dead)
           re == {p \in h.remembered \cup (live \ C) : h.edges[p] \cap C # {}}
           st == h.stale \cup {p \in Old(h) \ h.remembered : h.edges[p] \cap Young(h) # {}}
<1>1. /\ h.space \in [Cells -> {"free", "young", "old"}]
      /\ h.edges \in Slots
      /\ h.remembered \in SUBSET Cells
    BY HeapFields DEF HeapOk, HeapTyped
<1>2. live \subseteq Young(h) /\ Young(h) \subseteq Cells
    BY EvacuatedClosed DEF Young
<1>3. g = [space |-> sp, survivors |-> C, edges |-> ed, remembered |-> re, stale |-> st]
    BY ZenonT(60) DEF Flipped, remember_parent
<1>4. st = {}
    <2>1. h.stale = {} /\ \A p \in Old(h) : h.edges[p] \cap Young(h) # {} => p \in h.remembered
        BY DEF HeapOk
    <2>2. QED
        BY <2>1
<1>5. /\ sp \in [Cells -> {"free", "young", "old"}]
      /\ ed \in Slots
      /\ re \in SUBSET Cells
      /\ C \in SUBSET Cells
    <2>1. sp \in [Cells -> {"free", "young", "old"}]
        BY <1>1
    <2>2. ed \in Slots
        BY <1>1 DEF Dropped, Slots
    <2>3. re \in SUBSET Cells /\ C \in SUBSET Cells
        BY <1>1, <1>2
    <2>4. QED
        BY <2>1, <2>2, <2>3
<1>6. /\ g \in Heaps
      /\ g.space = sp /\ g.survivors = C /\ g.edges = ed
      /\ g.remembered = re /\ g.stale = {}
    <2> HIDE DEF sp, ed, re, st
    <2>1. st \in SUBSET Cells
        BY <1>4
    <2>2. QED
        BY <1>3, <1>4, <1>5, <2>1, MakeHeap
<1>7. Young(g) = C
    BY <1>1, <1>2, <1>6 DEF Young
<1>8. Old(g) = Old(h) \cup (live \ C)
    BY <1>1, <1>2, <1>6 DEF Young, Old
<1>9. Allocated(g) = Allocated(h) \ dead
    BY <1>1, <1>2, <1>6 DEF Young, Allocated
<1>10. QED
    BY <1>6, <1>7, <1>8, <1>9, ZenonT(60) DEF Left, Promoted, Again

\* A scavenge keeps the heap in order and everything tracing visits, and
\* what it leaves in the nursery is reachable.
LEMMA ScavengeKeeps ==
    ASSUME NEW h, NEW r, HeapOk(h, r), NEW g \in Scavenged(h, r)
    PROVE  /\ Keeps(g, h, r)
           /\ Young(g) \subseteq Reach(g.edges, r)
<1>1. PICK C \in Copies(h, r) : g = Flipped(h, r, C)
    BY DEF Scavenged
<1> DEFINE live == Evacuated(h, r)
           dead == Left(h, r)
           R == Reach(h.edges, r)
<1>2. /\ C \subseteq live
      /\ \A S \in SUBSET C :
            (r \cap C \subseteq S /\ \A p \in S : h.edges[p] \cap C \subseteq S) => S = C
    BY DEF Copies
<1>3. C \subseteq Evacuated(h, r)
    BY <1>2
<1> HIDE DEF live, dead, R
<1>4. /\ g \in Heaps
      /\ Young(g) = C
      /\ Old(g) = Old(h) \cup Promoted(h, r, C)
      /\ Allocated(g) = Allocated(h) \ dead
      /\ g.survivors = C
      /\ g.edges = Dropped(h.edges, dead)
      /\ g.remembered = Again(h, r, C)
      /\ g.stale = {}
    BY ONLY HeapOk(h, r), <1>1, <1>3, FlippedFields DEF dead
<1>5. g.remembered = {p \in h.remembered \cup (live \ C) : h.edges[p] \cap C # {}}
    BY <1>4, ZenonT(60) DEF live, Again, Promoted
<1>6. /\ HeapTyped(h)
      /\ \A p \in Old(h) : h.edges[p] \cap Young(h) # {} => p \in h.remembered
      /\ r \subseteq Allocated(h)
      /\ \A p \in Allocated(h) : h.edges[p] \subseteq Allocated(h)
    BY DEF HeapOk
<1>7. /\ h.edges \in Slots /\ h.remembered \subseteq Old(h)
      /\ h.space \in [Cells -> {"free", "young", "old"}]
      /\ r \in SUBSET Cells
    BY <1>6, HeapFields DEF HeapTyped, Allocated
<1>8. /\ live \subseteq Young(h)
      /\ r \cap Young(h) \subseteq live
      /\ \A p \in h.remembered : h.edges[p] \cap Young(h) \subseteq live
      /\ \A p \in live : h.edges[p] \cap Young(h) \subseteq live
    BY EvacuatedClosed DEF live
<1>9. \A p \in Allocated(g) : g.edges[p] = h.edges[p]
    BY <1>4 DEF Dropped, Allocated
<1>10. HeapTyped(g)
    BY <1>4, <1>7, <1>5 DEF HeapTyped, Promoted, live
<1>11. ASSUME NEW p \in Old(g), g.edges[p] \cap Young(g) # {}
      PROVE  p \in g.remembered
    <2>1. h.edges[p] \cap C # {}
        <3>1. p \in Allocated(g)
            BY DEF Old, Allocated
        <3>2. QED
            BY <1>4, <1>9, <1>11, <3>1
    <2>2. CASE p \in Old(h)
        BY <1>2, <1>6, <1>8, <1>5, <2>1, <2>2
    <2>3. CASE p \in live \ C
        BY <1>5, <2>1, <2>3
    <2>4. QED
        BY <1>4, <2>2, <2>3 DEF Promoted, live
<1>12. r \subseteq Allocated(g)
    BY <1>4, <1>6, <1>8 DEF dead, Left, live
<1>13. ASSUME NEW p \in Allocated(g), NEW c \in g.edges[p]
       PROVE  c \in Allocated(g)
    <2>1. p \in Allocated(h) /\ p \notin dead /\ c \in h.edges[p] /\ c \in Allocated(h)
        BY <1>4, <1>6, <1>9, <1>13
    <2>2. CASE c \in Young(h)
        <3>1. p \in Young(h) \/ p \in Old(h)
            BY <1>7, <2>1 DEF Allocated, Young, Old
        <3>2. c \in live
            BY <1>6, <1>8, <2>1, <2>2, <3>1 DEF dead, Left, live
        <3>3. QED
            BY <1>4, <2>1, <3>2 DEF dead, Left, live
    <2>3. CASE c \notin Young(h)
        BY <1>4, <2>1, <2>3 DEF dead, Left, live
    <2>4. QED
        BY <2>2, <2>3
<1>14. HeapOk(g, r)
    <2>1. \A p \in Old(g) : g.edges[p] \cap Young(g) # {} => p \in g.remembered
        BY <1>11
    <2>2. \A p \in Allocated(g) : g.edges[p] \subseteq Allocated(g)
        BY <1>13
    <2>3. QED
        BY <1>4, <1>10, <1>12, <2>1, <2>2, ZenonT(60) DEF HeapOk
<1>15. Reach(g.edges, r) = R
    <2>1. dead \cap R = {}
        BY ReachEvacuated DEF dead, Left, R
    <2>2. QED
        BY <1>4, <1>7, <2>1, ReachDropped DEF R
<1>16. Young(g) \subseteq R
    <2> DEFINE S == C \cap R
    <2>1. r \subseteq R /\ \A p \in R : h.edges[p] \subseteq R
        BY <1>7, ReachClosed DEF R
    <2>2. r \cap C \subseteq S /\ \A p \in S : h.edges[p] \cap C \subseteq S
        BY <2>1
    <2>3. S = C
        <3>1. S \in SUBSET C
            OBVIOUS
        <3> HIDE DEF S
        <3>2. QED
            BY <1>2, <2>2, <3>1
    <2>4. QED
        BY <1>4, <2>3
<1>17. QED
    <2>1. Allocated(g) \subseteq Allocated(h)
        BY <1>4
    <2>2. QED
        BY <1>14, <1>15, <1>16, <2>1, ZenonT(60) DEF Keeps, R

(***************************************************************************)
(* The sweep and the full collection.                                      *)
(***************************************************************************)
\* A sweep after a scavenge reclaims what tracing does not visit, no less
\* and no more.
LEMMA SweepKeeps ==
    ASSUME NEW h, NEW r, HeapOk(h, r), Young(h) \subseteq Reach(h.edges, r)
    PROVE  LET g == Swept(h, r)
           IN  /\ Keeps(g, h, r)
               /\ Allocated(g) = Reach(g.edges, r)
<1> DEFINE R == Reach(h.edges, r)
           dead == Old(h) \ R
           sp == [c \in Cells |-> IF c \in dead THEN "free" ELSE h.space[c]]
           ed == Dropped(h.edges, dead)
           re == h.remembered \cap R
           g == Swept(h, r)
<1>1. /\ h \in Heaps
      /\ h.space \in [Cells -> {"free", "young", "old"}]
      /\ h.edges \in Slots /\ h.survivors \in SUBSET Cells
      /\ h.remembered \in SUBSET Cells /\ h.stale = {}
    BY HeapFields DEF HeapOk, HeapTyped
<1>2. /\ h.survivors \subseteq Young(h)
      /\ h.remembered \subseteq Old(h)
      /\ \A p \in Old(h) : h.edges[p] \cap Young(h) # {} => p \in h.remembered
      /\ r \subseteq Allocated(h)
    BY DEF HeapOk, HeapTyped
<1>3. /\ r \subseteq R /\ R \subseteq Cells
      /\ \A p \in R : h.edges[p] \subseteq R
    <2>1. r \in SUBSET Cells
        BY <1>2 DEF Allocated
    <2>2. QED
        BY <1>1, <2>1, ReachClosed
<1>4. R \subseteq Allocated(h)
    BY ReachAllocated
<1>5. /\ g \in Heaps
      /\ g.space = sp /\ g.survivors = h.survivors /\ g.edges = ed
      /\ g.remembered = re /\ g.stale = {}
    <2>1. g = [space |-> sp, survivors |-> h.survivors, edges |-> ed,
               remembered |-> re, stale |-> h.stale]
        BY ZenonT(60) DEF Swept
    <2>2. sp \in [Cells -> {"free", "young", "old"}]
        BY <1>1
    <2>3. ed \in Slots
        BY <1>1 DEF Dropped, Slots
    <2>4. re \in SUBSET Cells
        BY <1>1
    <2> HIDE DEF sp, ed, re, g
    <2>5. h.stale \in SUBSET Cells
        BY <1>1
    <2>6. QED
        BY <1>1, <2>1, <2>2, <2>3, <2>4, <2>5, MakeHeap
<1>6. Young(g) = Young(h) /\ Old(g) = Old(h) \cap R /\ Allocated(g) = R
    <2>1. Young(g) = Young(h)
        BY <1>1, <1>5 DEF Young, Old
    <2>2. Old(g) = Old(h) \cap R
        BY <1>1, <1>5 DEF Old
    <2>3. Allocated(g) = R
        <3>1. \A c \in Cells : g.space[c] # "free" <=> h.space[c] # "free" /\ c \notin dead
            BY <1>1, <1>5
        <3>2. \A c \in Cells : h.space[c] # "free" => c \in Young(h) \/ c \in Old(h)
            BY <1>1 DEF Young, Old
        <3>3. QED
            BY <1>3, <1>4, <3>1, <3>2 DEF Allocated
    <2>4. QED
        BY <2>1, <2>2, <2>3
<1>7. \A p \in R : g.edges[p] = h.edges[p]
    BY <1>3, <1>5 DEF Dropped
<1>8. Reach(g.edges, r) = R
    <2>1. dead \cap R = {} /\ r \in SUBSET Cells
        BY <1>3
    <2>2. QED
        BY <1>1, <1>5, <2>1, ReachDropped
<1>9. HeapOk(g, r)
    <2> HIDE DEF R, g
    <2>1. HeapTyped(g)
        BY <1>2, <1>5, <1>6 DEF HeapTyped
    <2>2. ASSUME NEW p \in Old(g), g.edges[p] \cap Young(g) # {}
          PROVE  p \in g.remembered
        <3>1. p \in Old(h) /\ p \in R /\ g.remembered = h.remembered \cap R
            BY <1>5, <1>6
        <3>2. h.edges[p] \cap Young(h) # {}
            BY <1>6, <1>7, <2>2, <3>1
        <3>3. QED
            BY <1>2, <3>1, <3>2
    <2>3. r \subseteq Allocated(g) /\ \A p \in Allocated(g) : g.edges[p] \subseteq Allocated(g)
        BY <1>3, <1>6, <1>7
    <2>4. QED
        BY <1>5, <2>1, <2>2, <2>3, ZenonT(60) DEF HeapOk
<1>10. Keeps(g, h, r) /\ Allocated(g) = Reach(g.edges, r)
    <2> HIDE DEF R, g
    <2>1. Allocated(g) \subseteq Allocated(h)
        BY <1>4, <1>6
    <2>2. QED
        BY <1>6, <1>8, <1>9, <2>1, ZenonT(60) DEF Keeps, R
<1>11. QED
    BY <1>10, ZenonT(60)

\* Keeping is transitive.
LEMMA KeepsTransitive ==
    ASSUME NEW f, NEW g, NEW h, NEW r, Keeps(g, h, r), Keeps(f, g, r)
    PROVE  Keeps(f, h, r)
BY DEF Keeps

\* A full collection keeps what tracing visits and nothing else.
LEMMA FullKeeps ==
    ASSUME NEW h, NEW r, HeapOk(h, r), NEW g \in FullCollected(h, r)
    PROVE  Keeps(g, h, r) /\ Allocated(g) = Reach(g.edges, r)
<1>1. PICK f \in Scavenged(h, r) : g = Swept(f, r)
    BY DEF FullCollected
<1>2. Keeps(f, h, r) /\ Young(f) \subseteq Reach(f.edges, r)
    BY ScavengeKeeps
<1>3. Keeps(g, f, r) /\ Allocated(g) = Reach(g.edges, r)
    BY <1>1, <1>2, SweepKeeps DEF Keeps
<1>4. QED
    BY <1>2, <1>3, KeepsTransitive

\* The choices an allocation starts from.
LEMMA MaybeKeeps ==
    ASSUME NEW h, NEW r, HeapOk(h, r),
           NEW g \in {h} \cup Scavenged(h, r) \cup FullCollected(h, r)
    PROVE  Keeps(g, h, r)
<1>1. CASE g = h
    BY <1>1 DEF Keeps
<1>2. CASE g \in Scavenged(h, r)
    BY <1>2, ScavengeKeeps
<1>3. CASE g \in FullCollected(h, r)
    BY <1>3, FullKeeps
<1>4. QED
    BY <1>1, <1>2, <1>3

(***************************************************************************)
(* Sizes and the accounting.                                               *)
(***************************************************************************)
\* A heap has finitely many objects, so the bytes it holds are a number.
LEMMA SizeType ==
    ASSUME NEW h
    PROVE  IsFiniteSet(Allocated(h)) /\ Size(h) \in Nat
<1>1. Allocated(h) \subseteq Cells
    BY DEF Allocated
<1>2. IsFiniteSet(Allocated(h))
    BY <1>1, GcAssumption, FS_Subset
<1>3. QED
    BY <1>2, FS_CardinalityType DEF Size

\* Collecting never grows the heap.
LEMMA SizeShrinks ==
    ASSUME NEW g, NEW h, Allocated(g) \subseteq Allocated(h)
    PROVE  Size(g) <= Size(h)
BY SizeType, FS_Subset DEF Size

\* Booking n: the heap stays in order and the counter covers it, with n to
\* spare when the request was granted.
LEMMA AccountedKeeps ==
    ASSUME NEW h, NEW r, HeapOk(h, r), NEW n \in Nat,
           tracked \in Nat, reserved \in Nat, Size(h) + reserved <= tracked,
           NEW a \in Accounted(h, r, n)
    PROVE  /\ Keeps(a.heap, h, r)
           /\ a.tracked \in Nat
           /\ Size(a.heap) + reserved <= a.tracked
           /\ a.ok => Size(a.heap) + reserved + n <= a.tracked
<1>1. CASE tracked + n <= Cap
    <2>1. a = [heap |-> h, tracked |-> tracked + n, ok |-> TRUE]
        BY <1>1, ZenonT(60) DEF Accounted
    <2>2. a.heap = h /\ a.tracked = tracked + n
        BY <2>1
    <2>3. Keeps(h, h, r)
        BY DEF Keeps
    <2>4. QED
        BY <2>2, <2>3, SizeType
<1>2. CASE ~(tracked + n <= Cap)
    <2>1. PICK f \in FullCollected(h, r) :
              a = [heap |-> f,
                   tracked |-> IF Size(f) + reserved + n <= Cap
                               THEN Size(f) + reserved + n ELSE Size(f) + reserved,
                   ok |-> Size(f) + reserved + n <= Cap]
        BY <1>2, ZenonT(60) DEF Accounted
    <2>2. /\ a.heap = f
          /\ a.tracked = IF Size(f) + reserved + n <= Cap
                         THEN Size(f) + reserved + n ELSE Size(f) + reserved
          /\ a.ok = (Size(f) + reserved + n <= Cap)
        BY <2>1
    <2>3. Keeps(f, h, r)
        BY FullKeeps
    <2>4. Size(f) \in Nat
        BY SizeType
    <2>5. CASE Size(f) + reserved + n <= Cap
        BY <2>2, <2>3, <2>4, <2>5
    <2>6. CASE ~(Size(f) + reserved + n <= Cap)
        <3>1. a.tracked = Size(f) + reserved
            BY <2>2, <2>6
        <3>2. ~a.ok
            BY <2>2, <2>6, ZenonT(60)
        <3>3. QED
            BY <2>2, <2>3, <2>4, <3>1, <3>2
    <2>7. QED
        BY <2>5, <2>6
<1>3. QED
    BY <1>1, <1>2

\* Making room for an object keeps the heap in order.
LEMMA RoomsKeeps ==
    ASSUME NEW h, NEW r, HeapOk(h, r), NEW large, NEW room \in Rooms(h, r, large)
    PROVE  Keeps(room.heap, h, r) /\ room.space \in {"young", "old"}
<1>1. Keeps(h, h, r)
    BY DEF Keeps
<1>2. CASE room.heap = h /\ room.space \in {"young", "old"}
    BY <1>1, <1>2
<1>3. CASE \E s \in Scavenged(h, r) : room.heap = s /\ room.space \in {"young", "old"}
    BY <1>3, ScavengeKeeps
<1>4. QED
    BY <1>2, <1>3 DEF Rooms

(***************************************************************************)
(* The placement of a new object, and a store into an old one.             *)
(***************************************************************************)
\* Placing an object allocates its cell and no other.
LEMMA PlacedAllocated ==
    ASSUME NEW h \in Heaps, NEW c \in Cells, NEW sp, sp \in {"young", "old"}, NEW children
    PROVE  Allocated(Placed(h, c, sp, children)) = Allocated(h) \cup {c}
<1>1. h.space \in [Cells -> {"free", "young", "old"}]
    BY HeapFields
<1>2. Placed(h, c, sp, children).space = [h.space EXCEPT ![c] = sp]
    BY DEF Placed
<1>3. QED
    BY <1>1, <1>2 DEF Allocated

\* A new object with children that are roots of the collection before it.
LEMMA PlacedOk ==
    ASSUME NEW h, NEW r, NEW q, NEW children, HeapOk(h, r), children \subseteq r,
           NEW c \in Cells, c \notin Allocated(h), NEW sp, sp \in {"young", "old"},
           \A x \in q : x = c \/ x \in r
    PROVE  HeapOk(Placed(h, c, sp, children), q)
<1> DEFINE g == Placed(h, c, sp, children)
<1> HIDE DEF g
<1>1. /\ HeapTyped(h)
      /\ \A p \in Old(h) : h.edges[p] \cap Young(h) # {} => p \in h.remembered
      /\ r \subseteq Allocated(h)
      /\ \A p \in Allocated(h) : h.edges[p] \subseteq Allocated(h)
      /\ h.stale = {}
    BY DEF HeapOk
<1>2. /\ h \in Heaps /\ h.survivors \subseteq Young(h) /\ h.remembered \subseteq Old(h)
      /\ children \in SUBSET Cells
    BY <1>1 DEF HeapTyped, Allocated
<1>3. h.space \in [Cells -> {"free", "young", "old"}] /\ h.edges \in Slots
    BY <1>2, HeapFields
<1>4. /\ g \in Heaps
      /\ g.space = [h.space EXCEPT ![c] = sp]
      /\ g.edges = [h.edges EXCEPT ![c] = children]
      /\ g.survivors = h.survivors
      /\ g.stale = h.stale \ {c}
      /\ g.remembered = IF sp = "old" /\ children \cap Young(h) # {}
                        THEN h.remembered \cup {c} ELSE h.remembered
    <2> DEFINE a == [h.space EXCEPT ![c] = sp]
               ed == [h.edges EXCEPT ![c] = children]
               re == Barrier(h, c, sp, children)
               st == h.stale \ {c}
    <2>1. h.survivors \in SUBSET Cells /\ h.remembered \in SUBSET Cells
          /\ h.stale \in SUBSET Cells
        BY <1>2, HeapFields
    <2>2. /\ a \in [Cells -> {"free", "young", "old"}] /\ ed \in Slots
          /\ re \in SUBSET Cells /\ st \in SUBSET Cells
        BY <1>2, <1>3, <2>1 DEF Slots, Barrier
    <2>3. re = IF sp = "old" /\ children \cap Young(h) # {}
               THEN h.remembered \cup {c} ELSE h.remembered
        BY ZenonT(60) DEF Barrier
    <2>4. g = [space |-> a, survivors |-> h.survivors, edges |-> ed,
               remembered |-> re, stale |-> st]
        BY ZenonT(60) DEF g, Placed
    <2> HIDE DEF a, ed, re, st
    <2>5. /\ g \in Heaps /\ g.space = a /\ g.survivors = h.survivors /\ g.edges = ed
          /\ g.remembered = re /\ g.stale = st
        BY <2>1, <2>2, <2>4, MakeHeap
    <2>6. QED
        BY <2>3, <2>5 DEF a, ed, st
<1>5. Allocated(g) = Allocated(h) \cup {c}
    BY <1>3, <1>4 DEF Allocated
<1>6. Young(g) = Young(h) \cup (IF sp = "young" THEN {c} ELSE {})
    BY <1>3, <1>4 DEF Allocated, Young
<1>7. Old(g) = Old(h) \cup (IF sp = "old" THEN {c} ELSE {})
    BY <1>3, <1>4 DEF Allocated, Old
<1>8. /\ g.edges[c] = children
      /\ \A p \in Cells : p # c => g.edges[p] = h.edges[p]
    BY <1>3, <1>4 DEF Slots
<1>9. HeapTyped(g)
    BY <1>2, <1>4, <1>6, <1>7 DEF HeapTyped
<1>10. ASSUME NEW p \in Old(g), g.edges[p] \cap Young(g) # {}
       PROVE  p \in g.remembered
    <2>1. CASE p = c
        <3>1. sp = "old"
            BY <1>3, <1>4, <2>1 DEF Old
        <3>2. children \cap Young(h) # {}
            BY <1>6, <1>8, <1>10, <2>1, <3>1
        <3>3. QED
            BY <1>4, <2>1, <3>1, <3>2
    <2>2. CASE p # c
        <3>1. p \in Old(h) /\ p \in Allocated(h) /\ p \in Cells
            BY <1>7, <2>2 DEF Old, Allocated
        <3>2. c \notin h.edges[p]
            BY <1>1, <3>1
        <3>3. h.edges[p] \cap Young(h) # {}
            BY <1>6, <1>8, <1>10, <2>2, <3>1, <3>2
        <3>4. QED
            BY <1>1, <1>4, <3>1, <3>3
    <2>3. QED
        BY <2>1, <2>2
<1>11. q \subseteq Allocated(g)
    BY <1>1, <1>5
<1>12. ASSUME NEW p \in Allocated(g)
       PROVE  g.edges[p] \subseteq Allocated(g)
    <2>1. CASE p = c
        BY <1>1, <1>5, <1>8, <2>1
    <2>2. CASE p # c
        <3>1. p \in Allocated(h) /\ p \in Cells
            BY <1>5, <2>2 DEF Allocated
        <3>2. QED
            BY <1>1, <1>5, <1>8, <2>2, <3>1
    <2>3. QED
        BY <2>1, <2>2
<1>13. QED
    <2>1. /\ \A p \in Old(g) : g.edges[p] \cap Young(g) # {} => p \in g.remembered
          /\ \A p \in Allocated(g) : g.edges[p] \subseteq Allocated(g)
        BY <1>10, <1>12
    <2>2. g.stale = {}
        BY <1>1, <1>4
    <2>3. QED
        BY <1>9, <1>11, <2>1, <2>2, ZenonT(60) DEF HeapOk, g

\* Publishing in a heap in order, with bytes already booked for it.
LEMMA PublishOk ==
    ASSUME NEW h, NEW r, NEW held, NEW children, HeapOk(h, r),
           held \cup children \subseteq r,
           NEW sp \in {"young", "old"}, Publish(h, sp, children, held)
    PROVE  /\ HeapOk(heap', roots')
           /\ Size(heap') <= Size(h) + 1
           /\ Allocated(h) \subseteq Allocated(heap')
<1>1. HeapOk(h, held)
    BY ZenonT(60) DEF HeapOk
<1>2. CASE Allocated(h) = Cells /\ heap' = h /\ roots' = held
    BY <1>1, <1>2, SizeType
<1>3. ASSUME NEW c \in Cells \ Allocated(h),
             heap' = Placed(h, c, sp, children), roots' = held \cup {c}
      PROVE  /\ HeapOk(heap', roots')
             /\ Size(heap') <= Size(h) + 1
             /\ Allocated(h) \subseteq Allocated(heap')
    <2>1. c \in Cells /\ c \notin Allocated(h) /\ children \subseteq r
          /\ \A x \in roots' : x = c \/ x \in r
        BY <1>3
    <2>2. HeapOk(Placed(h, c, sp, children), roots')
        BY <2>1, PlacedOk, ZenonT(60)
    <2>3. Allocated(Placed(h, c, sp, children)) = Allocated(h) \cup {c}
        BY <2>1, PlacedAllocated, ZenonT(60) DEF HeapOk, HeapTyped
    <2>4. HeapOk(heap', roots') /\ Allocated(heap') = Allocated(h) \cup {c}
        BY <1>3, <2>2, <2>3, ZenonT(60)
    <2>5. Size(heap') = Size(h) + 1
        <3>1. IsFiniteSet(Allocated(h)) /\ c \notin Allocated(h)
            BY SizeType
        <3>2. QED
            BY <2>4, <3>1, FS_AddElement DEF Size
    <2>6. QED
        BY <2>4, <2>5, SizeType
<1>4. QED
    BY <1>2, <1>3 DEF Publish, Place, CageExhausted

\* A store into p whose parent is remembered when it must be.
LEMMA StoredOk ==
    ASSUME NEW h, NEW r, HeapOk(h, r), NEW p, p \in Allocated(h),
           NEW slots, slots \subseteq Allocated(h),
           NEW re, h.remembered \subseteq re, re \subseteq Old(h),
           p \in Old(h) /\ slots \cap Young(h) # {} => p \in re
    PROVE  /\ HeapOk(Stored(h, p, slots, re), r)
           /\ Allocated(Stored(h, p, slots, re)) = Allocated(h)
<1> DEFINE g == Stored(h, p, slots, re)
           ed == [h.edges EXCEPT ![p] = slots]
<1>1. /\ h \in Heaps /\ h.survivors \subseteq Young(h) /\ h.remembered \subseteq Old(h)
      /\ \A q \in Old(h) : h.edges[q] \cap Young(h) # {} => q \in h.remembered
      /\ r \subseteq Allocated(h)
      /\ \A q \in Allocated(h) : h.edges[q] \subseteq Allocated(h)
      /\ h.stale = {}
    BY DEF HeapOk, HeapTyped
<1>2. /\ h.space \in [Cells -> {"free", "young", "old"}]
      /\ h.survivors \in SUBSET Cells /\ h.edges \in Slots /\ h.stale \in SUBSET Cells
    BY <1>1, HeapFields
<1>3. /\ ed \in Slots /\ re \in SUBSET Cells
      /\ ed[p] = slots
      /\ \A q \in Cells : q # p => ed[q] = h.edges[q]
    BY <1>2 DEF Slots, Allocated, Old
<1>4. g = [space |-> h.space, survivors |-> h.survivors, edges |-> ed,
           remembered |-> re, stale |-> h.stale]
    BY ZenonT(60) DEF Stored
<1> HIDE DEF g, ed
<1>5. /\ g \in Heaps /\ g.space = h.space /\ g.survivors = h.survivors /\ g.edges = ed
      /\ g.remembered = re /\ g.stale = h.stale
    BY <1>2, <1>3, <1>4, MakeHeap
<1>6. Young(g) = Young(h) /\ Old(g) = Old(h) /\ Allocated(g) = Allocated(h)
    BY <1>5 DEF Young, Old, Allocated
<1>7. HeapTyped(g)
    BY <1>1, <1>5, <1>6 DEF HeapTyped
<1>8. \A q \in Old(g) : g.edges[q] \cap Young(g) # {} => q \in g.remembered
    <2> SUFFICES ASSUME NEW q \in Old(h), ed[q] \cap Young(h) # {}
                 PROVE  q \in re
        BY <1>5, <1>6
    <2>1. CASE q = p
        BY <1>3, <2>1
    <2>2. CASE q # p
        <3>1. q \in Cells
            BY DEF Old
        <3>2. QED
            BY <1>1, <1>3, <2>2, <3>1
    <2>3. QED
        BY <2>1, <2>2
<1>9. \A q \in Allocated(g) : g.edges[q] \subseteq Allocated(g)
    <2> SUFFICES ASSUME NEW q \in Allocated(h)
                 PROVE  ed[q] \subseteq Allocated(h)
        BY <1>5, <1>6
    <2>1. q \in Cells
        BY DEF Allocated
    <2>2. QED
        BY <1>1, <1>3, <2>1
<1>10. r \subseteq Allocated(g) /\ g.stale = {}
    BY <1>1, <1>5, <1>6
<1>11. HeapOk(g, r)
    BY <1>7, <1>8, <1>9, <1>10, ZenonT(60) DEF HeapOk
<1>12. QED
    BY <1>6, <1>11 DEF g

(***************************************************************************)
(* The inductive invariant.                                                *)
(***************************************************************************)
IInv ==
    /\ HeapOk(heap, roots)
    /\ tracked \in Nat
    /\ reserved \in Nat
    /\ oom \in BOOLEAN
    /\ NeverUndercounts

\* What every step guarantees.
StepOk == IInv' /\ Live \subseteq Allocated(heap')

\* A collection from r is a collection from what the mutator can name.
LEMMA RootsAs ==
    ASSUME IInv, NEW r, roots \subseteq r, r \subseteq Live
    PROVE  HeapOk(heap, r) /\ Reach(heap.edges, r) = Live
<1>1. HeapOk(heap, roots) /\ Live \subseteq Allocated(heap)
    BY ReachAllocated DEF IInv, Live
<1>2. HeapOk(heap, r)
    BY <1>1 DEF HeapOk
<1>3. heap.edges \in Slots /\ roots \in SUBSET Cells
    BY <1>1, HeapFields DEF HeapOk, HeapTyped, Allocated
<1>4. QED
    BY <1>2, <1>3, ReachSame DEF Live

\* A collection from r keeps what the mutator can name.
LEMMA KeptLive ==
    ASSUME NEW r, NEW g, Keeps(g, heap, r), Reach(heap.edges, r) = Live
    PROVE  Live \subseteq Allocated(g) /\ Size(g) <= Size(heap)
BY ReachAllocated, SizeShrinks DEF Keeps

\* The roots may shrink.
LEMMA FewerRoots ==
    ASSUME NEW h, NEW r, NEW t, HeapOk(h, r), t \subseteq r
    PROVE  HeapOk(h, t)
BY ZenonT(60) DEF HeapOk

\* An allocation that published: the booked unit covers the new object.
LEMMA PublishStep ==
    ASSUME NEW r, NEW held, NEW children, NEW h, NEW sp \in {"young", "old"},
           held \cup children \subseteq r, Keeps(h, heap, r),
           Reach(heap.edges, r) = Live, Publish(h, sp, children, held),
           tracked' \in Nat, reserved' \in Nat, oom' \in BOOLEAN,
           Size(h) + reserved' + 1 <= tracked'
    PROVE  StepOk
<1>1. HeapOk(h, r) /\ Live \subseteq Allocated(h)
    BY KeptLive DEF Keeps
<1>2. /\ HeapOk(heap', roots')
      /\ Size(heap') <= Size(h) + 1
      /\ Allocated(h) \subseteq Allocated(heap')
    BY <1>1, PublishOk, ZenonT(60)
<1>3. Size(heap') + reserved' <= tracked'
    BY <1>2, SizeType
<1>4. QED
    BY <1>1, <1>2, <1>3 DEF StepOk, IInv, NeverUndercounts

\* A refused allocation: the caller sees HeapCapExceeded.
LEMMA RefusedStep ==
    ASSUME NEW r, NEW h, roots' \subseteq r, Keeps(h, heap, r),
           Reach(heap.edges, r) = Live, heap' = h,
           tracked' \in Nat, reserved' \in Nat, oom' \in BOOLEAN,
           Size(h) + reserved' <= tracked'
    PROVE  StepOk
<1>1. HeapOk(h, r) /\ Live \subseteq Allocated(h)
    BY KeptLive DEF Keeps
<1>2. HeapOk(h, roots')
    BY <1>1, FewerRoots, ZenonT(60)
<1>3. HeapOk(heap', roots') /\ Live \subseteq Allocated(heap')
    BY <1>1, <1>2, ZenonT(60)
<1>4. Size(heap') + reserved' <= tracked'
    OBVIOUS
<1>5. QED
    BY <1>3, <1>4 DEF StepOk, IInv, NeverUndercounts

\* alloc_with_roots, whichever collections it triggers on the way.
LEMMA AllocWithRootsStep ==
    ASSUME IInv, NEW children, NEW held, NEW large, roots \subseteq held \cup children,
           held \cup children \subseteq Live, alloc_with_roots(children, held, large)
    PROVE  StepOk
<1> DEFINE r == held \cup children
<1> DEFINE Rest(a) ==
        /\ tracked' = a.tracked
        /\ UNCHANGED reserved
        /\ \/ /\ a.ok
              /\ \E room \in Rooms(a.heap, r, large) :
                     Publish(room.heap, room.space, children, held)
              /\ UNCHANGED oom
           \/ /\ ~a.ok
              /\ heap' = a.heap
              /\ roots' = held
              /\ oom' = TRUE
<1>0. PICK g \in {heap} \cup Scavenged(heap, r) \cup FullCollected(heap, r) :
        \E a \in Accounted(g, r, 1) : Rest(a)
    BY ZenonT(60) DEF alloc_with_roots
<1>1. PICK a \in Accounted(g, r, 1) : Rest(a)
    BY <1>0, ZenonT(60)
<1>2. roots \subseteq r /\ r \subseteq Live /\ held \subseteq r /\ held \cup children \subseteq r
    OBVIOUS
<1> HIDE DEF r
<1>3. HeapOk(heap, r) /\ Reach(heap.edges, r) = Live
    BY <1>2, RootsAs
<1>4. Keeps(g, heap, r) /\ HeapOk(g, r)
    BY <1>0, <1>3, MaybeKeeps DEF Keeps
<1>5. /\ tracked \in Nat /\ reserved \in Nat /\ oom \in BOOLEAN
      /\ Size(g) + reserved <= tracked
    BY <1>3, <1>4, KeptLive, SizeType DEF IInv, NeverUndercounts
<1>6. /\ Keeps(a.heap, g, r) /\ a.tracked \in Nat
      /\ Size(a.heap) + reserved <= a.tracked
      /\ a.ok => Size(a.heap) + reserved + 1 <= a.tracked
    <2>1. a \in Accounted(g, r, 1) /\ 1 \in Nat
        BY <1>1
    <2>2. QED
        BY <1>4, <1>5, <2>1, AccountedKeeps
<1>7. Keeps(a.heap, heap, r) /\ HeapOk(a.heap, r)
    BY <1>4, <1>6, KeepsTransitive DEF Keeps
<1>8. CASE /\ a.ok
           /\ \E room \in Rooms(a.heap, r, large) :
                  Publish(room.heap, room.space, children, held)
           /\ UNCHANGED oom
    <2>1. PICK room \in Rooms(a.heap, r, large) :
              Publish(room.heap, room.space, children, held)
        BY <1>8
    <2>2. Keeps(room.heap, a.heap, r) /\ room.space \in {"young", "old"}
        BY <1>7, <2>1, RoomsKeeps
    <2>3. Keeps(room.heap, heap, r)
        BY <1>7, <2>2, KeepsTransitive
    <2>4. Size(room.heap) <= Size(a.heap)
        BY <2>2, SizeShrinks DEF Keeps
    <2>5. Size(room.heap) + reserved' + 1 <= tracked'
        BY <1>1, <1>5, <1>6, <1>8, <2>4, SizeType
    <2>6. tracked' \in Nat /\ reserved' \in Nat /\ oom' \in BOOLEAN
        BY <1>1, <1>5, <1>6, <1>8
    <2>7. QED
        BY <1>2, <1>3, <2>1, <2>2, <2>3, <2>5, <2>6, PublishStep, ZenonT(60)
<1>9. CASE /\ ~a.ok
           /\ heap' = a.heap
           /\ roots' = held
           /\ oom' = TRUE
    <2>1. /\ tracked' \in Nat /\ reserved' \in Nat /\ oom' \in BOOLEAN
          /\ Size(a.heap) + reserved' <= tracked' /\ roots' \subseteq r
        BY <1>1, <1>2, <1>5, <1>6, <1>9
    <2>2. QED
        BY <1>3, <1>7, <1>9, <2>1, RefusedStep
<1>10. QED
    BY <1>1, <1>8, <1>9, ZenonT(60)

\* alloc_old.
LEMMA AllocOldStep ==
    ASSUME IInv, NEW children, NEW held, roots \subseteq held \cup children,
           held \cup children \subseteq Live, alloc_old(children, held)
    PROVE  StepOk
<1> DEFINE r == held \cup children
<1>1. PICK a \in Accounted(heap, r, 1) :
        /\ tracked' = a.tracked
        /\ UNCHANGED reserved
        /\ \/ /\ a.ok
              /\ Publish(a.heap, "old", children, held)
              /\ UNCHANGED oom
           \/ /\ ~a.ok
              /\ heap' = a.heap
              /\ roots' = held
              /\ oom' = TRUE
    BY ZenonT(60) DEF alloc_old
<1>2. roots \subseteq r /\ r \subseteq Live /\ held \subseteq r /\ held \cup children \subseteq r
    OBVIOUS
<1> HIDE DEF r
<1>3. HeapOk(heap, r) /\ Reach(heap.edges, r) = Live
    BY <1>2, RootsAs
<1>4. /\ tracked \in Nat /\ reserved \in Nat /\ oom \in BOOLEAN
      /\ Size(heap) + reserved <= tracked
    BY DEF IInv, NeverUndercounts
<1>5. /\ Keeps(a.heap, heap, r) /\ a.tracked \in Nat
      /\ Size(a.heap) + reserved <= a.tracked
      /\ a.ok => Size(a.heap) + reserved + 1 <= a.tracked
    <2>1. a \in Accounted(heap, r, 1) /\ 1 \in Nat
        BY <1>1
    <2>2. QED
        BY <1>3, <1>4, <2>1, AccountedKeeps
<1>6. CASE a.ok /\ Publish(a.heap, "old", children, held) /\ UNCHANGED oom
    <2>1. /\ tracked' \in Nat /\ reserved' \in Nat /\ oom' \in BOOLEAN
          /\ Size(a.heap) + reserved' + 1 <= tracked'
        BY <1>1, <1>4, <1>5, <1>6
    <2>2. QED
        <3>1. "old" \in {"young", "old"}
            OBVIOUS
        <3>2. QED
            BY <1>2, <1>3, <1>5, <1>6, <2>1, <3>1, PublishStep, ZenonT(60)
<1>7. CASE ~a.ok /\ heap' = a.heap /\ roots' = held /\ oom' = TRUE
    <2>1. /\ tracked' \in Nat /\ reserved' \in Nat /\ oom' \in BOOLEAN
          /\ Size(a.heap) + reserved' <= tracked' /\ roots' \subseteq r
        BY <1>1, <1>2, <1>4, <1>5, <1>7
    <2>2. QED
        BY <1>3, <1>5, <1>7, <2>1, RefusedStep
<1>8. QED
    BY <1>1, <1>6, <1>7, ZenonT(60)

\* alloc_old_diagnostic recounts after it places the object.
LEMMA AllocOldDiagnosticStep ==
    ASSUME IInv, NEW children, NEW held, roots \subseteq held \cup children,
           held \cup children \subseteq Live, alloc_old_diagnostic(children, held)
    PROVE  StepOk
<1> DEFINE r == held \cup children
<1>1. roots \subseteq r /\ r \subseteq Live /\ held \cup children \subseteq r
    OBVIOUS
<1> HIDE DEF r
<1>2. HeapOk(heap, r) /\ Live \subseteq Allocated(heap)
    BY <1>1, RootsAs, ReachAllocated DEF IInv, Live
<1>3. /\ Publish(heap, "old", children, held)
      /\ reserved' = reserved /\ oom' = oom
      /\ \/ tracked' = Size(heap') + reserved
         \/ tracked' = tracked /\ heap' = heap
    BY DEF alloc_old_diagnostic, Publish, CageExhausted
<1>4. /\ HeapOk(heap', roots')
      /\ Allocated(heap) \subseteq Allocated(heap')
    BY <1>1, <1>2, <1>3, PublishOk
<1>5. Size(heap') \in Nat
    BY SizeType, ZenonT(60)
<1>6. /\ tracked' \in Nat /\ reserved' \in Nat /\ oom' \in BOOLEAN
      /\ Size(heap') + reserved' <= tracked'
    BY <1>3, <1>5 DEF IInv, NeverUndercounts
<1>7. QED
    BY <1>2, <1>4, <1>6 DEF StepOk, IInv, NeverUndercounts

\* A step that leaves the counters alone.
LEMMA HeapStep ==
    ASSUME IInv, HeapOk(heap', roots'), Live \subseteq Allocated(heap'),
           Size(heap') <= Size(heap), UNCHANGED <<tracked, reserved, oom>>
    PROVE  StepOk
<1>1. /\ tracked' = tracked /\ reserved' = reserved /\ oom' = oom
      /\ tracked \in Nat /\ reserved \in Nat /\ oom \in BOOLEAN
      /\ Size(heap) + reserved <= tracked
    BY DEF IInv, NeverUndercounts
<1>2. Size(heap') \in Nat /\ Size(heap) \in Nat
    BY SizeType, ZenonT(60)
<1>3. Size(heap') + reserved' <= tracked'
    BY <1>1, <1>2
<1>4. QED
    BY <1>1, <1>3 DEF StepOk, IInv, NeverUndercounts

\* A step that leaves the heap alone.
LEMMA BookStep ==
    ASSUME IInv, UNCHANGED heap, HeapOk(heap, roots'), tracked' \in Nat, reserved' \in Nat,
           oom' \in BOOLEAN, Size(heap) + reserved' <= tracked'
    PROVE  StepOk
<1>1. Live \subseteq Allocated(heap)
    BY ReachAllocated DEF IInv, Live
<1>2. HeapOk(heap', roots') /\ Live \subseteq Allocated(heap')
      /\ Size(heap') + reserved' <= tracked'
    BY <1>1
<1>3. QED
    BY <1>2 DEF StepOk, IInv, NeverUndercounts

\* A store with its barrier, or the clearing of a slot.
LEMMA StoreStep ==
    ASSUME IInv, NEW p \in Live,
           (\E c \in Live : record_write(p, c)) \/ (\E c \in heap.edges[p] : clear_slot(p, c))
    PROVE  StepOk
<1>1. /\ HeapOk(heap, roots) /\ Live \subseteq Allocated(heap)
    BY ReachAllocated DEF IInv, Live
<1>2. /\ p \in Allocated(heap) /\ p \in Cells /\ heap.edges[p] \subseteq Allocated(heap)
      /\ heap.remembered \subseteq Old(heap)
      /\ p \in Old(heap) /\ heap.edges[p] \cap Young(heap) # {} => p \in heap.remembered
    BY <1>1 DEF HeapOk, HeapTyped, Allocated
<1>3. PICK slots, re :
          /\ slots \subseteq Allocated(heap)
          /\ heap.remembered \subseteq re /\ re \subseteq Old(heap)
          /\ p \in Old(heap) /\ slots \cap Young(heap) # {} => p \in re
          /\ heap' = Stored(heap, p, slots, re)
          /\ UNCHANGED <<roots, tracked, reserved, oom>>
    <2>1. ASSUME NEW c \in Live, record_write(p, c)
          PROVE  \E slots, re :
                    /\ slots \subseteq Allocated(heap)
                    /\ heap.remembered \subseteq re /\ re \subseteq Old(heap)
                    /\ p \in Old(heap) /\ slots \cap Young(heap) # {} => p \in re
                    /\ heap' = Stored(heap, p, slots, re)
                    /\ UNCHANGED <<roots, tracked, reserved, oom>>
        <3> DEFINE slots == heap.edges[p] \cup {c}
                   re == Barrier(heap, p, heap.space[p], {c})
        <3>1. heap' = Stored(heap, p, slots, re) /\ UNCHANGED <<roots, tracked, reserved, oom>>
            BY <2>1, ZenonT(60) DEF record_write
        <3>2. slots \subseteq Allocated(heap)
            BY <1>1, <1>2
        <3>3. /\ heap.remembered \subseteq re /\ re \subseteq Old(heap)
              /\ p \in Old(heap) /\ slots \cap Young(heap) # {} => p \in re
            BY <1>2 DEF Barrier, Old
        <3> HIDE DEF slots, re
        <3>4. QED
            BY <3>1, <3>2, <3>3, ZenonT(60)
    <2>2. ASSUME NEW c \in heap.edges[p], clear_slot(p, c)
          PROVE  \E slots, re :
                    /\ slots \subseteq Allocated(heap)
                    /\ heap.remembered \subseteq re /\ re \subseteq Old(heap)
                    /\ p \in Old(heap) /\ slots \cap Young(heap) # {} => p \in re
                    /\ heap' = Stored(heap, p, slots, re)
                    /\ UNCHANGED <<roots, tracked, reserved, oom>>
        <3> DEFINE slots == heap.edges[p] \ {c}
        <3>1. /\ heap' = Stored(heap, p, slots, heap.remembered)
              /\ UNCHANGED <<roots, tracked, reserved, oom>>
            BY <2>2, ZenonT(60) DEF clear_slot
        <3>2. /\ slots \subseteq Allocated(heap)
              /\ heap.remembered \subseteq heap.remembered
              /\ p \in Old(heap) /\ slots \cap Young(heap) # {} => p \in heap.remembered
            BY <1>2
        <3> HIDE DEF slots
        <3>3. QED
            BY <1>2, <3>1, <3>2, ZenonT(60)
    <2>3. QED
        BY <2>1, <2>2, ZenonT(60)
<1>4. /\ HeapOk(Stored(heap, p, slots, re), roots)
      /\ Allocated(Stored(heap, p, slots, re)) = Allocated(heap)
    BY <1>1, <1>2, <1>3, StoredOk, ZenonT(60)
<1>5. HeapOk(heap', roots') /\ Allocated(heap') = Allocated(heap)
    <2>1. roots' = roots
        BY <1>3
    <2>2. QED
        BY <1>3, <1>4, <2>1, ZenonT(60)
<1>6. Size(heap') <= Size(heap)
    BY <1>5, SizeType DEF Size
<1>7. QED
    BY <1>1, <1>3, <1>5, <1>6, HeapStep

\* A root is pushed or popped.
LEMMA RootsStep ==
    ASSUME IInv, (\E c \in Live : push_root(c)) \/ (\E c \in roots : pop_root(c))
    PROVE  StepOk
<1>0. HeapOk(heap, roots)
    BY DEF IInv
<1>1. Live \subseteq Allocated(heap) /\ roots \subseteq Allocated(heap)
    <2>1. Live \subseteq Allocated(heap)
        BY <1>0, ReachAllocated DEF Live
    <2>2. QED
        BY <1>0, <2>1, ZenonT(60) DEF HeapOk
<1>2. roots' \subseteq Allocated(heap) /\ UNCHANGED <<heap, tracked, reserved, oom>>
    BY <1>1 DEF push_root, pop_root
<1>3. HeapOk(heap, roots')
    BY <1>0, <1>2, ZenonT(60) DEF HeapOk
<1>4. QED
    BY <1>2, <1>3, BookStep DEF IInv, NeverUndercounts

\* What the two collections do to the roots and to what they reach.
LEMMA CollectStep ==
    ASSUME IInv, NEW g, Keeps(g, heap, roots), heap' = g,
           UNCHANGED <<roots, tracked, reserved, oom>>
    PROVE  StepOk
<1>1. Reach(heap.edges, roots) = Live
    BY DEF Live
<1>2. /\ HeapOk(g, roots) /\ Live \subseteq Allocated(g) /\ Size(g) <= Size(heap)
    BY <1>1, KeptLive DEF Keeps
<1>3. roots' = roots
    OBVIOUS
<1>4. HeapOk(heap', roots') /\ Live \subseteq Allocated(heap') /\ Size(heap') <= Size(heap)
    BY <1>2, <1>3
<1>5. QED
    BY <1>4, HeapStep

\* reserve_bytes and reserve_bytes_no_collect.
LEMMA ReserveStep ==
    ASSUME IInv, NEW n \in Nat, reserve_bytes(n) \/ reserve_bytes_no_collect(n)
    PROVE  StepOk
<1>1. /\ HeapOk(heap, roots) /\ tracked \in Nat /\ reserved \in Nat /\ oom \in BOOLEAN
      /\ Size(heap) + reserved <= tracked /\ Size(heap) \in Nat
    BY SizeType DEF IInv, NeverUndercounts
<1>2. roots' = roots
    BY DEF reserve_bytes, reserve_bytes_no_collect
<1>3. CASE n > Cap /\ oom' = TRUE /\ UNCHANGED <<heap, tracked, reserved>>
    BY <1>1, <1>2, <1>3, BookStep
<1>4. ASSUME NEW a \in Accounted(heap, roots, n), heap' = a.heap, tracked' = a.tracked,
             reserved' = (IF a.ok THEN reserved + n ELSE reserved), oom' = (oom \/ ~a.ok)
      PROVE  StepOk
    <2>1. /\ Keeps(a.heap, heap, roots) /\ a.tracked \in Nat
          /\ Size(a.heap) + reserved <= a.tracked
          /\ a.ok => Size(a.heap) + reserved + n <= a.tracked
        BY <1>1, <1>4, AccountedKeeps
    <2>2. /\ tracked' \in Nat /\ reserved' \in Nat
          /\ Size(a.heap) + reserved' <= tracked'
        BY <1>1, <1>4, <2>1, SizeType
    <2>3. oom' \in BOOLEAN
        BY <1>4
    <2>4. roots' \subseteq roots /\ Reach(heap.edges, roots) = Live
        BY <1>2 DEF Live
    <2>5. QED
        BY <1>4, <2>1, <2>2, <2>3, <2>4, RefusedStep
<1>5. CASE reserve_bytes_no_collect(n)
    <2>1. /\ UNCHANGED heap /\ tracked' \in Nat /\ reserved' \in Nat
          /\ Size(heap) + reserved' <= tracked'
        BY <1>1, <1>5 DEF reserve_bytes_no_collect
    <2>2. oom' \in BOOLEAN
        BY <1>1, <1>5, ZenonT(60) DEF reserve_bytes_no_collect
    <2>3. QED
        BY <1>1, <1>2, <2>1, <2>2, BookStep
<1>6. QED
    BY <1>3, <1>4, <1>5, ZenonT(60) DEF reserve_bytes

\* release_bytes gives back no more than is booked.
LEMMA ReleaseStep ==
    ASSUME IInv, NEW n \in Nat, release_bytes(n)
    PROVE  StepOk
<1>1. /\ HeapOk(heap, roots) /\ tracked \in Nat /\ reserved \in Nat /\ oom \in BOOLEAN
      /\ Size(heap) + reserved <= tracked /\ Size(heap) \in Nat
    BY SizeType DEF IInv, NeverUndercounts
<1>2. /\ UNCHANGED <<heap, roots, oom>> /\ tracked' \in Nat /\ reserved' \in Nat
      /\ Size(heap) + reserved' <= tracked'
    BY <1>1 DEF release_bytes
<1>3. QED
    BY <1>1, <1>2, BookStep

\* An allocation's children and held roots, between them, are what the
\* mutator held, and nothing it could not name.
LEMMA Operands ==
    ASSUME IInv, NEW children \in {{}} \cup {{c} : c \in Live},
           NEW held \in {roots, roots \ children}
    PROVE  roots \subseteq held \cup children /\ held \cup children \subseteq Live
<1>1. heap.edges \in Slots /\ roots \in SUBSET Cells
    BY HeapFields DEF IInv, HeapOk, HeapTyped, Allocated
<1>2. roots \subseteq Live
    BY <1>1, ReachClosed DEF Live
<1>3. children \subseteq Live
    OBVIOUS
<1>4. held = roots \/ held = roots \ children
    OBVIOUS
<1>5. QED
    BY <1>2, <1>3, <1>4

\* Every step keeps the invariant and what the mutator can name.
LEMMA NextStep ==
    ASSUME IInv, Next
    PROVE  StepOk
<1>1. ASSUME NEW children \in {{}} \cup {{c} : c \in Live},
             NEW held \in {roots, roots \ children},
             \/ \E large \in BOOLEAN : alloc_with_roots(children, held, large)
             \/ alloc_old(children, held)
             \/ alloc_old_diagnostic(children, held)
      PROVE  StepOk
    <2>1. roots \subseteq held \cup children /\ held \cup children \subseteq Live
        BY Operands, ZenonT(60)
    <2>2. QED
        BY <1>1, <2>1, AllocWithRootsStep, AllocOldStep, AllocOldDiagnosticStep, ZenonT(60)
<1>2. ASSUME NEW p \in Live,
             (\E c \in Live : record_write(p, c)) \/ (\E c \in heap.edges[p] : clear_slot(p, c))
      PROVE  StepOk
    BY <1>2, StoreStep, ZenonT(60)
<1>3. CASE (\E c \in Live : push_root(c)) \/ (\E c \in roots : pop_root(c))
    BY <1>3, RootsStep, ZenonT(60)
<1>4. CASE collect_minor
    <2>1. heap' \in Scavenged(heap, roots) /\ UNCHANGED <<roots, tracked, reserved, oom>>
        BY <1>4, ZenonT(60) DEF collect_minor
    <2>2. PICK g \in Scavenged(heap, roots) : heap' = g
        BY <2>1, ZenonT(60)
    <2>3. Keeps(g, heap, roots)
        BY <2>2, ScavengeKeeps DEF IInv
    <2>4. QED
        BY <2>1, <2>2, <2>3, CollectStep, ZenonT(60)
<1>5. CASE collect_full
    <2>1. heap' \in FullCollected(heap, roots) /\ UNCHANGED <<roots, tracked, reserved, oom>>
        BY <1>5, ZenonT(60) DEF collect_full
    <2>2. PICK g \in FullCollected(heap, roots) : heap' = g
        BY <2>1, ZenonT(60)
    <2>3. Keeps(g, heap, roots)
        BY <2>2, FullKeeps DEF IInv
    <2>4. QED
        BY <2>1, <2>2, <2>3, CollectStep, ZenonT(60)
<1>6. ASSUME NEW n \in 1..(MaxReserved - reserved),
             reserve_bytes(n) \/ reserve_bytes_no_collect(n)
      PROVE  StepOk
    <2>1. n \in Nat
        BY GcAssumption DEF IInv
    <2>2. QED
        BY <1>6, <2>1, ReserveStep, ZenonT(60)
<1>7. ASSUME NEW n \in 1..MaxReserved, release_bytes(n)
      PROVE  StepOk
    <2>1. n \in Nat
        BY GcAssumption
    <2>2. QED
        BY <1>7, <2>1, ReleaseStep, ZenonT(60)
<1>8. QED
    BY Next, <1>1, <1>2, <1>3, <1>4, <1>5, <1>6, <1>7, ZenonT(60) DEF Next

\* The empty heap is in order.
LEMMA InitIInv ==
    ASSUME Init
    PROVE  IInv
<1> DEFINE sp == [c \in Cells |-> "free"]
           ed == [c \in Cells |-> {}]
<1>1. heap = [space |-> sp, survivors |-> {}, edges |-> ed, remembered |-> {}, stale |-> {}]
    BY ZenonT(60) DEF Init
<1>2. sp \in [Cells -> {"free", "young", "old"}] /\ ed \in Slots
    BY DEF Slots
<1>3. \A c \in Cells : sp[c] = "free"
    OBVIOUS
<1> HIDE DEF sp, ed
<1>4. /\ heap \in Heaps /\ heap.space = sp /\ heap.survivors = {}
      /\ heap.remembered = {} /\ heap.stale = {}
    <2>1. {} \in SUBSET Cells
        OBVIOUS
    <2>2. QED
        BY <1>1, <1>2, <2>1, MakeHeap
<1>5. Allocated(heap) = {} /\ Old(heap) = {}
    BY <1>3, <1>4 DEF Allocated, Old
<1>6. HeapOk(heap, roots)
    <2>1. HeapTyped(heap)
        BY <1>4 DEF HeapTyped
    <2>2. roots = {}
        BY DEF Init
    <2>3. QED
        BY <1>4, <1>5, <2>1, <2>2 DEF HeapOk
<1>7. Size(heap) = 0
    BY <1>5, FS_EmptySet DEF Size
<1>8. tracked \in Nat /\ reserved \in Nat /\ NeverUndercounts
    BY <1>7 DEF Init, NeverUndercounts
<1>9. oom \in BOOLEAN
    BY ZenonT(60) DEF Init
<1>10. QED
    BY <1>6, <1>8, <1>9, ZenonT(60) DEF IInv

(***************************************************************************)
(* The theorems.  IInv is what every run of the mutator and the collector  *)
(* keeps: the heap is in order and tracked_bytes covers it.                *)
(***************************************************************************)
\* The heap is in order and tracked_bytes covers it in every state that
\* allocation, stores, releases and collections (heap.rs) can reach.
THEOREM Invariant == Spec => []IInv
<1>1. Init => IInv
    BY InitIInv
<1>2. IInv /\ [Next]_vars => IInv'
    <2>1. CASE IInv /\ Next
        BY <2>1, NextStep DEF StepOk
    <2>2. CASE IInv /\ UNCHANGED vars
        BY <2>2 DEF IInv, HeapOk, HeapTyped, NeverUndercounts, vars
    <2>3. QED
        BY <2>1, <2>2
<1>3. QED
    BY <1>1, <1>2, PTL DEF Spec

\* The heap record and the counters keep their types for every cage size.
THEOREM TypeCorrect == Spec => []TypeOK
<1>1. IInv => TypeOK
    BY DEF IInv, HeapOk, HeapTyped, TypeOK, Allocated
<1>2. QED
    BY <1>1, Invariant, PTL

\* No root and no slot of an allocated object, live or garbage, holds a
\* reclaimed cell or an address its target moved away from.
THEOREM SlotsNeverDangle == Spec => []NoDangling
<1>1. IInv => NoDangling
    BY DEF IInv, HeapOk, NoDangling
<1>2. QED
    BY <1>1, Invariant, PTL

\* Every old object that holds a young one is remembered, so a scavenge that
\* looks only at the roots and the remembered set loses nothing.
THEOREM OldToYoungIsRemembered == Spec => []RememberedComplete
<1>1. IInv => RememberedComplete
    BY ZenonT(60) DEF IInv, HeapOk, RememberedComplete
<1>2. QED
    BY <1>1, Invariant, PTL

\* tracked_bytes is never below what the heap really holds.
THEOREM TrackedCoversHeap == Spec => []NeverUndercounts
<1>1. IInv => NeverUndercounts
    BY DEF IInv
<1>2. QED
    BY <1>1, Invariant, PTL

\* No step frees a cell whose object the mutator could still name, whichever
\* call triggered the collection.
THEOREM OnlyGarbageIsReclaimed == Spec => ReclaimOnlyGarbage
<1>1. IInv /\ [Next]_vars => [\A c \in Live : heap'.space[c] # "free"]_vars
    <2>1. CASE IInv /\ Next
        <3>1. Live \subseteq Allocated(heap')
            BY <2>1, NextStep DEF StepOk
        <3>2. QED
            BY <3>1 DEF Allocated
    <2>2. CASE UNCHANGED vars
        BY <2>2
    <2>3. QED
        BY <2>1, <2>2
<1>2. QED
    BY <1>1, Invariant, PTL DEF Spec, ReclaimOnlyGarbage
=============================================================================
