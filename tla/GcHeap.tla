------------------------------- MODULE GcHeap -------------------------------
(***************************************************************************)
(* The garbage-collected heap of one isolate: otter-gc's GcHeap            *)
(* (heap.rs), its scavenger (scavenger.rs), marker (marking.rs) and write  *)
(* barrier (barrier.rs), as the VM drives them: every collection runs      *)
(* under one pause inside a call of the mutator.                           *)
(*                                                                         *)
(* A cell stands for an object.  An object keeps its cell when the         *)
(* scavenger moves it; what a move endangers is a slot the scavenger does  *)
(* not visit, which keeps the address the object left.  The parents of     *)
(* such slots are collected in `stale'.                                    *)
(*                                                                         *)
(* The heap has no weak collection registered, so the ephemeron and weak   *)
(* registry passes of a scavenge do nothing; WeakTables adds a WeakMap and *)
(* the ephemeron pass.                                                     *)
(***************************************************************************)
EXTENDS Integers, FiniteSets

CONSTANTS Cells,      \* the cells the cage can hold
          Nursery,    \* how many objects one semispace holds
          Cap,        \* max_heap_bytes, in objects; 0 would switch accounting off
          MaxEdges,   \* bound: traced slots in use over the whole heap
          MaxReserved \* bound: off-slot units booked at once

ASSUME GcAssumption ==
    /\ IsFiniteSet(Cells)
    /\ Nursery \in Nat
    /\ Cap \in Nat \ {0}
    /\ MaxEdges \in Nat
    /\ MaxReserved \in Nat

VARIABLES heap,      \* the spaces, the slots and the remembered set
          roots,     \* targets of handle stack, globals, extra and frame roots
          tracked,   \* tracked_bytes
          reserved,  \* reserved_bytes
          oom        \* oom_flag

vars == <<heap, roots, tracked, reserved, oom>>

(***************************************************************************)
(* A heap: `space' of every cell, the `survivors' of a scavenge that are   *)
(* still young (their page has survival_age >= PROMOTE_AFTER_SURVIVALS),   *)
(* the traced slots (`edges'), the remembered parents, and the parents     *)
(* left holding a `stale' address.                                         *)
(***************************************************************************)
Heaps == [space: [Cells -> {"free", "young", "old"}],
          survivors: SUBSET Cells,
          edges: [Cells -> SUBSET Cells],
          remembered: SUBSET Cells,
          stale: SUBSET Cells]

Allocated(h) == {c \in Cells : h.space[c] # "free"}
Young(h) == {c \in Cells : h.space[c] = "young"}
Old(h) == {c \in Cells : h.space[c] = "old"}
Size(h) == Cardinality(Allocated(h))

\* What tracing from r visits: the least set that holds r and is closed
\* under the traced slots.
Reach(edges, r) ==
    {c \in Cells : \A S \in SUBSET Cells :
                       (r \subseteq S /\ \A p \in S : edges[p] \subseteq S) => c \in S}

\* drop_in_place: the body of a dead object, and with it its slots, is gone.
Dropped(edges, dead) == [c \in Cells |-> IF c \in dead THEN {} ELSE edges[c]]

(***************************************************************************)
(* The scavenger.                                                          *)
(***************************************************************************)
\* Mutant of Evacuated: the remembered parents are not re-traced.
Evacuated_roots_only(h, r) ==
    {c \in Young(h) : \A S \in SUBSET Young(h) :
        (r \cap Young(h) \subseteq S /\ \A p \in S : h.edges[p] \cap Young(h) \subseteq S)
            => c \in S}

\* Evacuated objects: what the roots and the re-traced remembered parents
\* reach through young objects.
Evacuated(h, r) ==
    LET seeds == (r \cup UNION {h.edges[p] : p \in h.remembered}) \cap Young(h)
    IN  {c \in Young(h) : \A S \in SUBSET Young(h) :
            (seeds \subseteq S /\ \A p \in S : h.edges[p] \cap Young(h) \subseteq S)
                => c \in S}

\* The objects that may land in to-space: they have not survived a scavenge
\* before, and the roots reach them through objects that also land there.
\* Whatever a remembered or a promoted parent reaches first is promoted, and
\* so is what finds to-space full, so any such set can be the outcome.
Copies(h, r) ==
    {C \in SUBSET (Evacuated(h, r) \ h.survivors) :
        \A S \in SUBSET C :
            (r \cap C \subseteq S /\ \A p \in S : h.edges[p] \cap C \subseteq S) => S = C}

\* The parents a scavenge that copies C remembers.  A parent in old space is
\* traced only when it was remembered or is promoted now; it is remembered
\* again when a child of it is still young.
remember_parent(h, r, C) ==
    {p \in h.remembered \cup (Evacuated(h, r) \ C) : h.edges[p] \cap C # {}}

\* The dead are dropped, the copies have survived once, and the semispaces
\* swap.
Flipped(h, r, C) ==
    LET live == Evacuated(h, r)
        dead == Young(h) \ live
    IN  [space |-> [c \in Cells |-> IF c \in dead THEN "free"
                                    ELSE IF c \in live \ C THEN "old" ELSE h.space[c]],
         survivors |-> C,
         edges |-> Dropped(h.edges, dead),
         remembered |-> remember_parent(h, r, C),
         stale |-> h.stale \cup
                   {p \in Old(h) \ h.remembered : h.edges[p] \cap Young(h) # {}}]

\* A scavenge, from the roots and the remembered parents.
Scavenged(h, r) == {Flipped(h, r, C) : C \in Copies(h, r)}

(***************************************************************************)
(* The full collection: a scavenge, then marking from the roots under the  *)
(* same pause, then the sweep of what is left white in old and large space *)
(* and of the remembered set.                                              *)
(***************************************************************************)
Swept(h, r) ==
    LET marked == Reach(h.edges, r)
        dead == Old(h) \ marked
    IN  [space |-> [c \in Cells |-> IF c \in dead THEN "free" ELSE h.space[c]],
         survivors |-> h.survivors,
         edges |-> Dropped(h.edges, dead),
         remembered |-> h.remembered \cap marked,
         stale |-> h.stale]

FullCollected(h, r) == {Swept(g, r) : g \in Scavenged(h, r)}

(***************************************************************************)
(* The write barrier, generational half.  The insertion half only acts     *)
(* while a marking cycle is open, which no mutator step sees here.         *)
(***************************************************************************)
Barrier(h, p, space, children) ==
    IF space = "old" /\ children \cap Young(h) # {}
    THEN h.remembered \cup {p}
    ELSE h.remembered

(***************************************************************************)
(* Accounting against the cap: book n, or run one emergency full           *)
(* collection, recount and try once more.                                  *)
(***************************************************************************)
Accounted(h, r, n) ==
    IF tracked + n <= Cap
    THEN {[heap |-> h, tracked |-> tracked + n, ok |-> TRUE]}
    ELSE {LET now == Size(f) + reserved
              fits == now + n <= Cap
          IN  [heap |-> f, tracked |-> IF fits THEN now + n ELSE now, ok |-> fits] :
          f \in FullCollected(h, r)}

\* Mutant of Placed: the payload written into old space passes no barrier.
Placed_unbarriered(h, c, sp, children) ==
    [h EXCEPT !.space[c] = sp, !.edges[c] = children, !.stale = @ \ {c}]

\* An object with the given children is written into cell c; in old space
\* every child passes the barrier.
Placed(h, c, sp, children) ==
    [space |-> [h.space EXCEPT ![c] = sp],
     survivors |-> h.survivors,
     edges |-> [h.edges EXCEPT ![c] = children],
     remembered |-> Barrier(h, c, sp, children),
     stale |-> h.stale \ {c}]

\* The slots of p hold `slots' from now on.
Stored(h, p, slots, remembered) ==
    [space |-> h.space,
     survivors |-> h.survivors,
     edges |-> [h.edges EXCEPT ![p] = slots],
     remembered |-> remembered,
     stale |-> h.stale]

\* Where a small object goes: the nursery, after a scavenge when it is full,
\* or old space when the survivors leave no room.  A large one is old.
Rooms(h, r, large) ==
    IF large THEN {[heap |-> h, space |-> "old"]}
    ELSE IF Cardinality(Young(h)) < Nursery THEN {[heap |-> h, space |-> "young"]}
    ELSE {[heap |-> s,
           space |-> IF Cardinality(Young(s)) < Nursery THEN "young" ELSE "old"] :
          s \in Scavenged(h, r)}

\* A new object with these children is published, or the allocation reports
\* CageExhausted, and the bytes already booked stay booked.
Place(h, sp, children, held) ==
    \E c \in Cells \ Allocated(h) :
        /\ heap' = Placed(h, c, sp, children)
        /\ roots' = held \cup {c}

CageExhausted(h, held) ==
    /\ Allocated(h) = Cells
    /\ heap' = h
    /\ roots' = held

Publish(h, sp, children, held) == Place(h, sp, children, held) \/ CageExhausted(h, held)

EdgeCount(h) == Cardinality({e \in Cells \X Cells : e[2] \in h.edges[e[1]]})

\* What the mutator can name.
Live == Reach(heap.edges, roots)

Init ==
    /\ heap = [space |-> [c \in Cells |-> "free"],
               survivors |-> {},
               edges |-> [c \in Cells |-> {}],
               remembered |-> {},
               stale |-> {}]
    /\ roots = {}
    /\ tracked = 0
    /\ reserved = 0
    /\ oom = FALSE

\* Mutant of alloc_with_roots: the pending payload is not a root.
alloc_with_roots_bare(children, held, large) ==
    \E g \in {heap} \cup Scavenged(heap, held) \cup FullCollected(heap, held) :
        /\ tracked + 1 <= Cap
        /\ tracked' = tracked + 1
        /\ \E room \in Rooms(g, held, large) :
               Publish(room.heap, room.space, children, held)
        /\ UNCHANGED <<reserved, oom>>

\* alloc_with_roots: a collection may be due first (stress or growth), then
\* the cap, then the placement.  The caller keeps the roots in held and
\* moves the children into the pending payload, which is a root throughout.
alloc_with_roots(children, held, large) ==
    LET r == held \cup children IN
    \E g \in {heap} \cup Scavenged(heap, r) \cup FullCollected(heap, r) :
    \E a \in Accounted(g, r, 1) :
        /\ tracked' = a.tracked
        /\ UNCHANGED reserved
        /\ \/ /\ a.ok
              /\ \E room \in Rooms(a.heap, r, large) :
                     Publish(room.heap, room.space, children, held)
              /\ UNCHANGED oom
           \/ /\ ~a.ok
              /\ heap' = a.heap
              /\ roots' = held
              /\ oom' = TRUE

\* alloc_old: the cap, then old space.
alloc_old(children, held) ==
    LET r == held \cup children IN
    \E a \in Accounted(heap, r, 1) :
        /\ tracked' = a.tracked
        /\ UNCHANGED reserved
        /\ \/ /\ a.ok
              /\ Publish(a.heap, "old", children, held)
              /\ UNCHANGED oom
           \/ /\ ~a.ok
              /\ heap' = a.heap
              /\ roots' = held
              /\ oom' = TRUE

\* alloc_old_diagnostic: the error object of a refused allocation bypasses
\* the cap and is counted afterwards, if it was placed.
alloc_old_diagnostic(children, held) ==
    /\ oom
    /\ \/ /\ Place(heap, "old", children, held)
          /\ tracked' = Size(heap') + reserved
       \/ /\ CageExhausted(heap, held)
          /\ UNCHANGED tracked
    /\ UNCHANGED <<reserved, oom>>

\* A store of child into a slot of p, followed by record_write.
record_write(p, child) ==
    /\ heap' = Stored(heap, p, heap.edges[p] \cup {child},
                      Barrier(heap, p, heap.space[p], {child}))
    /\ UNCHANGED <<roots, tracked, reserved, oom>>

\* A slot of p is overwritten by null or by a primitive: no barrier.
clear_slot(p, child) ==
    /\ heap' = Stored(heap, p, heap.edges[p] \ {child}, heap.remembered)
    /\ UNCHANGED <<roots, tracked, reserved, oom>>

push_root(c) ==
    /\ roots' = roots \cup {c}
    /\ UNCHANGED <<heap, tracked, reserved, oom>>

pop_root(c) ==
    /\ roots' = roots \ {c}
    /\ UNCHANGED <<heap, tracked, reserved, oom>>

collect_minor ==
    /\ heap' \in Scavenged(heap, roots)
    /\ UNCHANGED <<roots, tracked, reserved, oom>>

collect_full ==
    /\ heap' \in FullCollected(heap, roots)
    /\ UNCHANGED <<roots, tracked, reserved, oom>>

\* reserve_bytes: off-slot bytes are booked only when the cap allows them.
reserve_bytes(n) ==
    /\ \/ /\ n > Cap
          /\ oom' = TRUE
          /\ UNCHANGED <<heap, tracked, reserved>>
       \/ /\ n <= Cap
          /\ \E a \in Accounted(heap, roots, n) :
                 /\ heap' = a.heap
                 /\ tracked' = a.tracked
                 /\ reserved' = IF a.ok THEN reserved + n ELSE reserved
                 /\ oom' = (oom \/ ~a.ok)
    /\ UNCHANGED roots

\* reserve_bytes_no_collect: refuse rather than collect.
reserve_bytes_no_collect(n) ==
    /\ IF tracked + n > Cap
       THEN /\ oom' = TRUE
            /\ UNCHANGED <<tracked, reserved>>
       ELSE /\ tracked' = tracked + n
            /\ reserved' = reserved + n
            /\ UNCHANGED oom
    /\ UNCHANGED <<heap, roots>>

\* Mutant of release_bytes: the tracked total gives back more than was booked.
release_bytes_unclamped(n) ==
    /\ reserved' = IF n < reserved THEN reserved - n ELSE 0
    /\ tracked' = IF n < tracked THEN tracked - n ELSE 0
    /\ UNCHANGED <<heap, roots, oom>>

\* release_bytes saturates at what is booked.
release_bytes(n) ==
    LET actual == IF n < reserved THEN n ELSE reserved
    IN  /\ reserved' = reserved - actual
        /\ tracked' = IF actual < tracked THEN tracked - actual ELSE 0
        /\ UNCHANGED <<heap, roots, oom>>

\* Bounds on what the mutator stores and books.
EdgesLeft == EdgeCount(heap) < MaxEdges

Next ==
    \/ \E children \in {{}} \cup {{c} : c \in Live} :
       \E held \in {roots, roots \ children} :
           /\ children = {} \/ EdgesLeft
           /\ \/ \E large \in BOOLEAN : alloc_with_roots(children, held, large)
              \/ alloc_old(children, held)
              \/ alloc_old_diagnostic(children, held)
    \/ \E p, c \in Live : EdgesLeft /\ record_write(p, c)
    \/ \E p \in Live : \E c \in heap.edges[p] : clear_slot(p, c)
    \/ \E c \in Live : push_root(c)
    \/ \E c \in roots : pop_root(c)
    \/ collect_minor
    \/ collect_full
    \/ \E n \in 1..(MaxReserved - reserved) :
           reserve_bytes(n) \/ reserve_bytes_no_collect(n)
    \/ \E n \in 1..MaxReserved : release_bytes(n)

Spec == Init /\ [][Next]_vars

-----------------------------------------------------------------------------
(***************************************************************************)
(* Types: survivors are young, the remembered set holds old objects only   *)
(* (the sweep prunes its dead parents), and no counter wraps below zero.   *)
(***************************************************************************)
TypeOK ==
    /\ heap \in Heaps
    /\ heap.survivors \subseteq Young(heap)
    /\ heap.remembered \subseteq Old(heap)
    /\ roots \subseteq Cells
    /\ tracked \in Nat
    /\ reserved \in Nat
    /\ oom \in BOOLEAN

(***************************************************************************)
(* No slot dangles: the roots and the slots of every allocated object, be  *)
(* it garbage or not, hold allocated objects, and no slot was passed over  *)
(* when its target moved.  The scavenger rewrites only the slots it visits *)
(* (process_slot), and a remembered parent is re-traced even after its     *)
(* death, so a single missed or stale slot hands out a reused address.     *)
(***************************************************************************)
NoDangling ==
    /\ roots \subseteq Allocated(heap)
    /\ \A p \in Allocated(heap) :
           heap.edges[p] \subseteq Allocated(heap) /\ p \notin heap.stale

(***************************************************************************)
(* Every old object with a slot that holds a young object is in the        *)
(* remembered set (barrier.rs, "Generational barrier (load-bearing)"),     *)
(* through stores, direct old allocations, promotions and sweeps.          *)
(***************************************************************************)
RememberedComplete ==
    \A p \in Old(heap) : heap.edges[p] \cap Young(heap) # {} => p \in heap.remembered

(***************************************************************************)
(* tracked_bytes never falls below what is really held, so the cap bounds  *)
(* the heap even though scavenges, failed placements and collections by    *)
(* growth leave the counter alone.                                         *)
(***************************************************************************)
NeverUndercounts == Size(heap) + reserved <= tracked

(***************************************************************************)
(* A step reclaims a cell only when no root reaches its object, the        *)
(* payload of the allocation that triggered the collection included.       *)
(***************************************************************************)
ReclaimOnlyGarbage ==
    [][\A c \in Live : heap'.space[c] # "free"]_vars
=============================================================================
