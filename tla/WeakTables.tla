----------------------------- MODULE WeakTables -----------------------------
(***************************************************************************)
(* One WeakMap over the heap of GcHeap: the ephemeron pass of the           *)
(* scavenger (scavenger.rs), the fixpoint and the pruning that the VM runs  *)
(* between mark and sweep (collections.rs, interp/exec.rs), and the full    *)
(* collection that the growth threshold triggers inside an allocation,      *)
(* which runs neither.  The table is old and always reachable; the byte     *)
(* accounting is GcHeap's and stays at rest here.                           *)
(***************************************************************************)
EXTENDS GcHeap, SequencesExt

CONSTANTS MaxEntries, \* bound: entries of the table
          Grows       \* whether old space can reach next_major_gc_bytes

VARIABLE entries      \* WeakMapBody::entries, without those whose key was nulled

weakVars == <<vars, entries>>

Values(es) == {es[i].val : i \in DOMAIN es}

\* What is live when the entries of es are ephemerons: a value is as soon as
\* its key is.
EphemeronReach(edges, r, es) ==
    {c \in Cells : \A S \in SUBSET Cells :
        (/\ r \subseteq S
         /\ \A p \in S : edges[p] \subseteq S
         /\ \A i \in DOMAIN es : es[i].key \in S => es[i].val \in S) => c \in S}

\* What the program can name, through the table included.
Held == EphemeronReach(heap.edges, roots, entries)

(***************************************************************************)
(* Collections.                                                            *)
(***************************************************************************)
\* trace_ephemeron_table, entry by entry: an old key and a young one that was
\* forwarded are live, and the value is evacuated; any other key is nulled
\* at once.  What a value holds is scanned only after the pass.
process_ephemeron_fixpoint(h, r, es) ==
    FoldLeft(LAMBDA acc, e :
                 IF e.key \in Young(h) \ acc.live THEN acc
                 ELSE [live |-> acc.live \cup {e.val}, kept |-> Append(acc.kept, e)],
             [live |-> Evacuated(h, r), kept |-> <<>>], es).kept

scavenge(h, r, es) ==
    LET kept == process_ephemeron_fixpoint(h, r, es)
    IN  {[heap |-> g, entries |-> kept] : g \in Scavenged(h, r \cup Values(kept))}

\* GcHeap::collect_full: the marker does not enter the entries of a table,
\* and nothing looks at them before the sweep.
full(h, r, es) ==
    {[heap |-> Swept(s.heap, r), entries |-> s.entries] : s \in scavenge(h, r, es)}

\* maybe_major_gc or a stress scavenge before the placement, and the scavenge
\* of a full nursery.
Room(h) == Cardinality(Young(h)) < Nursery
Due(h, r, es) ==
    {[heap |-> h, entries |-> es]} \cup scavenge(h, r, es)
        \cup (IF Grows THEN full(h, r, es) ELSE {})

alloc(children, large) ==
    LET r == roots \cup children IN
    \E s \in Due(heap, r, entries) :
    \E t \in (IF large \/ Room(s.heap) THEN {s} ELSE scavenge(s.heap, r, s.entries)) :
        /\ Publish(t.heap, IF large \/ ~Room(t.heap) THEN "old" ELSE "young",
                   children, roots)
        /\ entries' = t.entries
        /\ UNCHANGED <<tracked, reserved, oom>>

minor ==
    /\ \E s \in scavenge(heap, roots, entries) : heap' = s.heap /\ entries' = s.entries
    /\ UNCHANGED <<roots, tracked, reserved, oom>>

\* force_gc: mark, run_ephemeron_fixpoint until nothing is added, prune the
\* entries with unmarked keys, sweep.
force_gc ==
    /\ \E s \in scavenge(heap, roots, entries) :
           LET marked == EphemeronReach(s.heap.edges, roots, s.entries)
           IN  /\ heap' = Swept(s.heap, marked)
               /\ entries' = SelectSeq(s.entries, LAMBDA e : e.key \in marked)
    /\ UNCHANGED <<roots, tracked, reserved, oom>>

(***************************************************************************)
(* The natives of the table.                                               *)
(***************************************************************************)
position(k) == {i \in DOMAIN entries : entries[i].key = k}

weak_map_set(k, v) ==
    /\ entries' = IF position(k) = {} THEN Append(entries, [key |-> k, val |-> v])
                  ELSE [entries EXCEPT ![CHOOSE i \in position(k) : TRUE].val = v]
    /\ UNCHANGED vars

weak_map_delete(k) ==
    /\ \E i \in position(k) : entries' = RemoveAt(entries, i)
    /\ UNCHANGED vars

\* The value becomes a local of the program.
weak_map_get(k) ==
    /\ \E i \in position(k) : push_root(entries[i].val)
    /\ UNCHANGED entries

WeakInit == Init /\ entries = <<>>

Collector ==
    \/ \E children \in {{}} \cup {{c} : c \in Held}, large \in BOOLEAN :
           /\ children = {} \/ EdgesLeft
           /\ alloc(children, large)
    \/ minor
    \/ force_gc

WeakNext ==
    \/ Collector
    \/ \E k, v \in Live : /\ Len(entries) < MaxEntries \/ position(k) # {}
                          /\ weak_map_set(k, v)
    \/ \E k \in Live : weak_map_delete(k) \/ weak_map_get(k)
    \/ \E p, c \in Live : EdgesLeft /\ record_write(p, c) /\ UNCHANGED entries
    \/ \E p \in Live : \E c \in heap.edges[p] : clear_slot(p, c) /\ UNCHANGED entries
    \/ \E c \in Live : push_root(c) /\ UNCHANGED entries
    \/ \E c \in roots : pop_root(c) /\ UNCHANGED entries

WeakSpec == WeakInit /\ [][WeakNext]_weakVars

(***************************************************************************)
(* "live weak-map key must mark its value", "ephemeron chain must mark     *)
(* through k1 -> k2 -> value" (gc_invariants/weak_collection_ephemerons.rs *)
(* 64, 85): a collection keeps every entry whose key is live, and the      *)
(* object that is its value.                                               *)
(***************************************************************************)
WeakEntriesKept ==
    [][Collector =>
         \A i \in DOMAIN entries :
             entries[i].key \in Held =>
                 /\ entries[i] \in Range(entries')
                 /\ entries[i].val \in Allocated(heap')]_weakVars
=============================================================================
