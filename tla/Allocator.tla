------------------------------- MODULE Allocator -------------------------------
(***************************************************************************)
(* What a heap promises: regions that are long enough, inside the heap,    *)
(* and never overlap while they are allocated.                             *)
(***************************************************************************)
EXTENDS Naturals

CONSTANT Requests                  \* sizes asked for
VARIABLES regions, end             \* allocated regions; the end of the heap

Disjoint(r, s) == r.start + r.size <= s.start \/ s.start + s.size <= r.start

Init == regions = {} /\ end \in Nat

\* The heap may grow; a region once handed out stays where it is.
Allocate(n) ==
  \E r \in [start : 0 .. end', size : n .. end'] :
    /\ r.start + r.size <= end' /\ end <= end'
    /\ \A s \in regions : Disjoint(r, s)
    /\ regions' = regions \cup {r}

Free == \E r \in regions : regions' = regions \ {r} /\ end' = end

\* A region is replaced by a longer or shorter one.
Reallocate(n) ==
  \E s \in regions, r \in [start : 0 .. end', size : n .. end'] :
    /\ r.start + r.size <= end' /\ end <= end'
    /\ \A t \in regions : Disjoint(r, t)
    /\ regions' = (regions \ {s}) \cup {r}

Next == Free \/ \E n \in Requests : Allocate(n) \/ Reallocate(n)

Spec == Init /\ [][Next]_<<regions, end>>
=============================================================================
