------------------------------- MODULE Allocator -------------------------------
(***************************************************************************)
(* What a memory allocator promises its clients, with no caches and no     *)
(* blocks: a set of live regions that never overlap.  An allocation adds   *)
(* one region clear of the others, a release takes one away.  Heap.tla and *)
(* Pmm.tla are shown to implement this specification.                      *)
(***************************************************************************)
EXTENDS Naturals

VARIABLE live       \* the regions in clients' hands: [addr, len]

\* Two regions that share no byte.
Disjoint(r, s) == r.addr + r.len <= s.addr \/ s.addr + s.len <= r.addr

Init == live = {}

\* The new region is not empty and does not start at NULL, which is how an
\* allocation reports failure.
Allocate ==
  \E r \in live' \ live :
    /\ r.addr # 0 /\ r.len # 0
    /\ \A s \in live : Disjoint(r, s)
    /\ live' = live \cup {r}

Release == \E r \in live : live' = live \ {r}

Next == Allocate \/ Release

Spec == Init /\ [][Next]_live

===============================================================================
