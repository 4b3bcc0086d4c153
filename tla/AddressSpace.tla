----------------------------- MODULE AddressSpace -----------------------------
(***************************************************************************)
(* What a table of page mappings promises: a function from pages to        *)
(* physical addresses, 0 where a page is not mapped.  A call changes the   *)
(* translation of one page.                                                *)
(***************************************************************************)
CONSTANTS Pages, Frames

VARIABLE translation

Init == translation = [v \in Pages |-> 0]

Map(v, p) == translation[v] = 0 /\ translation' = [translation EXCEPT ![v] = p]

Unmap(v) == translation' = [translation EXCEPT ![v] = 0]

Next == \E v \in Pages : Unmap(v) \/ \E p \in Frames : Map(v, p)

Spec == Init /\ [][Next]_translation

===============================================================================
