--------------------------- MODULE RecentEntries ---------------------------
(***************************************************************************)
(* What a bounded map of the user's store promises: what is put there is   *)
(* found until it is deleted or "size" later elements have been put,       *)
(* whatever their keys.  life[k] says how many elements are still to come  *)
(* before the element of key k is dropped; it is 0 when k is not stored.   *)
(***************************************************************************)
EXTENDS Naturals

CONSTANTS Keys, size

VARIABLE life

Init == life = [k \in Keys |-> 0]

(* An element outlives size - 1 others.                                    *)
Put(k) ==
  life' = [j \in Keys |-> IF j = k THEN size
                          ELSE IF life[j] > 0 THEN life[j] - 1 ELSE 0]

Delete(k) == life' = [life EXCEPT ![k] = 0]

Clear == life' = [k \in Keys |-> 0]

Next == Clear \/ \E k \in Keys : Put(k) \/ Delete(k)

Spec == Init /\ [][Next]_life
=============================================================================
