------------------------------- MODULE CQueue -------------------------------
(***************************************************************************)
(* The circular queue of src/loadtest/store/memstore/cqueue.go together    *)
(* with a map of the store that indexes it.  The elements of the queue are *)
(* allocated once and overwritten in place: the store holds no more than   *)
(* "size" of them, and the map has to forget an element before the queue   *)
(* reuses its memory.  What is stored is abstracted to its key.            *)
(***************************************************************************)
EXTENDS Naturals

CONSTANT NoKey   \* the identifier of an element that was never written

(* In the map "at", a key without an entry is nowhere.                     *)
Nowhere == 0

(* data[i] is the key of what memory slot i holds, next the slot that Get  *)
(* returns and at[k] the slot that the entry of key k points to.           *)
Queue(K, size) ==
  [data : [1..size -> K \union {NoKey}], next : 1..size, at : [K -> 0..size]]

NewCQueue(K, size) ==
  [data |-> [i \in 1..size |-> NoKey], next |-> 1, at |-> [k \in K |-> Nowhere]]

(* The keys that the map holds.                                            *)
Stored(q) == {k \in DOMAIN q.at : q.at[k] # Nowhere}

(* The slot after the one that Get returns.                                *)
BugAdvance(q, size) == IF q.next + 1 = size THEN 1 ELSE q.next + 1

Advance(q, size) == IF q.next = size THEN 1 ELSE q.next + 1

(* The map forgets the element that is about to be overwritten, if its     *)
(* entry points to that very memory: the key may have been stored again    *)
(* since, in another slot.                                                 *)
BugForget(q) == q.at

Forget(q) ==
  [k \in DOMAIN q.at |-> IF k = q.data[q.next] /\ q.at[k] = q.next
                           THEN Nowhere ELSE q.at[k]]

Put(q, k, size) ==
  [data |-> [q.data EXCEPT ![q.next] = k],
   next |-> Advance(q, size),
   at   |-> [Forget(q) EXCEPT ![k] = q.next]]

Delete(q, k) == [q EXCEPT !.at[k] = Nowhere]

(* Reset, together with the new map that Clear makes: the memory and what  *)
(* it holds are kept.                                                      *)
BugReset(q) == [q EXCEPT !.next = 1]

Reset(q) ==
  [data |-> q.data, next |-> 1, at |-> [k \in DOMAIN q.at |-> Nowhere]]

(* How many more elements the queue takes before it overwrites the one     *)
(* that the entry of k points to, that one included.                       *)
Life(q, k, size) ==
  IF q.at[k] = Nowhere THEN 0
  ELSE IF q.at[k] >= q.next THEN q.at[k] - q.next + 1
                            ELSE q.at[k] - q.next + 1 + size
=============================================================================
