------------------------------ MODULE TTLCache ------------------------------
(***************************************************************************)
(* TTLCache of app/core/cache.py: a dict in insertion order, at most       *)
(* MaxSize keys, each entry good for TTL ticks after it was set.  Every    *)
(* method holds the lock of the cache from its first line to its last, so  *)
(* a method is one operator on the store.                                  *)
(*                                                                         *)
(* An entry keeps what is left of its life in place of its expires_at, so  *)
(* that time is bounded; the hit and miss counters decide nothing and are  *)
(* left out.                                                               *)
(***************************************************************************)
EXTENDS Integers, Sequences

CONSTANTS TTL, MaxSize

ASSUME TTLAssumption == TTL \in Nat
ASSUME MaxSizeAssumption == MaxSize \in Nat \ {0}   \* set() fails on size 0

Entry(Keys, Values) == [key : Keys, left : -1..TTL, value : Values]

Has(store, key) == \E i \in DOMAIN store : store[i].key = key

(* Where the entry of the key is: there is one at most.                    *)
Place(store, key) == CHOOSE i \in DOMAIN store : store[i].key = key

(* pop(key, None)                                                          *)
Invalidate(store, key) ==
    IF Has(store, key)
    THEN LET k == Place(store, key)
         IN  [i \in 1..(Len(store) - 1) |-> store[IF i < k THEN i ELSE i + 1]]
    ELSE store

(* monotonic() > expires_at                                                *)
Expired(entry) == entry.left < 0

(* get returns the value of a live entry, and drops a dead one.            *)
Hit(store, key) == Has(store, key) /\ ~Expired(store[Place(store, key)])

HitValue(store, key) == store[Place(store, key)].value

Got(store, key) ==
    IF Hit(store, key) THEN store ELSE Invalidate(store, key)

(* Mutant: room is made one entry late.                                    *)
MadeRoomLate(store, key) ==
    IF Len(store) > MaxSize /\ ~Has(store, key) THEN Tail(store) ELSE store

MadeRoom(store, key) ==
    IF Len(store) >= MaxSize /\ ~Has(store, key) THEN Tail(store) ELSE store

(* set: a key that is there keeps its place in the order of insertion.     *)
Put(store, key, value) ==
    LET room  == MadeRoom(store, key)
        entry == [key |-> key, left |-> TTL, value |-> value]
    IN  IF Has(room, key)
        THEN [i \in DOMAIN room |-> IF room[i].key = key THEN entry
                                                         ELSE room[i]]
        ELSE Append(room, entry)

Aged(store) ==
    [i \in DOMAIN store |->
        [store[i] EXCEPT !.left = IF @ < 0 THEN @ ELSE @ - 1]]

-----------------------------------------------------------------------------
(* The store is a dict of at most MaxSize keys, each of them there once.   *)
StoreIsBounded(store) ==
    /\ Len(store) <= MaxSize
    /\ \A i, j \in DOMAIN store : store[i].key = store[j].key => i = j
=============================================================================
