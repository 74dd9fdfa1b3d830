------------------------------ MODULE KVStore ------------------------------
(***************************************************************************)
(* What the Bitcask facade promises its callers: a dictionary from keys   *)
(* to values in which put overwrites and delete removes, each completed   *)
(* call counted in `writes`, and nothing else (rollover, merge, crash and *)
(* reopen) changes what get returns.  The count ties every change of the  *)
(* dictionary to a call, so that a change made by anything else is not    *)
(* mistaken for a put.                                                    *)
(***************************************************************************)
EXTENDS Naturals

CONSTANTS Key, Val, Absent

ASSUME Absent \notin Val

VARIABLES store, writes

TypeOK == store \in [Key -> Val \cup {Absent}] /\ writes \in Nat

Init == store = [k \in Key |-> Absent] /\ writes = 0

Put(k, v) == store' = [store EXCEPT ![k] = v] /\ writes' = writes + 1

\* Bitcask::delete only writes (and counts) a key that is present.
Delete(k) ==
    /\ store[k] # Absent
    /\ store' = [store EXCEPT ![k] = Absent]
    /\ writes' = writes + 1

\* Bitcask::drop: every key is removed.
Clear == store' = [k \in Key |-> Absent] /\ writes' = writes + 1

Next == Clear \/ \E k \in Key : Delete(k) \/ \E v \in Val : Put(k, v)

Spec == Init /\ [][Next]_<<store, writes>>
=============================================================================
