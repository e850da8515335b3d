------------------------------ MODULE CacheAside ------------------------------
(***************************************************************************)
(* What the conversation cache promises, with rockscache's locks, fills   *)
(* in flight and the order of the deletions abstracted away: a cache-     *)
(* aside store in front of a database.                                    *)
(*                                                                         *)
(*  - truth[k] is what the database says for key k;                       *)
(*  - cached[k] is the value the cache holds, or Miss;                    *)
(*  - dirty is the set of keys a writer still owes a deletion.            *)
(*                                                                         *)
(* A write may change the database only if it takes on the deletion of   *)
(* every key whose database value it changes.  A fill of a key nobody    *)
(* owes a deletion stores the database's value; a fill of a dirty key    *)
(* may store any value (one read before the write).  Deleting a dirty    *)
(* key empties it and discharges it.                                      *)
(*                                                                         *)
(* ConversationCache implements this specification under the mapping     *)
(* ConversationCache!AbsCache, as ConversationCacheProofs proves.         *)
(***************************************************************************)
CONSTANTS Keys,    \* the cache keys
          Values,  \* the values a key may hold
          Miss     \* the absent value

VARIABLES truth, cached, dirty

vars == <<truth, cached, dirty>>

Init ==
    /\ truth \in [Keys -> Values]
    /\ cached = [k \in Keys |-> Miss]
    /\ dirty = {}

(* A fill of a key that no writer owes a deletion: the database's value. *)
Fill(k) ==
    /\ k \notin dirty
    /\ cached' = [cached EXCEPT ![k] = truth[k]]
    /\ UNCHANGED <<truth, dirty>>

(* A fill of a dirty key may store a value read before the write.        *)
FillDirty(k, v) ==
    /\ k \in dirty
    /\ cached' = [cached EXCEPT ![k] = v]
    /\ UNCHANGED <<truth, dirty>>

(* A database write takes on the deletion of every key it changes.       *)
Write ==
    /\ truth' \in [Keys -> Values]
    /\ dirty \subseteq dirty'
    /\ dirty' \subseteq Keys
    /\ \A k \in Keys : truth'[k] # truth[k] => k \in dirty'
    /\ UNCHANGED cached

(* The deletion of a dirty key.                                            *)
Invalidate(k) ==
    /\ k \in dirty
    /\ cached' = [cached EXCEPT ![k] = Miss]
    /\ dirty' = dirty \ {k}
    /\ UNCHANGED truth

Next ==
    \/ \E k \in Keys : Fill(k) \/ Invalidate(k)
    \/ \E k \in Keys, v \in Values : FillDirty(k, v)
    \/ Write

Spec == Init /\ [][Next]_vars

-----------------------------------------------------------------------------
(* Types of the database, the cache and the owed deletions.             *)
TypeOK ==
    /\ truth \in [Keys -> Values]
    /\ cached \in [Keys -> Values \cup {Miss}]
    /\ dirty \subseteq Keys

(* A key that no writer owes a deletion holds nothing or the database's  *)
(* value: the promise the conversation cache makes to its readers.        *)
Coherent == \A k \in Keys \ dirty : cached[k] # Miss => cached[k] = truth[k]

=============================================================================
