------------------------- MODULE ConversationCache -------------------------
(***************************************************************************)
(* The conversation cache of pkg/common/db/cache/conversation.go: the     *)
(* Redis keys of one owner's conversation ids, conversations and receive  *)
(* options, and of one super group's "receive but do not notify" user    *)
(* list and the hash of that list.  A Get fills a missing key from the   *)
(* database through rockscache; a writer changes the database and then   *)
(* deletes the keys its Del* calls collected (NewCache carries the keys   *)
(* of the chain so far, AddKeys appends).                                  *)
(*                                                                         *)
(* rockscache (getCache, batchGetCache, ExecDel) is outside the           *)
(* repository: a miss takes the key's lock, reads the source and writes  *)
(* the value only if it still holds the lock; deleting a key clears its  *)
(* value and its lock; ExecDel deletes the collected keys in order.       *)
(* The hash's fill reads the list through the cache (line 196).           *)
(***************************************************************************)
EXTENDS Naturals, Sequences

CONSTANTS Owner,      \* the owner user id
          Convs,      \* its conversation ids
          SuperGroup, \* the super group id
          MaxVer,     \* bound on the versions of a row
          MaxWrites   \* bound on database writes

ASSUME ConversationCacheAssumption ==
    /\ MaxVer \in Nat /\ MaxWrites \in Nat

(* Keys: prefix (lines 18-22) and ids; the string is abstracted to the    *)
(* record of its parts, so two keys are equal when their parts are.       *)
getConversationKey(o, c) == [kind |-> "conv", owner |-> o, id |-> c]

getConversationIDsKey(o) == [kind |-> "ids", owner |-> o, id |-> o]

getSuperGroupRecvNotNotifyUserIDsKey(g) == [kind |-> "nn", owner |-> g, id |-> g]

getRecvMsgOptKey(o, c) == [kind |-> "opt", owner |-> o, id |-> c]

getSuperGroupRecvNotNotifyUserIDsHashKey(g) == [kind |-> "nnhash", owner |-> g, id |-> g]

Keys == {getConversationIDsKey(Owner), getSuperGroupRecvNotNotifyUserIDsKey(SuperGroup),
         getSuperGroupRecvNotNotifyUserIDsHashKey(SuperGroup)}
        \cup {getConversationKey(Owner, c) : c \in Convs}
        \cup {getRecvMsgOptKey(Owner, c) : c \in Convs}

(* A cached value: the id list, or the version of the row it was read     *)
(* from (the hash records the version of the list it was computed from). *)
Values == [ids: SUBSET Convs] \cup [ver: 0..MaxVer]
Miss == [miss |-> TRUE]

VARIABLES convs,    \* conversation ids of the owner in the database
          ver,      \* version of each conversation row
          nnVer,    \* version of the group's not-notify list
          cache,    \* Redis: key -> value or Miss
          lock,     \* rockscache lock of a key: "none", "locked", "fetched"
          fetched,  \* the value a fill read, until it writes it
          wq,       \* keys the writer still has to delete
          writes    \* database writes so far

dbVars == <<convs, ver, nnVer>>
vars == <<convs, ver, nnVer, cache, lock, fetched, wq, writes>>

(* What the database says for a key; the hash is that of the list.       *)
Truth(k) ==
    CASE k.kind = "ids"                -> [ids |-> convs]
      [] k.kind \in {"conv", "opt"}    -> [ver |-> ver[k.id]]
      [] k.kind \in {"nn", "nnhash"}   -> [ver |-> nnVer]

-----------------------------------------------------------------------------
(* Del*: the keys a chained call collects.  NewCache starts a new cache  *)
(* holding the keys collected so far (GetPreDelKeys).                      *)
(* Mutant: the new cache forgets the keys collected before it.           *)
NewCacheDropsKeys(pre) == <<>>

NewCache(pre) == pre

DelConversationIDs(pre, userIDs) ==
    NewCache(pre) \o [i \in 1..Len(userIDs) |-> getConversationIDsKey(userIDs[i])]

DelConvsersations(pre, o, ids) ==
    NewCache(pre) \o [i \in 1..Len(ids) |-> getConversationKey(o, ids[i])]

(* Mutant: the option key is built with its two ids swapped.            *)
DelUserRecvMsgOptSwapped(pre, o, c) == NewCache(pre) \o <<getRecvMsgOptKey(c, o)>>

DelUserRecvMsgOpt(pre, o, c) == NewCache(pre) \o <<getRecvMsgOptKey(o, c)>>

DelSuperGroupRecvMsgNotNotifyUserIDs(pre, g) ==
    NewCache(pre) \o <<getSuperGroupRecvNotNotifyUserIDsKey(g)>>

DelSuperGroupRecvMsgNotNotifyUserIDsHash(pre, g) ==
    NewCache(pre) \o <<getSuperGroupRecvNotNotifyUserIDsHashKey(g)>>

Init ==
    /\ convs \in SUBSET Convs
    /\ ver = [c \in Convs |-> 0]
    /\ nnVer = 0
    /\ cache = [k \in Keys |-> Miss]
    /\ lock = [k \in Keys |-> "none"]
    /\ fetched = [k \in Keys |-> Miss]
    /\ wq = <<>>
    /\ writes = 0

-----------------------------------------------------------------------------
(* getCache / batchGetCache on a miss: take the key's lock.               *)
FillLock(k) ==
    /\ cache[k] = Miss /\ lock[k] = "none"
    /\ lock' = [lock EXCEPT ![k] = "locked"]
    /\ UNCHANGED <<convs, ver, nnVer, cache, fetched, wq, writes>>

(* The fill functions of the Get* methods.  GetConversation and          *)
(* GetConversations read conversation rows (Take, Find), GetUserRecvMsgOpt *)
(* the option, GetUserConversationIDs the id list,                         *)
(* GetSuperGroupRecvMsgNotNotifyUserIDs the list.                          *)
Source(k) ==
    CASE k.kind = "ids"             -> [ids |-> convs]
      [] k.kind \in {"conv", "opt"} -> [ver |-> ver[k.id]]
      [] k.kind = "nn"              -> [ver |-> nnVer]
      [] k.kind = "nnhash"          ->
            \* GetSuperGroupRecvMsgNotNotifyUserIDsHash: the list as
            \* GetSuperGroupRecvMsgNotNotifyUserIDs returns it, cache first
            LET lk == getSuperGroupRecvNotNotifyUserIDsKey(k.id)
            IN  IF cache[lk] # Miss THEN cache[lk] ELSE [ver |-> nnVer]

(* The fill reads its source ...                                           *)
FillFetch(k) ==
    /\ lock[k] = "locked"
    /\ k.kind \in {"conv", "opt"} => k.id \in convs
    /\ fetched' = [fetched EXCEPT ![k] = Source(k)]
    /\ lock' = [lock EXCEPT ![k] = "fetched"]
    /\ UNCHANGED <<convs, ver, nnVer, cache, wq, writes>>

(* ... or finds no row (Take: record not found) and returns the error.   *)
FillNotFound(k) ==
    /\ lock[k] = "locked"
    /\ k.kind \in {"conv", "opt"} /\ k.id \notin convs
    /\ lock' = [lock EXCEPT ![k] = "none"]
    /\ UNCHANGED <<convs, ver, nnVer, cache, fetched, wq, writes>>

(* ... and writes the value if it still holds the lock.                   *)
FillStore(k) ==
    /\ lock[k] = "fetched"
    /\ cache' = [cache EXCEPT ![k] = fetched[k]]
    /\ lock' = [lock EXCEPT ![k] = "none"]
    /\ fetched' = [fetched EXCEPT ![k] = Miss]
    /\ UNCHANGED <<convs, ver, nnVer, wq, writes>>

-----------------------------------------------------------------------------
(* Writers of the conversation service: a database write, then ExecDel of *)
(* the keys of their Del* chain.                                          *)
CreateConversation(c) ==
    /\ wq = <<>> /\ writes < MaxWrites
    /\ c \notin convs
    /\ convs' = convs \cup {c}
    /\ wq' = DelConversationIDs(<<>>, <<Owner>>)
    /\ writes' = writes + 1
    /\ UNCHANGED <<ver, nnVer, cache, lock, fetched>>

SetConversation(c) ==
    /\ wq = <<>> /\ writes < MaxWrites
    /\ c \in convs /\ ver[c] < MaxVer
    /\ ver' = [ver EXCEPT ![c] = @ + 1]
    /\ wq' = DelUserRecvMsgOpt(DelConvsersations(<<>>, Owner, <<c>>), Owner, c)
    /\ writes' = writes + 1
    /\ UNCHANGED <<convs, nnVer, cache, lock, fetched>>

SetSuperGroupRecvMsgNotNotify ==
    /\ wq = <<>> /\ writes < MaxWrites
    /\ nnVer < MaxVer
    /\ nnVer' = nnVer + 1
    /\ wq' = DelSuperGroupRecvMsgNotNotifyUserIDsHash(
                 DelSuperGroupRecvMsgNotNotifyUserIDs(<<>>, SuperGroup), SuperGroup)
    /\ writes' = writes + 1
    /\ UNCHANGED <<convs, ver, cache, lock, fetched>>

(* ExecDel deletes the next key: its value and its lock are gone.         *)
ExecDel ==
    /\ wq # <<>>
    /\ cache' = [cache EXCEPT ![Head(wq)] = Miss]
    /\ lock' = [lock EXCEPT ![Head(wq)] = "none"]
    /\ fetched' = [fetched EXCEPT ![Head(wq)] = Miss]
    /\ wq' = Tail(wq)
    /\ UNCHANGED <<convs, ver, nnVer, writes>>

Next ==
    \/ \E k \in Keys : FillLock(k) \/ FillFetch(k) \/ FillNotFound(k) \/ FillStore(k)
    \/ \E c \in Convs : CreateConversation(c) \/ SetConversation(c)
    \/ SetSuperGroupRecvMsgNotNotify
    \/ ExecDel

Spec == Init /\ [][Next]_vars

-----------------------------------------------------------------------------
TypeOK ==
    /\ convs \subseteq Convs
    /\ ver \in [Convs -> 0..MaxVer]
    /\ nnVer \in 0..MaxVer
    /\ cache \in [Keys -> Values \cup {Miss}]
    /\ lock \in [Keys -> {"none", "locked", "fetched"}]
    /\ fetched \in [Keys -> Values \cup {Miss}]
    /\ wq \in Seq(Keys)
    /\ writes \in 0..MaxWrites

(* Once a writer has deleted its keys, every cached value agrees with the *)
(* database, the hash included although its fill reads the list from the *)
(* cache: no fill that read before the write stores after the deletion,  *)
(* and the list is deleted before its hash.                               *)
CacheCoherent ==
    wq = <<>> => \A k \in Keys : cache[k] # Miss => cache[k] = Truth(k)

-----------------------------------------------------------------------------
(* The keys the writer still owes a deletion.                              *)
Pending == {wq[i] : i \in DOMAIN wq}

(* The cache-aside contract, seen through the database's value of every  *)
(* key, the Redis values and the deletions still owed.                    *)
AbsCache == INSTANCE CacheAside WITH truth <- [k \in Keys |-> Truth(k)],
                                     cached <- cache, dirty <- Pending

(* The conversation cache implements the cache-aside contract: each Del* *)
(* chain collects every key its database write changes, a rockscache     *)
(* fill stores only the database's value unless the key's deletion is    *)
(* still owed, and ExecDel discharges the deletions one key at a time.   *)
CacheAsideRefined == AbsCache!Spec
=============================================================================
