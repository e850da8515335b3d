---------------------- MODULE ConversationCacheProofs ----------------------
(***************************************************************************)
(* Proof that the conversation cache is coherent once a writer has       *)
(* deleted its keys, for every set of conversations and every bound.      *)
(***************************************************************************)
EXTENDS ConversationCache, SequenceTheorems, TLAPS

IDsK == getConversationIDsKey(Owner)
NNK == getSuperGroupRecvNotNotifyUserIDsKey(SuperGroup)
HK == getSuperGroupRecvNotNotifyUserIDsHashKey(SuperGroup)
CK(c) == getConversationKey(Owner, c)
OK(c) == getRecvMsgOptKey(Owner, c)

(* The deletions a writer can still owe: what its Del* chain collected,  *)
(* less the keys ExecDel has already deleted.                              *)
Queues == {<<>>, <<IDsK>>, <<NNK, HK>>, <<HK>>}
          \cup {<<CK(c), OK(c)>> : c \in Convs} \cup {<<OK(c)>> : c \in Convs}

InSeq(s, k) == \E i \in 1..Len(s) : s[i] = k
InQ(k) == InSeq(wq, k)

(* A key the writer no longer owes a deletion holds no stale value, and  *)
(* a fill of it that has read its source read the database's value.       *)
Fresh(k) ==
    ~InQ(k) => /\ cache[k] # Miss => cache[k] = Truth(k)
               /\ lock[k] = "fetched" => fetched[k] = Truth(k)

IInv == TypeOK /\ wq \in Queues /\ \A k \in Keys : Fresh(k)

USE ConversationCacheAssumption

-----------------------------------------------------------------------------
(* Facts about the keys: each is one of the five families, and keys of   *)
(* different families differ in their kind.                                *)
LEMMA KeyForms ==
    ASSUME NEW k \in Keys
    PROVE  \/ k = IDsK \/ k = NNK \/ k = HK
           \/ \E c \in Convs : k = CK(c) \/ k = OK(c)
BY DEF Keys, IDsK, NNK, HK, CK, OK

LEMMA KeyKinds ==
    /\ IDsK.kind = "ids" /\ NNK.kind = "nn" /\ HK.kind = "nnhash"
    /\ \A c : CK(c).kind = "conv" /\ CK(c).id = c
    /\ \A c : OK(c).kind = "opt" /\ OK(c).id = c
    /\ NNK.id = SuperGroup /\ HK.id = SuperGroup
BY DEF IDsK, NNK, HK, CK, OK, getConversationIDsKey, getConversationKey,
       getRecvMsgOptKey, getSuperGroupRecvNotNotifyUserIDsKey,
       getSuperGroupRecvNotNotifyUserIDsHashKey

LEMMA KeysInKeys ==
    /\ IDsK \in Keys /\ NNK \in Keys /\ HK \in Keys
    /\ \A c \in Convs : CK(c) \in Keys /\ OK(c) \in Keys
BY DEF Keys, IDsK, NNK, HK, CK, OK

(* The queues are sequences of keys.                                       *)
LEMMA QueuesTyped == Queues \subseteq Seq(Keys)
<1>1. ASSUME NEW x \in Keys, NEW y \in Keys
      PROVE  <<x, y>> \in Seq(Keys) /\ <<x>> \in Seq(Keys) /\ <<>> \in Seq(Keys)
      OBVIOUS
<1>. QED  BY <1>1, KeysInKeys DEF Queues

-----------------------------------------------------------------------------
(* Every step keeps the types.                                             *)
LEMMA SourceTyped ==
    ASSUME TypeOK, NEW k \in Keys
    PROVE  Source(k) \in Values
<1>1. CASE k.kind = "ids"
      BY <1>1 DEF Source, Values, TypeOK
<1>2. CASE k.kind \in {"conv", "opt"}
      <2>1. k.id \in Convs
            BY <1>2, KeyForms, KeyKinds
      <2>. QED  BY <1>2, <2>1 DEF Source, Values, TypeOK
<1>3. CASE k.kind = "nn"
      BY <1>3 DEF Source, Values, TypeOK
<1>4. CASE k.kind = "nnhash"
      <2>1. k = HK
            BY <1>4, KeyForms, KeyKinds
      <2>2. getSuperGroupRecvNotNotifyUserIDsKey(k.id) = NNK /\ NNK \in Keys
            BY <2>1, KeyKinds, KeysInKeys DEF NNK
      <2>3. cache[NNK] \in Values \cup {Miss}
            BY <2>2 DEF TypeOK
      <2>4. Source(k) = IF cache[NNK] # Miss THEN cache[NNK] ELSE [ver |-> nnVer]
            BY <1>4, <2>2 DEF Source
      <2>. QED  BY <2>3, <2>4 DEF Values, TypeOK
<1>. QED  BY <1>1, <1>2, <1>3, <1>4, KeyForms, KeyKinds

LEMMA TypeNext == TypeOK /\ wq \in Queues /\ [Next]_vars => TypeOK'
<1> SUFFICES ASSUME TypeOK, wq \in Queues, [Next]_vars PROVE TypeOK'
    OBVIOUS
<1> USE DEF TypeOK
<1>1. ASSUME NEW k \in Keys, FillLock(k) PROVE TypeOK'
      BY <1>1 DEF FillLock
<1>2. ASSUME NEW k \in Keys, FillFetch(k) PROVE TypeOK'
      BY <1>2, SourceTyped DEF FillFetch
<1>3. ASSUME NEW k \in Keys, FillNotFound(k) PROVE TypeOK'
      BY <1>3 DEF FillNotFound
<1>4. ASSUME NEW k \in Keys, FillStore(k) PROVE TypeOK'
      BY <1>4 DEF FillStore
<1>5. ASSUME NEW c \in Convs, CreateConversation(c) PROVE TypeOK'
      BY <1>5, KeysInKeys DEF CreateConversation, DelConversationIDs, NewCache, IDsK
<1>6. ASSUME NEW c \in Convs, SetConversation(c) PROVE TypeOK'
      BY <1>6, KeysInKeys DEF SetConversation, DelUserRecvMsgOpt, DelConvsersations,
         NewCache, CK, OK
<1>7. CASE SetSuperGroupRecvMsgNotNotify
      BY <1>7, KeysInKeys DEF SetSuperGroupRecvMsgNotNotify,
         DelSuperGroupRecvMsgNotNotifyUserIDsHash, DelSuperGroupRecvMsgNotNotifyUserIDs,
         NewCache, NNK, HK
<1>8. CASE ExecDel
      <2>1. wq # <<>> /\ wq \in Seq(Keys)
            BY <1>8 DEF ExecDel
      <2>2. Head(wq) \in Keys /\ Tail(wq) \in Seq(Keys)
            BY <2>1
      <2>. QED  BY <1>8, <2>2 DEF ExecDel
<1>9. CASE UNCHANGED vars
      BY <1>9 DEF vars
<1>. QED  BY <1>1, <1>2, <1>3, <1>4, <1>5, <1>6, <1>7, <1>8, <1>9 DEF Next
-----------------------------------------------------------------------------
(* Two one-element sequences concatenate to the pair.                    *)
LEMMA ConcatPair ==
    ASSUME NEW S, NEW x \in S, NEW y \in S
    PROVE  <<x>> \o <<y>> = <<x, y>>
<1>1. /\ <<x>> \o <<y>> \in Seq(S) /\ Len(<<x>> \o <<y>>) = 2
      /\ \A i \in 1..2 : (<<x>> \o <<y>>)[i] = IF i <= 1 THEN x ELSE y
      BY ConcatProperties
<1>2. \A i \in 1..2 : (<<x>> \o <<y>>)[i] = <<x, y>>[i]
      BY <1>1
<1>3. <<x, y>> \in Seq(S) /\ Len(<<x, y>>) = 2
      OBVIOUS
<1>. QED  BY <1>1, <1>2, <1>3, SeqEqual

(* What the writers' Del* chains collect: NewCache keeps the keys of the *)
(* chain so far, so the list comes before its hash.                       *)
LEMMA WriterQueues ==
    /\ DelConversationIDs(<<>>, <<Owner>>) = <<IDsK>>
    /\ \A c \in Convs : DelUserRecvMsgOpt(DelConvsersations(<<>>, Owner, <<c>>), Owner, c)
                 = <<CK(c), OK(c)>>
    /\ DelSuperGroupRecvMsgNotNotifyUserIDsHash(
           DelSuperGroupRecvMsgNotNotifyUserIDs(<<>>, SuperGroup), SuperGroup)
       = <<NNK, HK>>
<1>1. DelConversationIDs(<<>>, <<Owner>>) = <<IDsK>>
      <2>1. [i \in 1..Len(<<Owner>>) |-> getConversationIDsKey(<<Owner>>[i])] = <<IDsK>>
            BY DEF IDsK
      <2>. QED  BY <2>1 DEF DelConversationIDs, NewCache
<1>2. ASSUME NEW c \in Convs
      PROVE  DelUserRecvMsgOpt(DelConvsersations(<<>>, Owner, <<c>>), Owner, c)
                 = <<CK(c), OK(c)>>
      <2>1. [i \in 1..Len(<<c>>) |-> getConversationKey(Owner, <<c>>[i])] = <<CK(c)>>
            <3>1. Len(<<c>>) = 1 /\ <<c>>[1] = c
                  OBVIOUS
            <3>2. [i \in 1..1 |-> getConversationKey(Owner, <<c>>[i])]
                  = [i \in 1..1 |-> CK(c)]
                  BY <3>1 DEF CK
            <3>. QED  BY <3>1, <3>2
      <2>2. DelConvsersations(<<>>, Owner, <<c>>) = <<CK(c)>>
            BY <2>1 DEF DelConvsersations, NewCache
      <2>3. <<CK(c)>> \o <<getRecvMsgOptKey(Owner, c)>> = <<CK(c), OK(c)>>
            BY KeysInKeys, ConcatPair DEF OK
      <2>. QED  BY <2>2, <2>3 DEF DelUserRecvMsgOpt, NewCache
<1>3. DelSuperGroupRecvMsgNotNotifyUserIDs(<<>>, SuperGroup) = <<NNK>>
      BY DEF DelSuperGroupRecvMsgNotNotifyUserIDs, NewCache, NNK
<1>4. DelSuperGroupRecvMsgNotNotifyUserIDsHash(<<NNK>>, SuperGroup) = <<NNK, HK>>
      BY KeysInKeys, ConcatPair DEF DelSuperGroupRecvMsgNotNotifyUserIDsHash, NewCache, HK
<1>. QED  BY <1>1, <1>2, <1>3, <1>4

LEMMA InSeqShapes ==
    ASSUME NEW k
    PROVE  /\ ~InSeq(<<>>, k)
           /\ \A x : InSeq(<<x>>, k) <=> k = x
           /\ \A x, y : InSeq(<<x, y>>, k) <=> k = x \/ k = y
BY DEF InSeq

(* What the database says of each key, before and after a step.          *)
LEMMA TruthOf ==
    /\ Truth(IDsK) = [ids |-> convs]
    /\ Truth(NNK) = [ver |-> nnVer] /\ Truth(HK) = [ver |-> nnVer]
    /\ \A c : Truth(CK(c)) = [ver |-> ver[c]] /\ Truth(OK(c)) = [ver |-> ver[c]]
    /\ Truth(IDsK)' = [ids |-> convs']
    /\ Truth(NNK)' = [ver |-> nnVer'] /\ Truth(HK)' = [ver |-> nnVer']
    /\ \A c : Truth(CK(c))' = [ver |-> ver'[c]] /\ Truth(OK(c))' = [ver |-> ver'[c]]
BY KeyKinds DEF Truth

(* A fill of a key the writer no longer owes reads the database's value: *)
(* for the hash, the list it reads through the cache is not owed either.  *)
LEMMA SourceFresh ==
    ASSUME IInv, NEW k \in Keys, ~InQ(k)
    PROVE  Source(k) = Truth(k)
<1>1. CASE k = HK
      <2>1. ~InQ(NNK)
            <3>1. wq \notin {<<NNK, HK>>, <<HK>>}
                  BY <1>1, InSeqShapes DEF InQ
            <3>2. NNK # IDsK /\ \A c \in Convs : NNK # CK(c) /\ NNK # OK(c)
                  BY KeyKinds
            <3>. QED  BY <3>1, <3>2, InSeqShapes DEF IInv, Queues, InQ
      <2>2. cache[NNK] # Miss => cache[NNK] = [ver |-> nnVer]
            BY <2>1, KeysInKeys, TruthOf DEF IInv, Fresh
      <2>3. getSuperGroupRecvNotNotifyUserIDsKey(k.id) = NNK
            BY <1>1, KeyKinds DEF NNK
      <2>4. Source(k) = IF cache[NNK] # Miss THEN cache[NNK] ELSE [ver |-> nnVer]
            BY <1>1, <2>3, KeyKinds DEF Source
      <2>. QED  BY <1>1, <2>2, <2>4, TruthOf
<1>2. CASE k # HK
      <2>1. k = IDsK \/ k = NNK \/ \E c \in Convs : k = CK(c) \/ k = OK(c)
            BY <1>2, KeyForms
      <2>. QED  BY <2>1, KeyKinds, TruthOf DEF Source
<1>. QED  BY <1>1, <1>2
-----------------------------------------------------------------------------
(* A step that leaves the database alone leaves what it says alone.     *)
LEMMA TruthSame ==
    ASSUME NEW k, convs' = convs, ver' = ver, nnVer' = nnVer
    PROVE  Truth(k)' = Truth(k)
BY DEF Truth

(* Removing the head of a non-empty sequence removes only the head.      *)
LEMMA InSeqTail ==
    ASSUME NEW s \in Seq(Keys), s # <<>>, NEW k
    PROVE  InSeq(s, k) <=> k = Head(s) \/ InSeq(Tail(s), k)
<1>1. Len(Tail(s)) = Len(s) - 1 /\ \A i \in 1..Len(Tail(s)) : Tail(s)[i] = s[i + 1]
      BY HeadTailProperties
<1>2. Head(s) = s[1] /\ Len(s) >= 1
      BY EmptySeq, LenProperties
<1>. QED  BY <1>1, <1>2 DEF InSeq

(* The queue ExecDel leaves is one a writer can still owe.               *)
LEMMA TailQueues ==
    ASSUME wq \in Queues, wq # <<>>
    PROVE  Tail(wq) \in Queues
<1>1. ASSUME NEW x \in Keys, NEW y \in Keys
      PROVE  Tail(<<x, y>>) = <<y>> /\ Tail(<<x>>) = <<>>
      <2>1. Tail(<<x, y>>) \in Seq(Keys) /\ Len(Tail(<<x, y>>)) = 1
            /\ Tail(<<x, y>>)[1] = y
            BY HeadTailProperties
      <2>2. Tail(<<x>>) \in Seq(Keys) /\ Len(Tail(<<x>>)) = 0
            BY HeadTailProperties
      <2>. QED  BY <2>1, <2>2, SeqEqual, EmptySeq
<1>2. CASE wq \in {<<IDsK>>, <<HK>>}
      BY <1>2, <1>1, KeysInKeys DEF Queues
<1>3. CASE wq = <<NNK, HK>>
      BY <1>3, <1>1, KeysInKeys DEF Queues
<1>4. CASE \E c \in Convs : wq = <<CK(c), OK(c)>> \/ wq = <<OK(c)>>
      <2>1. PICK c \in Convs : wq = <<CK(c), OK(c)>> \/ wq = <<OK(c)>>
            BY <1>4
      <2>2. Tail(wq) \in {<<OK(c)>>, <<>>}
            BY <2>1, <1>1, KeysInKeys
      <2>. QED  BY <2>2 DEF Queues
<1>. QED  BY <1>2, <1>3, <1>4 DEF Queues
-----------------------------------------------------------------------------
(* Init establishes the invariant: nothing is cached or being filled.    *)
LEMMA InitIInv == Init => IInv
<1> SUFFICES ASSUME Init PROVE IInv
    OBVIOUS
<1>1. TypeOK
      BY DEF Init, TypeOK
<1>2. wq \in Queues
      BY DEF Init, Queues
<1>3. \A k \in Keys : Fresh(k)
      BY DEF Init, Fresh, Miss
<1>. QED  BY <1>1, <1>2, <1>3 DEF IInv

(* A step of a fill keeps every key fresh: the lock and the value change *)
(* only for the key filled, and what the fill read or stores is the      *)
(* database's value unless the writer still owes that key a deletion.    *)
LEMMA FillFresh ==
    ASSUME IInv, NEW k0 \in Keys,
           FillLock(k0) \/ FillFetch(k0) \/ FillNotFound(k0) \/ FillStore(k0),
           NEW k \in Keys
    PROVE  Fresh(k)'
<1>1. wq' = wq /\ Truth(k)' = Truth(k)
      BY TruthSame DEF FillLock, FillFetch, FillNotFound, FillStore
<1>2. InQ(k)' = InQ(k)
      BY <1>1 DEF InQ, InSeq
<1> USE DEF IInv, TypeOK
<1>3. CASE FillLock(k0)
      BY <1>1, <1>2, <1>3 DEF Fresh, FillLock
<1>4. CASE FillFetch(k0)
      <2>1. ~InQ(k0) => Source(k0) = Truth(k0)
            BY SourceFresh
      <2>. QED  BY <1>1, <1>2, <1>4, <2>1 DEF Fresh, FillFetch
<1>5. CASE FillNotFound(k0)
      BY <1>1, <1>2, <1>5 DEF Fresh, FillNotFound
<1>6. CASE FillStore(k0)
      BY <1>1, <1>2, <1>6 DEF Fresh, FillStore
<1>. QED  BY <1>3, <1>4, <1>5, <1>6
(* A writer changes the database only for the keys its Del* chain       *)
(* collects.                                                              *)
LEMMA WriterTruth ==
    ASSUME IInv,
           \/ \E c \in Convs : CreateConversation(c) \/ SetConversation(c)
           \/ SetSuperGroupRecvMsgNotNotify,
           NEW k \in Keys, ~InQ(k)'
    PROVE  Truth(k)' = Truth(k)
<1>4. k = IDsK \/ k = NNK \/ k = HK \/ \E d \in Convs : k = CK(d) \/ k = OK(d)
      BY KeyForms
<1>5. CASE \E c \in Convs : CreateConversation(c)
      <2>0. PICK c \in Convs : CreateConversation(c)
            BY <1>5
      <2>1. wq' = <<IDsK>>
            BY <2>0, WriterQueues DEF CreateConversation
      <2>2. k # IDsK
            BY <2>1, InSeqShapes DEF InQ
      <2>3. ver' = ver /\ nnVer' = nnVer
            BY <2>0 DEF CreateConversation
      <2>. QED  BY <1>4, <2>1, <2>2, <2>3, TruthOf
<1>6. CASE \E c \in Convs : SetConversation(c)
      <2>0. PICK c \in Convs : SetConversation(c)
            BY <1>6
      <2>1. wq' = <<CK(c), OK(c)>>
            BY <2>0, WriterQueues DEF SetConversation
      <2>2. k # CK(c) /\ k # OK(c)
            BY <2>1, InSeqShapes DEF InQ
      <2>3. convs' = convs /\ nnVer' = nnVer
            /\ \A d \in Convs \ {c} : ver'[d] = ver[d]
            BY <2>0 DEF SetConversation, IInv, TypeOK
      <2>. QED  BY <1>4, <2>1, <2>2, <2>3, TruthOf
<1>7. CASE SetSuperGroupRecvMsgNotNotify
      <2>1. wq' = <<NNK, HK>>
            BY <1>7, WriterQueues DEF SetSuperGroupRecvMsgNotNotify
      <2>2. k # NNK /\ k # HK
            BY <2>1, InSeqShapes DEF InQ
      <2>3. convs' = convs /\ ver' = ver
            BY <1>7 DEF SetSuperGroupRecvMsgNotNotify
      <2>. QED  BY <1>4, <2>1, <2>2, <2>3, TruthOf
<1>. QED  BY <1>5, <1>6, <1>7

(* A writer starts with nothing owed, and changes the database only for  *)
(* the keys its Del* chain collects: every other key stays fresh.        *)
LEMMA WriterFresh ==
    ASSUME IInv,
           \/ \E c \in Convs : CreateConversation(c) \/ SetConversation(c)
           \/ SetSuperGroupRecvMsgNotNotify,
           NEW k \in Keys
    PROVE  Fresh(k)' /\ wq' \in Queues
<1>1. ~InQ(k) /\ (cache[k] # Miss => cache[k] = Truth(k))
              /\ (lock[k] = "fetched" => fetched[k] = Truth(k))
      <2>1. wq = <<>>
            BY DEF CreateConversation, SetConversation, SetSuperGroupRecvMsgNotNotify
      <2>. QED  BY <2>1, InSeqShapes DEF IInv, Fresh, InQ
<1>2. UNCHANGED <<cache, lock, fetched>>
      BY DEF CreateConversation, SetConversation, SetSuperGroupRecvMsgNotNotify
<1>0. wq' \in Queues
      BY WriterQueues DEF CreateConversation, SetConversation,
         SetSuperGroupRecvMsgNotNotify, Queues
<1>3. ~InQ(k)' => Truth(k)' = Truth(k)
      BY WriterTruth
<1>. QED  BY <1>0, <1>1, <1>2, <1>3 DEF Fresh

(* ExecDel clears the key it deletes, and every other key it leaves is   *)
(* owed a deletion afterwards only if it was owed one before.            *)
LEMMA ExecDelFresh ==
    ASSUME IInv, ExecDel, NEW k \in Keys
    PROVE  Fresh(k)' /\ wq' \in Queues
<1>1. wq \in Seq(Keys) /\ wq # <<>> /\ Head(wq) \in Keys
      BY HeadTailProperties DEF IInv, TypeOK, ExecDel
<1>2. wq' \in Queues
      BY TailQueues DEF IInv, ExecDel
<1>3. Truth(k)' = Truth(k)
      BY TruthSame DEF ExecDel
<1>4. CASE k = Head(wq)
      BY <1>1, <1>2, <1>4 DEF Fresh, ExecDel, IInv, TypeOK, Miss
<1>5. CASE k # Head(wq)
      <2>1. InQ(k)' <=> InQ(k)
            BY <1>1, <1>5, InSeqTail DEF InQ, ExecDel
      <2>. QED  BY <1>1, <1>2, <1>3, <1>5, <2>1 DEF Fresh, ExecDel, IInv, TypeOK
<1>. QED  BY <1>4, <1>5

(* Every step keeps the invariant.                                         *)
LEMMA NextIInv == IInv /\ [Next]_vars => IInv'
<1> SUFFICES ASSUME IInv, [Next]_vars PROVE IInv'
    OBVIOUS
<1>1. TypeOK'
      BY TypeNext DEF IInv
<1>2. CASE \E k0 \in Keys : FillLock(k0) \/ FillFetch(k0) \/ FillNotFound(k0) \/ FillStore(k0)
      <2>1. wq' = wq
            BY <1>2 DEF FillLock, FillFetch, FillNotFound, FillStore
      <2>. QED  BY <1>1, <1>2, <2>1, FillFresh DEF IInv
<1>3. CASE \/ \E c \in Convs : CreateConversation(c) \/ SetConversation(c)
          \/ SetSuperGroupRecvMsgNotNotify
      BY <1>1, <1>3, WriterFresh, KeysInKeys DEF IInv
<1>5. CASE ExecDel
      BY <1>1, <1>5, ExecDelFresh, KeysInKeys DEF IInv
<1>6. CASE UNCHANGED vars
      BY <1>1, <1>6, TruthSame DEF IInv, Fresh, InQ, InSeq, vars
<1>. QED  BY <1>2, <1>3, <1>5, <1>6 DEF Next
-----------------------------------------------------------------------------
(* Every reachable state of the cache and the database is well typed: in *)
(* particular ExecDel only ever deletes keys of the cache.                *)
THEOREM CacheTypeCorrect == Spec => []TypeOK
<1>1. IInv => TypeOK
      BY DEF IInv
<1>. QED  BY <1>1, InitIInv, NextIInv, PTL DEF Spec

(* Once the writer has deleted the keys its Del* chain collected, every  *)
(* cached conversation, id list, option, not-notify list and hash agrees *)
(* with the database, whatever the fills did in between: a fill that read *)
(* before the write loses its lock to ExecDel, and the hash's fill reads  *)
(* the list through the cache only after the list's key was deleted.     *)
THEOREM CacheCoherence == Spec => []CacheCoherent
<1>1. IInv => CacheCoherent
      BY InSeqShapes DEF IInv, Fresh, InQ, CacheCoherent
<1>. QED  BY <1>1, InitIInv, NextIInv, PTL DEF Spec
-----------------------------------------------------------------------------
(* Refinement of the cache-aside contract CacheAside under AbsCache.     *)

(* A fill holding the "fetched" lock has read a value, not a miss.        *)
FetchedInv == \A k \in Keys : lock[k] = "fetched" => fetched[k] \in Values

RInv == IInv /\ FetchedInv

LEMMA InitRInv == Init => RInv
BY InitIInv DEF Init, RInv, FetchedInv

LEMMA NextRInv == RInv /\ [Next]_vars => RInv'
<1> SUFFICES ASSUME RInv, [Next]_vars PROVE RInv'
    OBVIOUS
<1>1. IInv'
      BY NextIInv DEF RInv
<1>2. FetchedInv'
      <2>1. TypeOK
            BY DEF RInv, IInv
      <2>2. ASSUME NEW k0 \in Keys, FillFetch(k0) PROVE FetchedInv'
            BY <2>1, <2>2, SourceTyped DEF FillFetch, FetchedInv, RInv, TypeOK
      <2>3. ASSUME NEW k0 \in Keys,
                   FillLock(k0) \/ FillNotFound(k0) \/ FillStore(k0)
            PROVE  FetchedInv'
            BY <2>1, <2>3 DEF FillLock, FillNotFound, FillStore, FetchedInv, RInv, TypeOK
      <2>4. CASE \/ \E c \in Convs : CreateConversation(c) \/ SetConversation(c)
                 \/ SetSuperGroupRecvMsgNotNotify
            BY <2>4 DEF CreateConversation, SetConversation,
               SetSuperGroupRecvMsgNotNotify, FetchedInv, RInv
      <2>5. CASE ExecDel
            BY <2>1, <2>5 DEF ExecDel, FetchedInv, RInv, TypeOK
      <2>6. CASE UNCHANGED vars
            BY <2>6 DEF vars, FetchedInv, RInv
      <2>. QED  BY <2>2, <2>3, <2>4, <2>5, <2>6 DEF Next
<1>. QED  BY <1>1, <1>2 DEF RInv

(* The keys the writer owes are those of its queue.                        *)
LEMMA PendingInQ ==
    ASSUME NEW sq \in Seq(Keys), NEW k
    PROVE  k \in {sq[i] : i \in DOMAIN sq} <=> InSeq(sq, k)
BY LenProperties DEF InSeq

(* What the database says of every key is a value, before and after a    *)
(* step.                                                                   *)
LEMMA TruthTyped ==
    ASSUME TypeOK, NEW k \in Keys
    PROVE  Truth(k) \in Values
<1>1. CASE k = IDsK \/ k = NNK \/ k = HK
      BY <1>1, TruthOf DEF TypeOK, Values
<1>2. CASE \E c \in Convs : k = CK(c) \/ k = OK(c)
      <2>1. PICK c \in Convs : k = CK(c) \/ k = OK(c)
            BY <1>2
      <2>. QED  BY <2>1, TruthOf DEF TypeOK, Values
<1>. QED  BY <1>1, <1>2, KeyForms

LEMMA TruthTypedPrimed ==
    ASSUME TypeOK', NEW k \in Keys
    PROVE  Truth(k)' \in Values
<1>1. CASE k = IDsK \/ k = NNK \/ k = HK
      BY <1>1, TruthOf DEF TypeOK, Values
<1>2. CASE \E c \in Convs : k = CK(c) \/ k = OK(c)
      <2>1. PICK c \in Convs : k = CK(c) \/ k = OK(c)
            BY <1>2
      <2>. QED  BY <2>1, TruthOf DEF TypeOK, Values
<1>. QED  BY <1>1, <1>2, KeyForms

(* A queue never names a key twice, so ExecDel discharges its head.       *)
LEMMA HeadNotInTail ==
    ASSUME wq \in Queues, wq # <<>>
    PROVE  ~InSeq(Tail(wq), Head(wq))
<1>1. ASSUME NEW x \in Keys, NEW y \in Keys, x # y
      PROVE  ~InSeq(Tail(<<x, y>>), Head(<<x, y>>)) /\ ~InSeq(Tail(<<x>>), Head(<<x>>))
      <2>1. Tail(<<x, y>>) = <<y>> /\ Tail(<<x>>) = <<>>
            <3>1. Tail(<<x, y>>) \in Seq(Keys) /\ Len(Tail(<<x, y>>)) = 1
                  /\ Tail(<<x, y>>)[1] = y
                  BY HeadTailProperties
            <3>2. Tail(<<x>>) \in Seq(Keys) /\ Len(Tail(<<x>>)) = 0
                  BY HeadTailProperties
            <3>. QED  BY <3>1, <3>2, SeqEqual, EmptySeq
      <2>. QED  BY <1>1, <2>1, InSeqShapes
<1>2. NNK # HK /\ \A c \in Convs : CK(c) # OK(c)
      BY KeyKinds
<1>3. IDsK # NNK
      BY KeyKinds
<1>. QED  BY <1>1, <1>2, <1>3, KeysInKeys DEF Queues

(* The refinement mapping applied to a step that leaves the cache, the   *)
(* queue and the database alone is a stutter of CacheAside.               *)
LEMMA MappedTruthSame ==
    ASSUME convs' = convs, ver' = ver, nnVer' = nnVer
    PROVE  [k \in Keys |-> Truth(k)]' = [k \in Keys |-> Truth(k)]
BY TruthSame

(* Every step of the conversation cache is a step of CacheAside or leaves *)
(* its state alone.                                                        *)
LEMMA StepRefines ==
    ASSUME RInv, RInv', [Next]_vars
    PROVE  [AbsCache!Next]_AbsCache!vars
<1> USE DEF RInv, IInv
<1>0. /\ wq \in Seq(Keys) /\ wq' \in Seq(Keys)
      /\ \A k : k \in Pending <=> InQ(k)
      /\ \A k : k \in Pending' <=> InQ(k)'
      BY PendingInQ DEF TypeOK, Pending, InQ
<1>1. ASSUME NEW k0 \in Keys, FillLock(k0) \/ FillFetch(k0) \/ FillNotFound(k0)
      PROVE  UNCHANGED AbsCache!vars
      <2>1. UNCHANGED <<convs, ver, nnVer, cache, wq>>
            BY <1>1 DEF FillLock, FillFetch, FillNotFound
      <2>. QED  BY <2>1, MappedTruthSame DEF AbsCache!vars, Pending
<1>2. ASSUME NEW k0 \in Keys, FillStore(k0)
      PROVE  AbsCache!Next
      <2>1. UNCHANGED <<convs, ver, nnVer, wq>>
            /\ cache' = [cache EXCEPT ![k0] = fetched[k0]]
            /\ lock[k0] = "fetched"
            BY <1>2 DEF FillStore
      <2>2. UNCHANGED <<[k \in Keys |-> Truth(k)], Pending>>
            BY <2>1, MappedTruthSame DEF Pending
      <2>3. CASE ~InQ(k0)
            <3>1. fetched[k0] = Truth(k0)
                  BY <2>1, <2>3 DEF Fresh
            <3>2. AbsCache!Fill(k0)
                  BY <1>0, <2>1, <2>2, <2>3, <3>1 DEF AbsCache!Fill
            <3>. QED  BY <3>2 DEF AbsCache!Next
      <2>4. CASE InQ(k0)
            <3>1. fetched[k0] \in Values
                  BY <2>1 DEF FetchedInv
            <3>2. AbsCache!FillDirty(k0, fetched[k0])
                  BY <1>0, <2>1, <2>2, <2>4 DEF AbsCache!FillDirty
            <3>. QED  BY <3>1, <3>2 DEF AbsCache!Next
      <2>. QED  BY <2>3, <2>4
<1>3. CASE \/ \E c \in Convs : CreateConversation(c) \/ SetConversation(c)
           \/ SetSuperGroupRecvMsgNotNotify
      <2>1. wq = <<>> /\ cache' = cache
            BY <1>3 DEF CreateConversation, SetConversation, SetSuperGroupRecvMsgNotNotify
      <2>2. [k \in Keys |-> Truth(k)]' \in [Keys -> Values]
            BY TruthTypedPrimed
      <2>3. Pending = {} /\ Pending' \subseteq Keys
            BY <1>0, <2>1 DEF Pending
      <2>4. \A k \in Keys : Truth(k)' # Truth(k) => k \in Pending'
            BY <1>0, <1>3, WriterTruth
      <2>5. AbsCache!Write
            BY <2>1, <2>2, <2>3, <2>4 DEF AbsCache!Write
      <2>. QED  BY <2>5 DEF AbsCache!Next
<1>4. CASE ExecDel
      <2>1. wq # <<>> /\ Head(wq) \in Keys /\ wq' = Tail(wq)
            /\ cache' = [cache EXCEPT ![Head(wq)] = Miss]
            /\ UNCHANGED <<convs, ver, nnVer>>
            BY <1>0, <1>4 DEF ExecDel
      <2>2. Head(wq) \in Pending
            BY <1>0, <2>1, InSeqTail DEF InQ
      <2>3. Pending' = Pending \ {Head(wq)}
            <3>1. ~InSeq(Tail(wq), Head(wq))
                  BY <2>1, HeadNotInTail
            <3>2. \A k : InSeq(wq, k) <=> k = Head(wq) \/ InSeq(Tail(wq), k)
                  BY <1>0, <2>1, InSeqTail
            <3>. QED  BY <1>0, <2>1, <3>1, <3>2 DEF InQ
      <2>4. AbsCache!Invalidate(Head(wq))
            BY <2>1, <2>2, <2>3, MappedTruthSame DEF AbsCache!Invalidate
      <2>. QED  BY <2>1, <2>4 DEF AbsCache!Next
<1>5. CASE UNCHANGED vars
      BY <1>5, MappedTruthSame DEF vars, AbsCache!vars, Pending
<1>. QED  BY <1>1, <1>2, <1>3, <1>4, <1>5 DEF Next

(* The conversation cache implements the cache-aside contract: in every  *)
(* behaviour, each write's Del* chain collects every key whose database  *)
(* value it changes, each rockscache fill stores the database's value of *)
(* a key whose deletion is no longer owed, and each ExecDel step         *)
(* discharges exactly the key it deletes.                                 *)
THEOREM CacheRefinesCacheAside == Spec => CacheAsideRefined
<1>1. Init => AbsCache!Init
      <2> SUFFICES ASSUME Init PROVE AbsCache!Init
          OBVIOUS
      <2>1. TypeOK
            BY InitIInv DEF IInv
      <2>2. [k \in Keys |-> Truth(k)] \in [Keys -> Values]
            BY <2>1, TruthTyped
      <2>. QED  BY <2>2 DEF Init, AbsCache!Init, Pending
<1>2. RInv /\ RInv' /\ [Next]_vars => [AbsCache!Next]_AbsCache!vars
      BY StepRefines
<1>. QED  BY <1>1, <1>2, InitRInv, NextRInv, PTL
          DEF Spec, CacheAsideRefined, AbsCache!Spec
=============================================================================
