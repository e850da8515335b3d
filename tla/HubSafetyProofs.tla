-------------------------- MODULE HubSafetyProofs --------------------------
(***************************************************************************)
(* Proofs of the handler invariants of Hub, for every value of the        *)
(* constants: what KickUserOffline, GetUsersOnlineStatus and              *)
(* SuperGroupOnlineBatchPushOneMsg report when they return agrees with    *)
(* the sessions the registry held, although each handler reads the        *)
(* registry one snapshot at a time while the transport and the other     *)
(* handlers go on.                                                        *)
(***************************************************************************)
EXTENDS HubProofs

(* The sessions that have been attached: their user and platform are     *)
(* fixed from then on.                                                     *)
NonIdle == {c \in Conns : conn[c].status # "idle"}

(* KickEffective made inductive.  The sessions the call must close were  *)
(* attached, on the call's platform; while the call runs, each of them    *)
(* that is still open belongs to a user the loop has not looked up yet,  *)
(* or is in the snapshot of the user being kicked.                        *)
KickInv ==
    /\ kstart \subseteq NonIdle
    /\ \A c \in kstart : conn[c].platform = kplat
    /\ kpc \in {"lookup", "kick"} =>
          \A c \in kstart : conn[c].status = "open" =>
              \/ conn[c].user \in Range(kusers)
              \/ kpc = "kick" /\ c \in ksnap
    /\ KickEffective

(* The reply lists session c under its user.                            *)
Listed(c) == \E i \in DOMAIN pout : pout[i].user = conn[c].user /\ c \in pout[i].conns

(* PresenceComplete made inductive: while the loop runs, every session of *)
(* the call that is not gone belongs to a user still to be looked up, or *)
(* is listed already.                                                      *)
PresInv ==
    /\ pstart \subseteq NonIdle
    /\ ppc = "lookup" =>
          \A c \in pstart : conn[c].status # "gone" =>
              conn[c].user \in Range(pusers) \/ Listed(c)
    /\ PresenceComplete

(* The fanout call has appended a result for user u.                    *)
Served(u) == \E i \in DOMAIN fout : fout[i].user = u

(* FanoutComplete made inductive: while the call runs, every session of  *)
(* its targets that is not gone belongs to a target still to be looked   *)
(* up, to one whose result is appended, or to the one whose result is    *)
(* being built.                                                             *)
FanInv ==
    /\ fstart \subseteq NonIdle
    /\ fpc # "idle" =>
          \A c \in fstart : conn[c].status # "gone" =>
              \/ conn[c].user \in Range(ftodo)
              \/ Served(conn[c].user)
              \/ fpc \in {"push", "send"} /\ fcur.user = conn[c].user
    /\ FanoutComplete

-----------------------------------------------------------------------------
(* A session that has been attached keeps its user and platform, never   *)
(* becomes idle again, and is open only if it was open: Register takes   *)
(* only an idle connection id, and every other step changes only the     *)
(* status along open -> closed -> gone, or the background flag.           *)
LEMMA ConnStable ==
    ASSUME TypeOK, [Next]_vars, NEW c \in NonIdle
    PROVE  /\ c \in NonIdle'
           /\ conn'[c].user = conn[c].user
           /\ conn'[c].platform = conn[c].platform
           /\ conn'[c].status = "open" => conn[c].status = "open"
           /\ conn[c].status = "gone" => conn'[c].status = "gone"
<1> USE DEF NonIdle, TypeOK, RegTypeOK, Session
<1>1. CASE RegStep
    <2>1. PICK d \in Conns :
            \/ \E u \in Users, p \in Platforms : Register(d, u, p)
            \/ \E b \in BOOLEAN : SetBackground(d, b)
            \/ Close(d)
            \/ Unregister(d)
        BY <1>1 DEF RegStep, RegNext
    <2>2. CASE \E u \in Users, p \in Platforms : Register(d, u, p)
        BY <2>2 DEF Register
    <2>3. CASE \E b \in BOOLEAN : SetBackground(d, b)
        BY <2>3 DEF SetBackground
    <2>4. CASE Close(d)
        BY <2>4 DEF Close
    <2>5. CASE Unregister(d)
        BY <2>5 DEF Unregister
    <2>. QED  BY <2>1, <2>2, <2>3, <2>4, <2>5
<1>2. CASE \E d \in Conns : KickOneOk(d)
    BY <1>2 DEF KickOneOk
<1>3. CASE PresStep \/ FanStep \/ (KickStep /\ ~\E d \in Conns : KickOneOk(d))
                    \/ UNCHANGED vars
    <2>1. conn' = conn
        BY <1>3 DEF PresStep, PresDenied, PresCall, PresLookup, PresReturn,
                    FanStep, FanCall, FanLookup, FanCheck, FanSendOk, FanSendFail,
                    FanUserDone, FanReturn,
                    KickStep, KickCall, KickLookup, KickOneFail, KickReturn,
                    vars, regVars
    <2>. QED  BY <2>1
<1>. QED  BY <1>1, <1>2, <1>3 DEF Next

(* A session that is registered (open or closed) is in its own bucket,   *)
(* hence in every lookup of its user.                                      *)
LEMMA RegisteredInLookups ==
    ASSUME TypeOK, RegistryConsistent, NEW c \in Conns,
           conn[c].status \in Registered
    PROVE  /\ c \in AllCons(conn[c].user)
           /\ c \in PlatformCons(conn[c].user, conn[c].platform)
BY DEF RegistryConsistent, AllCons, PlatformCons, TypeOK, RegTypeOK, Session

(* The users a loop has still to visit: the head and those of the tail.  *)
LEMMA RangeHeadTail ==
    ASSUME NEW S, NEW s \in Seq(S), s # <<>>
    PROVE  Range(s) = {Head(s)} \cup Range(Tail(s))
<1>1. Len(s) >= 1 /\ Head(s) = s[1]
    BY EmptySeq, LenProperties
<1>2. Len(Tail(s)) = Len(s) - 1 /\ \A i \in 1..Len(Tail(s)) : Tail(s)[i] = s[i + 1]
    BY HeadTailProperties
<1>3. DOMAIN s = 1..Len(s) /\ DOMAIN Tail(s) = 1..Len(Tail(s))
    BY HeadTailProperties, LenProperties
<1>4. ASSUME NEW x \in Range(s) PROVE x = Head(s) \/ x \in Range(Tail(s))
    <2>1. PICK i \in 1..Len(s) : x = s[i]
        BY <1>3 DEF Range
    <2>2. CASE i = 1
        BY <1>1, <2>1, <2>2
    <2>3. CASE i # 1
        <3>1. i - 1 \in 1..Len(Tail(s)) /\ Tail(s)[i - 1] = x
            BY <1>1, <1>2, <2>1, <2>3
        <3>. QED  BY <1>3, <3>1 DEF Range
    <2>. QED  BY <2>2, <2>3
<1>5. Head(s) \in Range(s)
    BY <1>1, <1>3 DEF Range
<1>6. ASSUME NEW j \in 1..Len(Tail(s)) PROVE Tail(s)[j] \in Range(s)
    <2>1. j + 1 \in 1..Len(s)
        BY <1>2
    <2>. QED  BY <1>2, <1>3, <2>1 DEF Range
<1>7. Range(Tail(s)) \subseteq Range(s)
    BY <1>3, <1>6 DEF Range
<1>. QED  BY <1>4, <1>5, <1>7

LEMMA RangeEmpty == Range(<<>>) = {}
BY DEF Range

(* Appending keeps the earlier elements where they were.                 *)
LEMMA AppendKeeps ==
    ASSUME NEW S, NEW s \in Seq(S), NEW x \in S
    PROVE  /\ DOMAIN Append(s, x) = DOMAIN s \cup {Len(s) + 1}
           /\ \A i \in DOMAIN s : Append(s, x)[i] = s[i]
           /\ Append(s, x)[Len(s) + 1] = x
BY AppendProperties, LenProperties
-----------------------------------------------------------------------------
(* KickUserOffline.                                                        *)

LEMMA InitKickInv == Init => KickInv
BY DEF Init, KickInv, KickEffective

LEMMA NextKickInv ==
    TypeOK /\ RegistryConsistent /\ KickInv /\ [Next]_vars => KickInv'
<1> SUFFICES ASSUME TypeOK, RegistryConsistent, KickInv, [Next]_vars
             PROVE  KickInv'
    OBVIOUS
<1>0. \A c \in kstart : /\ c \in NonIdle'
                        /\ conn'[c].user = conn[c].user
                        /\ conn'[c].platform = conn[c].platform
                        /\ conn'[c].status = "open" => conn[c].status = "open"
    BY ConnStable DEF KickInv
<1>1. CASE UNCHANGED kickVars
    BY <1>0, <1>1 DEF KickInv, KickEffective, kickVars
<1>2. ASSUME NEW us \in UserLists, NEW p \in Platforms, KickCall(us, p)
      PROVE  KickInv'
    BY <1>2 DEF KickCall, KickInv, KickEffective, NonIdle, regVars
<1>3. CASE KickLookup
    <2>1. kusers \in Seq(Users) /\ kusers # <<>>
        BY <1>3 DEF KickLookup, TypeOK
    <2>2. Range(kusers) = {Head(kusers)} \cup Range(Tail(kusers))
        BY <2>1, RangeHeadTail
    <2>3. ASSUME NEW c \in kstart, conn[c].status = "open",
                 conn[c].user = Head(kusers)
          PROVE  c \in PlatformCons(Head(kusers), kplat)
        <3>1. c \in Conns /\ conn[c].platform = kplat
            BY <2>3 DEF KickInv, NonIdle
        <3>. QED  BY <2>3, <3>1, RegisteredInLookups DEF Registered
    <2>4. /\ conn' = conn /\ kstart' = kstart /\ kplat' = kplat /\ kpc = "lookup"
          /\ kusers' = Tail(kusers) /\ ksnap' = PlatformCons(Head(kusers), kplat)
          /\ kpc' = IF ksnap' = {} THEN "lookup" ELSE "kick"
        BY <1>3 DEF KickLookup, regVars
    <2>5. ASSUME NEW c \in kstart, conn[c].status = "open"
          PROVE  \/ conn[c].user \in Range(kusers')
                 \/ kpc' = "kick" /\ c \in ksnap'
        <3>1. conn[c].user \in Range(kusers)
            BY <2>4, <2>5 DEF KickInv
        <3>2. CASE conn[c].user = Head(kusers)
            <4>1. c \in ksnap'
                BY <2>3, <2>4, <2>5, <3>2
            <4>2. kpc' = "kick"
                BY <2>4, <4>1
            <4>. QED  BY <4>1, <4>2
        <3>3. CASE conn[c].user # Head(kusers)
            <4>1. conn[c].user \in Range(Tail(kusers))
                BY <2>2, <3>1, <3>3
            <4>. QED  BY <2>4, <4>1
        <3>. QED  BY <3>2, <3>3
    <2>6. kpc' # "idle"
        BY <2>4
    <2>7. (kstart \subseteq NonIdle /\ \A c \in kstart : conn[c].platform = kplat)'
        BY <2>4 DEF KickInv, NonIdle
    <2>. QED  BY <2>4, <2>5, <2>6, <2>7 DEF KickInv, KickEffective
<1>4. ASSUME NEW d \in Conns, KickOneOk(d) PROVE KickInv'
    BY <1>0, <1>4 DEF KickOneOk, KickInv, KickEffective, TypeOK, RegTypeOK
<1>5. ASSUME NEW d \in Conns, KickOneFail(d) PROVE KickInv'
    BY <1>0, <1>5 DEF KickOneFail, KickInv, KickEffective, regVars
<1>6. CASE KickReturn
    BY <1>0, <1>6, RangeEmpty DEF KickReturn, KickInv, KickEffective, regVars
<1>7. CASE RegStep \/ PresStep \/ FanStep
    <2>. UNCHANGED kickVars
        BY <1>7 DEF RegStep, PresStep, PresDenied, PresCall, PresLookup, PresReturn,
                    FanStep, FanCall, FanLookup, FanCheck, FanSendOk, FanSendFail,
                    FanUserDone, FanReturn
    <2>. QED  BY <1>1
<1>8. CASE UNCHANGED vars
    BY <1>1, <1>8 DEF vars
<1>. QED  BY <1>2, <1>3, <1>4, <1>5, <1>6, <1>7, <1>8 DEF Next, KickStep

(* KickUserOffline returning success has closed every session of the     *)
(* listed users on the platform that was open when the call began,       *)
(* however the transport and the other handlers interleaved with its     *)
(* per-user lookups.                                                        *)
THEOREM KickCloses == Spec => []KickEffective
<1>1. KickInv => KickEffective
    BY DEF KickInv
<1>. QED  BY <1>1, InitKickInv, NextKickInv, TypeCorrect, RegistryConsistency,
             PTL DEF Spec
-----------------------------------------------------------------------------
(* GetUsersOnlineStatus.                                                   *)

LEMMA InitPresInv == Init => PresInv
BY DEF Init, PresInv, PresenceComplete

LEMMA NextPresInv ==
    TypeOK /\ RegistryConsistent /\ PresInv /\ [Next]_vars => PresInv'
<1> SUFFICES ASSUME TypeOK, RegistryConsistent, PresInv, [Next]_vars
             PROVE  PresInv'
    OBVIOUS
<1>0. \A c \in pstart : /\ c \in NonIdle'
                        /\ conn'[c].user = conn[c].user
                        /\ conn'[c].status # "gone" => conn[c].status # "gone"
    BY ConnStable DEF PresInv
<1>1. CASE UNCHANGED presVars
    BY <1>0, <1>1 DEF PresInv, PresenceComplete, Listed, presVars
<1>2. CASE PresDenied
    BY <1>2 DEF PresDenied, PresInv, PresenceComplete, NonIdle, regVars
<1>3. ASSUME NEW us \in UserLists, PresCall(us) PROVE PresInv'
    BY <1>3 DEF PresCall, PresInv, PresenceComplete, NonIdle, Registered, regVars
<1>4. CASE PresLookup
    <2> DEFINE v == Head(pusers)
               e == [user |-> v, conns |-> AllCons(v)]
    <2>1. pusers \in Seq(Users) /\ pusers # <<>> /\ pout \in Seq(PresEntry)
        BY <1>4 DEF PresLookup, TypeOK
    <2>2. Range(pusers) = {v} \cup Range(Tail(pusers))
        BY <2>1, RangeHeadTail
    <2>3. e \in PresEntry
        BY <2>1, AllConsType DEF TypeOK, PresEntry
    <2>4. /\ conn' = conn /\ pstart' = pstart /\ ppc = "lookup" /\ ppc' = "lookup"
          /\ pusers' = Tail(pusers)
          /\ pout' = IF AllCons(v) = {} THEN pout ELSE Append(pout, e)
        BY <1>4 DEF PresLookup, regVars
    <2>5. ASSUME NEW c \in pstart, conn[c].status # "gone", Listed(c) PROVE Listed(c)'
        <3>1. CASE AllCons(v) = {}
            BY <2>4, <2>5, <3>1 DEF Listed
        <3>2. CASE AllCons(v) # {}
            BY <2>1, <2>3, <2>4, <2>5, <3>2, AppendKeeps DEF Listed
        <3>. QED  BY <3>1, <3>2
    <2>6. ASSUME NEW c \in pstart, conn[c].status # "gone", conn[c].user = v
          PROVE  Listed(c)'
        <3>1. c \in Conns /\ conn[c].status \in Registered
            BY <2>6 DEF PresInv, NonIdle, TypeOK, RegTypeOK, Session, Status, Registered
        <3>2. c \in AllCons(v)
            BY <2>6, <3>1, RegisteredInLookups
        <3>3. pout' = Append(pout, e)
            BY <2>4, <3>2
        <3>4. Len(pout) + 1 \in DOMAIN pout' /\ pout'[Len(pout) + 1] = e
            BY <2>1, <2>3, <3>3, AppendKeeps
        <3>. QED  BY <2>4, <2>6, <3>2, <3>4 DEF Listed
    <2>7. ASSUME NEW c \in pstart, conn[c].status # "gone"
          PROVE  conn[c].user \in Range(pusers') \/ Listed(c)'
        <3>1. conn[c].user \in Range(pusers) \/ Listed(c)
            BY <2>4, <2>7 DEF PresInv
        <3>. QED  BY <2>2, <2>4, <2>5, <2>6, <2>7, <3>1
    <2>8. (pstart \subseteq NonIdle)'
        BY <2>4 DEF PresInv, NonIdle
    <2>. QED  BY <2>4, <2>7, <2>8 DEF PresInv, PresenceComplete
<1>5. CASE PresReturn
    <2>1. pusers = <<>> /\ ppc = "lookup" /\ UNCHANGED <<conn, pstart, pout, pusers>>
        BY <1>5 DEF PresReturn, regVars
    <2>. QED  BY <2>1, RangeEmpty DEF PresInv, PresenceComplete, Listed, NonIdle
<1>6. CASE RegStep \/ FanStep \/ KickStep
    <2>. UNCHANGED presVars
        BY <1>6 DEF RegStep, FanStep, FanCall, FanLookup, FanCheck, FanSendOk, FanSendFail,
                    FanUserDone, FanReturn,
                    KickStep, KickCall, KickLookup, KickOneOk, KickOneFail, KickReturn
    <2>. QED  BY <1>1
<1>7. CASE UNCHANGED vars
    BY <1>1, <1>7 DEF vars
<1>. QED  BY <1>2, <1>3, <1>4, <1>5, <1>6, <1>7 DEF Next, PresStep

(* A successful GetUsersOnlineStatus reply lists every session of a       *)
(* requested user that was registered from the start of the call to its  *)
(* end, background or not, although the users were looked up one by one. *)
THEOREM PresenceListsAll == Spec => []PresenceComplete
<1>1. PresInv => PresenceComplete
    BY DEF PresInv
<1>. QED  BY <1>1, InitPresInv, NextPresInv, TypeCorrect, RegistryConsistency,
             PTL DEF Spec
-----------------------------------------------------------------------------
(* SuperGroupOnlineBatchPushOneMsg: every target gets its result.         *)

LEMMA InitFanInv == Init => FanInv
BY DEF Init, FanInv, FanoutComplete

(* The steps of the fanout loop that work on the result being built      *)
(* keep its user, stay inside the loop over the clients, and change      *)
(* neither the sessions, the targets nor the appended results.            *)
LEMMA FanClientStep ==
    ASSUME TypeOK,
           \/ \E c \in Conns : FanCheck(c)
           \/ FanSendOk \/ FanSendFail
    PROVE  /\ fpc = "push" \/ fpc = "send"
           /\ fpc' \in {"push", "send"}
           /\ fcur'.user = fcur.user
           /\ UNCHANGED <<conn, ftodo, fout, fstart>>
<1>1. CASE \E c \in Conns : FanCheck(c)
    BY <1>1 DEF FanCheck, regVars, TypeOK, Result
<1>2. CASE FanSendOk
    BY <1>2 DEF FanSendOk, regVars, TypeOK, Result
<1>3. CASE FanSendFail
    BY <1>3 DEF FanSendFail, regVars, TypeOK, Result
<1>. QED  BY <1>1, <1>2, <1>3

LEMMA NextFanInv ==
    TypeOK /\ RegistryConsistent /\ FanInv /\ [Next]_vars => FanInv'
<1> SUFFICES ASSUME TypeOK, RegistryConsistent, FanInv, [Next]_vars
             PROVE  FanInv'
    OBVIOUS
<1>0. \A c \in fstart : /\ c \in NonIdle'
                        /\ conn'[c].user = conn[c].user
                        /\ conn'[c].status # "gone" => conn[c].status # "gone"
    BY ConnStable DEF FanInv
<1>1. CASE UNCHANGED fanVars
    BY <1>0, <1>1 DEF FanInv, FanoutComplete, Served, fanVars
<1>2. ASSUME NEW ts \in UserLists, FanCall(ts) PROVE FanInv'
    BY <1>2 DEF FanCall, FanInv, FanoutComplete, NonIdle, Registered, regVars
<1>3. CASE FanLookup
    <2> DEFINE v == Head(ftodo)
    <2>1. ftodo \in Seq(Users) /\ ftodo # <<>>
        BY <1>3 DEF FanLookup, TypeOK
    <2>2. Range(ftodo) = {v} \cup Range(Tail(ftodo))
        BY <2>1, RangeHeadTail
    <2>3. /\ conn' = conn /\ fstart' = fstart /\ fout' = fout /\ fpc = "lookup"
          /\ ftodo' = Tail(ftodo)
          /\ AllCons(v) = {} => fpc' = "lookup"
          /\ AllCons(v) # {} => fpc' = "push" /\ fcur' = NewResult(v)
        BY <1>3 DEF FanLookup, regVars
    <2>4. ASSUME NEW c \in fstart, conn[c].status # "gone", conn[c].user = v
          PROVE  fpc' = "push" /\ fcur'.user = v
        <3>1. c \in Conns /\ conn[c].status \in Registered
            BY <2>4 DEF FanInv, NonIdle, TypeOK, RegTypeOK, Session, Status, Registered
        <3>2. c \in AllCons(v)
            BY <2>4, <3>1, RegisteredInLookups
        <3>. QED  BY <2>3, <3>2 DEF NewResult
    <2>5. ASSUME NEW c \in fstart, conn[c].status # "gone"
          PROVE  \/ conn[c].user \in Range(ftodo')
                 \/ Served(conn[c].user)'
                 \/ fpc' \in {"push", "send"} /\ fcur'.user = conn[c].user
        <3>1. conn[c].user \in Range(ftodo) \/ Served(conn[c].user)
            BY <2>3, <2>5 DEF FanInv
        <3>. QED  BY <2>2, <2>3, <2>4, <2>5, <3>1 DEF Served
    <2>6. fpc' # "idle" /\ (fstart \subseteq NonIdle)'
        BY <2>3 DEF FanInv, NonIdle
    <2>. QED  BY <2>3, <2>5, <2>6 DEF FanInv, FanoutComplete
<1>4. CASE \/ \E c \in Conns : FanCheck(c)
           \/ FanSendOk \/ FanSendFail
    <2>1. /\ fpc' \in {"push", "send"} /\ fcur'.user = fcur.user
          /\ fpc \in {"push", "send"}
          /\ UNCHANGED <<conn, ftodo, fout, fstart>>
        BY <1>4, FanClientStep
    <2>. QED  BY <2>1 DEF FanInv, FanoutComplete, Served, NonIdle
<1>5. CASE FanUserDone
    <2>1. /\ fpc = "push" /\ fpc' = "lookup" /\ fout' = Append(fout, fcur)
          /\ UNCHANGED <<conn, ftodo, fstart, fcur>>
          /\ fout \in Seq(Result) /\ fcur \in Result
        BY <1>5 DEF FanUserDone, regVars, TypeOK
    <2>2. /\ DOMAIN fout' = DOMAIN fout \cup {Len(fout) + 1}
          /\ \A i \in DOMAIN fout : fout'[i] = fout[i]
          /\ fout'[Len(fout) + 1] = fcur
        BY <2>1, AppendKeeps
    <2>3. ASSUME NEW c \in fstart, Served(conn[c].user) PROVE Served(conn[c].user)'
        BY <2>1, <2>2, <2>3 DEF Served
    <2>4. ASSUME NEW c \in fstart, fcur.user = conn[c].user
          PROVE  Served(conn[c].user)'
        BY <2>1, <2>2, <2>4 DEF Served
    <2>5. ASSUME NEW c \in fstart, conn[c].status # "gone"
          PROVE  \/ conn[c].user \in Range(ftodo')
                 \/ Served(conn[c].user)'
        BY <2>1, <2>3, <2>4, <2>5 DEF FanInv
    <2>6. (fstart \subseteq NonIdle)'
        BY <2>1 DEF FanInv, NonIdle
    <2>. QED  BY <2>1, <2>5, <2>6 DEF FanInv, FanoutComplete
<1>6. CASE FanReturn
    <2>1. ftodo = <<>> /\ fpc = "lookup" /\ fpc' = "idle"
          /\ UNCHANGED <<conn, ftodo, fout, fstart>>
        BY <1>6 DEF FanReturn, regVars
    <2>. QED  BY <2>1, RangeEmpty DEF FanInv, FanoutComplete, Served, NonIdle
<1>7. CASE RegStep \/ PresStep \/ KickStep
    <2>. UNCHANGED fanVars
        BY <1>7 DEF RegStep, PresStep, PresDenied, PresCall, PresLookup, PresReturn,
                    KickStep, KickCall, KickLookup, KickOneOk, KickOneFail, KickReturn
    <2>. QED  BY <1>1
<1>8. CASE UNCHANGED vars
    BY <1>1, <1>8 DEF vars
<1>. QED  BY <1>2, <1>3, <1>4, <1>5, <1>6, <1>7, <1>8 DEF Next, FanStep

(* A finished fanout call has a result for every target that had a       *)
(* session registered from the start of the call to its end, whatever    *)
(* the clients did while the targets were looked up one by one.           *)
THEOREM FanoutReachesAll == Spec => []FanoutComplete
<1>1. FanInv => FanoutComplete
    BY DEF FanInv
<1>. QED  BY <1>1, InitFanInv, NextFanInv, TypeCorrect, RegistryConsistency,
             PTL DEF Spec
=============================================================================
