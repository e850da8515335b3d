-------------------------------- MODULE Hub --------------------------------
(***************************************************************************)
(* The RPC handlers of the message gateway (src/internal/msggateway/       *)
(* hub_server.go) running against the connection registry: presence       *)
(* (GetUsersOnlineStatus), push fanout (SuperGroupOnlineBatchPushOneMsg)  *)
(* and eviction (KickUserOffline).  Each handler is a goroutine of the    *)
(* gRPC server; it interleaves with the other handlers and with the       *)
(* transport's attach/detach/background traffic at the points where the   *)
(* code leaves the registry lock: every registry lookup returns a          *)
(* snapshot, and every write to a client (PushMessage, KickOnlineMessage)  *)
(* is I/O done outside any lock.                                          *)
(***************************************************************************)
EXTENDS Registry, Integers, Sequences, Functions

CONSTANTS PushTerminal,  \* s.pushTerminal: platforms for which an online push
                         \* makes an offline push unnecessary (iOS, Android)
          MaxFanCalls,   \* bounds on the number of calls of each RPC
          MaxKickCalls,  \* in one behaviour
          MaxPresCalls

ASSUME HubAssumption ==
    /\ PushTerminal \subseteq Platforms
    /\ {MaxFanCalls, MaxKickCalls, MaxPresCalls} \subseteq Nat

(* The user-id lists an RPC is called with: one or two ids, repeats       *)
(* allowed (the request fields are plain repeated strings).               *)
UserLists == {<<u>> : u \in Users} \cup {<<u, v>> : u, v \in Users}

VARIABLES
    \* SuperGroupOnlineBatchPushOneMsg
    fpc,       \* "idle", "lookup" (loop over targets), "push" (loop over
               \* clients), "send" (isBackground read, PushMessage next)
    ftodo,     \* targets not looked up yet
    fsnap,     \* clients of the current target not handled yet
    fsel,      \* the client being pushed to
    fcur,      \* tempT: the result being built for the current target
    fout,      \* singleUserResult
    fcalls,    \* calls made so far
    fstart,    \* ghost: registered sessions of the targets at call start
    pushCount, \* prome MsgOnlinePushSuccessCounter
    \* KickUserOffline
    kpc, kusers, kplat, ksnap, kres, kcalls,
    kstart,    \* ghost: open sessions of (KickUserIDList, PlatformID) at call start
    \* GetUsersOnlineStatus
    ppc, pusers, pout, preply, pcalls,
    pstart     \* ghost: registered sessions of the requested users at call start

fanVars  == <<fpc, ftodo, fsnap, fsel, fcur, fout, fcalls, fstart, pushCount>>
kickVars == <<kpc, kusers, kplat, ksnap, kres, kcalls, kstart>>
presVars == <<ppc, pusers, pout, preply, pcalls, pstart>>
vars == <<regVars, fanVars, kickVars, presVars>>

(* ResultCode of a SingleMsgToUserPlatform: 0 pushed, -2 PushMessage     *)
(* failed, -3 client in background.                                        *)
ResultCodes == {0, -2, -3}

Entry == [conn: Conns, platform: Platforms, code: ResultCodes]

(* A SingleMsgToUserResults.                                               *)
Result == [user: Users, onlinePush: BOOLEAN, resp: SUBSET Entry]

NewResult(v) == [user |-> v, onlinePush |-> FALSE, resp |-> {}]

PresEntry == [user: Users, conns: SUBSET Conns]

-----------------------------------------------------------------------------
(***************************** GetUsersOnlineStatus ************************)

(* A requester that is not the app manager is refused before any lookup. *)
PresDenied ==
    /\ ppc = "idle" /\ pcalls < MaxPresCalls
    /\ pcalls' = pcalls + 1
    /\ preply' = "denied"
    /\ pout' = <<>>
    /\ UNCHANGED <<ppc, pusers, pstart, regVars, fanVars, kickVars>>

PresCall(us) ==
    /\ ppc = "idle" /\ pcalls < MaxPresCalls
    /\ pcalls' = pcalls + 1
    /\ ppc' = "lookup"
    /\ pusers' = us
    /\ pout' = <<>>
    /\ preply' = "none"
    /\ pstart' = {c \in Conns : conn[c].status \in Registered /\ conn[c].user \in Range(us)}
    /\ UNCHANGED <<regVars, fanVars, kickVars>>

(* Mutant: only users with a foreground client count as online.          *)
PresLookupForegroundOnly ==
    /\ ppc = "lookup" /\ pusers # <<>>
    /\ LET v == Head(pusers)
           fg == {c \in AllCons(v) : ~conn[c].bg} IN
       pout' = IF fg = {} THEN pout ELSE Append(pout, [user |-> v, conns |-> fg])
    /\ pusers' = Tail(pusers)
    /\ UNCHANGED <<ppc, preply, pcalls, pstart, regVars, fanVars, kickVars>>

(* One iteration of the loop over req.UserIDs: a user without clients is  *)
(* skipped, otherwise one entry lists every client of the snapshot.       *)
PresLookup ==
    /\ ppc = "lookup" /\ pusers # <<>>
    /\ LET v == Head(pusers) IN
       pout' = IF AllCons(v) = {} THEN pout
               ELSE Append(pout, [user |-> v, conns |-> AllCons(v)])
    /\ pusers' = Tail(pusers)
    /\ UNCHANGED <<ppc, preply, pcalls, pstart, regVars, fanVars, kickVars>>

PresReturn ==
    /\ ppc = "lookup" /\ pusers = <<>>
    /\ ppc' = "idle"
    /\ preply' = "ok"
    /\ UNCHANGED <<pusers, pout, pcalls, pstart, regVars, fanVars, kickVars>>

-----------------------------------------------------------------------------
(************************ SuperGroupOnlineBatchPushOneMsg ******************)

FanCall(ts) ==
    /\ fpc = "idle" /\ fcalls < MaxFanCalls
    /\ fcalls' = fcalls + 1
    /\ fpc' = "lookup"
    /\ ftodo' = ts
    /\ fout' = <<>>
    /\ fstart' = {c \in Conns : conn[c].status \in Registered /\ conn[c].user \in Range(ts)}
    /\ UNCHANGED <<fsnap, fsel, fcur, pushCount, regVars, kickVars, presVars>>

(* Look up the next target; a target without clients is skipped         *)
(* (continue) and gets no result.                                         *)
FanLookup ==
    /\ fpc = "lookup" /\ ftodo # <<>>
    /\ LET v == Head(ftodo) IN
       IF AllCons(v) = {}
       THEN UNCHANGED <<fpc, fsnap, fcur>>
       ELSE /\ fpc' = "push"
            /\ fsnap' = AllCons(v)
            /\ fcur' = NewResult(v)
    /\ ftodo' = Tail(ftodo)
    /\ UNCHANGED <<fsel, fout, fcalls, fstart, pushCount, regVars, kickVars, presVars>>

(* Read client.isBackground.  A background client gets ResultCode -3 and *)
(* no push; otherwise PushMessage is called next.  The flag is written by *)
(* the client's own goroutine without synchronisation with this read.    *)
FanCheck(c) ==
    /\ fpc = "push" /\ c \in fsnap
    /\ IF conn[c].bg
       THEN /\ fcur' = [fcur EXCEPT !.resp = @ \cup
                          {[conn |-> c, platform |-> conn[c].platform, code |-> -3]}]
            /\ fsnap' = fsnap \ {c}
            /\ UNCHANGED <<fpc, fsel>>
       ELSE /\ fpc' = "send"
            /\ fsel' = c
            /\ UNCHANGED <<fcur, fsnap>>
    /\ UNCHANGED <<ftodo, fout, fcalls, fstart, pushCount, regVars, kickVars, presVars>>

(* Mutant: a failed push is recorded with a mistyped ResultCode.         *)
FanSendFailWrongCode ==
    /\ fpc = "send"
    /\ fcur' = [fcur EXCEPT !.resp = @ \cup
                  {[conn |-> fsel, platform |-> conn[fsel].platform, code |-> -1]}]
    /\ fsnap' = fsnap \ {fsel}
    /\ fpc' = "push"
    /\ UNCHANGED <<ftodo, fsel, fout, fcalls, fstart, pushCount, regVars, kickVars, presVars>>

FanSendOk ==
    /\ fpc = "send" /\ conn[fsel].status = "open"
    /\ LET onTerminal == conn[fsel].platform \in PushTerminal IN
       /\ fcur' = [fcur EXCEPT
                     !.onlinePush = @ \/ onTerminal,
                     !.resp = IF onTerminal
                              THEN @ \cup {[conn |-> fsel, platform |-> conn[fsel].platform, code |-> 0]}
                              ELSE @]
       /\ pushCount' = IF onTerminal THEN pushCount + 1 ELSE pushCount
    /\ fsnap' = fsnap \ {fsel}
    /\ fpc' = "push"
    /\ UNCHANGED <<ftodo, fsel, fout, fcalls, fstart, regVars, kickVars, presVars>>

FanSendFail ==
    /\ fpc = "send"
    /\ fcur' = [fcur EXCEPT !.resp = @ \cup
                  {[conn |-> fsel, platform |-> conn[fsel].platform, code |-> -2]}]
    /\ fsnap' = fsnap \ {fsel}
    /\ fpc' = "push"
    /\ UNCHANGED <<ftodo, fsel, fout, fcalls, fstart, pushCount, regVars, kickVars, presVars>>

(* Mutant: a target whose resp stayed empty gets no result.             *)
FanUserDoneSkipEmpty ==
    /\ fpc = "push" /\ fsnap = {}
    /\ fout' = IF fcur.resp = {} THEN fout ELSE Append(fout, fcur)
    /\ fpc' = "lookup"
    /\ UNCHANGED <<ftodo, fsnap, fsel, fcur, fcalls, fstart, pushCount, regVars, kickVars, presVars>>

(* tempT.Resp = resp; singleUserResult = append(singleUserResult, tempT) *)
FanUserDone ==
    /\ fpc = "push" /\ fsnap = {}
    /\ fout' = Append(fout, fcur)
    /\ fpc' = "lookup"
    /\ UNCHANGED <<ftodo, fsnap, fsel, fcur, fcalls, fstart, pushCount, regVars, kickVars, presVars>>

FanReturn ==
    /\ fpc = "lookup" /\ ftodo = <<>>
    /\ fpc' = "idle"
    /\ UNCHANGED <<ftodo, fsnap, fsel, fcur, fout, fcalls, fstart, pushCount, regVars, kickVars, presVars>>

-----------------------------------------------------------------------------
(******************************** KickUserOffline **************************)

KickCall(us, p) ==
    /\ kpc = "idle" /\ kcalls < MaxKickCalls
    /\ kcalls' = kcalls + 1
    /\ kpc' = "lookup"
    /\ kusers' = us
    /\ kplat' = p
    /\ kres' = "none"
    /\ kstart' = {c \in Conns : /\ conn[c].status = "open"
                                /\ conn[c].user \in Range(us)
                                /\ conn[c].platform = p}
    /\ UNCHANGED <<ksnap, regVars, fanVars, presVars>>

KickLookup ==
    /\ kpc = "lookup" /\ kusers # <<>>
    /\ LET cs == PlatformCons(Head(kusers), kplat) IN
       /\ ksnap' = cs
       /\ kpc' = IF cs = {} THEN "lookup" ELSE "kick"
    /\ kusers' = Tail(kusers)
    /\ UNCHANGED <<kplat, kres, kcalls, kstart, regVars, fanVars, presVars>>

(* KickOnlineMessage writes the kick notice and closes the transport; it *)
(* can only succeed on an open one.                                        *)
KickOneOk(c) ==
    /\ kpc = "kick" /\ c \in ksnap /\ conn[c].status = "open"
    /\ conn' = [conn EXCEPT ![c].status = "closed"]
    /\ ksnap' = ksnap \ {c}
    /\ kpc' = IF ksnap' = {} THEN "lookup" ELSE "kick"
    /\ UNCHANGED <<reg, kusers, kplat, kres, kcalls, kstart, fanVars, presVars>>

(* Mutant: a failed kick is logged and the loop goes on.                  *)
KickOneFailContinue(c) ==
    /\ kpc = "kick" /\ c \in ksnap
    /\ ksnap' = ksnap \ {c}
    /\ kpc' = IF ksnap' = {} THEN "lookup" ELSE "kick"
    /\ UNCHANGED <<kusers, kplat, kres, kcalls, kstart, regVars, fanVars, presVars>>

(* An error from KickOnlineMessage returns at once: the rest of this      *)
(* user's clients and all later users are left alone.                    *)
KickOneFail(c) ==
    /\ kpc = "kick" /\ c \in ksnap
    /\ kres' = "err"
    /\ kpc' = "idle"
    /\ UNCHANGED <<kusers, kplat, ksnap, kcalls, kstart, regVars, fanVars, presVars>>

KickReturn ==
    /\ kpc = "lookup" /\ kusers = <<>>
    /\ kres' = "ok"
    /\ kpc' = "idle"
    /\ UNCHANGED <<kusers, kplat, ksnap, kcalls, kstart, regVars, fanVars, presVars>>

-----------------------------------------------------------------------------
Init ==
    /\ RegInit
    /\ fpc = "idle" /\ ftodo = <<>> /\ fsnap = {}
    /\ fsel = CHOOSE c \in Conns : TRUE
    /\ fcur = NewResult(CHOOSE u \in Users : TRUE)
    /\ fout = <<>> /\ fcalls = 0 /\ fstart = {} /\ pushCount = 0
    /\ kpc = "idle" /\ kusers = <<>> /\ kplat = CHOOSE p \in Platforms : TRUE
    /\ ksnap = {} /\ kres = "none" /\ kcalls = 0 /\ kstart = {}
    /\ ppc = "idle" /\ pusers = <<>> /\ pout = <<>> /\ preply = "none"
    /\ pcalls = 0 /\ pstart = {}

RegStep == RegNext /\ UNCHANGED <<fanVars, kickVars, presVars>>

PresStep == PresDenied \/ (\E us \in UserLists : PresCall(us)) \/ PresLookup \/ PresReturn

FanStep ==
    \/ \E ts \in UserLists : FanCall(ts)
    \/ FanLookup
    \/ \E c \in Conns : FanCheck(c)
    \/ FanSendOk \/ FanSendFail \/ FanUserDone \/ FanReturn

KickStep ==
    \/ \E us \in UserLists, p \in Platforms : KickCall(us, p)
    \/ KickLookup
    \/ \E c \in Conns : KickOneOk(c) \/ KickOneFail(c)
    \/ KickReturn

Next == RegStep \/ PresStep \/ FanStep \/ KickStep

(* The handler goroutines run to completion and the front door's close   *)
(* path eventually unregisters a closed transport; clients, requesters   *)
(* and the network are not obliged to do anything.                        *)
Fairness ==
    /\ WF_vars(PresLookup \/ PresReturn)
    /\ WF_vars(FanLookup \/ (\E c \in Conns : FanCheck(c)) \/ FanSendOk \/ FanSendFail
               \/ FanUserDone \/ FanReturn)
    /\ WF_vars(KickLookup \/ (\E c \in Conns : KickOneOk(c) \/ KickOneFail(c)) \/ KickReturn)
    /\ \A c \in Conns : WF_vars(Unregister(c) /\ UNCHANGED <<fanVars, kickVars, presVars>>)

Spec == Init /\ [][Next]_vars /\ Fairness

-----------------------------------------------------------------------------
TypeOK ==
    /\ RegTypeOK
    /\ fpc \in {"idle", "lookup", "push", "send"}
    /\ ftodo \in Seq(Users)
    /\ fsnap \in SUBSET Conns
    /\ fsel \in Conns
    /\ fcur \in Result
    /\ fout \in Seq(Result)
    /\ fcalls \in 0..MaxFanCalls
    /\ fstart \in SUBSET Conns
    /\ pushCount \in Nat
    /\ kpc \in {"idle", "lookup", "kick"}
    /\ kusers \in Seq(Users)
    /\ kplat \in Platforms
    /\ ksnap \in SUBSET Conns
    /\ kres \in {"none", "ok", "err"}
    /\ kcalls \in 0..MaxKickCalls
    /\ kstart \in SUBSET Conns
    /\ ppc \in {"idle", "lookup"}
    /\ pusers \in Seq(Users)
    /\ pout \in Seq(PresEntry)
    /\ preply \in {"none", "ok", "denied"}
    /\ pcalls \in 0..MaxPresCalls
    /\ pstart \in SUBSET Conns

-----------------------------------------------------------------------------
(* A finished fanout call has a result for every target that had a       *)
(* session registered from the start of the call to its end, even when   *)
(* no entry was appended for it (a foreground client on a platform       *)
(* outside PushTerminal gets none).                                        *)
FanoutComplete ==
    fpc = "idle" =>
        \A c \in fstart :
            conn[c].status # "gone" =>
                \E i \in DOMAIN fout : fout[i].user = conn[c].user

(* KickUserOffline returning success means every session of the listed   *)
(* users on the platform that was open when the call began is no longer  *)
(* open, although the sessions were looked up one user at a time while    *)
(* others attached, detached and were pushed to.                          *)
KickEffective ==
    kpc = "idle" /\ kres = "ok" =>
        \A c \in kstart : conn[c].status # "open"

(* A successful presence reply lists every session of a requested user   *)
(* that was registered from the start of the call to its end, background *)
(* or not.                                                                 *)
PresenceComplete ==
    ppc = "idle" /\ preply = "ok" =>
        \A c \in pstart :
            conn[c].status # "gone" =>
                \E i \in DOMAIN pout : pout[i].user = conn[c].user /\ c \in pout[i].conns

BackgroundNeverPushed == [][FanSendOk => ~conn[fsel].bg]_vars

(* Spec 8.3: a target with sessions gets exactly one result.              *)
OneResultPerUser ==
    \A i, j \in DOMAIN fout : i # j => fout[i].user # fout[j].user
=============================================================================
