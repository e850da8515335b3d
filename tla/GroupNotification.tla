------------------------- MODULE GroupNotification -------------------------
(***************************************************************************)
(* The group notification sender of pkg/rpcclient/notification2/group.go. *)
(* Each exported sender runs a fixed sequence of lookups (group, user and *)
(* member queries that may fail) and then sends its notification: once to *)
(* the group, or in a loop to the owners and admins, either returning on  *)
(* the first failed send or logging it and going on.  The group database *)
(* is changed meanwhile by the group service (members join, leave, become *)
(* admins, ownership moves), which keeps exactly one owner.               *)
(*                                                                         *)
(* A sender is a record: the helpers it calls in order (steps), whom it   *)
(* sends to (recv), how its send loop treats a failure (policy), the      *)
(* content type it passes to groupNotification (ctype), and the event it  *)
(* announces (name: the sender's name without "Notification").            *)
(***************************************************************************)
EXTENDS Naturals, Sequences, FiniteSets

CONSTANTS Users,        \* user ids
          AppAdmins,    \* users whose AppMangerLevel is AppAdmin
          MaxCalls      \* bound on sender calls

ASSUME GroupNotificationAssumption ==
    /\ Users # {} /\ IsFiniteSet(Users)
    /\ AppAdmins \subseteq Users
    /\ MaxCalls \in Nat

Roles == {"none", "member", "admin", "owner"}
Group == "group"        \* the recipient "" of a group-wide notification
Recipients == Users \cup {Group}

VARIABLES role,       \* the group's member table: role of every user
          ev,         \* the sender being run
          pc,         \* "idle" or "busy"
          todo,       \* helpers still to call
          op,         \* mcontext.GetOpUserID(ctx)
          subj,       \* the user argument of the call (applicant, entrant...)
          targets,    \* recipients of the send loop, in order
          idx,        \* next recipient of the loop
          logged,     \* recipients whose failed send was logged
          result,     \* what the last call returned
          calls,      \* calls made so far
          sent,       \* every notification handed to msgClient, in order
          notFound    \* users a member lookup missed, with their role then

vars == <<role, ev, pc, todo, op, subj, targets, idx, logged, result, calls,
          sent, notFound>>

Steps == {"groupInfo", "opUser", "subjUser", "opMember", "subjMember",
          "memberMap", "invited", "ownerAdmins", "merge"}

Sender == [name: STRING, steps: Seq(Steps), recv: {"group", "ownerAdmins",
           "ownerAdminsOp", "subj"}, policy: {"single", "failfast", "continue"},
           ctype: STRING]

Mk(n, s, r, p, t) == [name |-> n, steps |-> s, recv |-> r, policy |-> p, ctype |-> t]

-----------------------------------------------------------------------------
(* The senders, one per exported method.                                   *)
GroupCreatedNotification ==
    Mk("GroupCreated", <<"merge">>, "group", "single", "GroupCreated")
GroupInfoSetNotification ==
    Mk("GroupInfoSet", <<"merge">>, "group", "single", "GroupInfoSet")
JoinGroupApplicationNotification ==
    Mk("JoinGroupApplication", <<"groupInfo", "subjUser", "ownerAdmins">>,
       "ownerAdmins", "continue", "JoinGroupApplication")
MemberQuitNotification ==
    Mk("MemberQuit", <<"groupInfo", "opUser", "ownerAdmins">>,
       "ownerAdminsOp", "failfast", "MemberQuit")
GroupApplicationAcceptedNotification ==
    Mk("GroupApplicationAccepted", <<"groupInfo", "opMember", "ownerAdmins">>,
       "ownerAdminsOp", "continue", "GroupApplicationAccepted")
GroupApplicationRejectedNotification ==
    Mk("GroupApplicationRejected", <<"groupInfo", "opMember", "ownerAdmins">>,
       "ownerAdminsOp", "continue", "GroupApplicationRejected")
GroupOwnerTransferredNotification ==
    Mk("GroupOwnerTransferred", <<"groupInfo", "memberMap">>, "group", "single",
       "GroupOwnerTransferred")
MemberKickedNotification ==
    Mk("MemberKicked", <<"groupInfo", "opMember">>, "group", "single", "MemberKicked")
MemberInvitedNotification ==
    Mk("MemberInvited", <<"groupInfo", "opMember", "invited">>, "group", "single",
       "MemberInvited")
MemberEnterNotification ==
    Mk("MemberEnter", <<"groupInfo", "subjMember">>, "group", "single", "MemberEnter")
GroupDismissedNotification ==
    Mk("GroupDismissed", <<"groupInfo", "opMember">>, "group", "single", "GroupDismissed")
GroupMemberMutedNotification ==
    Mk("GroupMemberMuted", <<"groupInfo", "memberMap">>, "group", "single",
       "GroupMemberMuted")
GroupMemberCancelMutedNotification ==
    Mk("GroupMemberCancelMuted", <<"groupInfo", "memberMap">>, "group", "single",
       "GroupMemberCancelMuted")
GroupMutedNotification ==
    Mk("GroupMuted", <<"groupInfo", "opMember">>, "group", "single", "GroupMuted")
GroupCancelMutedNotification ==
    Mk("GroupCancelMuted", <<"groupInfo", "opMember">>, "group", "single", "GroupMuted")
GroupMemberInfoSetNotification ==
    Mk("GroupMemberInfoSet", <<"groupInfo", "memberMap">>, "group", "single",
       "GroupMemberCancelMuted")
GroupMemberSetToAdminNotification ==
    Mk("GroupMemberSetToAdmin", <<"groupInfo", "memberMap">>, "group", "single",
       "GroupMemberCancelMuted")
MemberEnterDirectlyNotification ==
    Mk("MemberEnterDirectly", <<"groupInfo", "subjMember">>, "group", "single",
       "GroupMemberCancelMuted")
(* SendMsg of a SuperGroupUpdateNotification to recvID, no lookups.       *)
SuperGroupNotification ==
    Mk("SuperGroupUpdate", <<>>, "subj", "single", "SuperGroupUpdate")

Senders == {GroupCreatedNotification, GroupInfoSetNotification,
            JoinGroupApplicationNotification, MemberQuitNotification,
            GroupApplicationAcceptedNotification, GroupApplicationRejectedNotification,
            GroupOwnerTransferredNotification, MemberKickedNotification,
            MemberInvitedNotification, MemberEnterNotification,
            GroupDismissedNotification, GroupMemberMutedNotification,
            GroupMemberCancelMutedNotification, GroupMutedNotification,
            GroupCancelMutedNotification, GroupMemberInfoSetNotification,
            GroupMemberSetToAdminNotification, MemberEnterDirectlyNotification,
            SuperGroupNotification}

(* A notification handed to msgClient: the call it belongs to, the event *)
(* and content type of one of the senders, and its recipient.             *)
Notification == [call: Nat, event: {s.name : s \in Senders},
                 ctype: {s.ctype : s \in Senders}, recv: Recipients]

-----------------------------------------------------------------------------
(* getGroupMembers asks FindGroupMember for the given users restricted to *)
(* roleLevel GroupOwner and adds the app admins that are not among the    *)
(* rows: a user is found only if it is the owner or an app admin.         *)
Found(u) == role[u] = "owner" \/ u \in AppAdmins

(* getGroupOwnerAndAdminUserID: the owner and the admins.                 *)
OwnerAdmins == {u \in Users : role[u] \in {"admin", "owner"}}

(* The rows of a set in the order the database returns them.             *)
AsSeq(S) == CHOOSE f \in [1..Cardinality(S) -> S] :
                \A i, j \in 1..Cardinality(S) : f[i] = f[j] => i = j

OneOwner(r) == Cardinality({u \in Users : r[u] = "owner"}) = 1

callVars == <<ev, pc, todo, op, subj, targets, idx, logged, result, calls,
              sent, notFound>>

Init ==
    /\ role \in {r \in [Users -> Roles] : OneOwner(r)}
    /\ ev = SuperGroupNotification
    /\ pc = "idle"
    /\ todo = <<>>
    /\ op = CHOOSE u \in Users : TRUE
    /\ subj = op
    /\ targets = <<>>
    /\ idx = 1
    /\ logged = {}
    /\ result = "none"
    /\ calls = 0
    /\ sent = <<>>
    /\ notFound = {}

-----------------------------------------------------------------------------
(* The group service writes the member table concurrently; it keeps one  *)
(* owner.                                                                  *)
MemberJoin(u) ==
    /\ role[u] = "none"
    /\ role' = [role EXCEPT ![u] = "member"]
MemberLeave(u) ==
    /\ role[u] \in {"member", "admin"}
    /\ role' = [role EXCEPT ![u] = "none"]
SetRoleLevel(u) ==
    /\ role[u] \in {"member", "admin"}
    /\ role' = [role EXCEPT ![u] = IF @ = "member" THEN "admin" ELSE "member"]
TransferOwner(u) ==
    /\ role[u] \in {"member", "admin"}
    /\ role' = [v \in Users |-> IF v = u THEN "owner"
                                ELSE IF role[v] = "owner" THEN "member" ELSE role[v]]

GroupDBStep ==
    /\ \E u \in Users : MemberJoin(u) \/ MemberLeave(u) \/ SetRoleLevel(u) \/ TransferOwner(u)
    /\ UNCHANGED callVars

-----------------------------------------------------------------------------
(* A caller runs sender s with operator o and user argument x.            *)
Call(s, o, x) ==
    /\ pc = "idle"
    /\ calls < MaxCalls
    /\ pc' = "busy"
    /\ ev' = s
    /\ op' = o
    /\ subj' = x
    /\ todo' = s.steps
    /\ targets' = CASE s.recv = "group" -> <<Group>>
                    [] s.recv = "subj"  -> <<x>>
                    [] OTHER            -> <<>>
    /\ idx' = 1
    /\ logged' = {}
    /\ result' = "none"
    /\ calls' = calls + 1
    /\ UNCHANGED <<role, sent, notFound>>

Lookup(step) == pc = "busy" /\ todo # <<>> /\ Head(todo) = step
Advance == todo' = Tail(todo)

(* Any helper's database or RPC call fails: the sender returns the error. *)
LookupFail ==
    /\ pc = "busy" /\ todo # <<>>
    /\ result' = "err"
    /\ pc' = "idle"
    /\ UNCHANGED <<role, ev, todo, op, subj, targets, idx, logged, calls, sent, notFound>>

(* getGroupInfo: the group, its member ids and its owner; the group      *)
(* service keeps an owner, so "owner not found" does not arise.           *)
GetGroupInfo ==
    /\ Lookup("groupInfo")
    /\ \E u \in Users : role[u] = "owner"
    /\ Advance
    /\ UNCHANGED <<role, ev, pc, op, subj, targets, idx, logged, result, calls, sent, notFound>>

(* getUser: every user id is known to the user service.                   *)
GetUser ==
    /\ Lookup("opUser") \/ Lookup("subjUser")
    /\ Advance
    /\ UNCHANGED <<role, ev, pc, op, subj, targets, idx, logged, result, calls, sent, notFound>>

(* mergeGroupFull reads the members and their users; with an owner in   *)
(* the member list and every member known, lines 295-313 find them.      *)
MergeGroupFull ==
    /\ Lookup("merge")
    /\ \E u \in Users : role[u] = "owner"
    /\ Advance
    /\ UNCHANGED <<role, ev, pc, op, subj, targets, idx, logged, result, calls, sent, notFound>>

MemberArg == IF Head(todo) = "opMember" THEN op ELSE subj

(* getGroupMember: the member when getGroupMembers returns it.           *)
GetGroupMemberFound ==
    /\ Lookup("opMember") \/ Lookup("subjMember")
    /\ Found(MemberArg)
    /\ Advance
    /\ UNCHANGED <<role, ev, pc, op, subj, targets, idx, logged, result, calls, sent, notFound>>

(* getGroupMember: "member not found" when getGroupMembers returns none. *)
GetGroupMemberMissing ==
    /\ Lookup("opMember") \/ Lookup("subjMember")
    /\ ~Found(MemberArg)
    /\ notFound' = notFound \cup {[user |-> MemberArg, role |-> role[MemberArg]]}
    /\ result' = "err"
    /\ pc' = "idle"
    /\ UNCHANGED <<role, ev, todo, op, subj, targets, idx, logged, calls, sent>>

(* getGroupMemberMap of the operator and the user argument: a user that *)
(* getGroupMembers does not return is a nil entry of the tips.           *)
GetGroupMemberMap ==
    /\ Lookup("memberMap")
    /\ notFound' = notFound \cup {[user |-> u, role |-> role[u]] : u \in {op, subj} \ {v \in Users : Found(v)}}
    /\ Advance
    /\ UNCHANGED <<role, ev, pc, op, subj, targets, idx, logged, result, calls, sent>>

(* getGroupMembers of the invited users: one it does not return is left *)
(* out of InvitedUserList.                                                 *)
GetInvitedMembers ==
    /\ Lookup("invited")
    /\ notFound' = notFound \cup (IF Found(subj) THEN {} ELSE {[user |-> subj, role |-> role[subj]]})
    /\ Advance
    /\ UNCHANGED <<role, ev, pc, op, subj, targets, idx, logged, result, calls, sent>>

(* getGroupOwnerAndAdminUserID, with the operator appended by the senders *)
(* that loop over append(userIDs, opUserID).                              *)
GetGroupOwnerAndAdminUserID ==
    /\ Lookup("ownerAdmins")
    /\ targets' = AsSeq(OwnerAdmins) \o (IF ev.recv = "ownerAdminsOp" THEN <<op>> ELSE <<>>)
    /\ Advance
    /\ UNCHANGED <<role, ev, pc, op, subj, idx, logged, result, calls, sent, notFound>>

-----------------------------------------------------------------------------
Sending == pc = "busy" /\ todo = <<>> /\ idx <= Len(targets)

(* groupNotification hands the notification to msgClient.Notification.   *)
SendOk ==
    /\ Sending
    /\ sent' = Append(sent, [call |-> calls, event |-> ev.name, ctype |-> ev.ctype,
                             recv |-> targets[idx]])
    /\ idx' = idx + 1
    /\ UNCHANGED <<role, ev, pc, todo, op, subj, targets, logged, result, calls, notFound>>

(* A failed send returned as the sender's error.                          *)
SendFailReturn ==
    /\ Sending
    /\ ev.policy \in {"single", "failfast"}
    /\ result' = "err"
    /\ pc' = "idle"
    /\ UNCHANGED <<role, ev, todo, op, subj, targets, idx, logged, calls, sent, notFound>>

(* Mutant: MemberQuitNotification logs a failed send and goes on.         *)
SendFailLoggedAnyPolicy ==
    /\ Sending
    /\ ev.policy \in {"failfast", "continue"}
    /\ logged' = logged \cup {targets[idx]}
    /\ idx' = idx + 1
    /\ UNCHANGED <<role, ev, pc, todo, op, subj, targets, result, calls, sent, notFound>>


(* A failed send logged, and the loop goes on.                            *)
SendFailLogged ==
    /\ Sending
    /\ ev.policy = "continue"
    /\ logged' = logged \cup {targets[idx]}
    /\ idx' = idx + 1
    /\ UNCHANGED <<role, ev, pc, todo, op, subj, targets, result, calls, sent, notFound>>

Return ==
    /\ pc = "busy" /\ todo = <<>> /\ idx > Len(targets)
    /\ result' = "ok"
    /\ pc' = "idle"
    /\ UNCHANGED <<role, ev, todo, op, subj, targets, idx, logged, calls, sent, notFound>>

SenderStep ==
    \/ LookupFail \/ GetGroupInfo \/ GetUser \/ MergeGroupFull
    \/ GetGroupMemberFound \/ GetGroupMemberMissing \/ GetGroupMemberMap
    \/ GetInvitedMembers \/ GetGroupOwnerAndAdminUserID
    \/ SendOk \/ SendFailReturn \/ SendFailLogged \/ Return

Next ==
    \/ GroupDBStep
    \/ \E s \in Senders, o, x \in Users : Call(s, o, x)
    \/ SenderStep

Spec == Init /\ [][Next]_vars

-----------------------------------------------------------------------------
TypeOK ==
    /\ role \in [Users -> Roles]
    /\ ev \in Senders
    /\ pc \in {"idle", "busy"}
    /\ todo \in Seq(Steps)
    /\ op \in Users /\ subj \in Users
    /\ targets \in Seq(Recipients)
    /\ idx \in 1..(Len(targets) + 1)
    /\ logged \subseteq Recipients
    /\ result \in {"none", "ok", "err"}
    /\ calls \in 0..MaxCalls
    /\ sent \in Seq(Notification)
    /\ notFound \subseteq [user: Users, role: Roles]

(* Recipients reached by the current call.                                *)
Delivered == {sent[i].recv : i \in {j \in DOMAIN sent : sent[j].call = calls}}

(* A looping sender that returns nil has handed its notification to      *)
(* every recipient it looked up, except, when it logs failures and goes  *)
(* on, those whose failure it logged: MemberQuitNotification's fail-fast *)
(* loop never reports success with a recipient left out.                  *)
NotifyLoopOutcome ==
    pc = "idle" /\ result = "ok" /\ ev.policy \in {"failfast", "continue"} =>
        \A i \in 1..Len(targets) :
            targets[i] \in Delivered \/ (ev.policy = "continue" /\ targets[i] \in logged)

(* Every notification carries the content type of the event its sender  *)
(* announces (groupNotification's contentType argument).                  *)
ContentTypeMatchesEvent == \A i \in DOMAIN sent : sent[i].ctype = sent[i].event

(* A member lookup misses only users that are not in the group: the tips *)
(* name the operator, the entrant or the muted member, and a sender does *)
(* not fail with "member not found" for a member.                         *)
MemberLookupSound == \A r \in notFound : r.role = "none"
=============================================================================
