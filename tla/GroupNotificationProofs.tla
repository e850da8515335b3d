---------------------- MODULE GroupNotificationProofs ----------------------
(***************************************************************************)
(* Proofs about the group notification sender of GroupNotification.tla,   *)
(* for every set of users, of app admins and every bound on calls.        *)
(*                                                                         *)
(* TypeOK is not inductive by itself: a lookup leaves the send index idx  *)
(* alone while getGroupOwnerAndAdminUserID replaces the recipients, so    *)
(* the proof needs that idx is still 1 while helpers remain (IdxInv).     *)
(* NotifyLoopOutcome speaks of the state after Return; it follows from    *)
(* LoopInv: while the send loop runs, and after it returned nil, every    *)
(* recipient before idx was handed a notification in this call or, in a  *)
(* loop that goes on after a failure, logged.                            *)
(***************************************************************************)
EXTENDS GroupNotification, FiniteSetTheorems, SequenceTheorems, TLAPS

-----------------------------------------------------------------------------
(* Every sender calls a sequence of helpers and names one of the four    *)
(* kinds of recipients.                                                   *)
LEMMA SenderFields ==
  ASSUME NEW s \in Senders
  PROVE  /\ s.steps \in Seq(Steps)
         /\ s.recv \in {"group", "ownerAdmins", "ownerAdminsOp", "subj"}
<1> DEFINE Fields(x) == /\ x.steps \in Seq(Steps)
                          /\ x.recv \in {"group", "ownerAdmins", "ownerAdminsOp", "subj"}
<1>1. Fields(GroupCreatedNotification)
  BY DEF GroupCreatedNotification, Mk, Steps
<1>2. Fields(GroupInfoSetNotification)
  BY DEF GroupInfoSetNotification, Mk, Steps
<1>3. Fields(JoinGroupApplicationNotification)
  BY DEF JoinGroupApplicationNotification, Mk, Steps
<1>4. Fields(MemberQuitNotification)
  BY DEF MemberQuitNotification, Mk, Steps
<1>5. Fields(GroupApplicationAcceptedNotification)
  BY DEF GroupApplicationAcceptedNotification, Mk, Steps
<1>6. Fields(GroupApplicationRejectedNotification)
  BY DEF GroupApplicationRejectedNotification, Mk, Steps
<1>7. Fields(GroupOwnerTransferredNotification)
  BY DEF GroupOwnerTransferredNotification, Mk, Steps
<1>8. Fields(MemberKickedNotification)
  BY DEF MemberKickedNotification, Mk, Steps
<1>9. Fields(MemberInvitedNotification)
  BY DEF MemberInvitedNotification, Mk, Steps
<1>10. Fields(MemberEnterNotification)
  BY DEF MemberEnterNotification, Mk, Steps
<1>11. Fields(GroupDismissedNotification)
  BY DEF GroupDismissedNotification, Mk, Steps
<1>12. Fields(GroupMemberMutedNotification)
  BY DEF GroupMemberMutedNotification, Mk, Steps
<1>13. Fields(GroupMemberCancelMutedNotification)
  BY DEF GroupMemberCancelMutedNotification, Mk, Steps
<1>14. Fields(GroupMutedNotification)
  BY DEF GroupMutedNotification, Mk, Steps
<1>15. Fields(GroupCancelMutedNotification)
  BY DEF GroupCancelMutedNotification, Mk, Steps
<1>16. Fields(GroupMemberInfoSetNotification)
  BY DEF GroupMemberInfoSetNotification, Mk, Steps
<1>17. Fields(GroupMemberSetToAdminNotification)
  BY DEF GroupMemberSetToAdminNotification, Mk, Steps
<1>18. Fields(MemberEnterDirectlyNotification)
  BY DEF MemberEnterDirectlyNotification, Mk, Steps
<1>19. Fields(SuperGroupNotification)
  BY DEF SuperGroupNotification, Mk, Steps
<1>. QED
  BY <1>1, <1>2, <1>3, <1>4, <1>5, <1>6, <1>7, <1>8, <1>9, <1>10, <1>11, <1>12, <1>13, <1>14, <1>15, <1>16, <1>17, <1>18, <1>19 DEF Senders

(* The rows of a finite set, listed in some order, form a sequence of its *)
(* elements: the CHOOSE of AsSeq has a witness.                           *)
LEMMA AsSeqType ==
  ASSUME NEW S, IsFiniteSet(S)
  PROVE  AsSeq(S) \in Seq(S)
<1> DEFINE n == Cardinality(S)
<1>1. n \in Nat /\ ExistsBijection(1..n, S)
  BY FS_CardinalityType
<1>2. \E f \in [1..n -> S] : \A i, j \in 1..n : f[i] = f[j] => i = j
  BY <1>1 DEF ExistsBijection, Bijection, Injection, IsInjective
<1>3. AsSeq(S) \in [1..n -> S]
  BY <1>2 DEF AsSeq
<1>. QED
  BY <1>1, <1>3
-----------------------------------------------------------------------------
(* While helpers remain to be called, the send loop has not started.      *)
IdxInv == pc = "busy" /\ todo # <<>> => idx = 1

(* Recipient i of the loop was handed the notification in this call, or  *)
(* its failure was logged by a loop that goes on.                         *)
Covered(i) == targets[i] \in Delivered \/ (ev.policy = "continue" /\ targets[i] \in logged)

(* A running sender has no result yet; a nil result comes from Return;   *)
(* and every recipient the loop went past is covered.                     *)
LoopInv == /\ pc = "busy" => result = "none"
           /\ result = "ok" => pc = "idle" /\ todo = <<>> /\ idx > Len(targets)
           /\ (pc = "busy" /\ todo = <<>>) \/ result = "ok" =>
                 \A i \in 1..(idx - 1) : Covered(i)

IInv == TypeOK /\ IdxInv /\ LoopInv

(* The recipients of the current call reached so far stay reached when a *)
(* notification is appended, and the appended one's recipient is reached *)
(* when it belongs to the current call.                                   *)
LEMMA AppendDelivered ==
  ASSUME sent \in Seq(Notification), NEW m \in Notification,
         sent' = Append(sent, m), calls' = calls
  PROVE  /\ Delivered \subseteq Delivered'
         /\ m.call = calls => m.recv \in Delivered'
<1>1. /\ DOMAIN sent = 1..Len(sent)
      /\ DOMAIN sent' = 1..(Len(sent) + 1)
      /\ \A i \in 1..Len(sent) : sent'[i] = sent[i]
      /\ sent'[Len(sent) + 1] = m
  BY AppendProperties, LenProperties
<1>. QED
  BY <1>1 DEF Delivered

(* The notification SendOk hands to msgClient is a Notification.         *)
LEMMA SendOkNotification ==
  ASSUME TypeOK, Sending
  PROVE  [call |-> calls, event |-> ev.name, ctype |-> ev.ctype,
          recv |-> targets[idx]] \in Notification
BY DEF TypeOK, Sending, Notification, Recipients

(* The lookup of the owner and the admins, with the operator appended,   *)
(* yields a sequence of recipients.                                       *)
LEMMA OwnerAdminTargets ==
  ASSUME TypeOK
  PROVE  AsSeq(OwnerAdmins) \o (IF ev.recv = "ownerAdminsOp" THEN <<op>> ELSE <<>>)
           \in Seq(Recipients)
<1>1. IsFiniteSet(OwnerAdmins)
  BY GroupNotificationAssumption, FS_Subset DEF OwnerAdmins
<1>2. AsSeq(OwnerAdmins) \in Seq(Recipients)
  <2>1. AsSeq(OwnerAdmins) \in Seq(OwnerAdmins)
    BY <1>1, AsSeqType
  <2>2. OwnerAdmins \subseteq Recipients
    BY DEF OwnerAdmins, Recipients
  <2>. QED
    BY <2>1, <2>2, LenProperties
<1>3. (IF ev.recv = "ownerAdminsOp" THEN <<op>> ELSE <<>>) \in Seq(Recipients)
  <2>1. op \in Recipients
    BY DEF TypeOK, Recipients
  <2>2. <<op>> \in Seq(Recipients)
    BY <2>1
  <2>. QED
    BY <2>2
<1>. QED
  BY <1>2, <1>3, ConcatProperties

-----------------------------------------------------------------------------
LEMMA InitIInv == Init => IInv
<1> SUFFICES ASSUME Init PROVE IInv
  OBVIOUS
<1>1. (CHOOSE u \in Users : TRUE) \in Users
  BY GroupNotificationAssumption
<1>2. TypeOK
  BY <1>1, GroupNotificationAssumption DEF Init, TypeOK, Senders, Recipients
<1>. QED
  BY <1>2 DEF Init, IInv, IdxInv, LoopInv

(* One step of the sender or of the group service preserves IInv.        *)
LEMMA NextIInv == IInv /\ [Next]_vars => IInv'
<1> SUFFICES ASSUME IInv, [Next]_vars PROVE IInv'
  OBVIOUS
<1>. USE DEF IInv
<1>1. CASE GroupDBStep
  <2>1. PICK u \in Users : MemberJoin(u) \/ MemberLeave(u) \/ SetRoleLevel(u) \/ TransferOwner(u)
    BY <1>1 DEF GroupDBStep
  <2>2. role' \in [Users -> Roles]
    BY <2>1 DEF TypeOK, MemberJoin, MemberLeave, SetRoleLevel, TransferOwner, Roles
  <2>. QED
    BY <1>1, <2>2 DEF GroupDBStep, callVars, TypeOK, IdxInv, LoopInv, Covered, Delivered
<1>2. ASSUME NEW s \in Senders, NEW o \in Users, NEW x \in Users, Call(s, o, x)
      PROVE  IInv'
  <2>1. s.steps \in Seq(Steps) /\ s.recv \in {"group", "ownerAdmins", "ownerAdminsOp", "subj"}
    BY SenderFields
  <2>2. targets' \in Seq(Recipients)
    <3>1. Group \in Recipients /\ x \in Recipients
      BY DEF Recipients
    <3>2. <<Group>> \in Seq(Recipients) /\ <<x>> \in Seq(Recipients)
      BY <3>1
    <3>3. CASE s.recv = "group"
      BY <1>2, <3>2, <3>3 DEF Call
    <3>4. CASE s.recv = "subj"
      BY <1>2, <3>2, <3>4 DEF Call
    <3>5. CASE s.recv \notin {"group", "subj"}
      BY <1>2, <3>5 DEF Call
    <3>. QED
      BY <3>3, <3>4, <3>5
  <2>3. TypeOK'
    BY <1>2, <2>1, <2>2, GroupNotificationAssumption DEF Call, TypeOK
  <2>. QED
    BY <1>2, <2>3 DEF Call, IdxInv, LoopInv
<1>3. CASE LookupFail
  BY <1>3 DEF LookupFail, TypeOK, IdxInv, LoopInv
<1>4. CASE GetGroupInfo \/ GetUser \/ MergeGroupFull \/ GetGroupMemberFound
  <2>1. pc = "busy" /\ todo # <<>> /\ todo' = Tail(todo)
        /\ UNCHANGED <<role, ev, pc, op, subj, targets, idx, logged, result, calls, sent, notFound>>
    BY <1>4 DEF GetGroupInfo, GetUser, MergeGroupFull, GetGroupMemberFound, Lookup, Advance
  <2>2. todo' \in Seq(Steps)
    BY <2>1, HeadTailProperties DEF TypeOK
  <2>. QED
    BY <2>1, <2>2 DEF TypeOK, IdxInv, LoopInv
<1>5. CASE GetGroupMemberMissing
  <2>1. MemberArg \in Users
    BY DEF MemberArg, TypeOK
  <2>. QED
    BY <1>5, <2>1 DEF GetGroupMemberMissing, TypeOK, IdxInv, LoopInv, Roles
<1>6. CASE GetGroupMemberMap \/ GetInvitedMembers
  <2>1. pc = "busy" /\ todo # <<>> /\ todo' = Tail(todo)
        /\ UNCHANGED <<role, ev, pc, op, subj, targets, idx, logged, result, calls, sent>>
    BY <1>6 DEF GetGroupMemberMap, GetInvitedMembers, Lookup, Advance
  <2>2. todo' \in Seq(Steps)
    BY <2>1, HeadTailProperties DEF TypeOK
  <2>3. notFound' \subseteq [user: Users, role: Roles]
    BY <1>6 DEF GetGroupMemberMap, GetInvitedMembers, TypeOK
  <2>. QED
    BY <2>1, <2>2, <2>3 DEF TypeOK, IdxInv, LoopInv
<1>7. CASE GetGroupOwnerAndAdminUserID
  <2>1. pc = "busy" /\ todo # <<>> /\ todo' = Tail(todo) /\ idx = 1
        /\ UNCHANGED <<role, ev, pc, op, subj, idx, logged, result, calls, sent, notFound>>
    BY <1>7 DEF GetGroupOwnerAndAdminUserID, Lookup, Advance, IdxInv
  <2>2. todo' \in Seq(Steps)
    BY <2>1, HeadTailProperties DEF TypeOK
  <2>3. targets' \in Seq(Recipients)
    BY <1>7, OwnerAdminTargets DEF GetGroupOwnerAndAdminUserID
  <2>4. idx' \in 1..(Len(targets') + 1)
    BY <2>1, <2>3, LenProperties
  <2>. QED
    BY <2>1, <2>2, <2>3, <2>4 DEF TypeOK, IdxInv, LoopInv
<1>8. CASE SendOk
  <2>1. DEFINE m == [call |-> calls, event |-> ev.name, ctype |-> ev.ctype,
                     recv |-> targets[idx]]
  <2>2. m \in Notification
    BY <1>8, SendOkNotification DEF SendOk
  <2>3. sent' = Append(sent, m) /\ calls' = calls
    BY <1>8 DEF SendOk
  <2>4. Delivered \subseteq Delivered' /\ targets[idx] \in Delivered'
    BY <2>2, <2>3, AppendDelivered DEF TypeOK
  <2>5. sent' \in Seq(Notification)
    BY <2>2, <2>3, AppendProperties DEF TypeOK
  <2>6. TypeOK'
    BY <1>8, <2>5 DEF SendOk, Sending, TypeOK
  <2>7. \A i \in 1..(idx' - 1) : Covered(i)'
    BY <1>8, <2>4 DEF SendOk, Sending, LoopInv, Covered, TypeOK
  <2>. QED
    BY <1>8, <2>6, <2>7 DEF SendOk, Sending, IdxInv, LoopInv
<1>9. CASE SendFailReturn
  BY <1>9 DEF SendFailReturn, Sending, TypeOK, IdxInv, LoopInv
<1>10. CASE SendFailLogged
  <2>1. TypeOK'
    BY <1>10 DEF SendFailLogged, Sending, TypeOK, Recipients
  <2>2. \A i \in 1..(idx' - 1) : Covered(i)'
    BY <1>10 DEF SendFailLogged, Sending, LoopInv, Covered, Delivered, TypeOK
  <2>. QED
    BY <1>10, <2>1, <2>2 DEF SendFailLogged, Sending, IdxInv, LoopInv
<1>11. CASE Return
  BY <1>11 DEF Return, TypeOK, IdxInv, LoopInv, Covered, Delivered
<1>12. CASE UNCHANGED vars
  BY <1>12 DEF vars, TypeOK, IdxInv, LoopInv, Covered, Delivered
<1>. QED
  BY <1>1, <1>2, <1>3, <1>4, <1>5, <1>6, <1>7, <1>8, <1>9, <1>10, <1>11, <1>12
  DEF Next, SenderStep

-----------------------------------------------------------------------------
(* Type correctness of the sender and of the member table: in particular *)
(* the recipients looked up by getGroupOwnerAndAdminUserID form a list,   *)
(* the loop index stays within it, and every notification handed to      *)
(* msgClient carries one of the senders' events and content types.        *)
THEOREM GroupTypeCorrect == Spec => []TypeOK
<1>1. IInv => TypeOK
  BY DEF IInv
<1>. QED
  BY <1>1, InitIInv, NextIInv, PTL DEF Spec

(* NotifyLoopOutcome for every set of users and every bound on calls: a   *)
(* looping sender that returns nil (MemberQuitNotification's fail-fast    *)
(* loop, or the loops that log a failed send and go on) has handed its    *)
(* notification, in this call, to every owner, admin and operator it      *)
(* looked up, except the recipients whose failure a going-on loop logged. *)
THEOREM LoopOutcome == Spec => []NotifyLoopOutcome
<1>1. IInv => NotifyLoopOutcome
  <2> SUFFICES ASSUME IInv, pc = "idle", result = "ok",
                      ev.policy \in {"failfast", "continue"},
                      NEW i \in 1..Len(targets)
               PROVE  targets[i] \in Delivered \/ (ev.policy = "continue" /\ targets[i] \in logged)
    BY DEF NotifyLoopOutcome
  <2>1. idx > Len(targets) /\ \A j \in 1..(idx - 1) : Covered(j)
    BY DEF IInv, LoopInv
  <2>2. i \in 1..(idx - 1)
    BY <2>1 DEF IInv, TypeOK
  <2>. QED
    BY <2>1, <2>2 DEF Covered
<1>. QED
  BY <1>1, InitIInv, NextIInv, PTL DEF Spec
=============================================================================
