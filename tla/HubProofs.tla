----------------------------- MODULE HubProofs -----------------------------
(***************************************************************************)
(* Proofs about Hub, for every value of the constants: the type           *)
(* invariant and the registry's bucket invariant are invariants of Spec.  *)
(***************************************************************************)
EXTENDS Hub, SequenceTheorems, TLAPS

(* The request lists the handlers are called with are sequences of users. *)
LEMMA UserListsType == UserLists \subseteq Seq(Users)
<1> SUFFICES ASSUME NEW l \in UserLists PROVE l \in Seq(Users)
    OBVIOUS
<1>1. CASE \E u \in Users : l = <<u>>
    BY <1>1
<1>2. CASE \E u, v \in Users : l = <<u, v>>
    BY <1>2
<1>3. QED
    BY <1>1, <1>2 DEF UserLists

(* Every registry lookup returns a set of connection ids.                *)
LEMMA AllConsType ==
    ASSUME RegTypeOK, NEW u \in Users
    PROVE  AllCons(u) \subseteq Conns
BY DEF RegTypeOK, AllCons

(* Closing a session keeps the session table well typed.                 *)
LEMMA CloseSessionType ==
    ASSUME NEW cs \in [Conns -> Session], NEW c \in Conns
    PROVE  [cs EXCEPT ![c].status = "closed"] \in [Conns -> Session]
BY DEF Session, Status

(* Adding an entry to the result being built keeps it a Result.          *)
LEMMA AddEntryType ==
    ASSUME NEW r \in Result, NEW e \in Entry
    PROVE  [r EXCEPT !.resp = @ \cup {e}] \in Result
BY DEF Result

(* The result after a successful PushMessage is a Result.                *)
LEMMA SendOkResultType ==
    ASSUME NEW r \in Result, NEW c \in Conns, NEW t \in BOOLEAN, NEW e \in Entry
    PROVE  [r EXCEPT !.onlinePush = @ \/ t,
                     !.resp = IF t THEN @ \cup {e} ELSE @] \in Result
BY DEF Result

-----------------------------------------------------------------------------
(* The type invariant.                                                    *)

LEMMA InitTypeOK == Init => TypeOK
<1> SUFFICES ASSUME Init PROVE TypeOK
    OBVIOUS
<1>1. RegTypeOK
    BY RegistryAssumption DEF Init, RegInit, RegTypeOK, Session, Status
<1>2. fcur \in Result
    BY RegistryAssumption DEF Init, NewResult, Result
<1>3. fsel \in Conns /\ kplat \in Platforms
    BY RegistryAssumption DEF Init
<1>4. QED
    BY <1>1, <1>2, <1>3, HubAssumption DEF Init, TypeOK

LEMMA RegStepTypeOK == TypeOK /\ RegStep => TypeOK'
<1> SUFFICES ASSUME TypeOK, RegStep PROVE TypeOK'
    OBVIOUS
<1>1. PICK c \in Conns :
        \/ \E u \in Users, p \in Platforms : Register(c, u, p)
        \/ \E b \in BOOLEAN : SetBackground(c, b)
        \/ Close(c)
        \/ Unregister(c)
    BY DEF RegStep, RegNext
<1>2. RegTypeOK'
    <2>1. CASE \E u \in Users, p \in Platforms : Register(c, u, p)
        BY <2>1 DEF Register, TypeOK, RegTypeOK, Session, Status
    <2>2. CASE \E b \in BOOLEAN : SetBackground(c, b)
        BY <2>2 DEF SetBackground, TypeOK, RegTypeOK, Session
    <2>3. CASE Close(c)
        BY <2>3 DEF Close, TypeOK, RegTypeOK, Session, Status
    <2>4. CASE Unregister(c)
        BY <2>4 DEF Unregister, TypeOK, RegTypeOK, Session, Status
    <2>5. QED
        BY <1>1, <2>1, <2>2, <2>3, <2>4
<1>3. QED
    BY <1>2 DEF RegStep, TypeOK, fanVars, kickVars, presVars

LEMMA PresStepTypeOK == TypeOK /\ PresStep => TypeOK'
<1> SUFFICES ASSUME TypeOK, PresStep PROVE TypeOK'
    OBVIOUS
<1> USE HubAssumption DEF TypeOK, RegTypeOK
<1>1. CASE PresDenied
    BY <1>1 DEF PresDenied, regVars, fanVars, kickVars
<1>2. CASE \E us \in UserLists : PresCall(us)
    BY <1>2, UserListsType DEF PresCall, regVars, fanVars, kickVars
<1>3. CASE PresLookup
    <2>1. Head(pusers) \in Users /\ Tail(pusers) \in Seq(Users)
        BY <1>3 DEF PresLookup
    <2>2. AllCons(Head(pusers)) \subseteq Conns
        BY <2>1, AllConsType
    <2>3. [user |-> Head(pusers), conns |-> AllCons(Head(pusers))] \in PresEntry
        BY <2>1, <2>2 DEF PresEntry
    <2>4. pout' \in Seq(PresEntry)
        BY <1>3, <2>3, AppendProperties DEF PresLookup
    <2>5. QED
        BY <1>3, <2>1, <2>4 DEF PresLookup, regVars, fanVars, kickVars
<1>4. CASE PresReturn
    BY <1>4 DEF PresReturn, regVars, fanVars, kickVars
<1>5. QED
    BY <1>1, <1>2, <1>3, <1>4 DEF PresStep

LEMMA FanStepTypeOK == TypeOK /\ FanStep => TypeOK'
<1> SUFFICES ASSUME TypeOK, FanStep PROVE TypeOK'
    OBVIOUS
<1> USE HubAssumption DEF TypeOK, RegTypeOK
<1>1. CASE \E ts \in UserLists : FanCall(ts)
    BY <1>1, UserListsType DEF FanCall, regVars, kickVars, presVars
<1>2. CASE FanLookup
    <2>1. Head(ftodo) \in Users /\ Tail(ftodo) \in Seq(Users)
        BY <1>2 DEF FanLookup
    <2>2. AllCons(Head(ftodo)) \subseteq Conns
        BY <2>1, AllConsType
    <2>3. NewResult(Head(ftodo)) \in Result
        BY <2>1 DEF NewResult, Result
    <2>4. QED
        BY <1>2, <2>1, <2>2, <2>3 DEF FanLookup, regVars, kickVars, presVars
<1>3. CASE \E c \in Conns : FanCheck(c)
    <2>1. PICK c \in Conns : FanCheck(c)
        BY <1>3
    <2>2. [conn |-> c, platform |-> conn[c].platform, code |-> -3] \in Entry
        BY DEF RegTypeOK, Session, Entry, ResultCodes
    <2>3. fcur' \in Result
        BY <2>1, <2>2, AddEntryType DEF FanCheck
    <2>4. QED
        BY <2>1, <2>3 DEF FanCheck, regVars, kickVars, presVars
<1>4. CASE FanSendOk
    <2>1. [conn |-> fsel, platform |-> conn[fsel].platform, code |-> 0] \in Entry
        BY DEF RegTypeOK, Session, Entry, ResultCodes
    <2>2. fcur' \in Result
        BY <1>4, <2>1, SendOkResultType DEF FanSendOk
    <2>3. QED
        BY <1>4, <2>2 DEF FanSendOk, regVars, kickVars, presVars
<1>5. CASE FanSendFail
    <2>1. [conn |-> fsel, platform |-> conn[fsel].platform, code |-> -2] \in Entry
        BY DEF RegTypeOK, Session, Entry, ResultCodes
    <2>2. fcur' \in Result
        BY <1>5, <2>1, AddEntryType DEF FanSendFail
    <2>3. QED
        BY <1>5, <2>2 DEF FanSendFail, regVars, kickVars, presVars
<1>6. CASE FanUserDone
    BY <1>6 DEF FanUserDone, regVars, kickVars, presVars
<1>7. CASE FanReturn
    BY <1>7 DEF FanReturn, regVars, kickVars, presVars
<1>8. QED
    BY <1>1, <1>2, <1>3, <1>4, <1>5, <1>6, <1>7 DEF FanStep

LEMMA KickStepTypeOK == TypeOK /\ KickStep => TypeOK'
<1> SUFFICES ASSUME TypeOK, KickStep PROVE TypeOK'
    OBVIOUS
<1> USE HubAssumption DEF TypeOK, RegTypeOK
<1>1. CASE \E us \in UserLists, p \in Platforms : KickCall(us, p)
    BY <1>1, UserListsType DEF KickCall, regVars, fanVars, presVars
<1>2. CASE KickLookup
    <2>1. Head(kusers) \in Users /\ Tail(kusers) \in Seq(Users)
        BY <1>2 DEF KickLookup
    <2>2. QED
        BY <1>2, <2>1 DEF KickLookup, PlatformCons, RegTypeOK, regVars, fanVars, presVars
<1>3. CASE \E c \in Conns : KickOneOk(c)
    <2>1. PICK c \in Conns : KickOneOk(c)
        BY <1>3
    <2>2. conn' \in [Conns -> Session]
        BY <2>1, CloseSessionType DEF KickOneOk
    <2>3. ksnap' \in SUBSET Conns /\ kpc' \in {"idle", "lookup", "kick"}
        BY <2>1 DEF KickOneOk
    <2>4. QED
        BY <2>1, <2>2, <2>3 DEF KickOneOk, fanVars, presVars
<1>4. CASE \E c \in Conns : KickOneFail(c)
    BY <1>4 DEF KickOneFail, regVars, fanVars, presVars
<1>5. CASE KickReturn
    BY <1>5 DEF KickReturn, regVars, fanVars, presVars
<1>6. QED
    BY <1>1, <1>2, <1>3, <1>4, <1>5 DEF KickStep

LEMMA NextTypeOK == TypeOK /\ [Next]_vars => TypeOK'
<1> SUFFICES ASSUME TypeOK, [Next]_vars PROVE TypeOK'
    OBVIOUS
<1>1. CASE UNCHANGED vars
    BY <1>1 DEF vars, regVars, fanVars, kickVars, presVars, TypeOK, RegTypeOK
<1>2. QED
    BY <1>1, RegStepTypeOK, PresStepTypeOK, FanStepTypeOK, KickStepTypeOK DEF Next

(* The type invariant holds in every reachable state.                    *)
THEOREM TypeCorrect == Spec => []TypeOK
BY InitTypeOK, NextTypeOK, PTL DEF Spec

-----------------------------------------------------------------------------
(* The registry invariant of spec section 3.  It is inductive together   *)
(* with the type invariant: every step that touches a session either     *)
(* moves it between the two registered statuses (SetBackground, Close,   *)
(* the kick) or changes its status and its bucket in the same step       *)
(* (Register, Unregister).                                                 *)

LEMMA InitRegistryConsistent == Init => RegistryConsistent
BY DEF Init, RegInit, RegistryConsistent, Registered

(* A step that changes only the status of one session, inside or outside *)
(* the registered statuses alike, keeps every bucket exact.              *)
LEMMA StatusStepConsistent ==
    ASSUME TypeOK, RegistryConsistent, NEW c \in Conns, NEW st \in Status,
           conn[c].status \in Registered <=> st \in Registered,
           conn' = [conn EXCEPT ![c].status = st],
           reg' = reg
    PROVE  RegistryConsistent'
BY DEF RegistryConsistent, TypeOK, RegTypeOK, Session, Registered

LEMMA NextRegistryConsistent ==
    TypeOK /\ RegistryConsistent /\ [Next]_vars => RegistryConsistent'
<1> SUFFICES ASSUME TypeOK, RegistryConsistent, [Next]_vars
             PROVE  RegistryConsistent'
    OBVIOUS
<1>1. CASE RegStep
    <2>1. PICK c \in Conns :
            \/ \E u \in Users, p \in Platforms : Register(c, u, p)
            \/ \E b \in BOOLEAN : SetBackground(c, b)
            \/ Close(c)
            \/ Unregister(c)
        BY <1>1 DEF RegStep, RegNext
    <2>2. CASE \E u \in Users, p \in Platforms : Register(c, u, p)
        BY <2>2 DEF Register, RegistryConsistent, TypeOK, RegTypeOK, Session, Registered
    <2>3. CASE \E b \in BOOLEAN : SetBackground(c, b)
        BY <2>3 DEF SetBackground, RegistryConsistent, TypeOK, RegTypeOK, Session
    <2>4. CASE Close(c)
        BY <2>4, StatusStepConsistent DEF Close, Status, Registered
    <2>5. CASE Unregister(c)
        BY <2>5 DEF Unregister, RegistryConsistent, TypeOK, RegTypeOK, Session, Registered
    <2>6. QED
        BY <2>1, <2>2, <2>3, <2>4, <2>5
<1>2. CASE \E c \in Conns : KickOneOk(c)
    BY <1>2, StatusStepConsistent DEF KickOneOk, Status, Registered
<1>3. CASE PresStep \/ FanStep \/ (KickStep /\ ~\E c \in Conns : KickOneOk(c))
    <2>1. UNCHANGED regVars
        BY <1>3 DEF PresStep, PresDenied, PresCall, PresLookup, PresReturn,
                    FanStep, FanCall, FanLookup, FanCheck, FanSendOk, FanSendFail,
                    FanUserDone, FanReturn,
                    KickStep, KickCall, KickLookup, KickOneFail, KickReturn
    <2>2. QED
        BY <2>1 DEF RegistryConsistent, regVars
<1>4. CASE UNCHANGED vars
    BY <1>4 DEF RegistryConsistent, vars, regVars
<1>5. QED
    BY <1>1, <1>2, <1>3, <1>4 DEF Next

(* Every reachable state keeps each session in exactly its own bucket     *)
(* from register until unregister, and in no bucket otherwise.           *)
LEMMA RegistryConsistency == Spec => []RegistryConsistent
BY InitRegistryConsistent, NextRegistryConsistent, TypeCorrect, PTL DEF Spec
=============================================================================
