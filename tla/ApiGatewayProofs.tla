------------------------- MODULE ApiGatewayProofs -------------------------
(***************************************************************************)
(* Proofs that the middleware chain of gin.go and a2r.Call answer every  *)
(* request exactly once, for all token sets, keys and request bounds.     *)
(***************************************************************************)
EXTENDS ApiGateway, TLAPS

(* The number of responses written so far is fixed by the stage and the  *)
(* method: none before the chain has run CorsHandler, one for an OPTIONS  *)
(* request after it, one when the request is done.                        *)
WritesByStage ==
    /\ stage \in {"idle", "cors"} => writes = 0
    /\ stage \in {"opid", "token", "handler"} =>
           writes = IF req.method = "OPTIONS" THEN 1 ELSE 0
    /\ stage = "done" => writes = 1

(* A request still in the chain has its body unconsumed: only a refusal  *)
(* of GinParseOperationID leaves it read, and that ends the request.     *)
BodyUnread == stage \in {"cors", "opid", "token", "handler"} => ~bodyRead

(* TypeOK split into the flags and the rest: the provers treat Boolean  *)
(* membership and arithmetic best apart.                                  *)
FlagsOK == bodyRead \in BOOLEAN /\ accepted \in BOOLEAN /\ bindFailed \in BOOLEAN

TypeRest ==
    /\ tstate \in [Tokens -> TokenStates]
    /\ req \in Request
    /\ stage \in Stages
    /\ writes \in 0..2
    /\ seen \in TokenStates
    /\ nreq \in 0..MaxRequests

IInv == FlagsOK /\ TypeRest /\ WritesByStage /\ BodyUnread

USE ApiGatewayAssumption

LEMMA IInvTypeOK == IInv => TypeOK
BY Zenon DEF IInv, FlagsOK, TypeRest, TypeOK

(* Init establishes the invariant.                                        *)
LEMMA InitIInv == Init => IInv
<1> SUFFICES ASSUME Init PROVE IInv
    OBVIOUS
<1>1. req \in Request
      BY DEF Init, Request, Methods, Bodies
<1>2. /\ stage = "idle" /\ bodyRead = FALSE /\ writes = 0 /\ seen = "unissued"
      /\ accepted = FALSE /\ bindFailed = FALSE /\ nreq = 0
      /\ tstate = [t \in Tokens |-> "unissued"]
      BY DEF Init
<1>3. FlagsOK
      BY <1>2, Zenon DEF FlagsOK
<1>4. TypeRest
      BY <1>1, <1>2 DEF TypeRest, TokenStates, Stages
<1>5. WritesByStage /\ BodyUnread
      BY <1>2 DEF WritesByStage, BodyUnread
<1>. QED  BY <1>3, <1>4, <1>5 DEF IInv

(* Every step sets the flags to TRUE or FALSE or leaves them alone.       *)
LEMMA NextFlags == FlagsOK /\ [Next]_vars => FlagsOK'
<1> SUFFICES ASSUME FlagsOK, [Next]_vars PROVE FlagsOK'
    OBVIOUS
<1>1. CASE TokenStoreStep
      BY <1>1, Zenon DEF FlagsOK, TokenStoreStep, reqVars
<1>2. CASE \E r \in Request : Arrive(r)
      BY <1>2, Zenon DEF FlagsOK, Arrive
<1>3. CASE RequestStep /\ ~\E r \in Request : Arrive(r)
      BY <1>3, Zenon DEF FlagsOK, RequestStep, CorsHandler, OperationIDPass,
         OperationIDFromBody, OperationIDRefused, TokenSkipped, TokenMissing,
         TokenUnknown, TokenLookupError, TokenMapEmpty, TokenKicked,
         TokenAccepted, CallBindFailed, CallAnswered, NoRoute
<1>4. CASE UNCHANGED vars
      BY <1>4, Zenon DEF FlagsOK, vars
<1>. QED  BY <1>1, <1>2, <1>3, <1>4 DEF Next

(* Every step of the auth service or of the request keeps the rest.       *)
LEMMA NextIInv == IInv /\ [Next]_vars => IInv'
<1> SUFFICES ASSUME IInv, [Next]_vars
             PROVE (TypeRest /\ WritesByStage /\ BodyUnread)'
    BY NextFlags DEF IInv
<1> USE DEF IInv, TypeRest, WritesByStage, BodyUnread, Stages,
            TokenStates
<1>1. CASE TokenStoreStep
      BY <1>1 DEF TokenStoreStep, IssueToken, KickToken, DeleteToken, reqVars
<1>2. CASE \E r \in Request : Arrive(r)
      BY <1>2 DEF Arrive
<1>3. CASE CorsHandler
      BY <1>3 DEF CorsHandler
<1>4. CASE OperationIDPass
      BY <1>4 DEF OperationIDPass
<1>5. CASE OperationIDFromBody
      BY <1>5 DEF OperationIDFromBody
<1>6. CASE OperationIDRefused
      BY <1>6 DEF OperationIDRefused, Refuse
<1>7. CASE TokenSkipped
      BY <1>7 DEF TokenSkipped
<1>8. CASE TokenMissing \/ TokenUnknown \/ TokenLookupError \/ TokenMapEmpty
      BY <1>8 DEF TokenMissing, TokenUnknown, TokenLookupError, TokenMapEmpty, Refuse
<1>9. CASE TokenKicked
      BY <1>9 DEF TokenKicked, Refuse
<1>10. CASE TokenAccepted
       <2>1. req.token \in Tokens
             BY <1>10 DEF TokenAccepted, Request
       <2>. QED  BY <1>10, <2>1 DEF TokenAccepted
<1>11. CASE CallBindFailed
       BY <1>11 DEF CallBindFailed, Refuse
<1>12. CASE CallAnswered
       BY <1>12 DEF CallAnswered, Refuse
<1>13. CASE NoRoute
       BY <1>13 DEF NoRoute, Methods, Request
<1>14. CASE UNCHANGED vars
       BY <1>14 DEF vars
<1>. QED  BY <1>1, <1>2, <1>3, <1>4, <1>5, <1>6, <1>7, <1>8, <1>9, <1>10,
             <1>11, <1>12, <1>13, <1>14 DEF Next, RequestStep

(* Every reachable state of the chain and the token store is well typed: *)
(* in particular a request never gets more than two writes, and the       *)
(* request counter stays within its bound.                                 *)
THEOREM GatewayTypeCorrect == Spec => []TypeOK
BY IInvTypeOK, InitIInv, NextIInv, PTL DEF Spec

(* Every request that is done got exactly one response: each refusal of  *)
(* GinParseOperationID and GinParseToken aborts the chain, and a2r.Call or *)
(* the 404 answers only a request nobody answered (the OPTIONS answer of  *)
(* CorsHandler included).                                                  *)
THEOREM GatewayOneResponse == Spec => []OneResponse
<1>1. IInv => OneResponse
      BY DEF IInv, WritesByStage, OneResponse
<1>. QED  BY <1>1, InitIInv, NextIInv, PTL DEF Spec

=============================================================================
