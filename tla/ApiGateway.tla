---------------------------- MODULE ApiGateway ----------------------------
(***************************************************************************)
(* The HTTP API's middleware chain (pkg/common/mw/gin.go) in front of the *)
(* RPC bridge a2r.Call (pkg/a2r/api2rpc.go).  A request passes            *)
(* CorsHandler, GinParseOperationID and GinParseToken; a middleware that  *)
(* refuses it writes an error and aborts the chain, otherwise the route   *)
(* handler a2r.Call binds the body, validates it, calls the RPC and       *)
(* writes the answer.  Meanwhile the auth service issues, kicks and       *)
(* deletes the tokens that GinParseToken reads from Redis.                *)
(***************************************************************************)
EXTENDS Naturals

CONSTANTS Tokens,       \* token strings that can be issued
          Keys,         \* (user id, platform) pairs of the token maps
          TokenKey,     \* the claims of each token: its user and platform
          NoToken,      \* an empty token header
          MaxRequests   \* bound on requests

ASSUME ApiGatewayAssumption ==
    /\ TokenKey \in [Tokens -> Keys]
    /\ NoToken \notin Tokens
    /\ MaxRequests \in Nat

Methods == {"POST", "GET", "OPTIONS"}
(* What the body holds: JSON with an operationID field, JSON without one, *)
(* something that is not JSON, or a stream that fails when read.          *)
Bodies == {"withOpID", "noOpID", "badJSON", "readErr"}
(* A token's entry in the map of its key: not yet issued, NormalToken,   *)
(* KickedToken, or removed from the map.                                  *)
TokenStates == {"unissued", "normal", "kicked", "deleted"}
Stages == {"idle", "cors", "opid", "token", "handler", "done"}

Request == [method: Methods, opHeader: BOOLEAN, body: Bodies,
            token: Tokens \cup {NoToken}, claims: BOOLEAN]

VARIABLES tstate,     \* the token maps in Redis, token by token
          req,        \* the request being served
          stage,      \* the handler of the chain it is in
          bodyRead,   \* c.Request.Body has been consumed and not restored
          writes,     \* responses written to the request
          seen,       \* the state GinParseToken read for the request's token
          accepted,   \* GinParseToken let the request through
          bindFailed, \* a2r.Call's BindJSON failed
          nreq        \* requests so far

vars == <<tstate, req, stage, bodyRead, writes, seen, accepted, bindFailed, nreq>>
reqVars == <<req, stage, bodyRead, writes, seen, accepted, bindFailed, nreq>>

(* GetTokensWithoutError: the map of a key, token -> state.               *)
InMap(k) == {t \in Tokens : TokenKey[t] = k /\ tstate[t] \in {"normal", "kicked"}}

Init ==
    /\ tstate = [t \in Tokens |-> "unissued"]
    /\ req = [method |-> "GET", opHeader |-> TRUE, body |-> "noOpID",
              token |-> NoToken, claims |-> FALSE]
    /\ stage = "idle"
    /\ bodyRead = FALSE
    /\ writes = 0
    /\ seen = "unissued"
    /\ accepted = FALSE
    /\ bindFailed = FALSE
    /\ nreq = 0

-----------------------------------------------------------------------------
(* The auth service: login issues a token, a conflicting login kicks one, *)
(* logout or expiry removes one.                                          *)
IssueToken(t) ==
    /\ tstate[t] = "unissued"
    /\ tstate' = [tstate EXCEPT ![t] = "normal"]
KickToken(t) ==
    /\ tstate[t] = "normal"
    /\ tstate' = [tstate EXCEPT ![t] = "kicked"]
DeleteToken(t) ==
    /\ tstate[t] \in {"normal", "kicked"}
    /\ tstate' = [tstate EXCEPT ![t] = "deleted"]

TokenStoreStep ==
    /\ \E t \in Tokens : IssueToken(t) \/ KickToken(t) \/ DeleteToken(t)
    /\ UNCHANGED reqVars

-----------------------------------------------------------------------------
(* A client sends a request; a token it presents was issued to it (claims *)
(* FALSE: the JWT does not parse or has expired).                         *)
Arrive(r) ==
    /\ stage \in {"idle", "done"}
    /\ nreq < MaxRequests
    /\ r.token \in {NoToken} \cup {t \in Tokens : tstate[t] # "unissued"}
    /\ req' = r
    /\ stage' = "cors"
    /\ bodyRead' = FALSE
    /\ writes' = 0
    /\ seen' = "unissued"
    /\ accepted' = FALSE
    /\ bindFailed' = FALSE
    /\ nreq' = nreq + 1
    /\ UNCHANGED tstate

Refuse == writes' = writes + 1 /\ stage' = "done"

(* CorsHandler: an OPTIONS request is answered and the chain goes on.     *)
CorsHandler ==
    /\ stage = "cors"
    /\ writes' = IF req.method = "OPTIONS" THEN writes + 1 ELSE writes
    /\ stage' = "opid"
    /\ UNCHANGED <<tstate, req, bodyRead, seen, accepted, bindFailed, nreq>>

(* GinParseOperationID passes a request that is not a POST, or one with  *)
(* the header.                                                             *)
OperationIDPass ==
    /\ stage = "opid"
    /\ req.method # "POST" \/ req.opHeader
    /\ stage' = "token"
    /\ UNCHANGED <<tstate, req, bodyRead, writes, seen, accepted, bindFailed, nreq>>

(* Without the header it reads the body, takes the operationID from it    *)
(* and puts the bytes back as the body (line 60).                         *)
OperationIDFromBody ==
    /\ stage = "opid"
    /\ req.method = "POST" /\ ~req.opHeader /\ req.body = "withOpID"
    /\ bodyRead' = FALSE
    /\ stage' = "token"
    /\ UNCHANGED <<tstate, req, writes, seen, accepted, bindFailed, nreq>>

(* ... and answers 400 and aborts when the body cannot be read, is not   *)
(* JSON or has no operationID.                                             *)
OperationIDRefused ==
    /\ stage = "opid"
    /\ req.method = "POST" /\ ~req.opHeader /\ req.body # "withOpID"
    /\ bodyRead' = TRUE
    /\ Refuse
    /\ UNCHANGED <<tstate, req, seen, accepted, bindFailed, nreq>>

(* GinParseToken checks POST requests only.                               *)
TokenSkipped ==
    /\ stage = "token"
    /\ req.method # "POST"
    /\ stage' = "handler"
    /\ UNCHANGED <<tstate, req, bodyRead, writes, seen, accepted, bindFailed, nreq>>

(* ErrArgs for an empty token header.                                     *)
TokenMissing ==
    /\ stage = "token"
    /\ req.method = "POST" /\ req.token = NoToken
    /\ Refuse
    /\ UNCHANGED <<tstate, req, bodyRead, seen, accepted, bindFailed, nreq>>

(* ErrTokenUnknown for claims that do not parse.                          *)
TokenUnknown ==
    /\ stage = "token"
    /\ req.method = "POST" /\ req.token # NoToken /\ ~req.claims
    /\ Refuse
    /\ UNCHANGED <<tstate, req, bodyRead, seen, accepted, bindFailed, nreq>>

(* ErrTokenNotExist when GetTokensWithoutError fails ...                  *)
TokenLookupError ==
    /\ stage = "token"
    /\ req.method = "POST" /\ req.token # NoToken /\ req.claims
    /\ Refuse
    /\ UNCHANGED <<tstate, req, bodyRead, seen, accepted, bindFailed, nreq>>

(* ... or returns an empty map.                                            *)
TokenMapEmpty ==
    /\ stage = "token"
    /\ req.method = "POST" /\ req.token # NoToken /\ req.claims
    /\ InMap(TokenKey[req.token]) = {}
    /\ Refuse
    /\ UNCHANGED <<tstate, req, bodyRead, seen, accepted, bindFailed, nreq>>

(* Mutant: the kicked branch answers but does not abort the chain.        *)
TokenKickedNoAbort ==
    /\ stage = "token"
    /\ req.method = "POST" /\ req.token # NoToken /\ req.claims
    /\ InMap(TokenKey[req.token]) # {}
    /\ tstate[req.token] = "kicked"
    /\ seen' = "kicked"
    /\ writes' = writes + 1 /\ stage' = "handler"
    /\ UNCHANGED <<tstate, req, bodyRead, accepted, bindFailed, nreq>>

(* ErrTokenKicked for a token the map records as kicked.                  *)
TokenKicked ==
    /\ stage = "token"
    /\ req.method = "POST" /\ req.token # NoToken /\ req.claims
    /\ InMap(TokenKey[req.token]) # {}
    /\ tstate[req.token] = "kicked"
    /\ seen' = "kicked"
    /\ Refuse
    /\ UNCHANGED <<tstate, req, bodyRead, accepted, bindFailed, nreq>>

(* Otherwise the request goes on: the token is normal in the map, or the *)
(* map of its key is not empty but does not hold it (m[token] not ok).    *)
TokenAccepted ==
    /\ stage = "token"
    /\ req.method = "POST" /\ req.token # NoToken /\ req.claims
    /\ InMap(TokenKey[req.token]) # {}
    /\ tstate[req.token] # "kicked"
    /\ seen' = tstate[req.token]
    /\ accepted' = TRUE
    /\ stage' = "handler"
    /\ UNCHANGED <<tstate, req, bodyRead, writes, bindFailed, nreq>>

-----------------------------------------------------------------------------
(* a2r.Call, the handler of the POST routes: BindJSON fails on a body     *)
(* that was consumed, that is not JSON or that cannot be read.            *)
CallBindFailed ==
    /\ stage = "handler" /\ req.method = "POST"
    /\ bodyRead \/ req.body \in {"badJSON", "readErr"}
    /\ bindFailed' = TRUE
    /\ Refuse
    /\ UNCHANGED <<tstate, req, bodyRead, seen, accepted, nreq>>

(* checker.Validate or the RPC fails, or the RPC succeeds and the after  *)
(* hooks run before GinSuccess: one response either way.                  *)
CallAnswered ==
    /\ stage = "handler" /\ req.method = "POST"
    /\ ~bodyRead /\ req.body \in {"withOpID", "noOpID"}
    /\ Refuse
    /\ UNCHANGED <<tstate, req, bodyRead, seen, accepted, bindFailed, nreq>>

(* No route serves other methods: gin's 404 answers unless the CORS      *)
(* handler already did.                                                    *)
NoRoute ==
    /\ stage = "handler" /\ req.method # "POST"
    /\ writes' = IF writes = 0 THEN 1 ELSE writes
    /\ stage' = "done"
    /\ UNCHANGED <<tstate, req, bodyRead, seen, accepted, bindFailed, nreq>>

RequestStep ==
    \/ \E r \in Request : Arrive(r)
    \/ CorsHandler
    \/ OperationIDPass \/ OperationIDFromBody \/ OperationIDRefused
    \/ TokenSkipped \/ TokenMissing \/ TokenUnknown \/ TokenLookupError
    \/ TokenMapEmpty \/ TokenKicked \/ TokenAccepted
    \/ CallBindFailed \/ CallAnswered \/ NoRoute

Next == TokenStoreStep \/ RequestStep

Spec == Init /\ [][Next]_vars

-----------------------------------------------------------------------------
TypeOK ==
    /\ tstate \in [Tokens -> TokenStates]
    /\ req \in Request
    /\ stage \in Stages
    /\ bodyRead \in BOOLEAN
    /\ writes \in 0..2
    /\ seen \in TokenStates
    /\ accepted \in BOOLEAN
    /\ bindFailed \in BOOLEAN
    /\ nreq \in 0..MaxRequests

(* A request gets exactly one response when it is done: a middleware that *)
(* refuses it aborts the chain, so the handler never answers it again.    *)
OneResponse == stage = "done" => writes = 1

(* GinParseToken lets a request through only with a token the map holds *)
(* as NormalToken.                                                         *)
AcceptedTokenNormal == accepted => seen = "normal"
=============================================================================
