------------------------------ MODULE Registry ------------------------------
(***************************************************************************)
(* The connection registry of the message gateway: the in-memory map      *)
(* user -> platform -> set of live client connections, and the session    *)
(* lifecycle driven by the transport front door.  The registry code (the  *)
(* LongConnServer, its user map and the websocket Client) is not part of  *)
(* src/: it is modelled from spec.md sections 3, 4.1 and 4.6.             *)
(*                                                                         *)
(* A connection id is unique per attach and is never reused, so a         *)
(* connection moves once through                                          *)
(*   "idle"   -> never attached yet                                       *)
(*   "open"   -> handshake done, registered, transport alive              *)
(*   "closed" -> transport torn down, unregister not yet processed        *)
(*   "gone"   -> removed from the registry                                *)
(***************************************************************************)
EXTENDS Naturals, FiniteSets

CONSTANTS Users,      \* user ids
          Platforms,  \* platform ids (device classes)
          Conns       \* connection ids, one per attach

ASSUME RegistryAssumption ==
    /\ Users # {}
    /\ Platforms # {}
    /\ Conns # {}
    /\ IsFiniteSet(Conns)

VARIABLES conn,  \* conn[c]: the session record of connection c
          reg    \* reg[u][p]: the connections registered for user u on platform p

regVars == <<conn, reg>>

Status == {"idle", "open", "closed", "gone"}

Session == [status: Status, user: Users, platform: Platforms, bg: BOOLEAN]

\* The statuses in which a connection is still an entry of the registry.
Registered == {"open", "closed"}

-----------------------------------------------------------------------------
(* Lookups: GetUserAllCons and GetUserPlatformCons of the registry.  Both *)
(* take the user's lock and return a copy, so the caller holds a snapshot.*)

AllCons(u) == UNION {reg[u][p] : p \in Platforms}

PlatformCons(u, p) == reg[u][p]

-----------------------------------------------------------------------------
RegInit ==
    /\ conn = [c \in Conns |-> [status   |-> "idle",
                                user     |-> CHOOSE u \in Users : TRUE,
                                platform |-> CHOOSE p \in Platforms : TRUE,
                                bg       |-> FALSE]]
    /\ reg = [u \in Users |-> [p \in Platforms |-> {}]]

(* The front door completes a handshake for user u on platform p and      *)
(* hands the new client to the registry (register).                       *)
Register(c, u, p) ==
    /\ conn[c].status = "idle"
    /\ conn' = [conn EXCEPT ![c] = [status |-> "open", user |-> u,
                                    platform |-> p, bg |-> FALSE]]
    /\ reg' = [reg EXCEPT ![u][p] = @ \cup {c}]

(* The client reports that its app went to / came back from background.  *)
SetBackground(c, b) ==
    /\ conn[c].status = "open"
    /\ conn' = [conn EXCEPT ![c].bg = b]
    /\ UNCHANGED reg

(* The transport of c closes (peer gone, read error, handshake timeout).  *)
Close(c) ==
    /\ conn[c].status = "open"
    /\ conn' = [conn EXCEPT ![c].status = "closed"]
    /\ UNCHANGED reg

(* The front door's close path calls unregister.  Unregistering an        *)
(* absent connection is a no-op, i.e. a stutter, so only a closed one     *)
(* changes state.                                                          *)
Unregister(c) ==
    /\ conn[c].status = "closed"
    /\ reg' = [reg EXCEPT ![conn[c].user][conn[c].platform] = @ \ {c}]
    /\ conn' = [conn EXCEPT ![c].status = "gone"]

RegNext ==
    \E c \in Conns :
        \/ \E u \in Users, p \in Platforms : Register(c, u, p)
        \/ \E b \in BOOLEAN : SetBackground(c, b)
        \/ Close(c)
        \/ Unregister(c)

-----------------------------------------------------------------------------
RegTypeOK ==
    /\ conn \in [Conns -> Session]
    /\ reg \in [Users -> [Platforms -> SUBSET Conns]]

(* Spec section 3: a session appears in exactly one bucket, the one of    *)
(* its own (user, platform), from register until unregister, and no       *)
(* connection that was never attached or was already unregistered is in  *)
(* any bucket.                                                             *)
RegistryConsistent ==
    \A u \in Users, p \in Platforms, c \in Conns :
        c \in reg[u][p] <=> /\ conn[c].status \in Registered
                            /\ conn[c].user = u
                            /\ conn[c].platform = p
=============================================================================
