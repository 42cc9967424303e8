-------------------------- MODULE OperationsGateway --------------------------
(***************************************************************************)
(* The gateway of the operations namespace and its sockets, beside the     *)
(* HTTP requests of the same user: each request and each packet is         *)
(* authenticated by the session of its cookie, and the sockets of a        *)
(* session are closed when the session is invalidated.                     *)
(***************************************************************************)
EXTENDS Sessions

CONSTANTS
  Sockets,      \* the sockets that the user's tabs open, each once
  Requests,     \* BOUND: authentications that run at a time
  NoSession, NoSocket

ASSUME OperationsAssumption == NoSession \notin SessionIds /\ NoSocket \notin Sockets

VARIABLES
  conn,       \* each socket, and the session of its cookie
  tracked,      \* socketsById, and socketIdsByUserId of the user
  auth,         \* the requests and packets that are being authenticated
  left,         \* sockets that were gone before they were tracked (history)
  late,         \* sockets tracked after their session was invalidated (history)
  revoked       \* the sessions that were invalidated with an event (history)

gatewayVars == <<conn, tracked, auth, left, late, revoked>>

operationsVars == <<sessionVars, gatewayVars>>

Conn == [step : {"new", "connecting", "open", "closed"},
           session : SessionIds \cup {NoSession}, room : BOOLEAN]

Purpose == {"me", "logout", "logoutAll", "connect", "join", "options"}

(* found: findById gave the session; read: the user was read, and active   *)
(* or not.                                                                 *)
Auth ==
  [step : {"idle", "found", "read"}, for : Purpose, session : SessionIds \cup {NoSession},
   conn : Sockets \cup {NoSocket}, active : BOOLEAN]

OperationsTypeOK ==
  /\ SessionsTypeOK
  /\ conn \in [Sockets -> Conn]
  /\ tracked \subseteq Sockets /\ left \subseteq Sockets /\ late \subseteq Sockets
  /\ auth \in [Requests -> Auth]
  /\ revoked \subseteq SessionIds

NoAuth == [step |-> "idle", for |-> "me", session |-> NoSession, conn |-> NoSocket,
           active |-> FALSE]

OperationsInit ==
  /\ SessionsInit
  /\ conn = [k \in Sockets |-> [step |-> "new", session |-> NoSession, room |-> FALSE]]
  /\ tracked = {} /\ auth = [a \in Requests |-> NoAuth]
  /\ left = {} /\ late = {} /\ revoked = {}

-----------------------------------------------------------------------------
(* Closing sockets *)

(* Mutation: a socket is forgotten with the room it was in. *)
BugForget(K) == tracked \ {k \in K : conn[k].room}

(* handleDisconnect forgets the socket, if it was tracked. *)
Forget(K) == tracked \ K

Closed(K) ==
  [k \in Sockets |-> IF k \in K THEN [conn[k] EXCEPT !.step = "closed", !.room = FALSE]
                     ELSE conn[k]]

CloseSockets(K) ==
  /\ conn' = Closed(K) /\ tracked' = Forget(K)
  /\ left' = left \cup {k \in K : conn[k].step = "connecting"}

(* Mutation: those in a room. *)
BugSocketsOf(S) == {k \in tracked : conn[k].session \in S /\ conn[k].room}

(* The sockets that handleSessionInvalidated finds for the sessions S. *)
SocketsOf(S) == {k \in tracked : conn[k].session \in S}

(* The event carries the sessions that were deleted. *)
HandleSessionInvalidated(S) == CloseSockets(SocketsOf(S)) /\ revoked' = revoked \cup S

Disconnects(k) ==
  /\ conn[k].step \in {"connecting", "open"}
  /\ CloseSockets({k})
  /\ UNCHANGED <<sessionVars, auth, late, revoked>>

-----------------------------------------------------------------------------
(* authenticateSession *)

(* A request or a packet with the cookie of session s: refused at once if  *)
(* the session is not there.                                               *)
FindSession(a, s, for, k) ==
  /\ auth[a].step = "idle" /\ store[s] # "unused"
  /\ store' = Find(store, s)
  /\ UNCHANGED <<active, deactivated, madeBy, authState, callback, early>>
  /\ auth' = IF Alive(store, s)
             THEN [auth EXCEPT ![a] = [step |-> "found", for |-> for, session |-> s,
                                       conn |-> k, active |-> FALSE]]
             ELSE auth

HttpRequest(a, s, for) ==
  /\ for \in {"me", "logout", "logoutAll"}
  /\ FindSession(a, s, for, NoSocket)
  /\ store[s] # "gone"
  /\ UNCHANGED <<conn, tracked, left, late, revoked>>

(* A tab connects with the cookie of session s. *)
HandleConnection(a, s, k) ==
  /\ conn[k].step = "new"
  /\ FindSession(a, s, "connect", k)
  /\ conn' = [conn EXCEPT ![k] =
       [step |-> IF Alive(store, s) THEN "connecting" ELSE "closed",
        session |-> s, room |-> FALSE]]
  /\ UNCHANGED <<tracked, left, late, revoked>>

(* joinTicketRoom and joinChatRoom: without a session the socket is closed.*)
JoinRoom(a, k) ==
  /\ conn[k].step = "open"
  /\ FindSession(a, conn[k].session, "join", k)
  /\ IF Alive(store, conn[k].session)
     THEN UNCHANGED <<conn, tracked, left>> ELSE CloseSockets({k})
  /\ UNCHANGED <<late, revoked>>

LeaveRoom(k) ==
  /\ conn[k].room /\ conn' = [conn EXCEPT ![k].room = FALSE]
  /\ UNCHANGED <<sessionVars, tracked, auth, left, late, revoked>>

(* handleFilterOptionsChanged picks one socket of each user.               *)
FilterOptionsChanged(a, k) ==
  /\ k \in tracked /\ conn[k].step = "open" /\ Alive(store, conn[k].session)
  /\ FindSession(a, conn[k].session, "options", k)
  /\ UNCHANGED <<conn, tracked, left, late, revoked>>

ReadUser(a) ==
  /\ auth[a].step = "found"
  /\ auth' = [auth EXCEPT ![a].step = "read", ![a].active = active]
  /\ UNCHANGED <<sessionVars, conn, tracked, left, late, revoked>>

(* What authenticateSession does with the session once it has the user. *)
StoreAfter(a) ==
  IF auth[a].active THEN Refreshed(store, auth[a].session)
  ELSE Deleted(store, {auth[a].session})

EndAuth(a) == auth' = [auth EXCEPT ![a] = NoAuth]

Resuming(a, purposes) == auth[a].step = "read" /\ auth[a].for \in purposes

KeepsAccount == UNCHANGED <<active, deactivated, madeBy, authState, callback, early>>

(* Any request, and every one of an inactive user: connections and packets *)
(* that are refused close the socket.                                      *)
EndRefused(a) ==
  /\ Resuming(a, Purpose) /\ ~auth[a].active
  /\ store' = StoreAfter(a) /\ EndAuth(a) /\ KeepsAccount
  /\ IF auth[a].for \in {"connect", "join"} /\ conn[auth[a].conn].step # "closed"
     THEN CloseSockets({auth[a].conn}) ELSE UNCHANGED <<conn, tracked, left>>
  /\ UNCHANGED <<late, revoked>>

EndRequest(a) ==
  /\ Resuming(a, {"me", "options"}) /\ auth[a].active
  /\ store' = StoreAfter(a) /\ EndAuth(a) /\ KeepsAccount
  /\ UNCHANGED <<conn, tracked, left, late, revoked>>

(* The socket is tracked, also when it has gone since. *)
EndConnection(a) ==
  LET k == auth[a].conn IN
  /\ Resuming(a, {"connect"}) /\ auth[a].active
  /\ store' = StoreAfter(a) /\ EndAuth(a) /\ KeepsAccount
  /\ tracked' = tracked \cup {k}
  /\ conn' = [conn EXCEPT ![k].step = IF @ = "connecting" THEN "open" ELSE @]
  /\ late' = IF auth[a].session \in revoked THEN late \cup {k} ELSE late
  /\ UNCHANGED <<left, revoked>>

(* The ticket is there and may be seen, or the room stays closed. *)
EndJoin(a) ==
  LET k == auth[a].conn IN
  /\ Resuming(a, {"join"}) /\ auth[a].active
  /\ store' = StoreAfter(a) /\ EndAuth(a) /\ KeepsAccount
  /\ conn' = [conn EXCEPT ![k].room = (conn[k].step = "open")]
  /\ UNCHANGED <<tracked, left, late, revoked>>

(* logout deletes the session if it is still there, and only then tells.   *)
EndLogout(a) ==
  LET s == auth[a].session IN
  /\ Resuming(a, {"logout"}) /\ auth[a].active
  /\ EndAuth(a) /\ KeepsAccount
  /\ store' = Deleted(StoreAfter(a), {s})
  /\ IF Alive(StoreAfter(a), s) THEN HandleSessionInvalidated({s})
     ELSE UNCHANGED <<conn, tracked, left, revoked>>
  /\ UNCHANGED late

EndLogoutAll(a) ==
  /\ Resuming(a, {"logoutAll"}) /\ auth[a].active
  /\ EndAuth(a) /\ KeepsAccount
  /\ store' = Deleted(StoreAfter(a), SessionIds)
  /\ HandleSessionInvalidated(InStore(StoreAfter(a)))
  /\ UNCHANGED late

HandleUserDeactivated ==
  /\ RemoveSessions
  /\ HandleSessionInvalidated(InStore(store))
  /\ UNCHANGED <<auth, late>>

-----------------------------------------------------------------------------
SessionStep ==
  /\ \/ \E s \in SessionIds : SessionExpires(s)
     \/ DeleteExpiredSessions \/ DeactivateUser \/ ActivateUser
     \/ \E l \in Logins : StartMicrosoftLogin(l) \/ StateExpires(l)
     \/ \E c \in Callbacks :
          \/ \E l \in Logins : BeginCallback(c, l)
          \/ Authenticate(c) \/ ResolveUser(c) \/ CreateSession(c)
  /\ UNCHANGED gatewayVars

SocketStep ==
  \/ \E k \in Sockets : Disconnects(k) \/ LeaveRoom(k)
  \/ \E a \in Requests, k \in Sockets :
       \/ JoinRoom(a, k) \/ FilterOptionsChanged(a, k)
       \/ \E s \in SessionIds : HandleConnection(a, s, k)

RequestStep ==
  \E a \in Requests :
    \/ \E s \in SessionIds, for \in Purpose : HttpRequest(a, s, for)
    \/ ReadUser(a) \/ EndRefused(a) \/ EndRequest(a)
    \/ EndConnection(a) \/ EndJoin(a) \/ EndLogout(a) \/ EndLogoutAll(a)

OperationsNext == SessionStep \/ SocketStep \/ RequestStep \/ HandleUserDeactivated

OperationsSpec == OperationsInit /\ [][OperationsNext]_operationsVars

-----------------------------------------------------------------------------
(* Properties *)

(* A session that has expired or was deleted is never live again: not by a *)
(* request that found it before and refreshes it after its await.          *)
NoRevival ==
  [][\A s \in SessionIds :
       store[s] \in {"expired", "gone"} => store'[s] # "live"]_operationsVars

(* However often the browser repeats the callback of a login, it makes one *)
(* session.  When the event of a deactivation has been handled, the user   *)
(* has no live session, except one of a login that found the user active   *)
(* before.                                                                 *)
SessionsJustified ==
  /\ \A s, t \in SessionIds : (madeBy[s] # NoLogin /\ madeBy[s] = madeBy[t]) => s = t
  /\ (~active /\ ~deactivated) => \A s \in SessionIds : store[s] = "live" => s \in early

(* No socket of an invalidated session stays open, except one that was     *)
(* still being authenticated at that moment.                               *)
InvalidatedSocketsClose ==
  \A k \in Sockets : (conn[k].step = "open" /\ conn[k].session \in revoked) => k \in late

(* The presence map holds the open sockets; a socket that is gone is in it *)
(* only if it went while it was being authenticated.                       *)
PresenceFollowsSockets ==
  \A k \in Sockets : /\ conn[k].step = "open" => k \in tracked
                     /\ (k \in tracked /\ conn[k].step = "closed") => k \in left

=============================================================================
