----------------------- MODULE OperationsGatewayProofs -----------------------
(***************************************************************************)
(* Type correctness of Sessions and OperationsGateway and their safety     *)
(* properties, for any number of sessions, logins, callbacks, sockets and  *)
(* requests.                                                               *)
(***************************************************************************)
EXTENDS OperationsGateway, TLAPS

(* A login is known to the server before anything bears its name, and its  *)
(* state is used up by the callback that goes on with it.                  *)
LoginUsed(l) ==
  \/ \E c \in Callbacks : callback[c].login = l
  \/ \E s \in SessionIds : madeBy[s] = l

LoginsUsedOnce ==
  /\ \A l \in Logins : LoginUsed(l) => authState[l] = "gone"
  /\ \A c \in Callbacks :
       callback[c].step # "idle" =>
         /\ callback[c].login \in Logins
         /\ \A s \in SessionIds : madeBy[s] # callback[c].login
         /\ \A d \in Callbacks \ {c} : callback[d].login # callback[c].login

(* Whoever can still make a session of an inactive user was seen active    *)
(* before, and is remembered for it.                                       *)
ResolvedEarly ==
  ~active => \A c \in Callbacks : callback[c].step = "resolved" => c \in early

(* What is known of a socket is known of its session, and of nothing that  *)
(* has not been opened.                                                    *)
SocketsHaveSessions ==
  \A k \in Sockets :
    /\ conn[k].step # "new" => conn[k].session \in SessionIds
    /\ k \in tracked => conn[k].step # "new"

Authenticating(a, purposes) == auth[a].step # "idle" /\ auth[a].for \in purposes

(* A connection is authenticated once, for the session of its cookie, and  *)
(* does not close unnoticed meanwhile.                                     *)
ConnectionsMatch ==
  \A a \in Requests : Authenticating(a, {"connect"}) =>
    LET k == auth[a].conn IN
    /\ conn[k].session = auth[a].session
    /\ conn[k].step = "connecting" \/ (conn[k].step = "closed" /\ k \in left)
    /\ \A b \in Requests \ {a} : Authenticating(b, {"connect"}) => auth[b].conn # k

AuthsNamed ==
  \A a \in Requests :
    /\ auth[a].step # "idle" => auth[a].session \in SessionIds
    /\ Authenticating(a, {"connect", "join"}) =>
         auth[a].conn \in Sockets /\ conn[auth[a].conn].step # "new"

OperationsInv ==
  /\ OperationsTypeOK
  /\ LoginsUsedOnce /\ ResolvedEarly /\ SessionsJustified
  /\ SocketsHaveSessions /\ AuthsNamed /\ ConnectionsMatch
  /\ PresenceFollowsSockets /\ InvalidatedSocketsClose

-----------------------------------------------------------------------------
(* The operators on the store *)

Stores == [SessionIds -> SessionState]

(* Looking a session up, refreshing it and deleting sessions give a store, *)
(* and give life to none: this is why a request that found a session       *)
(* before its await cannot bring it back.                                  *)
LEMMA StoreOperators ==
  ASSUME NEW st \in Stores, NEW t, NEW S
  PROVE  /\ Find(st, t) \in Stores /\ Refreshed(st, t) \in Stores
         /\ Deleted(st, S) \in Stores
         /\ \A s \in SessionIds :
              /\ Find(st, t)[s] = "live" => st[s] = "live"
              /\ Refreshed(st, t)[s] = "live" => st[s] = "live"
              /\ Deleted(st, S)[s] = "live" => st[s] = "live" /\ s \notin S
<1> USE DEF Stores
<1>1. /\ Find(st, t) \in Stores
      /\ \A s \in SessionIds : Find(st, t)[s] = "live" => st[s] = "live"
  <2>1. [st EXCEPT ![t] = "gone"] \in Stores
    BY DEF SessionState
  <2>2. \A s \in SessionIds : [st EXCEPT ![t] = "gone"][s] = "live" => st[s] = "live"
    OBVIOUS
  <2> QED
    BY <2>1, <2>2 DEF Find
<1>2. /\ Deleted(st, S) \in Stores
      /\ \A s \in SessionIds : Deleted(st, S)[s] = "live" => st[s] = "live" /\ s \notin S
  <2>1. \A s \in SessionIds : st[s] \in SessionState /\ "gone" \in SessionState
    BY DEF SessionState
  <2> QED
    BY <2>1 DEF Deleted
<1> QED
  BY <1>1, <1>2 DEF Refreshed

(* So does what authenticateSession does with its session.                 *)
LEMMA StoreAfterType ==
  ASSUME OperationsTypeOK, NEW a \in Requests
  PROVE  /\ StoreAfter(a) \in Stores
         /\ \A s \in SessionIds : StoreAfter(a)[s] = "live" => store[s] = "live"
<1>1. store \in Stores
  BY DEF OperationsTypeOK, SessionsTypeOK, Stores
<1> QED
  BY <1>1, StoreOperators DEF StoreAfter

(* Closing sockets keeps the types, and forgets what it closes.            *)
LEMMA CloseSocketsType ==
  ASSUME OperationsTypeOK, NEW K \in SUBSET Sockets, CloseSockets(K)
  PROVE  /\ conn' \in [Sockets -> Conn]
         /\ tracked' \subseteq Sockets /\ left' \subseteq Sockets
BY DEF OperationsTypeOK, CloseSockets, Closed, Forget, Conn

(* Sessions gain life in a login and nowhere else, and what a socket or a  *)
(* request does leaves the account alone.                                  *)
LEMMA RequestsKeepAccount ==
  ASSUME OperationsTypeOK, SocketStep \/ RequestStep
  PROVE  /\ KeepsAccount /\ store' \in Stores
         /\ \A s \in SessionIds : store'[s] = "live" => store[s] = "live"
<1> DEFINE Kept == /\ KeepsAccount /\ store' \in Stores
                   /\ \A s \in SessionIds : store'[s] = "live" => store[s] = "live"
<1>0. store \in Stores
  BY DEF OperationsTypeOK, SessionsTypeOK, Stores
<1>1. ASSUME UNCHANGED sessionVars PROVE Kept
  BY <1>0, <1>1 DEF sessionVars, KeepsAccount
<1>2. ASSUME NEW a \in Requests, NEW s, NEW for, NEW k, FindSession(a, s, for, k)
      PROVE  Kept
  BY <1>0, <1>2, StoreOperators DEF FindSession, KeepsAccount
<1>3. ASSUME NEW a \in Requests, KeepsAccount,
             \/ store' = StoreAfter(a)
             \/ \E S : store' = Deleted(StoreAfter(a), S)
      PROVE  Kept
  BY <1>3, StoreAfterType, StoreOperators
<1>4. CASE SocketStep
  BY <1>4, <1>1, <1>2
     DEF SocketStep, Disconnects, LeaveRoom, JoinRoom, FilterOptionsChanged,
         HandleConnection
<1>5. CASE RequestStep
  BY <1>5, <1>1, <1>2, <1>3
     DEF RequestStep, HttpRequest, ReadUser, EndRefused, EndRequest, EndConnection,
         EndJoin, EndLogout, EndLogoutAll
<1> QED
  BY <1>4, <1>5

-----------------------------------------------------------------------------
(* Types *)

(* Initially nobody is logged in or connected. *)
LEMMA InitOperations == OperationsInit => OperationsInv
<1> SUFFICES ASSUME OperationsInit PROVE OperationsInv
  OBVIOUS
<1> USE SessionsAssumption, OperationsAssumption DEF OperationsInit, SessionsInit
<1>1. SessionsTypeOK
  BY DEF SessionsTypeOK, SessionState, CallbackState, NoCallback
<1>2. OperationsTypeOK
  BY <1>1 DEF OperationsTypeOK, Conn, Auth, Purpose, NoAuth
<1>3. LoginsUsedOnce /\ ResolvedEarly /\ SessionsJustified
  BY DEF LoginsUsedOnce, LoginUsed, ResolvedEarly, SessionsJustified, NoCallback
<1>4. SocketsHaveSessions /\ AuthsNamed /\ ConnectionsMatch
  BY DEF SocketsHaveSessions, AuthsNamed, ConnectionsMatch, Authenticating, NoAuth
<1>5. PresenceFollowsSockets /\ InvalidatedSocketsClose
  BY DEF PresenceFollowsSockets, InvalidatedSocketsClose
<1> QED
  BY <1>2, <1>3, <1>4, <1>5 DEF OperationsInv

(* The steps of the sessions and the login keep the types.                 *)
LEMMA SessionTypeStep ==
  ASSUME OperationsTypeOK, LoginsUsedOnce, SessionStep
  PROVE  OperationsTypeOK'
<1> USE DEF SessionsTypeOK
<1>0. SessionsTypeOK
  BY DEF OperationsTypeOK
<1>1. SessionsTypeOK'
  <2>1. ASSUME NEW s \in SessionIds, SessionExpires(s) PROVE SessionsTypeOK'
    BY <1>0, <2>1 DEF SessionExpires, SessionState
  <2>2. CASE DeleteExpiredSessions
    BY <1>0, <2>2, StoreOperators DEF DeleteExpiredSessions, Stores
  <2>3. CASE DeactivateUser
    BY <1>0, <2>3 DEF DeactivateUser
  <2>4. CASE ActivateUser
    BY <1>0, <2>4 DEF ActivateUser
  <2>5. ASSUME NEW l \in Logins, StartMicrosoftLogin(l) PROVE SessionsTypeOK'
    BY <1>0, <2>5 DEF StartMicrosoftLogin
  <2>6. ASSUME NEW l \in Logins, StateExpires(l) PROVE SessionsTypeOK'
    BY <1>0, <2>6 DEF StateExpires
  <2> USE DEF CallbackState, NoCallback
  <2>7. ASSUME NEW c \in Callbacks, NEW l \in Logins, BeginCallback(c, l)
        PROVE  SessionsTypeOK'
    BY <1>0, <2>7 DEF BeginCallback, StateUsed
  <2>8. ASSUME NEW c \in Callbacks, Authenticate(c) PROVE SessionsTypeOK'
    BY <1>0, <2>8 DEF Authenticate, EndCallback
  <2>9. ASSUME NEW c \in Callbacks, ResolveUser(c) PROVE SessionsTypeOK'
    BY <1>0, <2>9 DEF ResolveUser, EndCallback
  <2>10. ASSUME NEW c \in Callbacks, CreateSession(c) PROVE SessionsTypeOK'
    BY <1>0, <2>10 DEF CreateSession, EndCallback, SessionState
  <2> QED
    BY <2>1, <2>2, <2>3, <2>4, <2>5, <2>6, <2>7, <2>8, <2>9, <2>10 DEF SessionStep
<1> QED
  BY <1>1 DEF OperationsTypeOK, SessionStep, gatewayVars

GatewayTypeOK ==
  /\ conn \in [Sockets -> Conn]
  /\ tracked \subseteq Sockets /\ left \subseteq Sockets /\ late \subseteq Sockets
  /\ auth \in [Requests -> Auth]
  /\ revoked \subseteq SessionIds

(* So do those of the sockets and the requests.                            *)
LEMMA GatewayTypeStep ==
  ASSUME OperationsTypeOK, SocketsHaveSessions, AuthsNamed,
         SocketStep \/ RequestStep \/ HandleUserDeactivated
  PROVE  OperationsTypeOK'
<1>0. GatewayTypeOK
  BY DEF OperationsTypeOK, GatewayTypeOK
<1>1. SessionsTypeOK'
  <2>1. CASE SocketStep \/ RequestStep
    BY <2>1, RequestsKeepAccount
       DEF OperationsTypeOK, SessionsTypeOK, KeepsAccount, Stores
  <2>2. CASE HandleUserDeactivated
    BY <2>2, StoreOperators
       DEF HandleUserDeactivated, RemoveSessions, OperationsTypeOK, SessionsTypeOK, Stores
  <2> QED
    BY <2>1, <2>2
<1> SUFFICES GatewayTypeOK'
  BY <1>1 DEF OperationsTypeOK, GatewayTypeOK
<1>2. ASSUME NEW a \in Requests, NEW s \in SessionIds, NEW for \in Purpose,
             NEW k \in Sockets \cup {NoSocket}, FindSession(a, s, for, k)
      PROVE  auth' \in [Requests -> Auth]
  BY <1>0, <1>2 DEF GatewayTypeOK, FindSession, Auth
<1>3. ASSUME NEW a \in Requests, EndAuth(a) PROVE auth' \in [Requests -> Auth]
  BY <1>0, <1>3 DEF GatewayTypeOK, EndAuth, NoAuth, Auth, Purpose
<1>4. CASE SocketStep
  <2>1. ASSUME NEW k \in Sockets, Disconnects(k) PROVE GatewayTypeOK'
    BY <1>0, <2>1, CloseSocketsType DEF GatewayTypeOK, Disconnects
  <2>2. ASSUME NEW k \in Sockets, LeaveRoom(k) PROVE GatewayTypeOK'
    BY <1>0, <2>2 DEF GatewayTypeOK, LeaveRoom, Conn
  <2>3. ASSUME NEW a \in Requests, NEW k \in Sockets, JoinRoom(a, k)
        PROVE  GatewayTypeOK'
    <3>1. conn[k].session \in SessionIds
      BY <2>3 DEF JoinRoom, SocketsHaveSessions
    <3>2. auth' \in [Requests -> Auth]
      BY <2>3, <3>1, <1>2 DEF JoinRoom, Purpose
    <3>3. /\ conn' \in [Sockets -> Conn]
          /\ tracked' \subseteq Sockets /\ left' \subseteq Sockets
      BY <1>0, <2>3, CloseSocketsType DEF GatewayTypeOK, JoinRoom
    <3> QED
      BY <1>0, <2>3, <3>2, <3>3 DEF GatewayTypeOK, JoinRoom
  <2>4. ASSUME NEW a \in Requests, NEW k \in Sockets, FilterOptionsChanged(a, k)
        PROVE  GatewayTypeOK'
    <3>1. conn[k].session \in SessionIds
      BY <2>4 DEF FilterOptionsChanged, SocketsHaveSessions
    <3> QED
      BY <1>0, <2>4, <3>1, <1>2 DEF GatewayTypeOK, FilterOptionsChanged, Purpose
  <2>5. ASSUME NEW a \in Requests, NEW k \in Sockets, NEW s \in SessionIds,
               HandleConnection(a, s, k)
        PROVE  GatewayTypeOK'
    <3>1. auth' \in [Requests -> Auth]
      BY <2>5, <1>2 DEF HandleConnection, Purpose
    <3> QED
      BY <1>0, <2>5, <3>1 DEF GatewayTypeOK, HandleConnection, Conn
  <2> QED
    BY <1>4, <2>1, <2>2, <2>3, <2>4, <2>5 DEF SocketStep
<1>5. CASE RequestStep
  <2> SUFFICES ASSUME NEW a \in Requests,
                      \/ \E s \in SessionIds, for \in Purpose : HttpRequest(a, s, for)
                      \/ ReadUser(a) \/ EndRefused(a) \/ EndRequest(a)
                      \/ EndConnection(a) \/ EndJoin(a) \/ EndLogout(a) \/ EndLogoutAll(a)
               PROVE  GatewayTypeOK'
    <3>1. PICK a \in Requests :
            \/ \E s \in SessionIds, for \in Purpose : HttpRequest(a, s, for)
            \/ ReadUser(a) \/ EndRefused(a) \/ EndRequest(a)
            \/ EndConnection(a) \/ EndJoin(a) \/ EndLogout(a) \/ EndLogoutAll(a)
      BY <1>5 DEF RequestStep
    <3> QED
      BY <3>1
  <2>1. ASSUME NEW s \in SessionIds, NEW for \in Purpose, HttpRequest(a, s, for)
        PROVE  GatewayTypeOK'
    BY <1>0, <2>1, <1>2 DEF GatewayTypeOK, HttpRequest
  <2>2. CASE ReadUser(a)
    <3>1. active \in BOOLEAN
      BY DEF OperationsTypeOK, SessionsTypeOK
    <3>2. [auth[a] EXCEPT !.step = "read", !.active = active] \in Auth
      BY <1>0, <3>1 DEF Auth, GatewayTypeOK
    <3>3. auth' = [auth EXCEPT ![a] = [auth[a] EXCEPT !.step = "read", !.active = active]]
      BY <1>0, <2>2 DEF ReadUser, GatewayTypeOK, Auth
    <3> QED
      BY <1>0, <2>2, <3>2, <3>3 DEF ReadUser, GatewayTypeOK
  <2>3. CASE EndRefused(a)
    <3>1. auth[a].for \in {"connect", "join"} => {auth[a].conn} \in SUBSET Sockets
      BY <2>3 DEF EndRefused, Resuming, AuthsNamed, Authenticating
    <3> QED
      BY <1>0, <2>3, <3>1, <1>3, CloseSocketsType DEF GatewayTypeOK, EndRefused
  <2>4. CASE EndRequest(a)
    BY <1>0, <2>4, <1>3 DEF GatewayTypeOK, EndRequest
  <2>5. CASE EndConnection(a)
    <3>1. auth[a].conn \in Sockets
      BY <2>5 DEF EndConnection, Resuming, AuthsNamed, Authenticating
    <3>2. conn' \in [Sockets -> Conn]
      BY <1>0, <2>5, <3>1 DEF GatewayTypeOK, EndConnection, Conn
    <3> QED
      BY <1>0, <2>5, <3>1, <3>2, <1>3 DEF GatewayTypeOK, EndConnection
  <2>6. CASE EndJoin(a)
    <3>1. auth[a].conn \in Sockets
      BY <2>6 DEF EndJoin, Resuming, AuthsNamed, Authenticating
    <3>2. conn' \in [Sockets -> Conn]
      <4>1. PICK open \in BOOLEAN : open = (conn[auth[a].conn].step = "open")
        OBVIOUS
      <4> DEFINE k == auth[a].conn
      <4>2. [conn[k] EXCEPT !.room = open] \in Conn
        BY <1>0, <3>1 DEF Conn, GatewayTypeOK
      <4>3. conn' = [conn EXCEPT ![k] = [conn[k] EXCEPT !.room = open]]
        BY <2>6, <4>1 DEF EndJoin
      <4> QED
        BY <1>0, <4>2, <4>3 DEF GatewayTypeOK
    <3> QED
      BY <1>0, <2>6, <3>2, <1>3 DEF GatewayTypeOK, EndJoin
  <2>7. CASE EndLogout(a)
    <3>1. auth[a].session \in SessionIds
      BY <2>7 DEF EndLogout, Resuming, AuthsNamed
    <3> QED
      BY <1>0, <2>7, <3>1, <1>3, CloseSocketsType
         DEF GatewayTypeOK, EndLogout, HandleSessionInvalidated, SocketsOf
  <2>8. CASE EndLogoutAll(a)
    BY <1>0, <2>8, <1>3, CloseSocketsType
       DEF GatewayTypeOK, EndLogoutAll, HandleSessionInvalidated, SocketsOf, InStore
  <2> QED
    BY <2>1, <2>2, <2>3, <2>4, <2>5, <2>6, <2>7, <2>8
<1>6. CASE HandleUserDeactivated
  BY <1>0, <1>6, CloseSocketsType
     DEF GatewayTypeOK, HandleUserDeactivated, HandleSessionInvalidated, SocketsOf, InStore
<1> QED
  BY <1>4, <1>5, <1>6

-----------------------------------------------------------------------------
(* Sessions *)

(* A session begins in the callback of a login and in no other step.       *)
LEMMA NoRevivalStep ==
  ASSUME OperationsTypeOK, [OperationsNext]_operationsVars
  PROVE  \A s \in SessionIds : store[s] \in {"expired", "gone"} => store'[s] # "live"
<1> USE DEF OperationsTypeOK, SessionsTypeOK, Stores
<1>1. CASE SessionStep
  <2> USE DEF SessionState
  <2>1. CASE DeleteExpiredSessions
    BY <2>1, StoreOperators DEF DeleteExpiredSessions
  <2>2. CASE UNCHANGED store
    BY <2>2
  <2>3. CASE \E s \in SessionIds : SessionExpires(s)
    BY <2>3 DEF SessionExpires
  <2>4. CASE \E c \in Callbacks : CreateSession(c)
    BY <2>4 DEF CreateSession
  <2> QED
    BY <1>1, <2>1, <2>2, <2>3, <2>4
       DEF SessionStep, DeactivateUser, ActivateUser, StartMicrosoftLogin, StateExpires,
           BeginCallback, Authenticate, ResolveUser
<1>2. CASE SocketStep \/ RequestStep
  BY <1>2, RequestsKeepAccount
<1>3. CASE HandleUserDeactivated
  BY <1>3, StoreOperators DEF HandleUserDeactivated, RemoveSessions
<1>4. CASE UNCHANGED operationsVars
  BY <1>4 DEF operationsVars, sessionVars
<1> QED
  BY <1>1, <1>2, <1>3, <1>4 DEF OperationsNext

(* The logins: what a login has made, and who may make a session.          *)
LoginInv == LoginsUsedOnce /\ ResolvedEarly /\ SessionsJustified

(* Every step keeps each session justified by a login. *)
LEMMA LoginStep ==
  ASSUME OperationsTypeOK, LoginInv, [OperationsNext]_operationsVars
  PROVE  LoginInv'
<1> USE DEF LoginInv, LoginsUsedOnce, LoginUsed, ResolvedEarly, SessionsJustified
<1>0. SessionsTypeOK
  BY DEF OperationsTypeOK
<1>1. ASSUME KeepsAccount, \A s \in SessionIds : store'[s] = "live" => store[s] = "live"
      PROVE  LoginInv'
  BY <1>1 DEF KeepsAccount
<1>2. CASE SessionStep
  <2>1. ASSUME NEW s \in SessionIds, SessionExpires(s) PROVE LoginInv'
    BY <1>0, <1>1, <2>1 DEF SessionExpires, KeepsAccount, SessionsTypeOK
  <2>2. CASE DeleteExpiredSessions
    BY <1>0, <1>1, <2>2, StoreOperators
       DEF DeleteExpiredSessions, KeepsAccount, SessionsTypeOK, Stores
  <2>3. CASE DeactivateUser
    BY <2>3 DEF DeactivateUser
  <2>4. CASE ActivateUser
    BY <2>4 DEF ActivateUser
  <2>5. ASSUME NEW l \in Logins, StartMicrosoftLogin(l) PROVE LoginInv'
    BY <1>0, <2>5 DEF StartMicrosoftLogin, SessionsTypeOK
  <2>6. ASSUME NEW l \in Logins, StateExpires(l) PROVE LoginInv'
    BY <1>0, <2>6 DEF StateExpires, SessionsTypeOK
  <2>7. ASSUME NEW c \in Callbacks, NEW l \in Logins, BeginCallback(c, l)
        PROVE  LoginInv'
    BY <1>0, <2>7 DEF BeginCallback, StateUsed, SessionsTypeOK
  <2>8. ASSUME NEW c \in Callbacks, Authenticate(c) PROVE LoginInv'
    <3>1. \/ callback' = [callback EXCEPT ![c] = [callback[c] EXCEPT !.step = "resolving"]]
          \/ callback' = [callback EXCEPT ![c] = NoCallback]
      BY <2>8 DEF Authenticate, EndCallback
    <3> QED
      BY <1>0, <2>8, <3>1, SessionsAssumption
       DEF Authenticate, EndCallback, NoCallback, SessionsTypeOK, CallbackState
  <2>9. ASSUME NEW c \in Callbacks, ResolveUser(c) PROVE LoginInv'
    BY <1>0, <2>9, SessionsAssumption
       DEF ResolveUser, MayLogIn, EndCallback, NoCallback, SessionsTypeOK, CallbackState
  <2>10. ASSUME NEW c \in Callbacks, CreateSession(c) PROVE LoginInv'
    BY <1>0, <2>10, SessionsAssumption
       DEF CreateSession, EndCallback, NoCallback, SessionsTypeOK, CallbackState
  <2> QED
    BY <1>2, <2>1, <2>2, <2>3, <2>4, <2>5, <2>6, <2>7, <2>8, <2>9, <2>10 DEF SessionStep
<1>3. CASE SocketStep \/ RequestStep
  BY <1>3, <1>1, RequestsKeepAccount
<1>4. CASE HandleUserDeactivated
  BY <1>0, <1>4, StoreOperators
     DEF HandleUserDeactivated, RemoveSessions, SessionsTypeOK, Stores
<1>5. CASE UNCHANGED operationsVars
  BY <1>5 DEF operationsVars, sessionVars
<1> QED
  BY <1>2, <1>3, <1>4, <1>5 DEF OperationsNext

-----------------------------------------------------------------------------
(* Sockets *)

SocketInv ==
  /\ SocketsHaveSessions /\ AuthsNamed /\ ConnectionsMatch
  /\ PresenceFollowsSockets /\ InvalidatedSocketsClose

(* The authentications go on as they were, end, or begin for something     *)
(* else than a connection.                                                 *)
AuthsGoOn ==
  \A a \in Requests : auth'[a].step # "idle" =>
    \/ /\ auth[a].step # "idle" /\ auth'[a].for = auth[a].for
       /\ auth'[a].session = auth[a].session /\ auth'[a].conn = auth[a].conn
    \/ /\ auth'[a].for # "connect" /\ auth'[a].session \in SessionIds
       /\ auth'[a].for = "join" =>
            auth'[a].conn \in Sockets /\ conn[auth'[a].conn].step # "new"

(* The sockets of K close and no other changes but for its room.           *)
OnlyCloses(K) ==
  /\ \A k \in Sockets : /\ conn'[k].session = conn[k].session
                        /\ conn'[k].step = IF k \in K THEN "closed" ELSE conn[k].step
  /\ tracked' = tracked \ K
  /\ left' = left \cup {k \in K : conn[k].step = "connecting"}
  /\ late' = late

(* Closing sockets keeps what is known of sockets, also when sessions are  *)
(* invalidated, as long as every tracked socket of these closes.           *)
LEMMA ClosingStep ==
  ASSUME OperationsTypeOK, SocketInv, AuthsGoOn,
         NEW K \in SUBSET Sockets, OnlyCloses(K), \A k \in K : conn[k].step # "new",
         \A k \in tracked : conn[k].session \in revoked' => conn[k].session \in revoked \/ k \in K
  PROVE  SocketInv'
<1> USE DEF AuthsGoOn, OnlyCloses, SocketInv
<1>1. SocketsHaveSessions'
  BY DEF SocketsHaveSessions
<1>2. AuthsNamed'
  BY DEF AuthsNamed, Authenticating
<1>3. ConnectionsMatch'
  <2> SUFFICES ASSUME NEW a \in Requests, Authenticating(a, {"connect"})'
               PROVE  LET k == auth'[a].conn IN
                      /\ conn'[k].session = auth'[a].session
                      /\ \/ conn'[k].step = "connecting"
                         \/ conn'[k].step = "closed" /\ k \in left'
                      /\ \A b \in Requests \ {a} :
                           Authenticating(b, {"connect"})' => auth'[b].conn # k
    BY DEF ConnectionsMatch
  <2>1. \A b \in Requests : Authenticating(b, {"connect"})' =>
          /\ Authenticating(b, {"connect"}) /\ auth[b].conn \in Sockets
          /\ auth'[b].session = auth[b].session /\ auth'[b].conn = auth[b].conn
    BY DEF Authenticating, AuthsNamed
  <2> QED
    BY <2>1 DEF ConnectionsMatch
<1>4. PresenceFollowsSockets'
  BY DEF PresenceFollowsSockets, SocketsHaveSessions
<1>5. InvalidatedSocketsClose'
  BY DEF InvalidatedSocketsClose, PresenceFollowsSockets
<1> QED
  BY <1>1, <1>2, <1>3, <1>4, <1>5

(* The steps of an authentication are of that kind.                        *)
LEMMA AuthSteps ==
  ASSUME OperationsTypeOK, AuthsNamed, NEW a \in Requests
  PROVE  /\ UNCHANGED auth => AuthsGoOn
         /\ EndAuth(a) => AuthsGoOn
         /\ ReadUser(a) => AuthsGoOn
         /\ \A s \in SessionIds, for \in Purpose \ {"connect"}, k \in Sockets \cup {NoSocket} :
              (/\ FindSession(a, s, for, k)
               /\ for = "join" => k \in Sockets /\ conn[k].step # "new") => AuthsGoOn
<1> USE DEF OperationsTypeOK, AuthsGoOn, AuthsNamed, Authenticating
<1>1. UNCHANGED auth => AuthsGoOn
  OBVIOUS
<1>2. EndAuth(a) => AuthsGoOn
  BY DEF EndAuth, NoAuth
<1>3. ReadUser(a) => AuthsGoOn
  <2>1. auth[a] \in Auth
    OBVIOUS
  <2> QED
    BY <2>1 DEF ReadUser, Auth
<1>4. ASSUME NEW s \in SessionIds, NEW for \in Purpose \ {"connect"},
             NEW k \in Sockets \cup {NoSocket},
             FindSession(a, s, for, k),
             for = "join" => k \in Sockets /\ conn[k].step # "new"
      PROVE  AuthsGoOn
  BY <1>4 DEF FindSession
<1> QED
  BY <1>1, <1>2, <1>3, <1>4

(* Closing sockets closes those and no others. *)
LEMMA CloseSocketsCloses ==
  ASSUME OperationsTypeOK, NEW K \in SUBSET Sockets
  PROVE  /\ CloseSockets(K) /\ UNCHANGED late => OnlyCloses(K)
         /\ UNCHANGED <<conn, tracked, left, late>> => OnlyCloses({})
<1> USE DEF OnlyCloses
<1>1. ASSUME CloseSockets(K), UNCHANGED late PROVE OnlyCloses(K)
  <2>1. ASSUME NEW k \in Sockets
        PROVE  /\ conn'[k].session = conn[k].session
               /\ conn'[k].step = IF k \in K THEN "closed" ELSE conn[k].step
    <3>1. conn[k] \in Conn
      BY DEF OperationsTypeOK
    <3>2. conn'[k] = IF k \in K THEN [conn[k] EXCEPT !.step = "closed", !.room = FALSE]
                     ELSE conn[k]
      BY <1>1 DEF CloseSockets, Closed
    <3> QED
      BY <3>1, <3>2 DEF Conn
  <2> QED
    BY <1>1, <2>1 DEF CloseSockets, Forget
<1>2. ASSUME UNCHANGED <<conn, tracked, left, late>> PROVE OnlyCloses({})
  BY <1>2
<1> QED
  BY <1>1, <1>2

(* Every step keeps what is known of sockets.  Two steps do more than      *)
(* close: a socket is opened, and its connection ends.                     *)
LEMMA SocketStepInv ==
  ASSUME OperationsTypeOK, OperationsTypeOK', SocketInv, [OperationsNext]_operationsVars
  PROVE  SocketInv'
<1>0. /\ conn \in [Sockets -> Conn] /\ tracked \subseteq Sockets
      /\ SocketsHaveSessions /\ AuthsNamed
  BY DEF OperationsTypeOK, SocketInv
<1>1. ASSUME UNCHANGED gatewayVars PROVE SocketInv'
  BY <1>1
     DEF gatewayVars, SocketInv, SocketsHaveSessions, AuthsNamed, ConnectionsMatch,
         Authenticating, PresenceFollowsSockets, InvalidatedSocketsClose
<1>2. ASSUME AuthsGoOn, UNCHANGED <<conn, tracked, left, late, revoked>> PROVE SocketInv'
  BY <1>0, <1>2, ClosingStep, CloseSocketsCloses
<1>3. ASSUME AuthsGoOn, NEW K \in SUBSET Sockets, \A k \in K : conn[k].step # "new",
             CloseSockets(K), UNCHANGED <<late, revoked>>
      PROVE  SocketInv'
  BY <1>0, <1>3, ClosingStep, CloseSocketsCloses
<1>4. ASSUME AuthsGoOn, NEW S \in SUBSET SessionIds, HandleSessionInvalidated(S),
             UNCHANGED late
      PROVE  SocketInv'
  <2>1. SocketsOf(S) \in SUBSET Sockets /\ \A k \in SocketsOf(S) : conn[k].step # "new"
    BY <1>0 DEF SocketsOf, SocketsHaveSessions
  <2> QED
    BY <1>0, <1>4, <2>1, ClosingStep, CloseSocketsCloses
       DEF HandleSessionInvalidated, SocketsOf
<1>5. ASSUME AuthsGoOn, NEW k \in Sockets, NEW open \in BOOLEAN,
             conn' = [conn EXCEPT ![k].room = open], UNCHANGED <<tracked, left, late, revoked>>
      PROVE  SocketInv'
  <2>1. OnlyCloses({})
    BY <1>0, <1>5 DEF OnlyCloses, Conn
  <2> QED
    BY <1>0, <1>5, <2>1, ClosingStep
<1>6. CASE SocketStep
  <2>1. ASSUME NEW k \in Sockets, Disconnects(k) PROVE SocketInv'
    BY <1>0, <1>3, <2>1, AuthSteps DEF Disconnects, AuthsGoOn
  <2>2. ASSUME NEW k \in Sockets, LeaveRoom(k) PROVE SocketInv'
    BY <1>0, <1>5, <2>2 DEF LeaveRoom, AuthsGoOn, AuthsNamed
  <2>3. ASSUME NEW a \in Requests, NEW k \in Sockets, JoinRoom(a, k) PROVE SocketInv'
    <3>1. AuthsGoOn
      BY <1>0, <2>3, AuthSteps DEF JoinRoom, SocketsHaveSessions, Purpose
    <3> QED
      BY <1>2, <1>3, <2>3, <3>1 DEF JoinRoom
  <2>4. ASSUME NEW a \in Requests, NEW k \in Sockets, FilterOptionsChanged(a, k)
        PROVE  SocketInv'
    <3>1. AuthsGoOn
      BY <1>0, <2>4, AuthSteps DEF FilterOptionsChanged, SocketsHaveSessions, Purpose
    <3> QED
      BY <1>2, <2>4, <3>1 DEF FilterOptionsChanged
  <2>5. ASSUME NEW a \in Requests, NEW k \in Sockets, NEW s \in SessionIds,
               HandleConnection(a, s, k)
        PROVE  SocketInv'
    <3>1. /\ conn[k].step = "new" /\ k \notin tracked
          /\ conn'[k].session = s
          /\ conn'[k].step \in {"connecting", "closed"}
          /\ \A m \in Sockets \ {k} : conn'[m] = conn[m]
      BY <1>0, <2>5 DEF HandleConnection, SocketsHaveSessions
    <3>2. UNCHANGED <<tracked, left, late, revoked>>
      BY <2>5 DEF HandleConnection
    <3>3. /\ SocketsHaveSessions' /\ PresenceFollowsSockets' /\ InvalidatedSocketsClose'
      BY <1>0, <3>1, <3>2
         DEF SocketInv, SocketsHaveSessions, PresenceFollowsSockets, InvalidatedSocketsClose
    <3>4. \A b \in Requests : Authenticating(b, {"connect", "join"}) => auth[b].conn # k
      BY <1>0, <3>1 DEF AuthsNamed
    <3>5. /\ \A b \in Requests \ {a} : auth'[b] = auth[b]
          /\ \/ auth'[a] = auth[a]
             \/ /\ auth'[a].session = s /\ auth'[a].conn = k
                /\ auth'[a].for = "connect" /\ conn'[k].step = "connecting"
      BY <1>0, <2>5 DEF HandleConnection, FindSession, OperationsTypeOK
    <3>6. AuthsNamed'
      BY <1>0, <3>1, <3>5 DEF AuthsNamed, Authenticating
    <3>7. ConnectionsMatch'
      BY <1>0, <3>1, <3>2, <3>4, <3>5
         DEF SocketInv, ConnectionsMatch, AuthsNamed, Authenticating
    <3> QED
      BY <3>3, <3>6, <3>7 DEF SocketInv
  <2> QED
    BY <1>6, <2>1, <2>2, <2>3, <2>4, <2>5 DEF SocketStep
<1>7. CASE RequestStep
  <2>0. PICK a \in Requests :
          \/ \E s \in SessionIds, for \in Purpose : HttpRequest(a, s, for)
          \/ ReadUser(a) \/ EndRefused(a) \/ EndRequest(a)
          \/ EndConnection(a) \/ EndJoin(a) \/ EndLogout(a) \/ EndLogoutAll(a)
    BY <1>7 DEF RequestStep
  <2>a. EndAuth(a) => AuthsGoOn
    BY <1>0, AuthSteps
  <2>1. ASSUME NEW s \in SessionIds, NEW for \in Purpose, HttpRequest(a, s, for)
        PROVE  SocketInv'
    <3>1. AuthsGoOn
      BY <1>0, <2>1, AuthSteps DEF HttpRequest
    <3> QED
      BY <1>2, <2>1, <3>1 DEF HttpRequest
  <2>2. CASE ReadUser(a)
    BY <1>0, <1>2, <2>2, AuthSteps DEF ReadUser
  <2>3. CASE EndRefused(a)
    <3>1. ASSUME auth[a].for \in {"connect", "join"}
          PROVE  {auth[a].conn} \in SUBSET Sockets /\ conn[auth[a].conn].step # "new"
      BY <1>0, <2>3, <3>1 DEF EndRefused, Resuming, AuthsNamed, Authenticating
    <3> QED
      BY <1>2, <1>3, <2>3, <2>a, <3>1 DEF EndRefused
  <2>4. CASE EndRequest(a)
    BY <1>2, <2>4, <2>a DEF EndRequest
  <2>5. CASE EndConnection(a)
    <3> DEFINE k == auth[a].conn
    <3>1. /\ Authenticating(a, {"connect"}) /\ k \in Sockets
          /\ conn[k].session = auth[a].session
          /\ conn[k].step = "connecting" \/ (conn[k].step = "closed" /\ k \in left)
          /\ \A b \in Requests \ {a} : Authenticating(b, {"connect"}) => auth[b].conn # k
      BY <1>0, <2>5
         DEF EndConnection, Resuming, Authenticating, AuthsNamed, SocketInv, ConnectionsMatch
    <3>2. /\ conn'[k].session = conn[k].session
          /\ conn'[k].step \in {"open", "closed"}
          /\ conn'[k].step = "closed" <=> conn[k].step = "closed"
          /\ \A m \in Sockets \ {k} : conn'[m] = conn[m]
      BY <1>0, <2>5, <3>1 DEF EndConnection, Conn
    <3>3. /\ tracked' = tracked \cup {k} /\ UNCHANGED <<left, revoked>>
          /\ late' = IF auth[a].session \in revoked THEN late \cup {k} ELSE late
      BY <2>5 DEF EndConnection
    <3>4. SocketsHaveSessions' /\ PresenceFollowsSockets' /\ InvalidatedSocketsClose'
      BY <1>0, <3>1, <3>2, <3>3
         DEF SocketInv, SocketsHaveSessions, PresenceFollowsSockets, InvalidatedSocketsClose
    <3>5. AuthsGoOn
      BY <2>5, <2>a DEF EndConnection
    <3>6. \A b \in Requests : auth'[b].step # "idle" => b # a /\ auth'[b] = auth[b]
      BY <2>5 DEF EndConnection, EndAuth, NoAuth, OperationsTypeOK
    <3>7. AuthsNamed'
      BY <1>0, <3>2, <3>6 DEF AuthsNamed, Authenticating
    <3>8. ConnectionsMatch'
      BY <1>0, <3>1, <3>2, <3>3, <3>6
         DEF SocketInv, ConnectionsMatch, AuthsNamed, Authenticating
    <3> QED
      BY <3>4, <3>7, <3>8 DEF SocketInv
  <2>6. CASE EndJoin(a)
    <3> DEFINE k == auth[a].conn
    <3>1. k \in Sockets
      BY <1>0, <2>6 DEF EndJoin, Resuming, AuthsNamed, Authenticating
    <3>2. PICK open \in BOOLEAN : open = (conn[k].step = "open")
      OBVIOUS
    <3>3. conn' = [conn EXCEPT ![k].room = open]
      BY <2>6, <3>2 DEF EndJoin
    <3> QED
      BY <1>5, <2>6, <2>a, <3>1, <3>3 DEF EndJoin
  <2>7. CASE EndLogout(a)
    <3>1. auth[a].session \in SessionIds
      BY <1>0, <2>7 DEF EndLogout, Resuming, AuthsNamed
    <3> QED
      BY <1>2, <1>4, <2>7, <2>a, <3>1 DEF EndLogout
  <2>8. CASE EndLogoutAll(a)
    BY <1>4, <2>8, <2>a DEF EndLogoutAll, InStore
  <2> QED
    BY <2>0, <2>1, <2>2, <2>3, <2>4, <2>5, <2>6, <2>7, <2>8
<1>8. CASE HandleUserDeactivated
  <2>1. AuthsGoOn
    BY <1>0, <1>8 DEF HandleUserDeactivated, AuthsGoOn, AuthsNamed
  <2> QED
    BY <1>4, <1>8, <2>1 DEF HandleUserDeactivated, InStore
<1> QED
  BY <1>1, <1>6, <1>7, <1>8
     DEF OperationsNext, SessionStep, operationsVars

-----------------------------------------------------------------------------
(* Every step keeps the invariant. *)
LEMMA OperationsStep == OperationsInv /\ [OperationsNext]_operationsVars => OperationsInv'
<1> SUFFICES ASSUME OperationsInv, [OperationsNext]_operationsVars PROVE OperationsInv'
  OBVIOUS
<1>0. /\ OperationsTypeOK /\ LoginInv /\ SocketInv
      /\ LoginsUsedOnce /\ SocketsHaveSessions /\ AuthsNamed
  BY DEF OperationsInv, LoginInv, SocketInv
<1>1. OperationsTypeOK'
  <2>1. CASE UNCHANGED operationsVars
    BY <1>0, <2>1
       DEF operationsVars, sessionVars, gatewayVars, OperationsTypeOK, SessionsTypeOK
  <2> QED
    BY <1>0, <2>1, SessionTypeStep, GatewayTypeStep DEF OperationsNext
<1>2. LoginInv'
  BY <1>0, LoginStep
<1>3. SocketInv'
  BY <1>0, <1>1, SocketStepInv
<1> QED
  BY <1>1, <1>2, <1>3 DEF OperationsInv, LoginInv, SocketInv

(* The invariant of all that follows. *)
THEOREM OperationsInvariant == OperationsSpec => []OperationsInv
BY InitOperations, OperationsStep, PTL DEF OperationsSpec

(* Sessions, logins, sockets and authentications have their types.         *)
THEOREM OperationsTypeCorrect == OperationsSpec => []OperationsTypeOK
<1>1. OperationsInv => OperationsTypeOK
  BY DEF OperationsInv
<1> QED
  BY <1>1, OperationsInvariant, PTL

(* A login makes one session, however often its callback is repeated, and  *)
(* an inactive user keeps only a session of a login that found the user    *)
(* active before: AuthenticationService and SessionService.                *)
THEOREM SessionsAreJustified == OperationsSpec => []SessionsJustified
<1>1. OperationsInv => SessionsJustified
  BY DEF OperationsInv
<1> QED
  BY <1>1, OperationsInvariant, PTL

(* The sockets of an invalidated session close, except those that were     *)
(* still being authenticated: handleSessionInvalidated.                    *)
THEOREM InvalidatedSocketsAreClosed == OperationsSpec => []InvalidatedSocketsClose
<1>1. OperationsInv => InvalidatedSocketsClose
  BY DEF OperationsInv
<1> QED
  BY <1>1, OperationsInvariant, PTL

(* The presence map holds the open sockets, and a closed one only if it    *)
(* went while it was being authenticated: handleConnection and             *)
(* handleDisconnect.                                                       *)
THEOREM PresenceIsRight == OperationsSpec => []PresenceFollowsSockets
<1>1. OperationsInv => PresenceFollowsSockets
  BY DEF OperationsInv
<1> QED
  BY <1>1, OperationsInvariant, PTL

(* No session lives again after it has expired or was deleted: no request  *)
(* that found it before refreshes it.                                      *)
THEOREM SessionsStayDead == OperationsSpec => NoRevival
<1>1. OperationsInv /\ [OperationsNext]_operationsVars
        => [\A s \in SessionIds :
              store[s] \in {"expired", "gone"} => store'[s] # "live"]_operationsVars
  BY NoRevivalStep DEF OperationsInv
<1> QED
  BY <1>1, OperationsInvariant, PTL DEF OperationsSpec, NoRevival

=============================================================================
