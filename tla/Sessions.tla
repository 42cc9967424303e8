------------------------------ MODULE Sessions ------------------------------
(***************************************************************************)
(* The sessions of one user: AuthenticationService, SessionService and its *)
(* store in memory, the Microsoft login, and the listener that removes the *)
(* sessions of a deactivated user.                                         *)
(*                                                                         *)
(* A handler runs without interruption between two awaits, so each step    *)
(* here is what happens up to the next one.                                *)
(***************************************************************************)
EXTENDS Naturals, FiniteSets

CONSTANTS
  SessionIds,   \* random identifiers, each used once
  Logins,       \* logins that are started: one state parameter each
  Callbacks,    \* BOUND: callbacks and other requests that run at a time
  NoLogin       \* made by no login

ASSUME SessionsAssumption == NoLogin \notin Logins /\ SessionIds \cap Callbacks = {}

VARIABLES
  active,       \* isActive of the user
  deactivated,  \* the deactivation is committed, its event not yet handled
  store,        \* the session store
  madeBy,       \* the login that made each session (history)
  authState,    \* pendingAuthStates
  callback,     \* the requests of the login callback
  early         \* callbacks that saw the user active, before a deactivation (history)

sessionVars == <<active, deactivated, store, madeBy, authState, callback, early>>

(* An expired session stays in the store until it is looked up or cleaned  *)
(* up.                                                                     *)
SessionState == {"unused", "live", "expired", "gone"}

CallbackState ==
  [step : {"idle", "exchanging", "resolving", "resolved"}, login : Logins \cup {NoLogin}]

SessionsTypeOK ==
  /\ active \in BOOLEAN /\ deactivated \in BOOLEAN
  /\ store \in [SessionIds -> SessionState]
  /\ madeBy \in [SessionIds -> Logins \cup {NoLogin}]
  /\ authState \in [Logins -> {"none", "pending", "expired", "gone"}]
  /\ callback \in [Callbacks -> CallbackState]
  /\ early \subseteq Callbacks \cup SessionIds

NoCallback == [step |-> "idle", login |-> NoLogin]

(* The user is active and not logged in. *)
SessionsInit ==
  /\ active = TRUE /\ deactivated = FALSE
  /\ store = [s \in SessionIds |-> "unused"]
  /\ madeBy = [s \in SessionIds |-> NoLogin]
  /\ authState = [l \in Logins |-> "none"]
  /\ callback = [c \in Callbacks |-> NoCallback]
  /\ early = {}

-----------------------------------------------------------------------------
(* The store *)

(* findById deletes an expired session. *)
Find(st, s) == IF st[s] = "expired" THEN [st EXCEPT ![s] = "gone"] ELSE st

Alive(st, s) == st[s] = "live"

(* Mutation: the session that was found before the user was read is        *)
(* written back.                                                           *)
BugRefreshed(st, s) == [st EXCEPT ![s] = "live"]

(* refreshSession looks the session up again, and renews it if it is there.*)
Refreshed(st, s) == Find(st, s)

Deleted(st, S) == [s \in SessionIds |-> IF s \in S /\ st[s] # "unused" THEN "gone" ELSE st[s]]

InStore(st) == {s \in SessionIds : st[s] \in {"live", "expired"}}

SessionExpires(s) ==
  /\ store[s] = "live" /\ store' = [store EXCEPT ![s] = "expired"]
  /\ UNCHANGED <<active, deactivated, madeBy, authState, callback, early>>

(* The hourly cleanup. *)
DeleteExpiredSessions ==
  /\ \E s \in SessionIds : store[s] = "expired"
  /\ store' = Deleted(store, {s \in SessionIds : store[s] = "expired"})
  /\ UNCHANGED <<active, deactivated, madeBy, authState, callback, early>>

-----------------------------------------------------------------------------
(* The login *)

StartMicrosoftLogin(l) ==
  /\ authState[l] = "none" /\ authState' = [authState EXCEPT ![l] = "pending"]
  /\ UNCHANGED <<active, deactivated, store, madeBy, callback, early>>

StateExpires(l) ==
  /\ authState[l] = "pending" /\ authState' = [authState EXCEPT ![l] = "expired"]
  /\ UNCHANGED <<active, deactivated, store, madeBy, callback, early>>

(* Mutation: the state stays until it expires. *)
BugStateUsed(l) == [authState EXCEPT ![l] = IF @ = "pending" THEN @ ELSE "gone"]

(* A state is used once, whatever becomes of it. *)
StateUsed(l) == [authState EXCEPT ![l] = "gone"]

(* The browser comes back, perhaps more than once: assertValidState.       *)
BeginCallback(c, l) ==
  /\ callback[c].step = "idle" /\ authState[l] # "none"
  /\ callback' = IF authState[l] = "pending"
                 THEN [callback EXCEPT ![c] = [step |-> "exchanging", login |-> l]]
                 ELSE callback
  /\ authState' = StateUsed(l)
  /\ UNCHANGED <<active, deactivated, store, madeBy, early>>

EndCallback(c) == callback' = [callback EXCEPT ![c] = NoCallback]

(* Microsoft vouches for the user, or the login fails. *)
Authenticate(c) ==
  /\ callback[c].step = "exchanging"
  /\ \/ callback' = [callback EXCEPT ![c].step = "resolving"]
     \/ EndCallback(c)
  /\ UNCHANGED <<active, deactivated, store, madeBy, authState, early>>

MayLogIn == active

(* resolveUser finds the user and whether it is active. *)
ResolveUser(c) ==
  /\ callback[c].step = "resolving"
  /\ IF MayLogIn THEN callback' = [callback EXCEPT ![c].step = "resolved"]
                 ELSE EndCallback(c)
  /\ UNCHANGED <<active, deactivated, store, madeBy, authState, early>>

CreateSession(c) ==
  /\ callback[c].step = "resolved"
  /\ \E s \in SessionIds :
       /\ store[s] = "unused" /\ store' = [store EXCEPT ![s] = "live"]
       /\ madeBy' = [madeBy EXCEPT ![s] = callback[c].login]
       /\ early' = IF c \in early THEN (early \ {c}) \cup {s} ELSE early
  /\ EndCallback(c)
  /\ UNCHANGED <<active, deactivated, authState>>

-----------------------------------------------------------------------------
(* Deactivation *)

(* UserMembershipService commits the deactivation and then emits an event. *)
DeactivateUser ==
  /\ active /\ ~deactivated
  /\ active' = FALSE /\ deactivated' = TRUE
  /\ early' = early \cup {c \in Callbacks : callback[c].step = "resolved"}
  /\ UNCHANGED <<store, madeBy, authState, callback>>

ActivateUser ==
  /\ ~active /\ ~deactivated
  /\ active' = TRUE
  /\ UNCHANGED <<deactivated, store, madeBy, authState, callback, early>>

(* deleteSessionsForUser, on the event. *)
RemoveSessions ==
  /\ deactivated /\ deactivated' = FALSE
  /\ store' = Deleted(store, SessionIds)
  /\ UNCHANGED <<active, madeBy, authState, callback, early>>

=============================================================================
