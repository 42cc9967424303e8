----------------------------- MODULE UserAccounts -----------------------------
(***************************************************************************)
(* The sign-in with Microsoft, from the code to the account of the user:   *)
(* MicrosoftAuthStrategy with its requests and retries, and resolveUser of *)
(* AuthenticationService, which finds, links or creates the account in     *)
(* steps of their own.  Accounts are also created by administrators and by *)
(* the command line tool.  Unique indexes are on the e-mail and on the     *)
(* identity.                                                               *)
(***************************************************************************)
EXTENDS Naturals

CONSTANTS
  Identities,       \* users at Microsoft
  Emails,
  Rows,             \* BOUND: accounts, as numbers in the order they are made
  SignIns,          \* BOUND: sign-ins, as numbers in the order they begin, each with its code
  MaxFetches,       \* attempts of fetchWithRetries
  MaxAccountFaults, \* BOUND: failed requests to Microsoft
  MaxEmailMoves,    \* BOUND: changes of an address at Microsoft
  NoIdentity, NoRow

ASSUME AccountsAssumption ==
  /\ NoIdentity \notin Identities /\ NoRow \notin Rows /\ Emails # {}
  /\ Rows \subseteq Nat /\ SignIns \subseteq Nat
  /\ MaxFetches \in Nat \ {0} /\ MaxAccountFaults \in Nat /\ MaxEmailMoves \in Nat

VARIABLES
  account,     \* the rows
  emailOf,     \* the address Microsoft has for each user; two can have the same
  signIn,      \* the sign-ins
  contested,   \* accounts that two users were about to be linked to (history)
  accountFaults, emailMoves

accountsVars == <<account, emailOf, signIn, contested, accountFaults, emailMoves>>

Account ==
  [made : BOOLEAN, email : Emails, identity : Identities \cup {NoIdentity},
   hasLogged : BOOLEAN, isActive : BOOLEAN]

(* The requests to Microsoft, in their order. *)
Fetches == {"token", "discovery", "keys", "profile"}

SignInState ==
  [step : Fetches \cup {"idle", "identity", "email", "link", "create", "mark", "done", "failed"},
   identity : Identities \cup {NoIdentity}, email : Emails, tries : Nat,
   redeemed : BOOLEAN, row : Rows \cup {NoRow}, isActive : BOOLEAN]

AccountsTypeOK ==
  /\ account \in [Rows -> Account] /\ emailOf \in [Identities -> Emails]
  /\ signIn \in [SignIns -> SignInState] /\ contested \subseteq Rows
  /\ accountFaults \in 0 .. MaxAccountFaults /\ emailMoves \in 0 .. MaxEmailMoves

SomeEmail == CHOOSE e \in Emails : TRUE

AccountsInit ==
  /\ account = [r \in Rows |-> [made |-> FALSE, email |-> SomeEmail, identity |-> NoIdentity,
                                hasLogged |-> FALSE, isActive |-> TRUE]]
  /\ emailOf \in [Identities -> Emails]
  /\ signIn = [l \in SignIns |->
       [step |-> "idle", identity |-> NoIdentity, email |-> SomeEmail, tries |-> 0,
        redeemed |-> FALSE, row |-> NoRow, isActive |-> TRUE]]
  /\ contested = {} /\ accountFaults = 0 /\ emailMoves = 0

rows == <<account, contested>>

outside == <<emailOf, accountFaults, emailMoves>>

-----------------------------------------------------------------------------
(* Microsoft *)

To(l, step) == signIn' = [signIn EXCEPT ![l].step = step, ![l].tries = 0]

(* The user comes back from Microsoft with a code. *)
ComeBack(l, i) ==
  /\ signIn[l].step = "idle" /\ \A k \in SignIns : k < l => signIn[k].step # "idle"
  /\ signIn' = [signIn EXCEPT ![l].step = "token", ![l].identity = i]
  /\ UNCHANGED <<rows, outside>>

AfterFetch == [token |-> "discovery", discovery |-> "keys", keys |-> "profile",
               profile |-> "identity"]

(* A request is answered.  The token names the user and the address; a code*)
(* that was redeemed by an attempt whose answer was lost is rejected.      *)
FetchAnswered(l) ==
  /\ signIn[l].step \in Fetches
  /\ IF signIn[l].step = "token" /\ signIn[l].redeemed
     THEN To(l, "failed")
     ELSE signIn' = [signIn EXCEPT
            ![l].step = AfterFetch[@], ![l].tries = 0, ![l].redeemed = TRUE,
            ![l].email = IF signIn[l].step = "token" THEN emailOf[signIn[l].identity] ELSE @]
  /\ UNCHANGED <<rows, outside>>

(* Without a profile the telephone number of the token will do.            *)
WithoutAnswer(l) == To(l, IF signIn[l].step = "profile" THEN "identity" ELSE "failed")

(* A request is refused, or the token does not hold against keys and       *)
(* claims.                                                                 *)
FetchRefused(l) ==
  /\ signIn[l].step \in Fetches /\ WithoutAnswer(l)
  /\ UNCHANGED <<rows, outside>>

(* An attempt ends with a server error or without an answer; what it asked *)
(* for may have been done.                                                 *)
FetchFails(l, carriedOut) ==
  /\ signIn[l].step \in Fetches
  /\ carriedOut => signIn[l].step = "token"
  /\ accountFaults < MaxAccountFaults /\ accountFaults' = accountFaults + 1
  /\ IF signIn[l].tries + 1 < MaxFetches
     THEN signIn' = [signIn EXCEPT ![l].tries = @ + 1, ![l].redeemed = @ \/ carriedOut]
     ELSE WithoutAnswer(l)
  /\ UNCHANGED <<rows, emailOf, emailMoves>>

EmailMoves(i, e) ==
  /\ emailMoves < MaxEmailMoves /\ emailMoves' = emailMoves + 1
  /\ emailOf' = [emailOf EXCEPT ![i] = e]
  /\ UNCHANGED <<rows, signIn, accountFaults>>

-----------------------------------------------------------------------------
(* The rows *)

Made == {r \in Rows : account[r].made}

WithEmail(e) == {r \in Made : account[r].email = e}

WithIdentity(i) == {r \in Made : account[r].identity = i}

(* The indexes allow a new row. *)
Free(e, i) == WithEmail(e) = {} /\ (i # NoIdentity => WithIdentity(i) = {})

MakeRow(r, e, i) ==
  /\ ~account[r].made /\ \A s \in Rows : s < r => account[s].made
  /\ account' = [account EXCEPT ![r] =
       [made |-> TRUE, email |-> e, identity |-> i, hasLogged |-> i # NoIdentity,
        isActive |-> TRUE]]

(* preProvision, and addUser of the command line tool, which looks for the *)
(* address first.                                                          *)
PreProvision(e) ==
  /\ Free(e, NoIdentity)
  /\ \E r \in Rows : MakeRow(r, e, NoIdentity)
  /\ UNCHANGED <<contested, signIn, outside>>

SetActive(r) ==
  /\ account[r].made
  /\ account' = [account EXCEPT ![r].isActive = ~@]
  /\ UNCHANGED <<contested, signIn, outside>>

-----------------------------------------------------------------------------
(* resolveUser *)

TakesRow(l, r, step) ==
  signIn' = [signIn EXCEPT ![l].step = step, ![l].row = r, ![l].isActive = account[r].isActive]

FindByIdentity(l) ==
  /\ signIn[l].step = "identity"
  /\ \/ WithIdentity(signIn[l].identity) = {} /\ To(l, "email")
     \/ \E r \in WithIdentity(signIn[l].identity) : TakesRow(l, r, "mark")
  /\ UNCHANGED <<rows, outside>>

(* The account waits for its first login. *)
MayLink(r) == account[r].isActive /\ ~account[r].hasLogged

FindByEmail(l) ==
  LET found == WithEmail(signIn[l].email) IN
  /\ signIn[l].step = "email"
  /\ \/ found = {} /\ To(l, "create")
     \/ \E r \in found : MayLink(r) /\ TakesRow(l, r, "link")
     \/ \E r \in found : ~MayLink(r) /\ To(l, "failed")
  /\ contested' = contested \cup
       {r \in found : \E k \in SignIns :
          /\ signIn[k].step = "link" /\ signIn[k].row = r
          /\ signIn[k].identity # signIn[l].identity}
  /\ UNCHANGED <<account, outside>>

(* Mutation: the account still waits for its first login. *)
BugLinked(r, i) == [account EXCEPT ![r].identity = i]

Linked(r, i) == [account EXCEPT ![r].identity = i, ![r].hasLogged = TRUE]

(* linkIdentity updates the row it has read, whatever it is by now; the    *)
(* index refuses an identity that is linked already.                       *)
LinkIdentity(l) ==
  LET r == signIn[l].row
      i == signIn[l].identity
  IN /\ signIn[l].step = "link"
     /\ IF WithIdentity(i) \ {r} = {}
        THEN /\ account' = Linked(r, i)
             /\ TakesRow(l, r, "mark")
        ELSE To(l, "failed") /\ UNCHANGED account
     /\ UNCHANGED <<contested, outside>>

CreateAccount(l) ==
  /\ signIn[l].step = "create"
  /\ IF Free(signIn[l].email, signIn[l].identity)
     THEN \E r \in Rows : MakeRow(r, signIn[l].email, signIn[l].identity)
                          /\ signIn' = [signIn EXCEPT ![l].step = "mark", ![l].row = r]
     ELSE To(l, "failed") /\ UNCHANGED account
  /\ UNCHANGED <<contested, outside>>

(* The account that was read is refused if it was inactive; markAsLoggedIn *)
(* finds it marked, since no account has an identity before its first      *)
(* login.                                                                  *)
MarkAsLoggedIn(l) ==
  /\ signIn[l].step = "mark" /\ To(l, IF signIn[l].isActive THEN "done" ELSE "failed")
  /\ UNCHANGED <<rows, outside>>

AccountsNext ==
  \/ \E l \in SignIns :
       \/ \E i \in Identities : ComeBack(l, i)
       \/ FetchAnswered(l) \/ FetchRefused(l) \/ \E done \in BOOLEAN : FetchFails(l, done)
       \/ FindByIdentity(l) \/ FindByEmail(l) \/ LinkIdentity(l) \/ CreateAccount(l)
       \/ MarkAsLoggedIn(l)
  \/ \E e \in Emails : PreProvision(e) \/ \E i \in Identities : EmailMoves(i, e)
  \/ \E r \in Rows : SetActive(r)

AccountsSpec == AccountsInit /\ [][AccountsNext]_accountsVars

-----------------------------------------------------------------------------
(* Properties *)

(* A user who signs in gets the account linked to the identity Microsoft   *)
(* vouches for, and keeps it: whatever becomes of e-mail addresses at      *)
(* Microsoft, and however sign-ins and administrators interleave, no other *)
(* identity gets into an account after its first login, and no identity    *)
(* gets a second account.  The exception are two users who both found the  *)
(* same account waiting for its first login: the later takes it.           *)
AccountKept ==
  /\ \A l \in SignIns :
       (signIn[l].step = "done" /\ signIn[l].row \notin contested)
         => account[signIn[l].row].identity = signIn[l].identity
  /\ \A r, s \in Made :
       (account[r].identity # NoIdentity /\ account[r].identity = account[s].identity) => r = s
  /\ \A r \in Made : account[r].hasLogged <=> account[r].identity # NoIdentity

=============================================================================
