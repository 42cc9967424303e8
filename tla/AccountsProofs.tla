---------------------------- MODULE AccountsProofs ----------------------------
(***************************************************************************)
(* Who gets into an account, and what role and memberships it has: the     *)
(* proofs about UserAccounts and MembershipTool, for any number of users,  *)
(* sign-ins and runs of the tool.                                          *)
(***************************************************************************)
EXTENDS UserAccounts, MembershipTool, TLAPS

-----------------------------------------------------------------------------
(* The sign-in *)

(* A sign-in that has a row. *)
HasRow(l) == signIn[l].step \in {"link", "mark", "done"}

RowsTaken ==
  \A l \in SignIns :
    /\ signIn[l].step # "idle" => signIn[l].identity \in Identities
    /\ HasRow(l) => signIn[l].row \in Made

(* Whoever is past the link got into an account of its own, if no other    *)
(* was about to be linked to it at the same time.                          *)
LinkedToSelf ==
  \A l \in SignIns :
    (signIn[l].step \in {"mark", "done"} /\ signIn[l].row \notin contested)
      => account[signIn[l].row].identity = signIn[l].identity

(* Whoever is about to be linked has an account that waits for its first   *)
(* login or that was linked to the same user since.                        *)
LinkIsOpen ==
  \A l \in SignIns :
    (signIn[l].step = "link" /\ signIn[l].row \notin contested)
      => account[signIn[l].row].identity \in {NoIdentity, signIn[l].identity}

(* Two who are about to be linked to one account contest it. *)
LinksContest ==
  \A k, l \in SignIns :
    (/\ signIn[k].step = "link" /\ signIn[l].step = "link"
     /\ signIn[k].row = signIn[l].row /\ signIn[k].identity # signIn[l].identity)
      => signIn[l].row \in contested

OneAccountEach ==
  \A r, s \in Made :
    (account[r].identity # NoIdentity /\ account[r].identity = account[s].identity) => r = s

LoggedWhenLinked == \A r \in Made : account[r].hasLogged <=> account[r].identity # NoIdentity

AccountsInv ==
  /\ AccountsTypeOK /\ RowsTaken
  /\ LinkedToSelf /\ LinkIsOpen /\ LinksContest
  /\ OneAccountEach /\ LoggedWhenLinked

-----------------------------------------------------------------------------
(* The tool *)

(* Administrators, and nobody else, are in the Administration department.  *)
RoleAgrees == role # "none" => TriggersHold(role, member)

Saving(o) == tool[o].step \in {"sync", "listed", "apply"}

(* What a run was shown and has read is still so, or it was overtaken. *)
RunAgrees(o) ==
  LET run == tool[o] IN
    /\ run.step # "menu" => role # "none"
    /\ rowLock = o => Saving(o)
    /\ Saving(o) => (rowLock = o <=> run.change = "role")
    /\ Saving(o) \/ run.step = "ready" => UsesDepartments(run.role) \/ run.chosen = {}
    /\ run.step = "apply" /\ rowLock = o => run.read = run.role
    /\ ~run.overtaken =>
         /\ run.step = "shown" => run.read = role
         /\ (Saving(o) \/ run.step = "ready") /\ run.change = "departments" =>
              run.role = role /\ role # "Employee"
         /\ run.step \in {"listed", "apply"} => run.current = member

ToolInv == ToolTypeOK /\ RoleAgrees /\ \A o \in Operators : RunAgrees(o)

-----------------------------------------------------------------------------
(* Proofs about the sign-in *)

(* Initially no sign-in is under way. *)
LEMMA AccountsInitially == AccountsInit => AccountsInv
<1> SUFFICES ASSUME AccountsInit PROVE AccountsInv
  OBVIOUS
<1>1. SomeEmail \in Emails
  BY AccountsAssumption DEF SomeEmail
<1>2. Made = {}
  BY DEF AccountsInit, Made
<1>3. AccountsTypeOK
  <2>1. account \in [Rows -> Account]
    BY <1>1 DEF AccountsInit, Account
  <2>2. signIn \in [SignIns -> SignInState]
    BY <1>1 DEF AccountsInit, SignInState
  <2>3. /\ accountFaults \in 0 .. MaxAccountFaults /\ emailMoves \in 0 .. MaxEmailMoves
        /\ emailOf \in [Identities -> Emails] /\ contested \subseteq Rows
    BY AccountsAssumption DEF AccountsInit
  <2> QED
    BY <2>1, <2>2, <2>3 DEF AccountsTypeOK
<1>4. \A l \in SignIns : signIn[l].step = "idle"
  BY DEF AccountsInit
<1> QED
  BY <1>2, <1>3, <1>4
     DEF AccountsInv, RowsTaken, HasRow, LinkedToSelf, LinkIsOpen, LinksContest,
         OneAccountEach, LoggedWhenLinked

(* A sign-in that goes on without a row. *)
LEMMA GoesOn ==
  ASSUME AccountsInv, UNCHANGED account, contested \subseteq contested',
         NEW l \in SignIns, NEW state \in SignInState,
         signIn' = [signIn EXCEPT ![l] = state],
         state.step \in Fetches \cup {"identity", "email", "create", "failed"},
         state.identity \in Identities
  PROVE  /\ signIn' \in [SignIns -> SignInState]
         /\ RowsTaken' /\ LinkedToSelf' /\ LinkIsOpen' /\ LinksContest'
         /\ OneAccountEach' /\ LoggedWhenLinked'
<1>1. signIn \in [SignIns -> SignInState] /\ signIn' \in [SignIns -> SignInState]
  BY DEF AccountsInv, AccountsTypeOK
<1>2. Made' = Made
  BY DEF Made
<1>3. ~HasRow(l)' /\ signIn'[l] = state /\ \A k \in SignIns \ {l} : signIn'[k] = signIn[k]
  BY <1>1 DEF HasRow, Fetches
<1>4. state.step \notin {"link", "mark", "done"}
  BY DEF Fetches
<1>5. RowsTaken'
  BY <1>2, <1>3 DEF AccountsInv, RowsTaken, HasRow
<1>6. LinkedToSelf' /\ LinkIsOpen' /\ LinksContest'
  BY <1>3, <1>4 DEF AccountsInv, LinkedToSelf, LinkIsOpen, LinksContest
<1>7. OneAccountEach' /\ LoggedWhenLinked'
  BY <1>2 DEF AccountsInv, OneAccountEach, LoggedWhenLinked
<1> QED
  BY <1>1, <1>5, <1>6, <1>7

(* What a step makes of a sign-in is a state of a sign-in. *)
LEMMA SignInTypes ==
  ASSUME AccountsTypeOK, NEW l \in SignIns
  PROVE  /\ \A step \in {"token", "identity", "email", "create", "done", "failed"} :
              [signIn[l] EXCEPT !.step = step, !.tries = 0] \in SignInState
         /\ \A step \in {"link", "mark"}, r \in Rows :
              /\ [signIn[l] EXCEPT !.step = step, !.row = r] \in SignInState
              /\ [signIn[l] EXCEPT !.step = step, !.row = r, !.isActive = account[r].isActive]
                   \in SignInState
<1>1. signIn[l] \in SignInState /\ \A r \in Rows : account[r].isActive \in BOOLEAN
  BY DEF AccountsTypeOK, Account
<1> QED
  BY <1>1 DEF SignInState, Fetches

(* The sign-in before it looks for an account. *)
LEMMA FetchesStep ==
  ASSUME AccountsInv, NEW l \in SignIns,
         \/ \E i \in Identities : ComeBack(l, i)
         \/ FetchAnswered(l) \/ FetchRefused(l) \/ \E done \in BOOLEAN : FetchFails(l, done)
  PROVE  AccountsInv'
<1>0. /\ signIn \in [SignIns -> SignInState] /\ signIn[l] \in SignInState
      /\ emailOf \in [Identities -> Emails]
      /\ accountFaults \in 0 .. MaxAccountFaults /\ AccountsTypeOK
      /\ signIn[l].step # "idle" => signIn[l].identity \in Identities
  BY DEF AccountsInv, AccountsTypeOK, RowsTaken
<1>1. ASSUME UNCHANGED <<account, contested, emailOf, emailMoves>>,
             accountFaults' \in 0 .. MaxAccountFaults,
             NEW state \in SignInState, signIn' = [signIn EXCEPT ![l] = state],
             state.step \in Fetches \cup {"identity", "email", "create", "failed"},
             state.identity \in Identities
      PROVE  AccountsInv'
  <2>1. AccountsTypeOK'
    BY <1>0, <1>1, GoesOn DEF AccountsTypeOK
  <2> QED
    BY <1>1, <2>1, GoesOn DEF AccountsInv
<1>2. ASSUME UNCHANGED <<account, contested, emailOf, emailMoves>>,
             accountFaults' \in 0 .. MaxAccountFaults, signIn[l].step # "idle",
             NEW step \in {"identity", "failed"}, To(l, step)
      PROVE  AccountsInv'
  <2> DEFINE state == [signIn[l] EXCEPT !.step = step, !.tries = 0]
  <2>1. state \in SignInState
    BY <1>0, SignInTypes
  <2>2. state.step = step /\ state.identity = signIn[l].identity
    BY <1>0 DEF SignInState
  <2>3. signIn' = [signIn EXCEPT ![l] = state]
    BY <1>0, <1>2 DEF To, SignInState
  <2> HIDE DEF state
  <2> QED
    BY <1>0, <1>1, <1>2, <2>1, <2>2, <2>3
<1>3. ASSUME NEW i \in Identities, ComeBack(l, i) PROVE AccountsInv'
  <2> DEFINE state == [signIn[l] EXCEPT !.step = "token", !.identity = i]
  <2>1. state \in SignInState /\ state.step = "token" /\ state.identity = i
    BY <1>0 DEF SignInState, Fetches
  <2>2. signIn' = [signIn EXCEPT ![l] = state]
    BY <1>0, <1>3 DEF ComeBack, SignInState
  <2> HIDE DEF state
  <2> QED
    BY <1>0, <1>1, <1>3, <2>1, <2>2 DEF ComeBack, rows, outside, Fetches
<1>4. CASE FetchAnswered(l)
  <2>0. signIn[l].step \in Fetches /\ signIn[l].step # "idle"
    BY <1>4 DEF FetchAnswered, Fetches
  <2>1. CASE signIn[l].step = "token" /\ signIn[l].redeemed
    BY <1>0, <1>2, <1>4, <2>0, <2>1 DEF FetchAnswered, rows, outside
  <2>2. CASE ~(signIn[l].step = "token" /\ signIn[l].redeemed)
    <3> DEFINE next == AfterFetch[signIn[l].step]
               email == IF signIn[l].step = "token" THEN emailOf[signIn[l].identity]
                        ELSE signIn[l].email
               state == [signIn[l] EXCEPT !.step = next, !.tries = 0,
                                          !.redeemed = TRUE, !.email = email]
    <3>1. next \in {"discovery", "keys", "profile", "identity"}
      BY <2>0 DEF AfterFetch, Fetches
    <3>2. email \in Emails
      BY <1>0, <2>0 DEF SignInState
    <3>3. signIn' = [signIn EXCEPT ![l] = state]
      BY <1>0, <1>4, <2>2 DEF FetchAnswered, SignInState
    <3> HIDE DEF next, email
    <3>4. /\ state \in SignInState /\ state.step = next
          /\ state.identity = signIn[l].identity
      BY <1>0, <3>1, <3>2 DEF SignInState, Fetches
    <3>5. state.step \in Fetches \cup {"identity", "email", "create", "failed"}
      BY <3>1, <3>4 DEF Fetches
    <3> HIDE DEF state
    <3> QED
      BY <1>0, <1>1, <1>4, <2>0, <3>3, <3>4, <3>5 DEF FetchAnswered, rows, outside
  <2> QED
    BY <2>1, <2>2
<1>5. CASE FetchRefused(l)
  <2>1. signIn[l].step # "idle"
    BY <1>5 DEF FetchRefused, Fetches
  <2> QED
    BY <1>0, <1>2, <1>5, <2>1 DEF FetchRefused, WithoutAnswer, rows, outside
<1>6. ASSUME NEW done \in BOOLEAN, FetchFails(l, done) PROVE AccountsInv'
  <2>1. signIn[l].step \in Fetches /\ signIn[l].step # "idle"
    BY <1>6 DEF FetchFails, Fetches
  <2>2. /\ accountFaults' \in 0 .. MaxAccountFaults
        /\ UNCHANGED <<account, contested, emailOf, emailMoves>>
    BY <1>0, <1>6, AccountsAssumption DEF FetchFails, rows
  <2>3. CASE signIn[l].tries + 1 < MaxFetches
    <3> DEFINE redeemed == signIn[l].redeemed \/ done
               state == [signIn[l] EXCEPT !.tries = signIn[l].tries + 1, !.redeemed = redeemed]
    <3>1. redeemed \in BOOLEAN /\ signIn[l].tries + 1 \in Nat
      BY <1>0 DEF SignInState
    <3>2. signIn' = [signIn EXCEPT ![l] = state]
      BY <1>0, <1>6, <2>3 DEF FetchFails, SignInState
    <3> HIDE DEF redeemed
    <3>3. /\ state \in SignInState /\ state.step = signIn[l].step
          /\ state.identity = signIn[l].identity
      BY <1>0, <3>1 DEF SignInState
    <3> HIDE DEF state
    <3> QED
      BY <1>0, <1>1, <2>1, <2>2, <3>2, <3>3
  <2>4. CASE ~(signIn[l].tries + 1 < MaxFetches)
    BY <1>2, <1>6, <2>1, <2>2, <2>4 DEF FetchFails, WithoutAnswer
  <2> QED
    BY <2>3, <2>4
<1> QED
  BY <1>3, <1>4, <1>5, <1>6

(* A new account is free for its identity, and nobody had it before. *)
LEMMA MakeRowEffect ==
  ASSUME AccountsTypeOK, NEW r \in Rows, NEW e \in Emails,
         NEW i \in Identities \cup {NoIdentity}, MakeRow(r, e, i)
  PROVE  /\ account' \in [Rows -> Account]
         /\ r \notin Made /\ Made' = Made \cup {r}
         /\ account'[r].identity = i /\ (account'[r].hasLogged <=> i # NoIdentity)
         /\ \A s \in Rows \ {r} : account'[s] = account[s]
<1> DEFINE logged == i # NoIdentity
           new == [made |-> TRUE, email |-> e, identity |-> i, hasLogged |-> logged,
                   isActive |-> TRUE]
<1>1. account \in [Rows -> Account] /\ ~account[r].made /\ account' = [account EXCEPT ![r] = new]
  BY DEF MakeRow, AccountsTypeOK
<1>2. logged \in BOOLEAN
  OBVIOUS
<1>3. new.made /\ new.identity = i /\ new.hasLogged = logged
  OBVIOUS
<1> HIDE DEF logged
<1>4. new \in Account
  BY <1>2 DEF Account
<1> HIDE DEF new
<1>5. /\ account' \in [Rows -> Account] /\ account'[r] = new
      /\ \A s \in Rows \ {r} : account'[s] = account[s]
  BY <1>1, <1>4
<1>6. r \notin Made /\ Made' = Made \cup {r}
  BY <1>1, <1>3, <1>5 DEF Made
<1> QED
  BY <1>3, <1>5, <1>6 DEF logged

(* A row is made for nobody, or for the sign-in that makes it.  *)
LEMMA MakeRowStep ==
  ASSUME AccountsInv, NEW r \in Rows, NEW e \in Emails,
         NEW i \in Identities \cup {NoIdentity}, MakeRow(r, e, i), Free(e, i),
         UNCHANGED <<contested, emailOf, accountFaults, emailMoves>>,
         \/ UNCHANGED signIn
         \/ \E l \in SignIns :
              /\ signIn' = [signIn EXCEPT ![l].step = "mark", ![l].row = r]
              /\ signIn[l].identity = i /\ i \in Identities
  PROVE  AccountsInv'
<1>0. /\ AccountsTypeOK /\ signIn \in [SignIns -> SignInState]
      /\ NoIdentity \notin Identities
  BY AccountsAssumption DEF AccountsInv, AccountsTypeOK
<1>1. /\ account' \in [Rows -> Account]
      /\ r \notin Made /\ Made' = Made \cup {r} /\ Made \subseteq Rows
      /\ account'[r].identity = i /\ (account'[r].hasLogged <=> i # NoIdentity)
      /\ \A s \in Rows \ {r} : account'[s] = account[s]
  BY <1>0, MakeRowEffect DEF Made
<1>2. \A s \in Made : s # r /\ account'[s] = account[s]
  BY <1>1
<1>3. PICK L \in SUBSET SignIns :
        /\ signIn' \in [SignIns -> SignInState]
        /\ \A l \in L : /\ signIn'[l].step = "mark" /\ signIn'[l].row = r
                        /\ signIn'[l].identity = i /\ i \in Identities
        /\ \A l \in SignIns \ L : signIn'[l] = signIn[l]
  <2>1. CASE UNCHANGED signIn
    <3>1. {} \in SUBSET SignIns
      OBVIOUS
    <3> QED
      BY <1>0, <2>1, <3>1
  <2>2. ASSUME NEW l \in SignIns,
               signIn' = [signIn EXCEPT ![l].step = "mark", ![l].row = r],
               signIn[l].identity = i, i \in Identities
        PROVE  \E L \in SUBSET SignIns :
                 /\ signIn' \in [SignIns -> SignInState]
                 /\ \A k \in L : /\ signIn'[k].step = "mark" /\ signIn'[k].row = r
                                 /\ signIn'[k].identity = i /\ i \in Identities
                 /\ \A k \in SignIns \ L : signIn'[k] = signIn[k]
    <3> DEFINE state == [signIn[l] EXCEPT !.step = "mark", !.row = r]
    <3>1. state \in SignInState
      BY <1>0, SignInTypes
    <3>2. state.step = "mark" /\ state.row = r /\ state.identity = i
      BY <1>0, <2>2 DEF SignInState
    <3>3. signIn' = [signIn EXCEPT ![l] = state]
      BY <1>0, <2>2 DEF SignInState
    <3> HIDE DEF state
    <3>4. /\ signIn' \in [SignIns -> SignInState] /\ signIn'[l] = state
          /\ \A k \in SignIns \ {l} : signIn'[k] = signIn[k]
      BY <1>0, <3>1, <3>3
    <3>5. \A k \in {l} : /\ signIn'[k].step = "mark" /\ signIn'[k].row = r
                         /\ signIn'[k].identity = i /\ i \in Identities
      BY <2>2, <3>2, <3>4
    <3> WITNESS {l} \in SUBSET SignIns
    <3> QED
      BY <3>4, <3>5
  <2> QED
    BY <2>1, <2>2
<1>4. AccountsTypeOK'
  BY <1>0, <1>1, <1>3 DEF AccountsTypeOK
<1>5. RowsTaken'
  BY <1>1, <1>3 DEF AccountsInv, RowsTaken, HasRow
<1>6. \A l \in SignIns \ L : HasRow(l) => signIn[l].row # r
  BY <1>1 DEF AccountsInv, RowsTaken
<1>7. LinkedToSelf'
  BY <1>1, <1>2, <1>3, <1>6 DEF AccountsInv, LinkedToSelf, RowsTaken, HasRow
<1>8. LinkIsOpen'
  BY <1>1, <1>2, <1>3, <1>6 DEF AccountsInv, LinkIsOpen, RowsTaken, HasRow
<1>9. LinksContest'
  BY <1>3 DEF AccountsInv, LinksContest
<1>10. OneAccountEach'
  <2>1. i # NoIdentity => \A s \in Made : account[s].identity # i
    BY DEF Free, WithIdentity
  <2> QED
    BY <1>1, <1>2, <2>1 DEF AccountsInv, OneAccountEach
<1>11. LoggedWhenLinked'
  BY <1>1, <1>2 DEF AccountsInv, LoggedWhenLinked
<1> QED
  BY <1>4, <1>5, <1>7, <1>8, <1>9, <1>10, <1>11 DEF AccountsInv

(* A sign-in looks for its identity, or has found it. *)
LEMMA FindByIdentityStep ==
  ASSUME AccountsInv, NEW l \in SignIns, FindByIdentity(l) \/ MarkAsLoggedIn(l)
  PROVE  AccountsInv'
<1>0. /\ signIn \in [SignIns -> SignInState] /\ signIn[l] \in SignInState
      /\ AccountsTypeOK /\ UNCHANGED <<account, contested, emailOf, accountFaults, emailMoves>>
      /\ Made' = Made /\ Made \subseteq Rows /\ signIn[l].identity \in Identities
  BY DEF AccountsInv, AccountsTypeOK, FindByIdentity, MarkAsLoggedIn, rows, outside, Made,
         RowsTaken
<1>1. CASE FindByIdentity(l) /\ WithIdentity(signIn[l].identity) = {} /\ To(l, "email")
  <2> DEFINE state == [signIn[l] EXCEPT !.step = "email", !.tries = 0]
  <2>1. state \in SignInState
    BY <1>0, SignInTypes
  <2>2. /\ state.step = "email" /\ state.identity = signIn[l].identity
        /\ signIn' = [signIn EXCEPT ![l] = state]
    BY <1>0, <1>1 DEF To, SignInState
  <2> HIDE DEF state
  <2>3. /\ signIn' \in [SignIns -> SignInState]
        /\ RowsTaken' /\ LinkedToSelf' /\ LinkIsOpen' /\ LinksContest'
        /\ OneAccountEach' /\ LoggedWhenLinked'
    BY <1>0, <2>1, <2>2, GoesOn
  <2> QED
    BY <1>0, <2>3 DEF AccountsInv, AccountsTypeOK
<1>2. ASSUME NEW state \in SignInState, signIn' = [signIn EXCEPT ![l] = state],
             state.step \in {"mark", "done", "failed"},
             state.identity = signIn[l].identity,
             state.step \in {"mark", "done"} =>
               /\ state.row \in Made
               /\ state.row \notin contested => account[state.row].identity = state.identity
      PROVE  AccountsInv'
  <2>1. /\ signIn' \in [SignIns -> SignInState] /\ signIn'[l] = state
        /\ \A k \in SignIns \ {l} : signIn'[k] = signIn[k]
    BY <1>0, <1>2
  <2>2. AccountsTypeOK'
    BY <1>0, <2>1 DEF AccountsTypeOK
  <2>3. RowsTaken'
    BY <1>0, <1>2, <2>1 DEF AccountsInv, RowsTaken, HasRow
  <2>4. LinkedToSelf' /\ LinkIsOpen' /\ LinksContest'
    BY <1>0, <1>2, <2>1 DEF AccountsInv, LinkedToSelf, LinkIsOpen, LinksContest
  <2>5. OneAccountEach' /\ LoggedWhenLinked'
    BY <1>0 DEF AccountsInv, OneAccountEach, LoggedWhenLinked
  <2> QED
    BY <2>2, <2>3, <2>4, <2>5 DEF AccountsInv
<1>3. ASSUME NEW r \in WithIdentity(signIn[l].identity), TakesRow(l, r, "mark")
      PROVE  AccountsInv'
  <2> DEFINE state == [signIn[l] EXCEPT !.step = "mark", !.row = r,
                                        !.isActive = account[r].isActive]
  <2>1. r \in Made /\ r \in Rows /\ account[r].identity = signIn[l].identity
    BY DEF WithIdentity, Made
  <2>2. state \in SignInState
    BY <1>0, <2>1, SignInTypes
  <2>3. /\ state.step = "mark" /\ state.row = r /\ state.identity = signIn[l].identity
        /\ signIn' = [signIn EXCEPT ![l] = state]
    BY <1>0, <1>3 DEF TakesRow, SignInState
  <2> HIDE DEF state
  <2> QED
    BY <1>2, <2>1, <2>2, <2>3
<1>4. CASE MarkAsLoggedIn(l)
  <2>1. PICK step \in {"done", "failed"} : To(l, step) /\ signIn[l].step = "mark"
    BY <1>4 DEF MarkAsLoggedIn
  <2> DEFINE state == [signIn[l] EXCEPT !.step = step, !.tries = 0]
  <2>2. state \in SignInState
    BY <1>0, SignInTypes
  <2>3. /\ state.step = step /\ state.row = signIn[l].row
        /\ state.identity = signIn[l].identity
        /\ signIn' = [signIn EXCEPT ![l] = state]
    BY <1>0, <2>1 DEF To, SignInState
  <2>4. /\ signIn[l].row \in Made
        /\ signIn[l].row \notin contested =>
             account[signIn[l].row].identity = signIn[l].identity
    BY <2>1 DEF AccountsInv, RowsTaken, HasRow, LinkedToSelf
  <2> HIDE DEF state
  <2> QED
    BY <1>2, <2>2, <2>3, <2>4
<1> QED
  BY <1>1, <1>3, <1>4 DEF FindByIdentity

(* A sign-in looks for an account with its address. *)
LEMMA FindByEmailStep ==
  ASSUME AccountsInv, NEW l \in SignIns, FindByEmail(l)
  PROVE  AccountsInv'
<1> DEFINE found == WithEmail(signIn[l].email)
<1>0. /\ signIn \in [SignIns -> SignInState] /\ signIn[l] \in SignInState
      /\ AccountsTypeOK /\ signIn[l].step = "email" /\ signIn[l].identity \in Identities
      /\ UNCHANGED <<account, emailOf, accountFaults, emailMoves>>
      /\ found \subseteq Made /\ Made' = Made /\ Made \subseteq Rows
  BY DEF AccountsInv, AccountsTypeOK, FindByEmail, outside, Made, RowsTaken, WithEmail
<1>1. /\ contested \subseteq contested' /\ contested' \subseteq Rows
      /\ \A r \in found, k \in SignIns :
           (/\ signIn[k].step = "link" /\ signIn[k].row = r
            /\ signIn[k].identity # signIn[l].identity) => r \in contested'
  <2>1. contested' = contested \cup
         {r \in found : \E k \in SignIns :
            /\ signIn[k].step = "link" /\ signIn[k].row = r
            /\ signIn[k].identity # signIn[l].identity}
    BY DEF FindByEmail
  <2>2. contested \subseteq Rows
    BY <1>0 DEF AccountsTypeOK
  <2> QED
    BY <1>0, <2>1, <2>2
<1>2. \/ To(l, "create") \/ To(l, "failed")
      \/ \E r \in found : MayLink(r) /\ TakesRow(l, r, "link")
  BY DEF FindByEmail
<1> HIDE DEF found
<1>3. ASSUME NEW step \in {"create", "failed"}, To(l, step) PROVE AccountsInv'
  <2> DEFINE state == [signIn[l] EXCEPT !.step = step, !.tries = 0]
  <2>1. state \in SignInState
    BY <1>0, SignInTypes
  <2>2. /\ state.step = step /\ state.identity = signIn[l].identity
        /\ signIn' = [signIn EXCEPT ![l] = state]
    BY <1>0, <1>3 DEF To, SignInState
  <2> HIDE DEF state
  <2>3. /\ signIn' \in [SignIns -> SignInState]
        /\ RowsTaken' /\ LinkedToSelf' /\ LinkIsOpen' /\ LinksContest'
        /\ OneAccountEach' /\ LoggedWhenLinked'
    BY <1>0, <1>1, <2>1, <2>2, GoesOn
  <2> QED
    BY <1>0, <1>1, <2>3 DEF AccountsInv, AccountsTypeOK
<1>4. ASSUME NEW r \in found, MayLink(r), TakesRow(l, r, "link") PROVE AccountsInv'
  <2> DEFINE state == [signIn[l] EXCEPT !.step = "link", !.row = r,
                                        !.isActive = account[r].isActive]
  <2>1. r \in Made /\ r \in Rows /\ account[r].identity = NoIdentity
    BY <1>0, <1>4 DEF MayLink, AccountsInv, LoggedWhenLinked
  <2>2. state \in SignInState
    BY <1>0, <2>1, SignInTypes
  <2>3. /\ state.step = "link" /\ state.row = r /\ state.identity = signIn[l].identity
        /\ signIn' = [signIn EXCEPT ![l] = state]
    BY <1>0, <1>4 DEF TakesRow, SignInState
  <2> HIDE DEF state
  <2>4. /\ signIn' \in [SignIns -> SignInState] /\ signIn'[l] = state
        /\ \A k \in SignIns \ {l} : signIn'[k] = signIn[k]
    BY <1>0, <2>2, <2>3
  <2>5. AccountsTypeOK'
    BY <1>0, <1>1, <2>4 DEF AccountsTypeOK
  <2>6. RowsTaken'
    BY <1>0, <2>1, <2>3, <2>4 DEF AccountsInv, RowsTaken, HasRow
  <2>7. LinkedToSelf' /\ LinkIsOpen'
    BY <1>0, <1>1, <2>1, <2>3, <2>4 DEF AccountsInv, LinkedToSelf, LinkIsOpen
  <2>8. LinksContest'
    <3> SUFFICES ASSUME NEW j \in SignIns, NEW k \in SignIns,
                        signIn'[j].step = "link", signIn'[k].step = "link",
                        signIn'[j].row = signIn'[k].row,
                        signIn'[j].identity # signIn'[k].identity
                 PROVE  signIn'[k].row \in contested'
      BY DEF LinksContest
    <3>1. CASE j # l /\ k # l
      BY <1>1, <2>4, <3>1 DEF AccountsInv, LinksContest
    <3>2. CASE j = l /\ k # l
      BY <1>1, <2>3, <2>4, <3>2
    <3>3. CASE k = l /\ j # l
      BY <1>1, <2>3, <2>4, <3>3
    <3> QED
      BY <3>1, <3>2, <3>3
  <2>9. OneAccountEach' /\ LoggedWhenLinked'
    BY <1>0 DEF AccountsInv, OneAccountEach, LoggedWhenLinked
  <2> QED
    BY <2>5, <2>6, <2>7, <2>8, <2>9 DEF AccountsInv
<1> QED
  BY <1>2, <1>3, <1>4

(* The row is linked although it was read before.                          *)
LEMMA LinkIdentityStep ==
  ASSUME AccountsInv, NEW l \in SignIns, LinkIdentity(l)
  PROVE  AccountsInv'
<1> DEFINE r == signIn[l].row
           i == signIn[l].identity
<1>0. /\ signIn \in [SignIns -> SignInState] /\ signIn[l] \in SignInState
      /\ account \in [Rows -> Account]
      /\ AccountsTypeOK /\ signIn[l].step = "link" /\ i \in Identities
      /\ UNCHANGED <<contested, emailOf, accountFaults, emailMoves>>
      /\ r \in Made /\ Made \subseteq Rows /\ NoIdentity \notin Identities
  BY AccountsAssumption
     DEF AccountsInv, AccountsTypeOK, LinkIdentity, outside, Made, RowsTaken, HasRow
<1>1. ASSUME To(l, "failed"), UNCHANGED account PROVE AccountsInv'
  <2> DEFINE state == [signIn[l] EXCEPT !.step = "failed", !.tries = 0]
  <2>1. state \in SignInState
    BY <1>0, SignInTypes
  <2>2. /\ state.step = "failed" /\ state.identity = signIn[l].identity
        /\ signIn' = [signIn EXCEPT ![l] = state]
    BY <1>0, <1>1 DEF To, SignInState
  <2> HIDE DEF state
  <2>3. /\ signIn' \in [SignIns -> SignInState]
        /\ RowsTaken' /\ LinkedToSelf' /\ LinkIsOpen' /\ LinksContest'
        /\ OneAccountEach' /\ LoggedWhenLinked'
    BY <1>0, <1>1, <2>1, <2>2, GoesOn
  <2> QED
    BY <1>0, <1>1, <2>3 DEF AccountsInv, AccountsTypeOK
<1>2. ASSUME WithIdentity(i) \ {r} = {}, account' = Linked(r, i), TakesRow(l, r, "mark")
      PROVE  AccountsInv'
  <2> DEFINE state == [signIn[l] EXCEPT !.step = "mark", !.row = r,
                                        !.isActive = account[r].isActive]
             linked == [account[r] EXCEPT !.identity = i, !.hasLogged = TRUE]
  <2>1. state \in SignInState
    BY <1>0, SignInTypes
  <2>2. /\ state.step = "mark" /\ state.row = r /\ state.identity = i
        /\ signIn' = [signIn EXCEPT ![l] = state]
    BY <1>0, <1>2 DEF TakesRow, SignInState
  <2>3. /\ linked \in Account /\ linked.identity = i /\ linked.hasLogged
        /\ linked.made = account[r].made
    BY <1>0 DEF Account
  <2>4. account' = [account EXCEPT ![r] = linked]
    BY <1>0, <1>2 DEF Linked, Account
  <2> HIDE DEF state, linked
  <2>5. /\ signIn' \in [SignIns -> SignInState] /\ signIn'[l] = state
        /\ \A k \in SignIns \ {l} : signIn'[k] = signIn[k]
    BY <1>0, <2>1, <2>2
  <2>6. /\ account' \in [Rows -> Account] /\ account'[r] = linked
        /\ \A s \in Rows \ {r} : account'[s] = account[s]
    BY <1>0, <2>3, <2>4
  <2>7. Made' = Made
    BY <1>0, <2>3, <2>6 DEF Made
  <2>8. \A k \in SignIns : signIn'[k].identity = signIn[k].identity
    BY <2>2, <2>5
  <2> HIDE DEF r, i
  <2>9. AccountsTypeOK'
    BY <1>0, <2>5, <2>6 DEF AccountsTypeOK
  <2>10. RowsTaken'
    <3> SUFFICES ASSUME NEW k \in SignIns
                 PROVE  /\ signIn'[k].step # "idle" => signIn'[k].identity \in Identities
                        /\ HasRow(k)' => signIn'[k].row \in Made
      BY <2>7 DEF RowsTaken
    <3>1. CASE k = l
      BY <1>0, <2>2, <2>5, <3>1
    <3>2. CASE k # l
      BY <2>5, <3>2 DEF AccountsInv, RowsTaken, HasRow
    <3> QED
      BY <3>1, <3>2
  <2>11. LinkedToSelf'
    <3> SUFFICES ASSUME NEW k \in SignIns, signIn'[k].step \in {"mark", "done"},
                        signIn'[k].row \notin contested
                 PROVE  account'[signIn'[k].row].identity = signIn'[k].identity
      BY <1>0 DEF LinkedToSelf
    <3>1. CASE k = l
      BY <2>2, <2>3, <2>5, <2>6, <3>1
    <3>2. CASE k # l
      <4>1. /\ signIn'[k] = signIn[k] /\ signIn[k].row \in Rows
            /\ signIn[k].identity \in Identities
            /\ account[signIn[k].row].identity = signIn[k].identity
        BY <1>0, <2>5, <3>2 DEF AccountsInv, LinkedToSelf, RowsTaken, HasRow
      <4>2. CASE signIn[k].row # r
        BY <2>6, <4>1, <4>2
      <4>3. CASE signIn[k].row = r
        <5>1. account[r].identity \in {NoIdentity, i}
          BY <1>0, <4>1, <4>3 DEF AccountsInv, LinkIsOpen, r, i
        <5> QED
          BY <1>0, <2>3, <2>6, <4>1, <4>3, <5>1
      <4> QED
        BY <4>2, <4>3
    <3> QED
      BY <3>1, <3>2
  <2>12. LinkIsOpen'
    <3> SUFFICES ASSUME NEW k \in SignIns, signIn'[k].step = "link",
                        signIn'[k].row \notin contested
                 PROVE  account'[signIn'[k].row].identity \in {NoIdentity, signIn'[k].identity}
      BY <1>0 DEF LinkIsOpen
    <3>1. k # l /\ signIn'[k] = signIn[k] /\ signIn[k].row \in Rows
      BY <1>0, <2>2, <2>5 DEF AccountsInv, RowsTaken, HasRow
    <3>2. account[signIn[k].row].identity \in {NoIdentity, signIn[k].identity}
      BY <3>1 DEF AccountsInv, LinkIsOpen
    <3>3. CASE signIn[k].row # r
      BY <2>6, <3>1, <3>2, <3>3
    <3>4. CASE signIn[k].row = r
      <4>1. signIn[k].identity = i
        BY <1>0, <3>1, <3>4 DEF AccountsInv, LinksContest, r, i
      <4> QED
        BY <2>3, <2>6, <3>1, <3>4, <4>1
    <3> QED
      BY <3>3, <3>4
  <2>13. LinksContest'
    <3>1. signIn'[l].step # "link"
      BY <2>2, <2>5
    <3> QED
      BY <1>0, <2>5, <3>1 DEF AccountsInv, LinksContest
  <2>14. OneAccountEach'
    <3>1. \A s \in Made : s # r => account'[s] = account[s] /\ account[s].identity # i
      BY <1>0, <1>2, <2>6 DEF WithIdentity, r, i
    <3> QED
      BY <1>0, <2>3, <2>6, <2>7, <3>1 DEF AccountsInv, OneAccountEach
  <2>15. LoggedWhenLinked'
    BY <1>0, <2>3, <2>6, <2>7 DEF AccountsInv, LoggedWhenLinked
  <2> QED
    BY <2>9, <2>10, <2>11, <2>12, <2>13, <2>14, <2>15 DEF AccountsInv
<1> QED
  BY <1>1, <1>2 DEF LinkIdentity

(* A sign-in creates an account. *)
LEMMA CreateAccountStep ==
  ASSUME AccountsInv, NEW l \in SignIns, CreateAccount(l)
  PROVE  AccountsInv'
<1>0. /\ signIn \in [SignIns -> SignInState] /\ signIn[l] \in SignInState
      /\ AccountsTypeOK /\ signIn[l].step = "create" /\ signIn[l].identity \in Identities
      /\ signIn[l].email \in Emails
      /\ UNCHANGED <<contested, emailOf, accountFaults, emailMoves>>
  BY DEF AccountsInv, AccountsTypeOK, CreateAccount, outside, RowsTaken, SignInState
<1>1. ASSUME To(l, "failed"), UNCHANGED account PROVE AccountsInv'
  <2> DEFINE state == [signIn[l] EXCEPT !.step = "failed", !.tries = 0]
  <2>1. state \in SignInState
    BY <1>0, SignInTypes
  <2>2. /\ state.step = "failed" /\ state.identity = signIn[l].identity
        /\ signIn' = [signIn EXCEPT ![l] = state]
    BY <1>0, <1>1 DEF To, SignInState
  <2> HIDE DEF state
  <2>3. /\ signIn' \in [SignIns -> SignInState]
        /\ RowsTaken' /\ LinkedToSelf' /\ LinkIsOpen' /\ LinksContest'
        /\ OneAccountEach' /\ LoggedWhenLinked'
    BY <1>0, <1>1, <2>1, <2>2, GoesOn
  <2> QED
    BY <1>0, <1>1, <2>3 DEF AccountsInv, AccountsTypeOK
<1>2. ASSUME Free(signIn[l].email, signIn[l].identity), NEW r \in Rows,
             MakeRow(r, signIn[l].email, signIn[l].identity),
             signIn' = [signIn EXCEPT ![l].step = "mark", ![l].row = r]
      PROVE  AccountsInv'
  <2>1. \E k \in SignIns :
          /\ signIn' = [signIn EXCEPT ![k].step = "mark", ![k].row = r]
          /\ signIn[k].identity = signIn[l].identity /\ signIn[l].identity \in Identities
    BY <1>0, <1>2
  <2>2. signIn[l].identity \in Identities \cup {NoIdentity}
    BY <1>0
  <2> QED
    BY <1>0, <1>2, <2>1, <2>2, MakeRowStep
<1> QED
  BY <1>1, <1>2 DEF CreateAccount

(* What administrators do, and changes at Microsoft.                       *)
LEMMA AdministratorStep ==
  ASSUME AccountsInv,
         \/ \E e \in Emails : PreProvision(e) \/ \E i \in Identities : EmailMoves(i, e)
         \/ \E r \in Rows : SetActive(r)
  PROVE  AccountsInv'
<1>0. AccountsTypeOK /\ account \in [Rows -> Account]
  BY DEF AccountsInv, AccountsTypeOK
<1>1. ASSUME NEW e \in Emails, PreProvision(e) PROVE AccountsInv'
  <2>1. /\ UNCHANGED <<contested, emailOf, accountFaults, emailMoves>> /\ UNCHANGED signIn
        /\ Free(e, NoIdentity) /\ NoIdentity \in Identities \cup {NoIdentity}
    BY <1>1 DEF PreProvision, outside
  <2>2. PICK r \in Rows : MakeRow(r, e, NoIdentity)
    BY <1>1 DEF PreProvision
  <2> QED
    BY <2>1, <2>2, MakeRowStep
<1>2. ASSUME NEW e \in Emails, NEW i \in Identities, EmailMoves(i, e) PROVE AccountsInv'
  <2>1. /\ UNCHANGED <<account, contested, signIn, accountFaults>>
        /\ emailMoves' \in 0 .. MaxEmailMoves /\ emailOf' \in [Identities -> Emails]
    BY <1>0, <1>2, AccountsAssumption DEF EmailMoves, rows, AccountsTypeOK
  <2>2. Made' = Made
    BY <2>1 DEF Made
  <2> QED
    BY <2>1, <2>2
       DEF AccountsInv, AccountsTypeOK, RowsTaken, HasRow, LinkedToSelf, LinkIsOpen,
           LinksContest, OneAccountEach, LoggedWhenLinked
<1>3. ASSUME NEW r \in Rows, SetActive(r) PROVE AccountsInv'
  <2> DEFINE new == [account[r] EXCEPT !.isActive = ~account[r].isActive]
  <2>1. UNCHANGED <<contested, signIn, emailOf, accountFaults, emailMoves>>
    BY <1>3 DEF SetActive, outside
  <2>2. /\ new \in Account /\ new.made = account[r].made
        /\ new.identity = account[r].identity /\ new.hasLogged = account[r].hasLogged
    BY <1>0 DEF Account
  <2>3. account' = [account EXCEPT ![r] = new]
    BY <1>0, <1>3 DEF SetActive, Account
  <2> HIDE DEF new
  <2>4. /\ account' \in [Rows -> Account]
        /\ \A s \in Rows : /\ account'[s].made = account[s].made
                           /\ account'[s].identity = account[s].identity
                           /\ account'[s].hasLogged = account[s].hasLogged
    BY <1>0, <2>2, <2>3
  <2>5. Made' = Made /\ Made \subseteq Rows
    BY <2>4 DEF Made
  <2>6. \A l \in SignIns : HasRow(l) => signIn[l].row \in Rows
    BY <2>5 DEF AccountsInv, RowsTaken
  <2>7. AccountsTypeOK' /\ RowsTaken'
    BY <2>1, <2>4, <2>5 DEF AccountsInv, AccountsTypeOK, RowsTaken, HasRow
  <2>8. LinkedToSelf' /\ LinkIsOpen' /\ LinksContest'
    BY <2>1, <2>4, <2>6 DEF AccountsInv, HasRow, LinkedToSelf, LinkIsOpen, LinksContest
  <2>9. OneAccountEach' /\ LoggedWhenLinked'
    BY <2>4, <2>5 DEF AccountsInv, OneAccountEach, LoggedWhenLinked
  <2> QED
    BY <2>7, <2>8, <2>9 DEF AccountsInv
<1> QED
  BY <1>1, <1>2, <1>3

(* Every step of the accounts keeps their invariant. *)
LEMMA AccountsStep == AccountsInv /\ [AccountsNext]_accountsVars => AccountsInv'
<1> SUFFICES ASSUME AccountsInv, [AccountsNext]_accountsVars PROVE AccountsInv'
  OBVIOUS
<1>1. CASE UNCHANGED accountsVars
  <2>1. /\ UNCHANGED <<account, emailOf, signIn, contested>>
        /\ UNCHANGED <<accountFaults, emailMoves>> /\ Made' = Made
    BY <1>1 DEF accountsVars, Made
  <2> QED
    BY <2>1
       DEF AccountsInv, AccountsTypeOK, RowsTaken, HasRow, LinkedToSelf, LinkIsOpen,
           LinksContest, OneAccountEach, LoggedWhenLinked
<1>2. ASSUME NEW l \in SignIns,
             \/ \E i \in Identities : ComeBack(l, i)
             \/ FetchAnswered(l) \/ FetchRefused(l) \/ \E done \in BOOLEAN : FetchFails(l, done)
      PROVE  AccountsInv'
  BY <1>2, FetchesStep
<1>3. ASSUME NEW l \in SignIns, FindByIdentity(l) \/ MarkAsLoggedIn(l) PROVE AccountsInv'
  BY <1>3, FindByIdentityStep
<1>4. ASSUME NEW l \in SignIns, FindByEmail(l) PROVE AccountsInv'
  BY <1>4, FindByEmailStep
<1>5. ASSUME NEW l \in SignIns, LinkIdentity(l) PROVE AccountsInv'
  BY <1>5, LinkIdentityStep
<1>6. ASSUME NEW l \in SignIns, CreateAccount(l) PROVE AccountsInv'
  BY <1>6, CreateAccountStep
<1> QED
  BY <1>1, <1>2, <1>3, <1>4, <1>5, <1>6, AdministratorStep DEF AccountsNext

(* The invariant of the sign-in: whoever is past the link is in an account *)
(* of its own, whoever is before it found one that waits or that is linked *)
(* to it, and two who found the same one are on record.                    *)
THEOREM AccountsInvariant == AccountsSpec => []AccountsInv
BY AccountsInitially, AccountsStep, PTL DEF AccountsSpec

(* The types of the accounts and of the sign-ins.                          *)
THEOREM AccountsTypeCorrect == AccountsSpec => []AccountsTypeOK
<1>1. AccountsInv => AccountsTypeOK
  BY DEF AccountsInv
<1> QED
  BY <1>1, AccountsInvariant, PTL

(* A user gets the account linked to the identity Microsoft vouches for    *)
(* and no second one, and after the first login nobody else gets into it:  *)
(* resolveUser, with any number of sign-ins, administrators and addresses  *)
(* that move between users in between.                                     *)
THEOREM AccountsAreKept == AccountsSpec => []AccountKept
<1>1. AccountsInv => AccountKept
  BY DEF AccountsInv, LinkedToSelf, OneAccountEach, LoggedWhenLinked, AccountKept
<1> QED
  BY <1>1, AccountsInvariant, PTL

-----------------------------------------------------------------------------
(* Proofs about the tool *)

(* Initially no operator has begun. *)
LEMMA ToolInitially == ToolInit => ToolInv
<1> SUFFICES ASSUME ToolInit PROVE ToolInv
  OBVIOUS
<1>1. /\ NoRun \in Run /\ NoRun.step = "menu"
      /\ NoOperator \notin Operators /\ 0 \in 0 .. MaxAppChanges
  BY MembershipAssumption DEF NoRun, Run, UserRoles
<1>2. tool \in [Operators -> Run] /\ \A o \in Operators : tool[o].step = "menu"
  BY <1>1 DEF ToolInit
<1>3. ToolTypeOK /\ RoleAgrees
  BY <1>1, <1>2 DEF ToolInit, ToolTypeOK, RoleAgrees
<1>4. \A o \in Operators : RunAgrees(o)
  BY <1>1, <1>2 DEF ToolInit, RunAgrees, Saving
<1> QED
  BY <1>3, <1>4 DEF ToolInv

(* Overtaken marks runs, and changes nothing else of them.                 *)
LEMMA OvertakenRuns ==
  ASSUME NEW runs \in [Operators -> Run], NEW r, NEW departments
  PROVE  /\ Overtaken(runs, r, departments) \in [Operators -> Run]
         /\ \A o \in Operators :
              LET before == runs[o]
                  after  == Overtaken(runs, r, departments)[o]
              IN /\ after.step = before.step /\ after.change = before.change
                 /\ after.role = before.role /\ after.chosen = before.chosen
                 /\ after.current = before.current /\ after.read = before.read
                 /\ ~after.overtaken =>
                      /\ ~before.overtaken
                      /\ before.step # "menu" => r = role
                      /\ before.step \in {"listed", "apply"} => departments = member
<1> DEFINE mark(o) == \/ runs[o].overtaken
                      \/ runs[o].step # "menu" /\ r # role
                      \/ runs[o].step \in {"listed", "apply"} /\ departments # member
           marked(o) == [runs[o] EXCEPT !.overtaken = mark(o)]
<1>1. \A o \in Operators : runs[o] \in Run /\ mark(o) \in BOOLEAN
  BY DEF Run
<1>2. Overtaken(runs, r, departments) = [o \in Operators |-> marked(o)]
  BY <1>1 DEF Overtaken, Run
<1>3. \A o \in Operators :
        ~mark(o) => /\ ~runs[o].overtaken
                    /\ runs[o].step # "menu" => r = role
                    /\ runs[o].step \in {"listed", "apply"} => departments = member
  OBVIOUS
<1> HIDE DEF mark
<1>4. \A o \in Operators :
        /\ marked(o) \in Run /\ marked(o).overtaken = mark(o)
        /\ marked(o).step = runs[o].step /\ marked(o).change = runs[o].change
        /\ marked(o).role = runs[o].role /\ marked(o).chosen = runs[o].chosen
        /\ marked(o).current = runs[o].current /\ marked(o).read = runs[o].read
  BY <1>1 DEF Run
<1> HIDE DEF marked
<1> QED
  BY <1>2, <1>3, <1>4

(* A run that is not the one that acts: it is as it was, or marked.        *)
LEMMA OtherRunAgrees ==
  ASSUME NEW o \in Operators, RunAgrees(o), rowLock' = o <=> rowLock = o,
         tool[o].step # "menu" => role' # "none",
         tool'[o].step = tool[o].step, tool'[o].change = tool[o].change,
         tool'[o].role = tool[o].role, tool'[o].chosen = tool[o].chosen,
         tool'[o].current = tool[o].current, tool'[o].read = tool[o].read,
         ~tool'[o].overtaken =>
           /\ ~tool[o].overtaken
           /\ tool[o].step # "menu" => role' = role
           /\ tool[o].step \in {"listed", "apply"} => member' = member
  PROVE  RunAgrees(o)'
BY DEF RunAgrees, Saving, UsesDepartments

(* The application changes the user beside the tool. *)
LEMMA AppChangeStep ==
  ASSUME ToolInv, NEW r \in UserRoles, NEW departments \in SUBSET DepartmentIds,
         AppChange(r, departments)
  PROVE  ToolInv'
<1>0. /\ tool \in [Operators -> Run] /\ ToolTypeOK
      /\ role' = r /\ r # "none" /\ member' = departments /\ rowLock' = rowLock
      /\ tool' = Overtaken(tool, r, departments) /\ TriggersHold(r, departments)
      /\ appChanges' \in 0 .. MaxAppChanges
  BY MembershipAssumption DEF ToolInv, ToolTypeOK, AppChange, UserRoles
<1>1. ToolTypeOK'
  BY <1>0, OvertakenRuns DEF ToolTypeOK
<1>2. RoleAgrees'
  BY <1>0 DEF RoleAgrees, TriggersHold
<1>3. \A o \in Operators : RunAgrees(o)'
  <2> TAKE o \in Operators
  <2>1. RunAgrees(o)
    BY DEF ToolInv
  <2> HIDE DEF ToolInv
  <2> QED
    BY <1>0, <2>1, OvertakenRuns, OtherRunAgrees
<1> QED
  BY <1>1, <1>2, <1>3 DEF ToolInv

(* The application: an employee keeps no department.                       *)
LEMMA ApplicationStep ==
  ASSUME ToolInv,
         \/ \E r \in UserRoles : MapRole(r)
         \/ \E d \in Ordinary : AddMembership(d) \/ RemoveMembership(d)
  PROVE  /\ ToolInv'
         /\ role' = "Employee" => member' = {} \/ (role = "Employee" /\ member # {})
<1>0. role \in UserRoles \cup {"none"} /\ member \subseteq DepartmentIds
  BY DEF ToolInv, ToolTypeOK
<1>1. ASSUME NEW r \in UserRoles, MapRole(r)
      PROVE  /\ ToolInv'
             /\ role' = "Employee" => member' = {}
  <2> DEFINE departments == CASE r = "Employee" -> {}
                              [] r = "Agent" -> member \ {Administration}
                              [] r = "Admin" -> member \cup {Administration}
  <2>1. departments \in SUBSET DepartmentIds /\ (r = "Employee" => departments = {})
    BY <1>0 DEF UserRoles, DepartmentIds
  <2>2. AppChange(r, departments)
    BY <1>1 DEF MapRole
  <2> HIDE DEF departments
  <2>3. role' = r /\ member' = departments
    BY <2>2 DEF AppChange
  <2> QED
    BY <2>1, <2>2, <2>3, AppChangeStep
<1>2. ASSUME NEW d \in Ordinary, AddMembership(d)
      PROVE  /\ ToolInv' /\ role' # "Employee"
  <2>1. /\ AppChange(role, member \cup {d}) /\ role \in UserRoles /\ role # "Employee"
        /\ role' = role
    BY <1>0, <1>2 DEF AddMembership, AppChange
  <2>2. member \cup {d} \in SUBSET DepartmentIds
    BY <1>0 DEF DepartmentIds
  <2> QED
    BY <2>1, <2>2, AppChangeStep
<1>3. ASSUME NEW d \in Ordinary, RemoveMembership(d)
      PROVE  /\ ToolInv' /\ role' = role /\ member # {}
  <2>1. /\ AppChange(role, member \ {d}) /\ role \in UserRoles /\ role' = role
        /\ d \in member
    BY <1>0, <1>3 DEF RemoveMembership, AppChange
  <2>2. member \ {d} \in SUBSET DepartmentIds
    BY <1>0
  <2> QED
    BY <2>1, <2>2, AppChangeStep
<1> QED
  BY <1>1, <1>2, <1>3

(* A step of one run that leaves the user and the other runs alone.        *)
LEMMA OwnStep ==
  ASSUME ToolInv, NEW o \in Operators, NEW run \in Run,
         tool' = [tool EXCEPT ![o] = run], UNCHANGED <<role, member, appChanges>>,
         rowLock' \in Operators \cup {NoOperator},
         \A p \in Operators \ {o} : rowLock' = p <=> rowLock = p,
         RunAgrees(o)'
  PROVE  ToolInv'
<1>1. /\ tool \in [Operators -> Run] /\ tool' \in [Operators -> Run]
      /\ \A p \in Operators \ {o} : tool'[p] = tool[p]
  BY DEF ToolInv, ToolTypeOK
<1>2. ToolTypeOK' /\ RoleAgrees'
  BY <1>1 DEF ToolInv, ToolTypeOK, RoleAgrees
<1>3. \A p \in Operators \ {o} : RunAgrees(p)'
  <2> TAKE p \in Operators \ {o}
  <2>1. RunAgrees(p) /\ tool'[p] = tool[p] /\ (rowLock' = p <=> rowLock = p)
    BY <1>1 DEF ToolInv
  <2>2. tool[p].step # "menu" => role' # "none"
    BY <2>1 DEF RunAgrees
  <2> QED
    BY <2>1, <2>2, OtherRunAgrees
<1> QED
  BY <1>2, <1>3 DEF ToolInv

(* An operator chooses, is shown the user, or cancels. *)
LEMMA DialogueStep ==
  ASSUME ToolInv, NEW o \in Operators,
         \/ \E r \in UserRoles, chosen \in SUBSET Ordinary,
               change \in {"role", "departments"} : Choose(o, change, r, chosen)
         \/ ShowUser(o) \/ Cancel(o)
  PROVE  ToolInv'
<1>0. /\ tool \in [Operators -> Run] /\ tool[o] \in Run /\ RunAgrees(o)
      /\ role \in UserRoles \cup {"none"} /\ NoRun \in Run /\ NoRun.step = "menu"
      /\ rowLock \in Operators \cup {NoOperator}
  BY DEF ToolInv, ToolTypeOK, NoRun, Run, UserRoles
<1>1. OnlyTool
  BY DEF Choose, ShowUser, Cancel
<1>2. CASE ShowUser(o)
  <2> DEFINE run == [NoRun EXCEPT !.step = "shown", !.read = role]
  <2>1. tool' = [tool EXCEPT ![o] = run] /\ tool[o].step = "menu" /\ role \in UserRoles
    BY <1>0, <1>2 DEF ShowUser
  <2>2. run \in Run /\ run.step = "shown" /\ run.read = role
    BY <2>1 DEF NoRun, Run, UserRoles
  <2> HIDE DEF run
  <2>3. rowLock # o /\ tool'[o] = run
    BY <1>0, <2>1 DEF RunAgrees, Saving
  <2>4. RunAgrees(o)'
    BY <1>1, <2>1, <2>2, <2>3 DEF RunAgrees, Saving, OnlyTool, UserRoles
  <2> QED
    BY <1>0, <1>1, <2>1, <2>2, <2>4, OwnStep DEF OnlyTool
<1>3. CASE Cancel(o)
  <2>1. /\ tool' = [tool EXCEPT ![o] = NoRun] /\ tool'[o] = NoRun
        /\ tool[o].step \in {"shown", "ready"}
    BY <1>0, <1>3 DEF Cancel
  <2>2. rowLock # o
    BY <1>0, <2>1 DEF RunAgrees, Saving
  <2>3. RunAgrees(o)'
    BY <1>0, <1>1, <2>1, <2>2 DEF RunAgrees, Saving, OnlyTool
  <2> QED
    BY <1>0, <1>1, <2>1, <2>3, OwnStep DEF OnlyTool
<1>4. ASSUME NEW r \in UserRoles, NEW chosen \in SUBSET Ordinary,
             NEW change \in {"role", "departments"}, Choose(o, change, r, chosen)
      PROVE  ToolInv'
  <2> DEFINE run == [tool[o] EXCEPT !.step = "ready", !.change = change,
                                    !.role = r, !.chosen = chosen]
  <2>1. /\ tool[o].step = "shown" /\ (UsesDepartments(r) \/ chosen = {})
        /\ change = "departments" => tool[o].read # "Employee" /\ r = tool[o].read
    BY <1>4 DEF Choose
  <2>2. /\ run \in Run /\ run.step = "ready" /\ run.change = change /\ run.role = r
        /\ run.chosen = chosen /\ run.overtaken = tool[o].overtaken
    BY <1>0 DEF Run
  <2>3. tool' = [tool EXCEPT ![o] = run]
    BY <1>0, <1>4 DEF Choose, Run
  <2> HIDE DEF run
  <2>4. tool'[o] = run /\ rowLock # o
    BY <1>0, <2>1, <2>3 DEF RunAgrees, Saving
  <2>5. RunAgrees(o)'
    BY <1>0, <1>1, <2>1, <2>2, <2>4 DEF RunAgrees, Saving, OnlyTool
  <2> QED
    BY <1>0, <1>1, <2>2, <2>3, <2>5, OwnStep DEF OnlyTool
<1> QED
  BY <1>2, <1>3, <1>4

(* The transaction of the tool locks and reads. *)
LEMMA SaveStep ==
  ASSUME ToolInv, NEW o \in Operators, BeginSave(o) \/ ListMemberships(o) \/ ReadRole(o)
  PROVE  ToolInv'
<1>0. /\ tool \in [Operators -> Run] /\ tool[o] \in Run /\ RunAgrees(o)
      /\ role \in UserRoles \cup {"none"} /\ member \subseteq DepartmentIds
      /\ rowLock \in Operators \cup {NoOperator} /\ NoOperator \notin Operators
      /\ UNCHANGED <<role, member, appChanges>>
  BY MembershipAssumption
     DEF ToolInv, ToolTypeOK, BeginSave, ListMemberships, ReadRole, OnlyTool
<1>1. CASE BeginSave(o)
  <2> DEFINE run == [tool[o] EXCEPT !.step = "sync"]
  <2>1. /\ tool[o].step = "ready"
        /\ IF tool[o].change = "role" THEN rowLock = NoOperator /\ rowLock' = o
                                      ELSE rowLock' = rowLock
    BY <1>1 DEF BeginSave
  <2>2. /\ run \in Run /\ run.step = "sync" /\ run.change = tool[o].change
        /\ run.role = tool[o].role /\ run.chosen = tool[o].chosen
        /\ run.overtaken = tool[o].overtaken
    BY <1>0 DEF Run
  <2>3. tool' = [tool EXCEPT ![o] = run]
    BY <1>0, <1>1 DEF BeginSave, Run
  <2> HIDE DEF run
  <2>4. /\ tool'[o] = run /\ rowLock # o
        /\ rowLock' = o <=> tool[o].change = "role"
        /\ rowLock' \in Operators \cup {NoOperator}
        /\ \A p \in Operators \ {o} : rowLock' = p <=> rowLock = p
    BY <1>0, <2>1, <2>3 DEF RunAgrees, Saving
  <2>5. RunAgrees(o)'
    BY <1>0, <2>1, <2>2, <2>4 DEF RunAgrees, Saving
  <2> QED
    BY <1>0, <2>2, <2>3, <2>4, <2>5, OwnStep
<1>2. CASE ListMemberships(o)
  <2> DEFINE run == [tool[o] EXCEPT !.step = "listed", !.current = member]
  <2>1. tool[o].step = "sync" /\ rowLock' = rowLock
    BY <1>2 DEF ListMemberships, OnlyTool
  <2>2. /\ run \in Run /\ run.step = "listed" /\ run.change = tool[o].change
        /\ run.role = tool[o].role /\ run.chosen = tool[o].chosen
        /\ run.overtaken = tool[o].overtaken /\ run.current = member
    BY <1>0 DEF Run
  <2>3. tool' = [tool EXCEPT ![o] = run]
    BY <1>0, <1>2 DEF ListMemberships, Run
  <2> HIDE DEF run
  <2>4. tool'[o] = run
    BY <1>0, <2>3
  <2>5. RunAgrees(o)'
    BY <1>0, <2>1, <2>2, <2>4 DEF RunAgrees, Saving
  <2> QED
    BY <1>0, <2>1, <2>2, <2>3, <2>5, OwnStep
<1>3. CASE ReadRole(o)
  <2> DEFINE read == IF rowLock = o THEN tool[o].role ELSE role
             run == [tool[o] EXCEPT !.step = "apply", !.read = read]
  <2>1. tool[o].step = "listed" /\ rowLock' = rowLock /\ role # "none"
    BY <1>0, <1>3 DEF ReadRole, OnlyTool, RunAgrees
  <2>2. read \in UserRoles /\ (rowLock = o => read = tool[o].role)
    BY <1>0, <2>1 DEF Run
  <2>3. tool' = [tool EXCEPT ![o] = run]
    BY <1>0, <1>3 DEF ReadRole, Run
  <2> HIDE DEF read
  <2>4. /\ run \in Run /\ run.step = "apply" /\ run.change = tool[o].change
        /\ run.role = tool[o].role /\ run.chosen = tool[o].chosen /\ run.read = read
        /\ run.overtaken = tool[o].overtaken /\ run.current = tool[o].current
    BY <1>0, <2>2 DEF Run
  <2> HIDE DEF run
  <2>5. tool'[o] = run
    BY <1>0, <2>3
  <2>6. RunAgrees(o)'
    BY <1>0, <2>1, <2>2, <2>4, <2>5 DEF RunAgrees, Saving
  <2> QED
    BY <1>0, <2>1, <2>3, <2>4, <2>6, OwnStep
<1> QED
  BY <1>1, <1>2, <1>3

(* The tool adds a user. *)
LEMMA AddUserStep ==
  ASSUME ToolInv, NEW o \in Operators, NEW r \in UserRoles, NEW chosen \in SUBSET Ordinary,
         AddUser(o, r, chosen)
  PROVE  /\ ToolInv'
         /\ role' = "Employee" => member' = {}
<1>1. /\ ToolTypeOK /\ role = "none" /\ role' = r /\ TriggersHold(role', member')
      /\ UNCHANGED <<tool, rowLock, appChanges>>
      /\ member' \subseteq DepartmentIds /\ (r = "Employee" => member' = {})
  BY DEF AddUser, ToolInv, WithAdministration, DepartmentIds, UsesDepartments
<1>2. ToolTypeOK' /\ RoleAgrees'
  BY <1>1 DEF ToolTypeOK, RoleAgrees, TriggersHold
<1>3. \A p \in Operators : tool[p].step = "menu" /\ rowLock # p
  BY <1>1 DEF ToolInv, RunAgrees, Saving
<1>4. \A p \in Operators : RunAgrees(p)'
  BY <1>1, <1>3 DEF RunAgrees, Saving
<1> QED
  BY <1>1, <1>2, <1>4 DEF ToolInv

(* The commit.  A save that was not overtaken leaves exactly what it       *)
(* wants, which for an employee is no department.                          *)
LEMMA ApplyStep ==
  ASSUME ToolInv, NEW o \in Operators, Apply(o)
  PROVE  /\ ToolInv'
         /\ tool'[o].step = "menu"
         /\ (role' = "Employee" /\ member' # {} /\ ~tool[o].overtaken)
              => role = "Employee" /\ member # {}
<1> DEFINE toAdd == Desired(o) \ tool[o].current
           r     == IF rowLock = o THEN tool[o].role ELSE role
           after == (member \ (tool[o].current \ Desired(o))) \cup toAdd
           saved == toAdd \cap member = {} /\ TriggersHold(r, after)
           runs  == [tool EXCEPT ![o] = NoRun]
<1>0. /\ tool \in [Operators -> Run] /\ tool[o] \in Run /\ RunAgrees(o)
      /\ role \in UserRoles \cup {"none"} /\ member \subseteq DepartmentIds
      /\ rowLock \in Operators \cup {NoOperator} /\ NoOperator \notin Operators
      /\ NoRun \in Run /\ NoRun.step = "menu" /\ RoleAgrees /\ ToolTypeOK
  BY MembershipAssumption DEF ToolInv, ToolTypeOK, NoRun, Run, UserRoles
<1>1. /\ tool[o].step = "apply" /\ role # "none" /\ appChanges' = appChanges
      /\ role' = IF saved THEN r ELSE role
      /\ member' = IF saved THEN after ELSE member
      /\ rowLock' = IF rowLock = o THEN NoOperator ELSE rowLock
      /\ tool' = Overtaken(runs, role', member')
  BY <1>0 DEF Apply, RunAgrees
<1>2. r \in UserRoles /\ Desired(o) \subseteq DepartmentIds
  BY <1>0, <1>1 DEF Run, Desired, WithAdministration, DepartmentIds
<1>3. saved => TriggersHold(r, after)
  OBVIOUS
<1>4. after \subseteq DepartmentIds
  BY <1>0, <1>2
<1>5. (saved /\ ~tool[o].overtaken) => ~(r = "Employee" /\ after # {})
  <2> SUFFICES ASSUME ~tool[o].overtaken, r = "Employee" PROVE after = {}
    OBVIOUS
  <2>1. tool[o].current = member
    BY <1>0, <1>1 DEF RunAgrees
  <2>2. after = Desired(o)
    BY <2>1
  <2>3. rowLock = o
    BY <1>0, <1>1 DEF RunAgrees, Saving, Run
  <2>4. tool[o].read = "Employee" /\ tool[o].chosen = {}
    BY <1>0, <1>1, <2>3 DEF RunAgrees, Saving, UsesDepartments
  <2>5. Desired(o) = {}
    BY <2>4 DEF Desired, WithAdministration
  <2> QED
    BY <2>2, <2>5
<1> HIDE DEF toAdd, r, after, saved
<1>6. /\ runs \in [Operators -> Run] /\ runs[o] = NoRun
      /\ \A p \in Operators \ {o} : runs[p] = tool[p]
  BY <1>0
<1> HIDE DEF runs
<1>7. /\ role' \in UserRoles /\ role' # "none" /\ member' \subseteq DepartmentIds
      /\ rowLock' \in Operators \cup {NoOperator} /\ rowLock' # o
      /\ \A p \in Operators \ {o} : rowLock' = p <=> rowLock = p
  BY <1>0, <1>1, <1>2, <1>4 DEF UserRoles
<1>8. tool' \in [Operators -> Run] /\ tool'[o].step = "menu"
  BY <1>0, <1>1, <1>6, OvertakenRuns
<1>9. ToolTypeOK'
  BY <1>0, <1>1, <1>7, <1>8 DEF ToolTypeOK
<1>10. RoleAgrees'
  BY <1>0, <1>1, <1>3, <1>7 DEF RoleAgrees
<1>11. RunAgrees(o)'
  BY <1>7, <1>8 DEF RunAgrees, Saving
<1>12. \A p \in Operators \ {o} : RunAgrees(p)'
  <2> TAKE p \in Operators \ {o}
  <2>1. RunAgrees(p) /\ runs[p] = tool[p]
    BY <1>6 DEF ToolInv
  <2> DEFINE new == Overtaken(runs, role', member')[p]
  <2>2. /\ new.step = runs[p].step /\ new.change = runs[p].change
        /\ new.role = runs[p].role /\ new.chosen = runs[p].chosen
        /\ new.current = runs[p].current /\ new.read = runs[p].read
        /\ ~new.overtaken => /\ ~runs[p].overtaken
                             /\ runs[p].step # "menu" => role' = role
                             /\ runs[p].step \in {"listed", "apply"} => member' = member
    BY <1>6, OvertakenRuns
  <2>3. tool'[p] = new
    BY <1>1
  <2> HIDE DEF new
  <2>4. rowLock' = p <=> rowLock = p
    BY <1>7
  <2> QED
    BY <1>7, <2>1, <2>2, <2>3, <2>4, OtherRunAgrees
<1>13. ToolInv'
  BY <1>9, <1>10, <1>11, <1>12 DEF ToolInv
<1> QED
  BY <1>1, <1>5, <1>8, <1>13

(* Every step of the tool keeps its invariant. *)
LEMMA ToolStep == ToolInv /\ [ToolNext]_toolVars => ToolInv'
<1> SUFFICES ASSUME ToolInv, [ToolNext]_toolVars PROVE ToolInv'
  OBVIOUS
<1>1. CASE UNCHANGED toolVars
  <2>1. role' = role /\ member' = member /\ tool' = tool /\ rowLock' = rowLock
    BY <1>1 DEF toolVars
  <2>2. appChanges' = appChanges
    BY <1>1 DEF toolVars
  <2> QED
    BY <2>1, <2>2 DEF ToolInv, ToolTypeOK, RoleAgrees, RunAgrees, Saving
<1>2. ASSUME NEW o \in Operators, NEW r \in UserRoles, NEW chosen \in SUBSET Ordinary,
             AddUser(o, r, chosen)
      PROVE  ToolInv'
  BY <1>2, AddUserStep
<1> QED
  BY <1>1, <1>2, ApplicationStep, DialogueStep, SaveStep, ApplyStep DEF ToolNext

(* The invariant of the tool: the triggers hold, and what a run was shown  *)
(* or has read is still so unless it was overtaken.                        *)
THEOREM ToolInvariant == ToolSpec => []ToolInv
BY ToolInitially, ToolStep, PTL DEF ToolSpec

(* The types of the user, its memberships and the runs.                    *)
THEOREM ToolTypeCorrect == ToolSpec => []ToolTypeOK
<1>1. ToolInv => ToolTypeOK
  BY DEF ToolInv
<1> QED
  BY <1>1, ToolInvariant, PTL

(* Role and departments agree after every commit, of the application or of *)
(* any number of runs of the tool, and only a save that was overtaken      *)
(* leaves an employee in a department.                                     *)
THEOREM MembershipsDoAgree == ToolSpec => MembershipsAgree
<1> DEFINE A == /\ role' # "none" => (role' = "Admin" <=> Administration \in member')
                /\ (role' = "Employee" /\ member' # {} /\ (role # "Employee" \/ member = {}))
                     => \E o \in Operators :
                          tool[o].step = "apply" /\ tool'[o].step = "menu" /\ tool[o].overtaken
<1>1. ToolInv /\ ToolInv' /\ [ToolNext]_toolVars => [A]_toolVars
  <2> SUFFICES ASSUME ToolInv, ToolInv', ToolNext PROVE A
    OBVIOUS
  <2>1. role' # "none" => (role' = "Admin" <=> Administration \in member')
    BY DEF ToolInv, RoleAgrees, TriggersHold
  <2>2. SUFFICES ASSUME role' = "Employee", member' # {}, role # "Employee" \/ member = {}
                 PROVE  \E o \in Operators :
                          tool[o].step = "apply" /\ tool'[o].step = "menu" /\ tool[o].overtaken
    BY <2>1
  <2>3. \/ \E r \in UserRoles : MapRole(r)
        \/ \E d \in Ordinary : AddMembership(d) \/ RemoveMembership(d)
        \/ \E o \in Operators, r \in UserRoles, chosen \in SUBSET Ordinary : AddUser(o, r, chosen)
        \/ UNCHANGED <<role, member>>
        \/ \E o \in Operators : Apply(o)
    <3>1. \A o \in Operators, r \in UserRoles, chosen \in SUBSET Ordinary,
             change \in {"role", "departments"} :
            Choose(o, change, r, chosen) => UNCHANGED <<role, member>>
      BY DEF Choose, OnlyTool
    <3>2. \A o \in Operators :
            ShowUser(o) \/ Cancel(o) \/ BeginSave(o) \/ ListMemberships(o) \/ ReadRole(o)
              => UNCHANGED <<role, member>>
      BY DEF ShowUser, Cancel, BeginSave, ListMemberships, ReadRole, OnlyTool
    <3> QED
      BY <3>1, <3>2 DEF ToolNext
  <2>4. PICK o \in Operators : Apply(o)
    BY <2>2, <2>3, ApplicationStep, AddUserStep
  <2>5. tool[o].step = "apply"
    BY <2>4 DEF Apply
  <2> QED
    BY <2>2, <2>4, <2>5, ApplyStep
<1>2. ToolSpec => []ToolInv
  BY ToolInvariant
<1> QED
  BY <1>1, <1>2, PTL DEF ToolSpec, MembershipsAgree

=============================================================================
