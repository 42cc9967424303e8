---------------------------- MODULE Notifications ----------------------------
(***************************************************************************)
(* What the people around one ticket are told after a change of it has     *)
(* been committed: the notification in the application, and the e-mails of *)
(* EmailNotificationsService.  Everything here happens after the           *)
(* transaction: the handoff request and the department are read again, and *)
(* can have changed.                                                       *)
(***************************************************************************)
EXTENDS SequencesExt

CONSTANTS
  Persons,        \* users
  Submitter,      \* of the ticket; can be an agent too
  Requester,      \* the parties of the handoff request
  AskedAgent,
  Mails,          \* BOUND: changes that people are told about, as numbers
  MaxMailAttempts,\* EMAIL_MAX_ATTEMPTS
  MaxMailFaults,  \* BOUND: failed reads, refusals and lost answers
  MaxMoves,       \* BOUND: changes of who is in the department
  Nobody

ASSUME NotificationsAssumption ==
  /\ IsFiniteSet(Persons) /\ Mails \subseteq Nat /\ Nobody \notin Persons
  /\ {Submitter, Requester, AskedAgent} \subseteq Persons
  /\ MaxMailAttempts \in Nat \ {0} /\ MaxMailFaults \in Nat /\ MaxMoves \in Nat

VARIABLES
  state,       \* of the ticket
  offer,       \* the status of the handoff request
  members,     \* the active agents and administrators of the department
  mail,        \* what each change tells
  mailFaults, moves

notificationVars == <<state, offer, members, mail, mailFaults, moves>>

(* Told to the department; and told about the handoff request. *)
DepartmentKinds == {"submitted", "reopened", "reminder"}

HandoffKinds == {"requested", "accepted", "rejected"}

Kinds == DepartmentKinds \cup HandoffKinds \cup {"claimed", "closed"}

(* todo: the recipients left; got: accepted by the provider; unsure: the   *)
(* answer was lost; over: refused, or all attempts used; ever, always:     *)
(* entitled at some time since the change, and all the time (history).     *)
MailState ==
  [step : {"none", "committed", "mailing", "sending", "done", "dropped"},
   kind : Kinds, actor : Persons \cup {Nobody}, told : SUBSET Persons,
   todo : Seq(Persons), tries : Nat, got : [Persons -> Nat],
   unsure : SUBSET Persons, over : SUBSET Persons,
   ever : SUBSET Persons, always : SUBSET Persons]

NotificationsTypeOK ==
  /\ state \in {"none", "open", "claimed", "closed"}
  /\ offer \in {"none", "PENDING", "ACCEPTED", "REJECTED", "CANCELLED"}
  /\ members \subseteq Persons /\ mail \in [Mails -> MailState]
  /\ mailFaults \in 0 .. MaxMailFaults /\ moves \in 0 .. MaxMoves

NoMail ==
  [step |-> "none", kind |-> "submitted", actor |-> Nobody, told |-> {}, todo |-> <<>>,
   tries |-> 0, got |-> [u \in Persons |-> 0], unsure |-> {}, over |-> {},
   ever |-> {}, always |-> {}]

NotificationsInit ==
  /\ state \in {"none", "open", "claimed", "closed"}
  /\ offer \in (IF state = "claimed" THEN {"none", "PENDING"} ELSE {"none"})
  /\ members = Persons
  /\ mail = [j \in Mails |-> NoMail]
  /\ mailFaults = 0 /\ moves = 0

-----------------------------------------------------------------------------
(* The changes, as their transactions leave the rows *)

(* Who should be told. *)
Entitled(kind, actor) ==
  CASE kind \in DepartmentKinds      -> members \ {actor}
    [] kind \in {"claimed", "closed"} -> {Submitter} \ {actor}
    [] kind = "requested"            -> {AskedAgent}
    [] kind = "accepted"             -> {Requester, AskedAgent, Submitter}
    [] kind = "rejected"             -> {Requester}

Commits(kind, actor) ==
  \E j \in Mails :
    /\ mail[j].step = "none" /\ \A i \in Mails : i < j => mail[i].step # "none"
    /\ mail' = [mail EXCEPT ![j] =
         [NoMail EXCEPT !.step = "committed", !.kind = kind, !.actor = actor,
            !.ever = Entitled(kind, actor), !.always = Entitled(kind, actor)]]
    /\ UNCHANGED <<members, mailFaults, moves>>

(* Only the submitter reopens. *)
TicketMoves(kind, from, to, actors) ==
  /\ state = from /\ state' = to
  /\ \E actor \in actors : Commits(kind, actor)
  /\ offer' = IF offer = "PENDING" /\ kind = "closed" THEN "CANCELLED" ELSE offer

TicketChange ==
  \/ TicketMoves("submitted", "none", "open", {Submitter})
  \/ TicketMoves("claimed", "open", "claimed", members)
  \/ TicketMoves("closed", "claimed", "closed", {Requester})
  \/ TicketMoves("reopened", "closed", "open", {Submitter})
  \/ TicketMoves("reminder", "open", "open", {Nobody})

HandoffMoves(kind, from, to, actor) ==
  /\ state = "claimed" /\ offer = from /\ offer' = to
  /\ Commits(kind, actor) /\ UNCHANGED state

HandoffChange ==
  \/ HandoffMoves("requested", "none", "PENDING", Requester)
  \/ HandoffMoves("accepted", "PENDING", "ACCEPTED", AskedAgent)
  \/ HandoffMoves("rejected", "PENDING", "REJECTED", AskedAgent)

(* Nobody is told of a withdrawal. *)
WithdrawHandoff ==
  /\ offer = "PENDING" /\ offer' = "CANCELLED"
  /\ UNCHANGED <<state, members, mail, mailFaults, moves>>

(* A user joins or leaves the department, or is deactivated. *)
MemberMoves(u) ==
  /\ moves < MaxMoves /\ moves' = moves + 1
  /\ members' = IF u \in members THEN members \ {u} ELSE members \cup {u}
  /\ mail' = [j \in Mails |->
       IF mail[j].kind \in DepartmentKinds /\ mail[j].step \in {"committed", "mailing"}
       THEN [mail[j] EXCEPT !.ever = @ \cup (members' \ {mail[j].actor}), !.always = @ \ {u}]
       ELSE mail[j]]
  /\ UNCHANGED <<state, offer, mailFaults>>

-----------------------------------------------------------------------------
(* After the commit *)

MailFault == mailFaults < MaxMailFaults /\ mailFaults' = mailFaults + 1

(* findActiveDepartmentRecipientIds, or the users that are told alone. *)
InAppRecipients(j) ==
  CASE mail[j].kind \in DepartmentKinds -> members \ {mail[j].actor}
    [] mail[j].kind = "requested"      -> {AskedAgent}
    [] mail[j].kind \in {"accepted", "rejected"} -> {Requester}
    [] OTHER -> {Submitter} \ {mail[j].actor}

(* NotificationsService emits one event for the users, if there are any.   *)
Told(job, users) == [job EXCEPT !.told = users]

(* The event is published and the notification sent; the e-mails are begun *)
(* and nobody waits for them.                                              *)
Notify(j) ==
  /\ mail[j].step = "committed"
  /\ mail' = [mail EXCEPT ![j] = Told([mail[j] EXCEPT !.step = "mailing"], InAppRecipients(j))]
  /\ UNCHANGED <<state, offer, members, mailFaults, moves>>

(* What is read before the notification cannot be read: the request ends   *)
(* with an error, although it is committed, and no e-mail is begun.  The   *)
(* reminder worker goes on to the e-mail.                                  *)
NotifyFails(j) ==
  /\ mail[j].step = "committed" /\ mail[j].kind \in DepartmentKinds \cup HandoffKinds
  /\ MailFault
  /\ mail' = [mail EXCEPT ![j].step =
                 IF mail[j].kind = "reminder" THEN "mailing" ELSE "dropped"]
  /\ UNCHANGED <<state, offer, members, moves>>

(* Who is not to be told: the one who did it, and inactive users.  The     *)
(* database gives the members in any order; here it is one order of each   *)
(* set.                                                                    *)
DepartmentRecipients(j) == SetToSeq(members \ {mail[j].actor})

(* A handoff request that has moved on since is not told about. *)
StillTrue(kind) ==
  /\ kind = "requested" => offer = "PENDING"
  /\ kind = "accepted" => offer = "ACCEPTED"
  /\ kind = "rejected" => offer = "REJECTED"

Recipients(j) ==
  LET kind == mail[j].kind
      submitter == IF mail[j].actor = Submitter THEN <<>> ELSE <<Submitter>>
  IN CASE kind \in {"submitted", "reminder"} -> DepartmentRecipients(j)
       [] kind = "reopened"  -> submitter \o DepartmentRecipients(j)
       [] kind = "requested" -> <<AskedAgent>>
       [] kind = "accepted"  -> <<Requester, AskedAgent, Submitter>>
       [] kind = "rejected"  -> <<Requester>>
       [] OTHER -> submitter

(* Mutation: everyone on the list is written to. *)
BugUnique(s) == s

(* dispatch keeps one entry of each address. *)
Unique(s) == SetToSeq(ToSet(s))

ReadRecord(j) ==
  /\ mail[j].step = "mailing"
  /\ mail' = [mail EXCEPT
       ![j].step = IF StillTrue(mail[j].kind) THEN "sending" ELSE "dropped",
       ![j].todo = IF StillTrue(mail[j].kind) THEN Unique(Recipients(j)) ELSE <<>>]
  /\ UNCHANGED <<state, offer, members, mailFaults, moves>>

(* runSafely: the failure is logged. *)
ReadFails(j) ==
  /\ mail[j].step = "mailing" /\ MailFault
  /\ mail' = [mail EXCEPT ![j].step = "dropped"]
  /\ UNCHANGED <<state, offer, members, moves>>

(* The next of the list, or the end of it. *)
NextRecipient(job) ==
  [job EXCEPT !.todo = Tail(@), !.tries = 0,
              !.step = IF Len(job.todo) = 1 THEN "done" ELSE @]

(* Nobody to tell, or the provider accepts a message. *)
SendAccepted(j) ==
  /\ mail[j].step = "sending"
  /\ mail' = [mail EXCEPT ![j] =
       IF mail[j].todo = <<>> THEN [mail[j] EXCEPT !.step = "done"]
       ELSE NextRecipient([mail[j] EXCEPT !.got[Head(mail[j].todo)] = @ + 1])]
  /\ UNCHANGED <<state, offer, members, mailFaults, moves>>

(* A message is given up after a refusal, and after the last attempt. *)
GivesUp(job, transient) == ~transient \/ job.tries + 1 = MaxMailAttempts

(* The provider refuses or cannot be reached, or it accepts the message    *)
(* and the answer is lost.                                                 *)
SendFails(j, transient, accepted) ==
  /\ mail[j].step = "sending" /\ mail[j].todo # <<>> /\ MailFault
  /\ accepted => transient
  /\ LET u == Head(mail[j].todo)
         failed == [mail[j] EXCEPT !.got[u] = IF accepted THEN @ + 1 ELSE @,
                                   !.unsure = IF accepted THEN @ \cup {u} ELSE @]
     IN mail' = [mail EXCEPT ![j] =
          IF GivesUp(mail[j], transient)
          THEN NextRecipient([failed EXCEPT !.over = @ \cup {u}])
          ELSE [failed EXCEPT !.tries = @ + 1]]
  /\ UNCHANGED <<state, offer, members, moves>>

NotificationsNext ==
  \/ TicketChange \/ HandoffChange \/ WithdrawHandoff
  \/ \E u \in Persons : MemberMoves(u)
  \/ \E j \in Mails :
       \/ Notify(j) \/ NotifyFails(j) \/ ReadRecord(j) \/ ReadFails(j) \/ SendAccepted(j)
       \/ \E transient, accepted \in BOOLEAN : SendFails(j, transient, accepted)

NotificationsSpec == NotificationsInit /\ [][NotificationsNext]_notificationVars

-----------------------------------------------------------------------------
(* Properties *)

(* When the e-mails of a change are done, everyone who was entitled to one *)
(* all the time since the change has been written to, or was refused or    *)
(* tried to the last attempt: no failure takes away the e-mails of others. *)
(* Nobody gets a second one unless an answer was lost, and nobody gets one *)
(* who was not entitled at some time, the one who did it included; for     *)
(* those who are told in the application the same holds.                   *)
MailAccounted ==
  \A j \in Mails :
    LET written == {u \in Persons : mail[j].got[u] > 0} IN
    /\ mail[j].step = "done" => mail[j].always \subseteq written \cup mail[j].over
    /\ \A u \in Persons : mail[j].got[u] > 1 => u \in mail[j].unsure
    /\ written \cup mail[j].told \subseteq mail[j].ever

=============================================================================
