------------------------------ MODULE ListPages ------------------------------
(***************************************************************************)
(* The pages that list what the service finds for the query in the page's  *)
(* address: tickets, handoffs, chats, the logs and the management of users *)
(* and departments.  A change of the address is rendered first, and the    *)
(* effect that follows loads the new query; a mutation made on the page    *)
(* loads the query of the render it was started from.                      *)
(*                                                                         *)
(* The rows of a list are told apart by the query they answer and by the   *)
(* changes the database held when they were read.                          *)
(***************************************************************************)
EXTENDS Naturals

CONSTANTS
  MaxDataChanges,  \* BOUND: changes of the database
  MaxVisits,       \* BOUND: changes of the address
  MaxListFaults,   \* BOUND: failed loads
  NoLoad

ASSUME ListPagesAssumption ==
  MaxDataChanges \in Nat /\ MaxVisits \in Nat /\ MaxListFaults \in Nat

VARIABLES
  list,         \* which page it is
  address,      \* the parameters of its address
  effectDue,    \* the address was rendered, and its effect has not run
  data,         \* changes of the database, from 1
  listed,       \* the lists the page keeps
  loading,
  error,        \* the page shows an error
  loadedFor,    \* the query that was loaded last (TicketsPage only)
  load,         \* the request whose answer is used, or NoLoad
  lateAnswer,   \* the answer of an older request on its way, or NoLoad
  mutation,     \* a change the user makes on the page
  departmentOptions, \* the departments offered as filter of the users
  mine,         \* the last change of the user that was answered
  astray,       \* the last load was for another query than the page's (history)
  visits, listFaults

listShownVars == <<listed, loading, error, loadedFor, departmentOptions>>
listVars == <<list, address, effectDue, data, listShownVars, load, lateAnswer,
              mutation, mine, astray, visits, listFaults>>

Pages == {"tickets", "handoffs", "chats", "logs", "management"}
Sections == {"first", "second"}
ListFilters == {"none", "some"}
PageNumbers == {1, 2}
Changes == 0 .. MaxDataChanges + 1

Query == [section : Sections, filter : ListFilters, page : PageNumbers]

(* Rows of the query asked, read after so many changes; 0 is not read yet. *)
ListedRows == [asked : Query, read : Changes]

(* A load of the users asks for the departments too, if it wants them. *)
LoadState == [asked : Query, read : Changes, wants : BOOLEAN, optionsRead : Changes]

ASSUME NoLoadAssumption == NoLoad \notin LoadState

Mutation == [step : {"none", "sent", "committed"}, asked : Query, change : Changes]

FirstQuery == [section |-> "first", filter |-> "none", page |-> 1]
NoMutation == [step |-> "none", asked |-> FirstQuery, change |-> 0]

ListTypeOK ==
  /\ list \in Pages
  /\ address \in [section : Sections, filter : [Sections -> ListFilters],
                  page : [Sections -> PageNumbers]]
  /\ effectDue \in BOOLEAN /\ data \in Changes
  /\ listed \in [Sections -> ListedRows]
  /\ loading \in BOOLEAN /\ error \in BOOLEAN /\ loadedFor \in Query \cup {NoLoad}
  /\ load \in LoadState \cup {NoLoad} /\ lateAnswer \in LoadState \cup {NoLoad}
  /\ mutation \in Mutation
  /\ departmentOptions \in [loaded : BOOLEAN, read : Changes]
  /\ mine \in Changes /\ astray \in BOOLEAN
  /\ visits \in 0 .. MaxVisits /\ listFaults \in 0 .. MaxListFaults

ListInit ==
  /\ list \in Pages
  /\ address = [section |-> "first", filter |-> [s \in Sections |-> "none"],
                page |-> [s \in Sections |-> 1]]
  /\ effectDue = TRUE /\ data = 1
  /\ listed = [s \in Sections |-> [asked |-> FirstQuery, read |-> 0]]
  /\ loading = TRUE /\ error = FALSE /\ loadedFor = NoLoad
  /\ load = NoLoad /\ lateAnswer = NoLoad /\ mutation = NoMutation
  /\ departmentOptions = [loaded |-> FALSE, read |-> 0]
  /\ mine = 0 /\ astray = FALSE /\ visits = 0 /\ listFaults = 0

-----------------------------------------------------------------------------
(* The address *)

(* The query that the page shows. *)
Asked == [section |-> address.section, filter |-> address.filter[address.section],
          page |-> address.page[address.section]]

(* Users and departments have parameters of their own; the sections of the *)
(* other pages share them.                                                 *)
Sharing(s) == IF list = "management" THEN {s} ELSE Sections

Setting(f, s, value) == [r \in Sections |-> IF r \in Sharing(s) THEN value ELSE f[r]]

Visit(next) ==
  /\ ~effectDue /\ visits < MaxVisits /\ next # address
  /\ address' = next /\ effectDue' = TRUE /\ visits' = visits + 1
  /\ UNCHANGED <<list, data, listShownVars, load, lateAnswer, mutation, mine, astray, listFaults>>

(* Another tab.  Tickets and handoffs may drop a filter it does not have. *)
VisitSection(s) ==
  /\ list # "chats"
  /\ \E filter \in {address.filter} \cup
         IF list \in {"tickets", "handoffs"} THEN {Setting(address.filter, s, "none")} ELSE {} :
       Visit([section |-> s, filter |-> filter, page |-> Setting(address.page, s, 1)])

(* A filter or a search starts at the first page again. *)
VisitFilter(f) ==
  LET s == address.section IN
  Visit([address EXCEPT !.filter = Setting(@, s, f), !.page = Setting(@, s, 1)])

VisitPage(p) == Visit([address EXCEPT !.page = Setting(@, address.section, p)])

-----------------------------------------------------------------------------
(* Loading *)

(* The request before is aborted; its answer may be on its way already. *)
Aborted == IF load # NoLoad /\ load.read > 0 THEN load ELSE lateAnswer

(* The users ask for the departments unless they are loaded already. *)
LoadList(query, optionsLoaded) ==
  /\ load' = [asked |-> query, read |-> 0, optionsRead |-> 0,
              wants |-> list = "management" /\ query.section = "first" /\ ~optionsLoaded]
  /\ lateAnswer' = Aborted /\ loading' = TRUE
  /\ astray' = (query # Asked)

(* The effect of the page loads the query that was rendered. *)
EffectRuns ==
  /\ effectDue /\ effectDue' = FALSE
  /\ LoadList(Asked, departmentOptions.loaded) /\ error' = FALSE
  /\ UNCHANGED <<list, address, data, listed, loadedFor, departmentOptions, mutation, mine,
                 visits, listFaults>>

(* "Try again"; and the chats are listed again when a message is notified. *)
LoadAgain ==
  /\ ~effectDue /\ (error \/ (list = "chats" /\ visits < MaxVisits))
  /\ visits' = IF error THEN visits ELSE visits + 1
  /\ LoadList(Asked, departmentOptions.loaded) /\ error' = FALSE
  /\ UNCHANGED <<list, address, effectDue, data, listed, loadedFor, departmentOptions, mutation,
                 mine, listFaults>>

OnlyRead == UNCHANGED <<list, address, effectDue, data, listShownVars, lateAnswer, mutation, mine,
                       astray, visits, listFaults>>

(* The service reads the page of tickets, ... *)
TicketsRead ==
  /\ list = "tickets" /\ load # NoLoad /\ load.read = 0
  /\ load' = [load EXCEPT !.read = data] /\ OnlyRead

(* ... of handoffs, ... *)
HandoffsRead ==
  /\ list = "handoffs" /\ load # NoLoad /\ load.read = 0
  /\ load' = [load EXCEPT !.read = data] /\ OnlyRead

(* ... of conversations, ... *)
ConversationsRead ==
  /\ list = "chats" /\ load # NoLoad /\ load.read = 0
  /\ load' = [load EXCEPT !.read = data] /\ OnlyRead

(* ... of the audit log and the ticket events together, ... *)
ActivityRead ==
  /\ list = "logs" /\ load # NoLoad /\ load.read = 0
  /\ load' = [load EXCEPT !.read = data] /\ OnlyRead

(* ... of users, ... *)
UsersRead ==
  /\ list = "management" /\ load # NoLoad /\ load.asked.section = "first" /\ load.read = 0
  /\ load' = [load EXCEPT !.read = data] /\ OnlyRead

(* ... of departments, as a list or as the departments of the users' filter. *)
DepartmentsRead ==
  /\ list = "management" /\ load # NoLoad
  /\ \/ load.asked.section = "second" /\ load.read = 0 /\ load' = [load EXCEPT !.read = data]
     \/ load.wants /\ load.optionsRead = 0 /\ load' = [load EXCEPT !.optionsRead = data]
  /\ OnlyRead

(* The list that a section's rows are kept in. *)
Slot(section) == IF list \in {"handoffs", "management"} THEN section ELSE "first"

(* A wrong variant: the answer of a replaced request is used as well. *)
BugIsLatestLoad(answer) == TRUE

IsLatestLoad(answer) == answer = load

ListUpdated(answer) ==
  /\ listed' = [listed EXCEPT ![Slot(answer.asked.section)] =
                                  [asked |-> answer.asked, read |-> answer.read]]
  /\ departmentOptions' = IF answer.wants THEN [loaded |-> TRUE, read |-> answer.optionsRead]
                          ELSE departmentOptions
  /\ loadedFor' = IF list = "tickets" THEN answer.asked ELSE loadedFor
  /\ loading' = FALSE

ListAnswered ==
  \E answer \in {load, lateAnswer} \ {NoLoad} :
    /\ answer.read > 0 /\ (answer.wants => answer.optionsRead > 0)
    /\ IF IsLatestLoad(answer) THEN ListUpdated(answer)
       ELSE UNCHANGED <<listed, departmentOptions, loadedFor, loading>>
    /\ IF answer = load THEN load' = NoLoad /\ UNCHANGED lateAnswer
       ELSE lateAnswer' = NoLoad /\ UNCHANGED load
    /\ UNCHANGED <<list, address, effectDue, data, error, mutation, mine, astray, visits, listFaults>>

(* The tickets are emptied; the other pages keep their rows under the error. *)
ListFails ==
  /\ load # NoLoad /\ listFaults < MaxListFaults
  /\ listFaults' = listFaults + 1
  /\ load' = NoLoad /\ loading' = FALSE /\ error' = TRUE
  /\ loadedFor' = IF list = "tickets" THEN load.asked ELSE loadedFor
  /\ UNCHANGED <<list, address, effectDue, data, listed, departmentOptions, lateAnswer, mutation, mine,
                 astray, visits>>

-----------------------------------------------------------------------------
(* Changes *)

SomeoneChanges ==
  /\ data <= MaxDataChanges /\ data' = data + 1
  /\ UNCHANGED <<list, address, effectDue, listShownVars, load, lateAnswer, mutation, mine,
                 astray, visits, listFaults>>

(* Handoffs are answered, users and departments are edited on their page.  *)
(* The handler keeps the loader of the render it belongs to.               *)
MutationSent ==
  /\ list \in {"handoffs", "management"} /\ ~effectDue /\ mutation.step = "none"
  /\ mutation' = [step |-> "sent", asked |-> Asked, change |-> 0]
  /\ error' = IF list = "management" THEN FALSE ELSE error
  /\ UNCHANGED <<list, address, effectDue, data, listed, loading, loadedFor, departmentOptions, load,
                 lateAnswer, mine, astray, visits, listFaults>>

MutationCommits ==
  /\ mutation.step = "sent" /\ data <= MaxDataChanges
  /\ data' = data + 1
  /\ mutation' = [mutation EXCEPT !.step = "committed", !.change = data + 1]
  /\ UNCHANGED <<list, address, effectDue, listShownVars, load, lateAnswer, mine, astray, visits,
                 listFaults>>

(* The departments offered as a filter are to be asked for again. *)
MutationAnswered ==
  /\ mutation.step = "committed" /\ mutation' = NoMutation
  /\ mine' = mutation.change
  /\ departmentOptions' = [departmentOptions EXCEPT !.loaded = FALSE]
  /\ LoadList(mutation.asked, FALSE) /\ error' = FALSE
  /\ UNCHANGED <<list, address, effectDue, data, listed, loadedFor, visits, listFaults>>

(* A refused answer to a handoff lists the handoffs again; the management  *)
(* shows the error.                                                        *)
MutationRefused ==
  /\ mutation.step = "sent" /\ mutation' = NoMutation
  /\ IF list = "handoffs"
     THEN LoadList(mutation.asked, departmentOptions.loaded) /\ error' = FALSE
     ELSE error' = TRUE /\ UNCHANGED <<load, lateAnswer, loading, astray>>
  /\ UNCHANGED <<list, address, effectDue, data, listed, loadedFor, departmentOptions, mine,
                 visits, listFaults>>

ListNext ==
  \/ \E s \in Sections : VisitSection(s)
  \/ \E f \in ListFilters : VisitFilter(f)
  \/ \E p \in PageNumbers : VisitPage(p)
  \/ EffectRuns \/ LoadAgain \/ ListAnswered \/ ListFails
  \/ TicketsRead \/ HandoffsRead \/ ConversationsRead \/ ActivityRead \/ UsersRead \/ DepartmentsRead
  \/ SomeoneChanges \/ MutationSent \/ MutationCommits \/ MutationAnswered \/ MutationRefused

ListSpec == ListInit /\ [][ListNext]_listVars

-----------------------------------------------------------------------------
(* Properties *)

ListShown == listed[Slot(address.section)]

(* TicketsPage compares the query it loaded with the one it shows. *)
TicketsShown == list = "tickets" /\ ~loading /\ ~error /\ loadedFor = Asked

(* The tickets on the page always answer the query in its address, also    *)
(* between the render of a new address and its effect, when an answer to   *)
(* the address before arrives.  Every page that has nothing under way and  *)
(* no error shows the answer to its query, read after the user's own last  *)
(* change - unless that change was answered after the user had moved on,   *)
(* which loads the query he left.  The departments offered as a filter     *)
(* are never older than the user's own changes.                            *)
ListPageCurrent ==
  /\ TicketsShown => ListShown.asked = Asked
  /\ load = NoLoad /\ ~effectDue /\ mutation.step = "none" /\ ~error /\ ~astray
       => ListShown.asked = Asked /\ ListShown.read >= mine
  /\ departmentOptions.loaded => departmentOptions.read >= mine

=============================================================================
