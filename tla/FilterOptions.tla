----------------------------- MODULE FilterOptions -----------------------------
(***************************************************************************)
(* The departments and priorities that can be chosen: the administrators   *)
(* who change them, each in a transaction that locks nothing before its    *)
(* update; the gateway, which reads the options of a user again for every  *)
(* change and pushes them; and FilterOptionsProvider, which keeps them from*)
(* pushes and from a request that several loads can share.                 *)
(***************************************************************************)
EXTENDS FiniteSets, Sequences, Naturals

CONSTANTS
  Priorities, DepartmentRows,   \* identifiers
  FirstOptions,     \* those there at first
  Editors,          \* BOUND: administrators
  MaxEdits,         \* BOUND: changes; each is pushed, numbered as it is published
  MaxOptionFaults,  \* BOUND: failed requests and disconnections
  NoEdit

Items == Priorities \cup DepartmentRows

ASSUME OptionsAssumption ==
  /\ Priorities \cap DepartmentRows = {} /\ FirstOptions \subseteq Priorities \cup DepartmentRows
  /\ FirstOptions \cap Priorities # {} /\ MaxEdits \in Nat /\ MaxOptionFaults \in Nat
  /\ NoEdit \notin Items \cup (Items \X {1, 2})

Lists == {Priorities, DepartmentRows}

Pushes == 1 .. MaxEdits

VARIABLES
  item,       \* the rows
  edit,       \* what each administrator is doing
  edits,      \* changes committed
  published,  \* and events of them handled by the gateway
  reading,    \* the answers being read: pushes, and request 0
  channel,    \* pushes under way to the client
  link,       \* the socket of the client
  hasConnected,
  options,    \* what the client shows
  cache, revision,   \* filterOptionsCache and filterOptionsRevisions of the user
  pending,    \* the request: is there one, with which revision, for which loads
  together,   \* two administrators deactivated priorities at the same time (history)
  lapsed,     \* the client missed a change that no later load made up for (history)
  optionFaults

rowVars == <<item, edit, edits, together>>

clientVars == <<link, hasConnected, options, cache, revision, pending>>

optionsVars == <<rowVars, published, reading, channel, clientVars, lapsed, optionFaults>>

(* A name stands for everything an update changes. *)
Row == [there : BOOLEAN, active : BOOLEAN, name : {1, 2}]

Edit ==
  [step : {"idle", "found", "counted"}, item : Items \cup {NoEdit}, before : Row,
   active : BOOLEAN, renames : BOOLEAN]

Answered(a) == a.left = {}

(* Not a set of options. *)
NotCached == {NoEdit}

NoReading == [left |-> {}, got |-> NotCached]

(* An answer is read list by list, in parallel. *)
Reading == [left : SUBSET Lists, got : SUBSET (Items \X {1, 2})] \cup {NoReading}

OptionsTypeOK ==
  /\ item \in [Items -> Row] /\ edit \in [Editors -> Edit]
  /\ edits \in 0 .. MaxEdits /\ published \in 0 .. MaxEdits
  /\ reading \in [0 .. MaxEdits -> Reading]
  /\ channel \in Seq(SUBSET (Items \X {1, 2}))
  /\ link \in {"off", "joining", "on"} /\ hasConnected \in BOOLEAN
  /\ options \in SUBSET (Items \X {1, 2}) /\ revision \in 0 .. MaxEdits
  /\ cache = NotCached \/ cache \in SUBSET (Items \X {1, 2})
  /\ pending \in [there : BOOLEAN, revision : 0 .. MaxEdits, background : BOOLEAN]
  /\ together \in BOOLEAN /\ lapsed \in BOOLEAN /\ optionFaults \in 0 .. MaxOptionFaults

EmptyRow == [there |-> FALSE, active |-> FALSE, name |-> 1]

NoEditing == [step |-> "idle", item |-> NoEdit, before |-> EmptyRow, active |-> FALSE, renames |-> FALSE]

NoPending == [there |-> FALSE, revision |-> 0, background |-> FALSE]

(* The options are loaded as the provider is mounted. *)
OptionsInit ==
  /\ item = [i \in Items |-> IF i \in FirstOptions THEN [EmptyRow EXCEPT !.there = TRUE, !.active = TRUE]
                                                   ELSE EmptyRow]
  /\ edit = [a \in Editors |-> NoEditing] /\ edits = 0 /\ published = 0
  /\ reading = [[p \in 0 .. MaxEdits |-> NoReading] EXCEPT ![0] = [left |-> Lists, got |-> {}]]
  /\ channel = <<>> /\ link = "off" /\ hasConnected = FALSE
  /\ options = {} /\ cache = NotCached /\ revision = 0
  /\ pending = [NoPending EXCEPT !.there = TRUE]
  /\ together = FALSE /\ lapsed = FALSE /\ optionFaults = 0

Active(list) == {i \in list : item[i].active}

Offered(list) == {<<i, item[i].name>> : i \in Active(list)}

-----------------------------------------------------------------------------
(* AdministrationService *)

OnlyRows == UNCHANGED <<published, reading, channel, clientVars, lapsed, optionFaults>>

CommitEdit(a, i, row) ==
  /\ edits < MaxEdits /\ edits' = edits + 1
  /\ item' = [item EXCEPT ![i] = row]
  /\ edit' = [edit EXCEPT ![a] = NoEditing]
  /\ OnlyRows

(* createPriority, createDepartment *)
CreateItem(a, i) ==
  /\ edit[a].step = "idle" /\ ~item[i].there
  /\ CommitEdit(a, i, [there |-> TRUE, active |-> TRUE, name |-> 1])
  /\ UNCHANGED together

(* updatePriority and setPriorityActive, updateDepartment and              *)
(* setDepartmentActive read the row first.                                 *)
FindItem(a, i, renames, active) ==
  /\ edit[a].step = "idle" /\ item[i].there
  /\ ~renames => item[i].active # active
  /\ edit' = [edit EXCEPT ![a] = [step |-> "found", item |-> i, before |-> item[i],
                                  active |-> active, renames |-> renames]]
  /\ UNCHANGED <<item, edits, together>> /\ OnlyRows

(* countActive *)
MayDeactivate(i) == i \in Priorities => Cardinality(Active(Priorities)) > 1

CountActive(a) ==
  /\ edit[a].step = "found"
  /\ edit' = [edit EXCEPT ![a] =
       IF edit[a].renames \/ edit[a].active \/ MayDeactivate(edit[a].item)
       THEN [@ EXCEPT !.step = "counted"] ELSE NoEditing]
  /\ UNCHANGED <<item, edits, together>> /\ OnlyRows

Deactivates(a) == edit[a].step = "counted" /\ ~edit[a].renames /\ ~edit[a].active

(* The update changes its columns of the row as it is by now.              *)
UpdateItem(a) ==
  LET i == edit[a].item IN
  /\ edit[a].step = "counted"
  /\ CommitEdit(a, i, IF edit[a].renames THEN [item[i] EXCEPT !.name = 3 - edit[a].before.name]
                                      ELSE [item[i] EXCEPT !.active = edit[a].active])
  /\ together' = (together \/ (Deactivates(a) /\ \E b \in Editors \ {a} : Deactivates(b)))

-----------------------------------------------------------------------------
(* The gateway *)

OnlyGateway == UNCHANGED <<rowVars, clientVars, optionFaults>>

(* handleFilterOptionsChanged reads for a user who has a socket.  A client*)
(* that has been connected before loads again when it reconnects.          *)
Publish ==
  /\ published < edits /\ published' = published + 1
  /\ reading' = IF link = "on" THEN [reading EXCEPT ![published'] = [left |-> Lists, got |-> {}]]
                                 ELSE reading
  /\ lapsed' = (lapsed \/ link = "joining" \/ (link = "off" /\ ~hasConnected))
  /\ UNCHANGED <<channel>> /\ OnlyGateway

(* Also FilterOptionsService for a request. *)
ReadList(p, list) ==
  /\ list \in reading[p].left
  /\ reading' = [reading EXCEPT ![p].left = @ \ {list}, ![p].got = @ \cup Offered(list)]
  /\ UNCHANGED <<published, channel, lapsed>> /\ OnlyGateway

EmitOptions(p) ==
  /\ p # 0 /\ Answered(reading[p]) /\ reading[p] # NoReading
  /\ reading' = [reading EXCEPT ![p] = NoReading]
  /\ channel' = IF link = "on" THEN Append(channel, reading[p].got) ELSE channel
  /\ lapsed' = (lapsed \/ (link = "on" /\ \E q \in p + 1 .. published : reading[q] = NoReading))
  /\ UNCHANGED published /\ OnlyGateway

-----------------------------------------------------------------------------
(* FilterOptionsProvider *)

OnlyClient == UNCHANGED <<rowVars, published>>

(* load({ force }): a request that is pending is shared. *)
Load(background, forget) ==
  /\ pending' = IF pending.there THEN [pending EXCEPT !.background = @ /\ background]
                ELSE [there |-> TRUE, revision |-> revision, background |-> background]
  /\ reading' = IF pending.there THEN reading
                ELSE [reading EXCEPT ![0] = [left |-> Lists, got |-> {}]]
  /\ cache' = NotCached
  /\ lapsed' = IF pending.there THEN TRUE
               ELSE lapsed /\ (forget # <<>> \/ \E p \in Pushes : reading[p] # NoReading)

Reload ==
  /\ optionFaults < MaxOptionFaults /\ optionFaults' = optionFaults + 1
  /\ Load(FALSE, channel)
  /\ UNCHANGED <<channel, link, hasConnected, options, revision>> /\ OnlyClient

(* The first connection loads nothing, a later one does. *)
ConnectSocket ==
  /\ link = "off" /\ link' = "joining" /\ hasConnected' = TRUE
  /\ IF hasConnected THEN Load(TRUE, <<>>) ELSE UNCHANGED <<pending, reading, cache, lapsed>>
  /\ UNCHANGED <<channel, options, revision, optionFaults>> /\ OnlyClient

(* The server has looked the session up and tracks the socket. *)
TrackSocket ==
  /\ link = "joining" /\ link' = "on"
  /\ UNCHANGED <<channel, hasConnected, options, cache, revision, pending, reading, lapsed,
                 optionFaults>> /\ OnlyClient

DropSocket ==
  /\ link # "off" /\ link' = "off" /\ channel' = <<>>
  /\ optionFaults < MaxOptionFaults /\ optionFaults' = optionFaults + 1
  /\ UNCHANGED <<hasConnected, options, cache, revision, pending, reading, lapsed>>
  /\ OnlyClient

OptionsPushed ==
  /\ channel # <<>> /\ channel' = Tail(channel)
  /\ options' = Head(channel) /\ cache' = Head(channel) /\ revision' = revision + 1
  /\ UNCHANGED <<link, hasConnected, pending, reading, lapsed, optionFaults>> /\ OnlyClient

(* Mutation: an answer is used whatever was pushed since. *)
BugSuperseded == FALSE

(* The revision is undefined before the first push, and differs then too. *)
Superseded == revision = 0 \/ revision # pending.revision

OptionsArrive ==
  /\ pending.there /\ Answered(reading[0])
  /\ LET got == reading[0].got IN
     /\ options' = IF Superseded /\ cache # NotCached THEN cache ELSE got
     /\ cache' = IF Superseded THEN cache ELSE got
  /\ pending' = NoPending /\ reading' = [reading EXCEPT ![0] = NoReading]
  /\ UNCHANGED <<channel, link, hasConnected, revision, lapsed, optionFaults>> /\ OnlyClient

(* Only a load in the foreground shows that it failed. *)
OptionsRequestFails ==
  /\ pending.there /\ optionFaults < MaxOptionFaults /\ optionFaults' = optionFaults + 1
  /\ options' = IF pending.background THEN options ELSE {}
  /\ pending' = NoPending /\ reading' = [reading EXCEPT ![0] = NoReading]
  /\ lapsed' = TRUE
  /\ UNCHANGED <<channel, link, hasConnected, cache, revision>> /\ OnlyClient

OptionsNext ==
  \/ \E a \in Editors :
       \/ \E i \in Items :
            \/ CreateItem(a, i)
            \/ \E renames, active \in BOOLEAN : FindItem(a, i, renames, active)
       \/ CountActive(a) \/ UpdateItem(a)
  \/ Publish \/ Reload \/ ConnectSocket \/ TrackSocket \/ DropSocket
  \/ OptionsPushed \/ OptionsArrive \/ OptionsRequestFails
  \/ \E p \in 0 .. MaxEdits : EmitOptions(p) \/ \E list \in Lists : ReadList(p, list)

OptionsSpec == OptionsInit /\ [][OptionsNext]_optionsVars

-----------------------------------------------------------------------------
(* Properties *)

(* A connected client for which nothing is under way shows exactly the     *)
(* active departments and priorities, in whatever order pushes, answers and*)
(* reconnections came; unless it missed a change before its socket was   *)
(* tracked, a load failed or shared a request made before, or the gateway  *)
(* pushed what it read for an earlier change after it was done with a later*)
(* one.                                                                    *)
(* One priority stays active, unless two administrators deactivate         *)
(* priorities at the same time.                                            *)
OptionsAgree ==
  /\ (/\ link = "on" /\ published = edits /\ channel = <<>> /\ ~pending.there /\ ~lapsed
      /\ \A p \in Pushes : reading[p] = NoReading)
        => options = Offered(Items)
  /\ together \/ Active(Priorities) # {}

=============================================================================
