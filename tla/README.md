# Nexus Internal Operations Hub: a TLA+ model

Nexus is a help desk: employees submit tickets to departments, agents claim and
close them or hand them over, administrators manage users, departments and
priorities; people talk about a ticket in its chat, are notified of what happens
to it, and may ask an assistant. The backend is one NestJS application on
PostgreSQL (`src/backend/src`), the client a React application
(`src/frontend/nexus/src`). This directory holds models of both, the properties
that make them correct, TLC runs that check them on small instances, and TLAPS
proofs that establish the central ones for every instance.

## 1. Inventory of the system

| Part | State it keeps | Operations | What is hard |
|---|---|---|---|
| Ticket lifecycle (`tickets/`) | rows of `tickets`, `ticket_events` | submit, claim, close, reopen, modify, cancel | the policy is asserted on an unlocked read, the whole stale row is written later |
| Handoffs (`tickets/handoffs/`) | rows of `handoff_requests` | create, accept, reject, cancel | a ticket's row lock is all that keeps requests and ticket together; users and memberships are read without one |
| User administration, membership reconciliation (`users/`, `ticket-assignment-reconciliation.service.ts`) | `users`, `department_members` | pre-provision, change a role, (de)activate, add and remove a membership | one transaction with several sweeps over tickets, locked one by one in no common order; checks on unlocked rows; a deferred trigger |
| Administration (`administration/`, `priorities/`, `departments/`) | `departments`, `priorities` | create, rename, (de)activate | "no active ticket", "one active priority" are counts taken before the write |
| Queries (`ticket-query.service.ts`, `dashboard/`, list and permission code) | none | lists of five scopes, page, permissions, handoff lists, counts | the conditions of the policies are written again in SQL and in the mapper |
| Background workers (`background-workers/`) | timers, the set of running workers | reminders, orphaned files, audit-log retention | overlap with requests, with each other's instances, and with restarts |
| Chat (`chat/`, `TicketChatPanel`) | `chat_messages`, `chat_read_receipts`; messages shown, a queue of sends | send, send again, list, mark read, push | sending again after a lost answer; history, pushes, late answers and errors in any order |
| Unread badge (`NotificationProvider`) | ids of unread conversations, a timer | notice, delayed count, mark read | answers of counts and marks that overtake notices |
| Files (`files/`) | files on disk, `files`, `attachments` | store, attach, delete, clean up | disk and database change at different moments |
| Realtime gateway (`realtime/`) | sockets by user, rooms | connect, join, leave, publish, disconnect | awaits in the middle of connecting; rooms outlive access |
| Authentication, sessions (`authentication/`, `user-account.service.ts`) | sessions and pending OAuth states in memory, `user_identities` | log in, authenticate, refresh, log out, invalidate; find, link or create an account | deletion beside a refresh; log in beside deactivation; account steps without a transaction |
| Notifications (`notifications/`) | none | e-mail with retries, in-app notices | everything is read after the commit; lost answers of the mail server |
| AI assistant (`ai/`, `AssistantPage`) | conversations in memory | a loop of model calls and one tool, options, prefill | awaits between reading and storing a conversation; the model may answer anything |
| Filter options (`filters/`, `FilterOptionsProvider`) | cache and revision in the client | load, push, reload | a push reads again after the change it announces; requests are shared |
| Ticket page (`TicketDetailsPage` and four hooks) | ticket, timeline, files, opened event | load, reload on an event, own actions | four requests, announcements and own answers in any order |
| List pages (tickets, handoffs, chats, logs, management) | rows, query in the address | load for a query, change the query, change a row | an answer for a query that was left; handlers that keep an old render's loader |
| Users tool (`database/users-cli.ts`) | none | add a user, change role or departments | saves what it showed before a question, next to the application |
| Audit (`audit/`) | `audit_logs` | append, list | none: appended inside other transactions |
| HTTP shell, configuration, seeds (`common/`, `config/`, `health/`, `database/`) | none at run time | | none |

How they interact. An HTTP request is authenticated by a session, which only an
active user has; its handler reads rows through Prisma, asserts a policy class,
then runs one interactive PostgreSQL transaction at READ COMMITTED. The
services share nothing but the tables: there is no lock in the process.
`findByIdForUpdate` in `tickets.repository.ts` and `lockTicket` in
`handoffs.repository.ts` take a ticket's row lock with
`SELECT ... FOR UPDATE`; `findByIdForUpdate` in `users.repository.ts` takes
none, whatever its name says. After the commit a handler publishes events to
the gateway and notices to users; e-mail is sent after that and awaited by the
request. The gateway pushes to rooms; the client's socket provider hands each
event to the page that listens, and pages answer with requests of their own,
where `useLatestRequest` lets one hook use the answer of its last request only.
Workers change tables and files outside any handler; the users tool does so
outside the application.

What makes each part correct. *Lifecycle*: a ticket's status, agent and
timestamps agree, it moves only along submit - claim - close - reopen, its
history says what it contains. *Handoffs*: a pending request is about a ticket
its requester holds, is unique for the agent asked, and is resolved once.
*Reconciliation*: whoever loses the account, the role or a membership keeps no
ticket and no request; nobody else's ticket is touched; it ends.
*Administration*: one active administrator and one active priority stay, active
tickets are in active departments. *Queries*: what is shown can be opened, what
is offered is accepted. *Workers*: one reminder for each unclaimed lifecycle; no
file is removed that is referred to. *Chat*: one message for each text, in the
order typed, stored while the ticket is claimed, shown by every panel. *Sessions
and gateway*: a dead session stays dead and its sockets are closed. *Accounts*:
one identity, one account, for good. *Notifications*: everyone entitled is
written to, nobody else. *Assistant*: it reads only the tickets the user named
and prefills only what was asked for. *Client*: when nothing is under way, what
is shown is what the service has.

`PROJECT.json` lists every hazard at its line, with the properties that cover
it or the reason why none does.

## 2. Modules

| Module | Models |
|---|---|
| `TicketStore` | the tables as committed, and the ticket row locks |
| `TicketLifecycle` | `ticket-lifecycle.service.ts` with its repository and policies |
| `HandoffLifecycle` | `handoff-lifecycle.service.ts`, its repository and policy |
| `UserReconciliation` | `user-administration.service.ts`, `user-membership.service.ts`, ticket and handoff reconciliation, the trigger on Administration memberships |
| `DepartmentStatus` | `AdministrationService.setDepartmentActive` |
| `ReminderWorker` | `unclaimed-ticket-reminder.worker.ts` and its repository |
| `TicketSystem` | the composition of these, crashes, fairness, the properties |
| `TicketProtocol` | the abstract specification: what the services promise about each ticket |
| `TicketQueries` | what lists, ticket page, permissions, handoff lists and dashboard show of the tables of `TicketSystem` |
| `MCTicketSystem`, `MCTicketRaces`, `MCTicketQueries` | instances and workloads for TLC |
| `TicketSystemProofs`, `TicketSystemRefinement` | theorems and proofs |
| `AttachmentFiles` | `files.service.ts`, `local-file-storage.service.ts`, `file-attachments.repository.ts` as requests use them, and `orphaned-files.worker.ts` |
| `AttachmentFilesProofs` | theorems and proofs |
| `ChatMessages`, `MCChatMessages` | `chat.service.ts` and its repository, the chat room, `TicketChatPanel` of each person |
| `ChatProofs` | theorems and proofs about `ChatMessages` |
| `UnreadBadge` | read receipts, chat notices and the unread mark of `NotificationProvider` |
| `Sessions` | session store, OAuth states, callback, invalidation |
| `OperationsGateway` | `operations.gateway.ts` and every authenticated request, on top of `Sessions` |
| `OperationsGatewayProofs` | theorems and proofs, of `Sessions` too |
| `UserAccounts` | `microsoft-auth.strategy.ts`, `resolveUser`, `user-account.service.ts`, pre-provisioning |
| `MembershipTool` | `users-cli.ts` beside the application, with the deferred triggers |
| `AccountsProofs` | theorems and proofs about `UserAccounts` and `MembershipTool` |
| `Notifications` | `email-notifications.service.ts` and the in-app recipients |
| `AssistantConversation` | `ai.service.ts`, `agent.service.ts`, tools, `AssistantPage` |
| `ProviderProofs` | theorems and proofs about `AssistantConversation` and `Notifications` |
| `FilterOptions` | departments and priorities, their publication, `FilterOptionsProvider` |
| `TicketPage` | the four hooks of a ticket's page and its room |
| `ListPages` | five pages that list what a query finds |
| `ClientProofs` | theorems and proofs about `UnreadBadge`, `FilterOptions`, `ListPages` and `TicketPage` |
| `MCServices` | these ten specifications in one TLC run |

The ticket modules are composed in `TicketSystem`; `TicketQueries` reads its
state. `OperationsGateway` is composed with `Sessions`. The others stand beside
them: what one has of another is an environment that does whatever the other
could do. `ChatMessages` keeps whether the ticket is claimed and lets it change
whenever no request holds its row; `AttachmentFiles` meets a refused transaction
as `RollBack`; `FilterOptions` lets the gateway read at any moment after a
commit; `TicketPage` lets others append any event. So each property holds in
the composition, where fewer things can happen.

### State and steps

A *slot* is one request being served; a request is at one of a few points of its
handler, kept in `req` (lifecycle), `hreq` (handoff), `adm` (administration) or
`dreq` (department). The tables are the variables of `TicketStore`. Where a
handler awaits, the model has a step boundary, unless nothing that others can
change is read before it and used after it:

* a **lifecycle** handler is two steps. `Start...` is the unlocked read, the
  policy and the mutation of the copy; `CommitSave`, `CommitClaim`,
  `CommitSubmit` are the transaction, `Conflict` is its refusal. Between the
  two anything may happen, and `CommitSave` writes the whole copy, as
  `TicketsRepository.save` does. The reads inside `Start...` (departments of
  the actor, ticket, active department) are one step: each is a separate
  unlocked read and the transaction re-checks none but the ticket, so that the
  second step already meets every state that a change between the reads leads to.
* a **handoff** handler is two steps: `Begin...` takes the row lock, reads and
  asserts; `Commit...` writes and releases. The existence check before the
  transaction reads immutable columns only.
* an **administration** handler is `Begin...` (reads and checks on the user),
  `UpdateUser` (the row lock on the user from there on), then for each sweep
  `StartSweep` (its SELECT) and `LockNext` for each ticket (lock, look again,
  decide), with `ReadMemberships`, `ReadAdministration` and `SweepDepartment`
  for the loops over memberships, and `CommitAdmin`, which makes all writes
  visible. What a transaction has written and not committed is in `adm[s].act`,
  because its own later SELECTs see it.
* `AbortHandoff`, `AbortAdmin` and `Crash` end transactions anywhere, with no
  effect but the release of the locks.

In `AttachmentFiles` the disk, the table and the clock are the state:

* a **request** stores its files one by one (`StoreFile`), runs its transaction
  (`Commit`, `RollBack`, or `CommitUnknown` when the answer is lost), and then
  deletes files: those of attachments it removed after a success
  (`Commit`), those it stored after a failure (`Compensation`);
* a pass of the **worker** computes its cutoff (`StartPass`), runs its two reads
  in either order (`FindDatabaseFiles`, `ListFiles`), looks at each old row's
  file (`CheckRow`), then deletes the files it takes for orphans
  (`DeleteOrphan`). Requests go on between any two of these;
* `Crash`, `StoreFails`, `CommitUnknown`, `DeleteFails` and `PassFails` are the
  faults.

`TicketQueries` has no steps: each query is one SELECT, hence an operator on the
tables of `TicketSystem`; the policies it is compared with are those that
`TicketLifecycle` and `HandoffLifecycle` use in their guards.

In the service and client modules a step is likewise what runs between two
awaits, on either side of the network:

* `ChatMessages`. A *text* is what a person types once; a request (`posts`)
  stores it in two steps, `BeginCreate` (lock, policy, look for the client
  identifier) and `CommitCreate` (commit, push to the room). `task` and `tail`
  are the panel's chain of promises, `panel` what it shows and the one page of
  history it waits for, `socket` the room and what is under way to it.
* `UnreadBadge`. One conversation and one reader: `clock` and `receipt` are the
  times that decide whether it is unread, `notices` and `arriving` what is pushed,
  `timer` and `counts` the delayed refresh, `marks` the requests that write the
  receipt.
* `Sessions`, `OperationsGateway`. The store's map changes within one handler
  run; `auth` holds each `authenticateSession` between its two awaits (session
  found, user read), after which it refreshes and goes on as its purpose says:
  request, log-out, connection, join, options. `tracked` is both presence maps.
* `UserAccounts`. A sign-in goes through four requests to Microsoft with their
  retries and then through the statements of `resolveUser`, each a step.
* `MembershipTool`. The application changes a user in one step, because it holds
  the user's row; the tool shows, asks, and then runs its transaction statement by
  statement; `TriggersHold` is the deferred triggers at either commit.
* `Notifications`. Each change (`mail`) is told in the application (`Notify`),
  then what the e-mail needs is read (`ReadRecord`), then recipients are written to
  one by one, each with bounded attempts.
* `AssistantConversation`. A request finds or makes a Map, a conversation and an
  identifier; options are read and stored (`ReadOptions`, `OptionsLoaded`), the
  model may be asked again for every tool call, and `EndRespond` stores the
  exchange.
* `FilterOptions`. Rows are read, counted and updated in steps; for each change
  the gateway reads two lists in any order and pushes them; the provider keeps
  cache, revision and one request that loads share.
* `TicketPage`. `latest` is the request whose answer each of the four hooks will
  use, `overtaken` one that was replaced while its answer was under way. An answer
  is told by the number of events there were when the service read.
* `ListPages`. `address` is the query in the URL, `effectDue` the time between
  the render and the effect that loads it; `listed` says which query, and which
  version of the data, the rows shown answer.

### Abstractions

* Title, description, priority and completion notes are one value of `Contents`.
  Ticket codes, attachments, wording of events and notices are left out.
* The time columns keep what decisions read: `unclaimedSince` is the number of
  the unclaimed lifecycle (two moments are equal exactly if they are of the same
  one), `reminded` says whether `last_reminder_at` is set. Whether a reminder is
  due is left open.
* The history keeps how often a ticket was opened and the content last recorded.
* Identifiers of new tickets and handoffs are chosen at the first step and
  reserved (they are random UUIDs in the code).
* The set of users is fixed; roles, accounts and memberships change.
* Locks are granted in any order, which includes PostgreSQL's queue.
* In a sweep, tickets are locked in any order. The code sorts the handoff
  sweeps' tickets and takes the claim sweeps' as the SELECT returns them, so
  the model allows more.
* A file's row and its attachment are written and deleted together, and are one
  row. Its age counts from the commit (`created_at` is the start of the
  transaction, at most 5 s earlier). Ages stop at `Grace + 1`, beyond which
  nothing distinguishes them. Keys are random, so each is given out once; a
  missing file therefore never comes back, and the worker's look at the disk and
  the deletion of the row are one step.
* In `TicketSystem`, session expiry and the authentication of a request are the
  guard that the actor is active when the request starts.
* A message, a session, a priority, an e-mail address are values without content.
  Time is order, or a step by which something expires.
* What the language model, Microsoft and the mail server answer is chosen freely
  among the answers that the code tells apart. What `GroqProvider` retries is one
  answer or one failure.
* History variables record who acted, and what a property excepts: `madeBy`,
  `revoked`, `seen`, `grounds`, `ever`, `always`, `mine` relate a state to an
  earlier one; `excused`, `missed`, `early`, `late`, `left`, `contested`,
  `overtaken` (of a run of the tool), `together`, `lapsed`, `unheard`, `astray`
  mark the case in which the code does not keep the promise. Each exception is
  described with its property below and nothing else reads these variables.

## 3. Properties and runs

| Run | Instance | What it shows |
|---|---|---|
| `ticket_races` | 3 users, 1 ticket, 2 handoffs, 2 slots, 2 lifecycles; two workloads: every lifecycle and handoff request with the reminder worker, or those without rejection, with deactivations and membership removals, for one handoff | `TypeOK`, `TicketsConsistent`, `PendingHandoffsLive`, `NoDuplicatePending`, `ResolvedOnce`, `FollowsProtocol`, `OnlyOwnTicketsSwept` |
| `serial` | 2 users, 1 slot, 2 departments, 2 contents, 14 kinds of request | `AgentsEligible`, `PartiesEligible`, `SomeActiveAdmin`, `EmployeesHaveNoDepartment`, `ActiveTicketsInActiveDepartments`, `HistoryReproducesContent`, `ListedAreViewable`, `ViewsAgree` |
| `reminders` | 2 users, 2 workers, 1 slot, 3 lifecycles | `OneReminderPerLifecycle` |
| `liveness` | 2 users, 2 tickets, 2 slots | `RequestsEnd` |
| `attached_files` | 2 keys, 2 requests, 1 fault, grace of 2 ticks | `CompensationComplete`, `SuccessHasFiles`, `CleanedUp` |
| `services` | ten specifications in eighteen scenarios, see below | twenty properties, see below |
| `violated_...` (6) | small | see section 4 |

### Tickets and files

* `TicketsConsistent`: a ticket has an agent exactly while it is active and
  CLAIMED, an `unclaimed_since` exactly while it is active and OPEN or REOPENED,
  and a recorded reminder only then. Every save writes columns read before the
  lock, so this is about the re-checks of `saveWithEvent` and `claimIfAvailable`
  and about `markReminderSent`.
* `PendingHandoffsLive`, `NoDuplicatePending`, `ResolvedOnce`: the handoff rows
  beside every way a ticket leaves its agent.
* `FollowsProtocol`: the tables, seen through `phase`, `holder` and `offers`,
  implement `TicketProtocol`: the holder changes only by accepting an offer, a
  cancelled ticket stays cancelled, a ticket that leaves its holder leaves no
  offer. A step may move several tickets, each along its own protocol, because
  one deactivation does.
* `OnlyOwnTicketsSwept`: a reconciliation changes a ticket only if its user is
  agent or submitter at the commit.
* The first six properties of `serial` are what the documents require and what the
  code ensures while requests do not overlap; with overlapping requests they
  fail (section 4). The run covers long sequences of requests, where a forgotten
  sweep shows: deactivate after a handoff, remove a membership, demote and
  promote again. Rejection and withdrawal, which change an offer only, and the
  worker, are left to `ticket_races`.
* `OneReminderPerLifecycle`: two instances of the worker, which select the same
  candidates and die at any point, deliver at most one reminder for each lifecycle
  of a ticket.
* `RequestsEnd`: every request ends.
* `SuccessHasFiles`: at its commit every file a request stored is still there,
  whatever the worker and the other requests do meanwhile.
* `CompensationComplete`: without faults, a file without a row belongs to a
  request that will attach or delete it; the worker has nothing to do.
* `CleanedUp`: after faults, a file without a row, or a row without its file,
  goes away, unless a request takes it up.
* `ListedAreViewable`: whoever is shown a ticket by a list without a search can
  open it. For the claimed tickets no clause says so; it rests on every change of
  role and membership taking tickets away.
* `ViewsAgree`: the actions a response offers are exactly those that the handlers
  accept, the numbers of the dashboard are the lengths of the lists behind them,
  and both parties of a claimed ticket can write in its chat.

### Services and client

`services` runs the ten specifications that share no state. `part` chooses one
of them and a scenario, which TLC can exhaust; `MCServices.cfg` gives the
bounds. Each scenario is a restriction of the steps written in `MCServices`
(nothing is added to a specification), and the scenarios of a specification
together take each of its actions.

| Scenarios | Specification | Properties |
|---|---|---|
| `writer`: two texts of one author, two attempts, one fault or a ticket that is released; `reader`: one text, both panels | `ChatMessages` | `MessageOnce`, `OrderKept`, `SendsAdvance`, `SentWhileClaimed`, `StoredStaysStored`, `SyncedPanelShowsNewest` |
| `badge`: two counts at a time, no fault; `badge, a fault`: one count, window in focus | `UnreadBadge` | `BadgeAgrees` |
| `logins`: two logins, two sessions, a socket; `sockets`: a session, two sockets | `OperationsGateway` with `Sessions` | `NoRevival`, `SessionsJustified`, `InvalidatedSocketsClose`, `PresenceFollowsSockets` |
| `tickets named`: two requests; `prefill`: three requests of two tabs | `AssistantConversation` | `OneTicketInspected`, `PrefillJustified`, `ConversationKept` |
| `notifications`: two changes, two faults | `Notifications` | `MailAccounted` |
| `accounts`: two sign-ins, or one with two failures | `UserAccounts` | `AccountKept` |
| `tool`: two runs, or a run and two changes by the application | `MembershipTool` | `MembershipsAgree` |
| `rows`: two administrators; `options`: one, and the browser; two changes, or one and a failure | `FilterOptions` | `OptionsAgree` |
| `ticket`, `timeline`, `files`, `event`: one hook's requests answered at a time | `TicketPage` | `TicketPageCurrent` |
| `lists`: five pages, two sections, filters and page numbers; two visits, or one and a change of the data | `ListPages` | `ListPageCurrent` |

* `MessageOnce`: a text sent again after a lost answer is stored once.
  `OrderKept`: texts of a person are stored as typed, except one whose request
  failed or whose panel was closed. `SentWhileClaimed`: no message is stored
  after the ticket left CLAIMED. `SendsAdvance`: a text shown as being sent is
  under way, or waits for one that is. `StoredStaysStored`: no late answer or
  error turns a stored message back. `SyncedPanelShowsNewest`: a panel that read the
  newest page while in the room, and stayed there, shows the newest messages.
* `BadgeAgrees`: when nothing is under way, the unread mark is what receipt and
  messages say. Excepted (`missed`): a notice or request was lost and no count
  followed, or a notice was swallowed by a conversation that was still loading and
  then left.
* `NoRevival`: an expired or deleted session is never live again.
  `SessionsJustified`: a login's callback, however often repeated, makes one
  session; a deactivated user has none once the event is handled, except by a
  callback that had already seen the user active (`early`).
  `InvalidatedSocketsClose`: its sockets are closed, except one that was still
  being authenticated (`late`). `PresenceFollowsSockets`: the presence map is the
  set of open sockets, except one that went away while it was being
  authenticated (`left`).
* `OneTicketInspected`: a request looks up one ticket at most, and one that the
  user named, whatever the model asks for. `PrefillJustified`: a form is
  prefilled only after the user asked or was offered, and in a turn that asks or
  confirms only for a department active while it ran. `ConversationKept`: the
  conversations used last are remembered, except for two first requests at the
  same time.
* `MailAccounted`: a failure takes away nobody else's e-mail, nobody gets two
  unless an answer was lost, and only those entitled are told.
* `AccountKept`: an account, once logged in to, never changes its identity, and
  an identity has one account; except for two users with the same address who
  both found an account waiting for its first login (`contested`).
* `MembershipsAgree`: administrators and nobody else are in Administration; an
  employee gets into a department only by a save of the tool that was overtaken.
* `OptionsAgree`: a connected client for which nothing is under way offers the
  active rows, and one priority stays active; excepted are `lapsed` (see
  section 4) and two deactivations at the same time.
* `TicketPageCurrent`: when nothing is under way the page shows the ticket as its
  last event left it, each event of the loaded pages once, the newest files and
  the event selected; excepted is a hook that missed an announcement, whose load
  failed or was given up (`unheard`).
* `ListPageCurrent`: a page shows rows of the query in its address, never older
  than the user's own last change; excepted (`astray`) is a change answered after
  the user moved on.

The type invariants of these modules (`ChatTypeOK`, ...) are defined beside
their variables; the run does not list them.

### Bounds

One ticket is enough for the races on a ticket, because requests meet
at one row; two are needed for deadlock between sweeps (`liveness`) only. Two
slots are enough for every pair of requests; a third party of a race is the
worker, or a request that starts when another has ended. Two handoffs give a
duplicate, and a second offer superseded by an acceptance. Two lifecycles (three
for reminders) give a stale copy of an earlier lifecycle. `MaxLifecycles` stops
reopening, `Workload` and `part` choose the kinds of request, `MaxSent` counts a
third reminder as the second; these are the only bounds. Slots, contents and
handoff identifiers are symmetric in the runs without temporal formulas other
than `[][...]`.

For files, two keys and two requests give a request that removes what another
attached while it stores its own. `Grace` is an hour and `MaxUpload`, the ticks
between a request's first file and its commit, is less than that: the
transaction times out after 5 s and writing the buffered uploads precedes it.
`MaxUpload < Grace` is an assumption of the module, and the only thing about
time the properties need. `MaxFaults` bounds crashes and failures; with 0
`AttachedFilesStay` is already refuted.

In `services` nearly every race is between two: two texts and two attempts of each
give a retry beside a later text; a page of one message makes two messages two
pages; two sessions tell "this session" from "all sessions", two sockets one
that is closed from one that stays. Three requests to the assistant fill and overflow one
remembered turn and conversation. Four events with one to a page give an
announcement between the pages of a list being extended. Two attempts are the
last one and one that is not. Conversations, turns, attempts and tool calls are
limited in the code by larger numbers (`MAX_TURNS`, `EMAIL_MAX_ATTEMPTS`, ...),
which are constants here. Sessions, logins and sockets are used in order
(`InOrder`), the first identity has the first address and the first ticket asked
about is `n1`, because they do not differ.

`VIEW movingVars` keeps the variables of the specification that moves: in every
behaviour the others stay at their initial values, and `ServicesInit` leaves a
specification that does not move one initial state only. Two states with the same
view are therefore the same state.

### Deadlock

Deadlock is checked, except where the system rightly stops: in `liveness` and in
the reconciliation workload of `ticket_races` (a step of its own, `NobodyLeft`)
everybody can end up deactivated or out of every department; the workload of
`violated_agents_eligible` ends with the ticket claimed; `violated_messages_arrive`
ends with the message stored; and the histories of `services` end when what is
numbered (texts, events, changes, sign-ins) has been used up.

### Fairness

`FairSpec` assumes strong fairness of each slot's `Progress`: a
request that can go on again and again does. Strong, because a request waiting
for a row lock is disabled while others hold it, and PostgreSQL serves waiters
of a row lock in turn. `Progress` contains PostgreSQL's rollback of deadlocked
transactions and of those whose last statements must fail, and no timeout, no
crash and no arrival of requests. Weak fairness would not be justified by less:
sweeps that overtake one another on a lock could starve one.

The `Spec` of `AttachmentFiles` has weak fairness of the clock, of the worker's
steps (`BackgroundWorkersService` starts a pass at every interval once the
previous one has ended) and of each request that has begun.

`ChatFairSpec` has weak fairness of what the service, the network and the panel
have begun: storing, answering, connecting, joining, pushing, loading. Nobody has
to type, retry, open or close anything. `violated_messages_arrive` needs it:
without it the push might just never be delivered.

## 4. What the model says about the code that the documents do not

Six disagreements are `violation` runs, listed with quotes under `findings`:

* `violated_agents_eligible`: the conditional UPDATE of a claim does not look at
  the department, so a claim meets a modification that moved the ticket.
* `violated_some_active_admin`: two administrators demoted or deactivated at the
  same time each count the other.
* `violated_history_reproduces_content`: a save of a stale copy overwrites a
  modification whose event stays in the history.
* `violated_attached_files_stay`: the orphaned-file worker compares the age of a
  file and the age of its row with one cutoff. A file stored just before the
  cutoff, whose row was created just after it, is listed but not known, and is
  deleted; a later pass then deletes the row.
* `violated_messages_arrive`: a chat panel reads the history before its join has
  been carried out; a message stored and pushed in between is shown by neither,
  and the panel loads again after a reconnection only.
* `violated_searched_are_viewable`: in the list of all tickets the OR of a search
  replaces the OR that restricts the list to what the user may view.

The same instances refute the other properties of `serial` when `Slots` is
`{s1, s2}`: a claim that commits between a deactivation's sweep and its commit
(`AgentsEligible`), a handoff request beside the removal of a membership
(`PartiesEligible`), a membership added beside a demotion
(`EmployeesHaveNoDepartment`), a submission beside the deactivation of its
department (`ActiveTicketsInActiveDepartments`); and modification beside the
worker refutes `OneReminderPerLifecycle`, because the stale save also writes
back an empty `last_reminder_at`. That is why `reminders`
leaves modification out. Two sentences of `data-model.md` (267, 268) do not hold
after a deactivation, by design of the code: it deactivates CLAIMED and REOPENED
tickets, and leaves CLAIMED in their status column with no agent.

What the exceptions of the other properties stand for, met while modelling:

* *Gateway*: a disconnection during `handleConnection`'s await leaves the socket
  in the presence maps. An expiring session closes no socket until its next
  packet. A callback that read the user before a deactivation creates its session
  after the others were removed.
* *Chat*: a new status of the ticket makes the panel subscribe again without
  loading again; "load older" gives up a reload under way. `markRead` writes its
  time without comparing, so a late one moves the receipt back.
* *Sign-in*: a token request whose answer was lost is repeated with a code that
  Microsoft has redeemed, and fails. Of two identities with one address the later
  takes a pending account.
* *Users tool*: it saves departments chosen for the role it showed, and does not
  reconcile tickets nor spare the last administrator.
* *Notifications*: a read that fails after the commit answers the request with an
  error and begins no e-mail; a lost SMTP answer makes a second e-mail; e-mails of
  a claim or a close describe the ticket as it is when they are written.
* *Assistant*: each of two first requests makes a Map, the later replaces the
  other's conversation; an ordinary turn accepts options from an earlier one; an
  answer for a page that was left still sets the conversation of the tab.
* *Options*: two deactivations at the same time can leave no active priority; the
  gateway can push an older list after a newer; a reload shares a request made
  before the change; a change before the socket is tracked is missed.
* *Ticket page*: loading older events gives up a silent reload, whose news stay
  unseen until the next event; a late answer of an own action replaces a newer
  ticket; the announced end of a ticket neither stops a reload nor starts one; an
  event between the first load and the join is missed.
* *Lists*: a change answered after the user moved on loads the query he left.

## 5. Proofs

### Assumptions

Each module names what its constants must satisfy, and TLC evaluates it in every
run of that module: null values are no values of their sets
(`StoreAssumption`, `SessionsAssumption`, `OperationsAssumption`,
`AccountsAssumption`, `MembershipAssumption`, `BadgeAssumption`,
`NoLoadAssumption`, `NoPageLoadAssumption`, `FilterAssumption`); bounds are
naturals, and those the code has a value for are not zero (`FilesAssumption`
with `MaxUpload < Grace`, `ChatAssumption`, `AssistantAssumption`,
`NotificationsAssumption`, `OptionsAssumption`, `ListPagesAssumption`,
`TicketPageAssumption`); the initial tables have their types, and a priority is
active to begin with. Nothing else is assumed, so the theorems hold for any
number of users, departments, tickets, requests, workers, sockets, messages and
faults, unless a theorem names a hypothesis of its own:

* `OneReminder` assumes that no modification arrives: one that read the row
  before a reminder writes the old `last_reminder_at` back (section 4);
* the last eight theorems of `TicketSystemProofs` assume `OneAtATime` (at most
  one slot, beside the worker and crashes) and `InitiallyRight` (an active
  administrator, no employee with a department), as in the run `serial`. Two
  overlapping requests do break `AgentsEligible`, `SomeActiveAdmin` and
  `HistoryReproducesContent`, as the runs named after them show.

### Theorems

| Theorem | Module | States |
|---|---|---|
| `Invariance`, `TypeCorrect` | `TicketSystemProofs` | `IndInv`, `TypeOK` always |
| `ConsistentTickets` | | `TicketsConsistent` |
| `LiveHandoffs` | | `PendingHandoffsLive` |
| `SinglePending` | | `NoDuplicatePending` |
| `OneReminder` | | `OneReminderPerLifecycle`, without modifications |
| `EligibleAgents`, `EligibleParties` | | `AgentsEligible`, `PartiesEligible`, one request at a time |
| `AdministratorRemains`, `EmployeesOutside` | | `SomeActiveAdmin`, `EmployeesHaveNoDepartment`, likewise |
| `DepartmentsOfTickets`, `FaithfulHistory` | | `ActiveTicketsInActiveDepartments`, `HistoryReproducesContent`, likewise |
| `ListsStayViewable`, `ViewsStayTrue` | | `ListedAreViewable`, `ViewsAgree`, likewise |
| `ResolvedForGood` | `TicketSystemRefinement` | `ResolvedOnce` |
| `SweepsOwnTickets` | | `OnlyOwnTicketsSwept` |
| `Refinement` | | `FollowsProtocol`: `TicketSystem` implements `TicketProtocol` |
| `FilesTypeCorrect` | `AttachmentFilesProofs` | `TypeOK` of `AttachmentFiles` |
| `CompensationForgetsNothing` | | `CompensationComplete` |
| `CommittedFilesExist` | | `SuccessHasFiles` |
| `OperationsInvariant`, `OperationsTypeCorrect` | `OperationsGatewayProofs` | `OperationsInv` and its types |
| `SessionsAreJustified` | | `SessionsJustified` |
| `InvalidatedSocketsAreClosed` | | `InvalidatedSocketsClose` |
| `PresenceIsRight` | | `PresenceFollowsSockets` |
| `SessionsStayDead` | | `NoRevival` |
| `ChatInvariant`, `ChatTypeCorrect` | `ChatProofs` | `ChatInv` and its types |
| `MessagesStoredOnce`, `MessagesInOrder` | | `MessageOnce`, `OrderKept` |
| `NothingSentForEver` | | `SendsAdvance` |
| `SyncedPanelsAreCurrent` | | `SyncedPanelShowsNewest` |
| `SentOnlyWhileClaimed`, `StoredMessagesStay` | | `SentWhileClaimed`, `StoredStaysStored` |
| `AccountsInvariant`, `AccountsTypeCorrect` | `AccountsProofs` | `AccountsInv` and its types |
| `AccountsAreKept` | | `AccountKept` |
| `ToolInvariant`, `ToolTypeCorrect` | | `ToolInv` and its types |
| `MembershipsDoAgree` | | `MembershipsAgree` |
| `AssistantInvariant`, `AssistantTypeCorrect` | `ProviderProofs` | `AssistantInv` and its types |
| `OneTicketIsInspected`, `ConversationsAreKept` | | `OneTicketInspected`, `ConversationKept` |
| `PrefillsAreJustified` | | `PrefillJustified` |
| `NotificationsInvariant`, `NotificationsTypeCorrect` | | `NotificationsInv` and its types |
| `MailIsAccountedFor` | | `MailAccounted` |
| `BadgeInvariant`, `BadgeTypeCorrect`, `BadgeDoesAgree` | `ClientProofs` | `BadgeInv`, its types, `BadgeAgrees` |
| `OptionsInvariant`, `OptionsTypeCorrect`, `OptionsDoAgree` | | `OptionsInv`, its types, `OptionsAgree` |
| `ListInvariant`, `ListTypeCorrect`, `ListPagesAreCurrent` | | `ListInv`, its types, `ListPageCurrent` |
| `PageInvariant`, `PageTypeCorrect`, `TicketPageIsCurrent` | | `PageInv`, its types, `TicketPageCurrent` |

Every safety property that a passing run checks is stated by a theorem. In each
module every action is a lemma or a step, and under it each conjunct that the
action disturbs.

### The inductive invariants

No property is inductive as it stands, because a step commits, answers or shows
what an earlier step prepared. TLC checked each invariant on a run before its
proof was begun.

*Tickets.* `IndInv` adds what requests in progress hold:

* `RowsKnown`: a handoff refers to a ticket that exists, and a ticket exists
  exactly when its history does;
* `RequestsKnown`: what a lifecycle request will write (`WritesFor`): a copy with
  the status, agent and timestamps its operation gives it, whatever happened to
  the row since; a submission's identifier is still free;
* `HandoffsLocked`: a running handoff transaction holds its ticket's lock, and
  what it asserted of ticket and request still holds, because every other
  writer of either needs that lock;
* `AdminLocked`: a transaction holds the lock of every ticket it has decided
  about, and its decision is still right for the row.

The refinement maps every action to a move of each ticket, and takes the guards
of the moves from the invariant: a close finds the ticket held, an acceptance
finds the offer, a sweep finds the ticket unclaimed or held.

*Reminders.* `RemindersInv` counts lifecycles (`LifecyclesCounted`): nothing was
sent for one that has not begun, nor for the present one while the row does not
record it; and says that the copies under way carry no old timestamp
(`NoStaleLifecycle`), which is where a modification is excluded.

*One request at a time.* `SerialInv` says what a handler read is still so when it
writes. The weight is in `AdminRight`: until a reconciliation commits, each claim
and each offer that its user gives up (`GivesUp`: by the role, the account or the
membership that is lost) is decided about or lies ahead of it (`ClaimsSwept`,
`OffersSwept`) in the sweep that runs, in the plan, in the memberships that were
read, or behind a read that is still planned (`SweepAhead`). At the commit
nothing lies ahead, so all that is left of the user's tickets and offers is in
departments where it stays eligible (`EligibleAfter`). The queries follow from
`IndInv` and `SerialInv` in each state: an agent is eligible and an active
ticket's department is active, hence lists, permissions and policies agree.

*Files.* `FilesInv`: `UploadsFresh`, the files of
a request that is storing are no older than the request, hence younger than the
grace period; `UploadsPrivate`, no other request and no pass of the worker is
about to touch them; `StrayFilesClaimed`, a file without a row is in the list of
a request that attaches or deletes it.

*Sessions and sockets.* `OperationsInv`: a login is used up before anything bears
its name (`LoginsUsedOnce`), who can still make a session of an inactive user is
remembered as early (`ResolvedEarly`), and every socket, its session and its one
authentication match (`SocketsHaveSessions`, `ConnectionsMatch`, `AuthsNamed`).
That no operator on the store gives life to a session is a lemma,
`StoreOperators`, and the reason for `NoRevival`.

*Chat.* `ChatInv`: `ServerInv`, what a transaction found under the lock is still
so when it commits; `TaskInv`, a text is posted as long as one request for it is
awaited, and waits only for one that has not ended; `ShownInv`, what each panel
may show of each text; `PanelsInStep`, what is stored was shown or is under way
to a socket in the room; `OrderInv`, a rank by which every text stands behind
the unfinished ones before it in its chain.

*Accounts and the tool.* `AccountsInv`: the row a sign-in found or made is its
own (`RowsTaken`, `LinkedToSelf`) or still waits for a first login
(`LinkIsOpen`), and two who are about to be linked to one row contest it
(`LinksContest`). `ToolInv`: the triggers hold in every committed state, and what
a run has read under the row lock agrees with the rows unless it was overtaken.

*Assistant and e-mail.* `AssistantInv`: a conversation is of one Map and one
identifier (`ConversationsAtHome`), a turn was said in it (`TurnsSaid`), options
belong to the request that loaded them (`OptionsFresh`), an entry is the last use
of its identifier (`EntriesLatest`), and what is gone had to make room for as
many others as are kept (`ForgottenForOthers`). `NotificationsInv`: for each
change `JobRight`, by phase: who was entitled all along is in the department
until the record is read, then is left to be written to once, then was written
to or tried to the last.

*Client.* `BadgeInv`: what is decided agrees with the inbox, or a count, a notice
or a visit that corrects it is to come. `OptionsInv`: a reading of the newest
change is fresh, and a connected client will end with what is offered
(`ClientSettles`). `ListInv`: a load and its rows answer the query in the
address, as of the last own change (`LoadRightly`, `DoneRightly`). `PageInv`:
the announcements that wait are those of the last events in order
(`AnnouncedInOrder`), nothing is known before it happens (`NeverAhead`), and
each hook shows or asks for what is known (`TicketKnown`, `FilesKnown`,
`TimelineKnown`), unless an announcement waits that has everything loaded again.

### What the proofs changed

Proving found places where a model was imprecise, although no run could tell:
what makes a conversation count as forgotten (`Forgotten` in
`AssistantConversation`) has to look at the conversations used after it in the
same Map; `FilterOptions` has to tell a reading that ended from one that never
began (`NoReading`); the answer to an own action may not lower what `TicketPage`
has the details hook answer for (`Later`); and in `TicketQueries` the sets of
filters and of counts need parentheses that say which union is meant.
`FilterAssumption` was found the same way: the value that stands for "any" is
none of the statuses.

### Only model-checked

`RequestsEnd` and `CleanedUp`: liveness under fairness is out of the prover's
reach. The six properties of the `violated_...` runs are refuted, not proved.

## 6. Not modelled, and the plan

Not modelled, because no state that another part reads depends on it:

* the audit-log retention worker (one DELETE of old rows) and the appending of
  audit entries, which are written within modelled transactions and read by the
  logs page only;
* the HTTP shell: configuration, decorators, validation, health, logging;
* seeds, bulk seed and the setup script, which run before the application does;
  the migrations but for the triggers and unique indexes that the modules name;
* e-mail templates and the HTTP client of the model's provider;
* in the client: routing, layout, forms, dialogs, the dashboard page, and the
  presentation of the timeline, which render what one request answered.

Left out of a modelled part: the list of tickets an agent has resolved and the
inbox of the chat (they read authors of events, which the history in
`TicketStore` does not keep; the inbox lists tickets of past agents, although
opening the conversation asks `ViewTicketPolicy`); ticket numbering; validation
of uploads and paths.

Hazards without a property in `PROJECT.json` are by design of the code: a
reminder lost in a crash, sockets of an expired session, rooms that outlive
access.

What the plan has left: invariants of overlapping requests that are weaker than
those of `serial` and still hold (an agent was eligible when the request that
made it one began; an employee keeps a department only if a membership was added
while the role changed); a refinement of `AttachmentFiles` and of `ChatMessages`
to a store and a log that say in a few actions what the two promise; and the
composition of `TicketSystem` with `TicketQueries` under concurrent requests,
for the parts of `ViewsAgree` that do not depend on `serial`.
