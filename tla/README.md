# RepairFlow: verification project

TLA+ models of the RepairFlow repair-shop platform, the TLC configurations that
check them, and theorems about them that TLAPS checks. Paths are relative to the
root of the repository; `api/` stands for `apps/api/src/`, `web/` for `apps/web/src/`.

1. [The system](#1-the-system)
2. [How a request becomes actions](#2-how-a-request-becomes-actions)
3. [The modules](#3-the-modules)
4. [The runs](#4-the-runs)
5. [What is proved](#5-what-is-proved)
6. [Where the code and its documents part](#6-where-the-code-and-its-documents-part)
7. [What is not modelled](#7-what-is-not-modelled)
8. [Plan](#8-plan)

## 1. The system

A NestJS API over one PostgreSQL database (through Prisma), a Next.js front end
that talks to it, and an upload directory and a settings file on the API's disk.
There is no queue, no background job and no second process: everything the server
does is an HTTP request, and requests overlap freely because every handler awaits
the database several times. In the browser everything is a callback: the answers to
requests under way, and what the user presses meanwhile.

| component | state it keeps | operations that change it | talks to | what is hard | what makes it correct |
|---|---|---|---|---|---|
| Repair tickets (`api/repair-tickets`) | ticket rows, status history, assignment history, diagnoses, ticket counter | create, assign (also reassign), update status, deliver, diagnose, reopen | branches, audit log, notifications | the row is checked before the transaction and written blindly inside it; assignment and diagnosis search before they insert | timeline and row agree; every claimed change is legal and authorised; stages are stamped; the assignee has an open assignment; numbers are sequential; audit and notifications account for each change |
| Estimates (`api/estimates`) | estimates, the decision row that is also the customer's link, estimate counter | create, send, cancel, decide (public, by token) | writes tickets and their history | two services write one status; decide, cancel and send overlap; the link expires meanwhile | link, verdict, status and audit agree; sent once, decided once |
| Invoices (`api/invoices`) | invoices, payments, invoice counter | issue from an approved estimate, record a payment, void | reads tickets and estimates | amounts computed from a stale reading; a search for an active invoice that no index backs | the columns add up; nothing is shown as paid that was not received; one active invoice; paid invoices stay; only approved work is billed |
| Sessions (`api/auth`) | failed attempts and lock, refresh sessions, reset tokens | login, refresh (rotation, reuse detection), logout, revoke, forgot and reset password | user status | two refreshes with one token; resets and role changes overlapping refreshes; counters written from stale readings | a replaced session is dead; after a reset none of the old ones lives; failures lock; a link works once |
| Staff directory (`api/users`, `api/common/authorization`) | users, roles, status, branch membership | create, update, status, role, assign and remove branch | ends sessions | `update` changes what the other handlers revoke sessions for | nobody manages above their rank; a demotion ends sessions; membership and trail agree |
| Branches (`api/branches`) | branches and their `isActive` | create, update, toggle | read by intake | the toggle overlaps an intake, and an update of the same row | a closed branch takes in nothing; the trail tells the row |
| Customers and devices (`api/customers`, `api/devices`) | customers, devices, owning branch, unique columns per branch | create, update | tickets refer to them | a row is read, checked, and written later by id; columns given as `""` and as nothing differ | ticket, customer and device are of one branch; duplicates are refused; the trail tells the row |
| Ownership migration (`prisma/migrations`) | branch of old customers and devices | one backfill, indexes | | rows from before have no branch, and it is guessed from their tickets | it leaves a database in which places agree, or refuses |
| Attachments (`api/attachments`) | rows and files | upload, remove | tickets | disk and database change in two steps; removals overlap | each row has its file; files without a row come from faults only |
| Audit log (`api/audit-logs`) | append-only rows | `createLog`, from every handler | inside the caller's transaction | it swallows its own failure | every change has its row; the last word on a column is what the row holds |
| Notifications (`api/notifications`) | rows per user | written by tickets; mark as read, delete | header of the console | | one per event |
| Guards (`api/auth/strategies`, `api/common/guards`) | none | token, role and branch checks before a handler | users | each handler relies on a different one for the branch; the console repeats the roles on its own | what a page mounts or offers is let through |
| Web API client (`web/lib/api-client.ts`, `web/providers/auth-provider.tsx`, login page) | access token, `isRefreshing`, `failedQueue`; the signed-in user; the cookie that all tabs share | both interceptors, load, login, logout, redirect | `/auth/refresh`, `/auth/me` | queued requests depend on the refresh in flight; a page is left during it; tabs share the cookie | every request settles; the page decides whom it shows; only a cookie presented twice signs out |
| Web pages and their cache (`web/app`, `web/providers/query-provider.tsx`) | one cache entry per query key | queries mount, mutations invalidate | every controller | an entry is fresh for five minutes unless a write names its key; a fetch under way when the write is answered | one's own write shows; pages read and offer what the guards permit |
| Tickets page (`web/app/(dashboard)/tickets/page.tsx`) | the drawer's copy of a row, dialogs, a form, three mutations | open, close, assign, diagnose, change status, and their answers | tickets | answers patch whichever ticket the drawer shows by then; buttons come from the copy and from a table of the page's own | the drawer tells the truth; a change asked for on an old copy does no harm |
| Settings, reports, public tracking, health | one JSON file; nothing | | | | |

The same list, with the file names and the reason for whatever is left out, is in
`PROJECT.json` under `components`; what each piece of code is exposed to, line by
line, is under `hazards`.

## 2. How a request becomes actions

Every mutating handler has the same shape: read rows, check them and the actor,
compute, and then open an interactive transaction that writes. The checks are
*outside* the transaction, the writes do not repeat them (`where: { id }` only),
and the isolation level is PostgreSQL's default, READ COMMITTED. So:

* A **Worker** is a request in flight. `req[w]` (`call[w]` for estimates,
  `bill[w]` for invoices in the composition) is what it has read and decided.
  One worker means requests one at a time, two or more mean overlap.
* A **Begin** action is the reading with all its checks. Rejected requests change
  nothing and are not steps. Where a handler does two reads before its
  transaction (`createFromTicket`: the ticket, then its active invoice) they are
  one step: both only narrow what the request may do, and what matters is the
  distance of either to the commit, which is there.
* A **Commit** action is the transaction. That is faithful for these handlers
  because their writes go to rows by id, in a fixed order starting with the same
  row for two requests that collide; the second waits for the first row lock and
  then overwrites everything the first wrote. A transaction that reads as well is
  split there: assignment is `BeginAssign`, `FindOpenAssignments` (the rows its
  `updateMany` selects), `CommitAssign`; diagnosis has `FindDiagnosis` (the
  `findFirst`) in between. In `Registry`, where files are involved, the steps are
  `WriteFile`, `StoreRow` and `DeleteRow`, `Unlink`.
* **Faults.** `Abort` (`Withdraw` for estimates, `Fail` in `Registry`) is a rollback:
  a lost connection, the transaction timeout, a deadlock victim, a violated
  constraint, a failed audit insertion, or the process dying. Nothing of the
  transaction remains. Except for the upload directory there is no state outside
  the database, so a crash is every worker's `Abort`; `Registry` has `Crash`, which
  ends all requests between any two steps and leaves the disk as it is.
* In the **browser** one action is one callback, run to its end, or one thing the
  user does. A request is sent, served and its answer delivered in separate steps,
  and answers come in any order.

Consequences used throughout:

* *Sequence numbers.* The counter row is updated first in the transaction and stays
  locked until its end, so numbers follow commit order. Estimates and invoices are
  sequences indexed by their number; tickets carry `number` because that it is
  sequential is a property here.
* *History order* is commit order: two changes of one ticket both update its row,
  so the second inserts its history row after the first has committed.
* *Deadlock.* Sending writes decision (delete, create), estimate, ticket; deciding
  writes decision, estimate, ticket; cancelling writes estimate, then decision.
  Cancel against decide can therefore deadlock in the database; PostgreSQL ends one
  of them, which is `Withdraw`. Deciding on a link that was deleted meanwhile fails
  on `update` of a missing row (`LinkStands`).
* *Audit.* `createLog` catches its own exception, but inside a transaction the
  failed insertion has already aborted it in PostgreSQL: the rest fails or the
  commit becomes a rollback, so rows and audit stay together. (The handler may even
  answer success then; nothing was written. That answer is not modelled.)
* *Time* is a flag per deadline: `expired` for the link's `tokenExpiresAt`, `locked`,
  a lapsed session, link or access token, a stale cache entry; one action passes it
  at any moment. No handler reads an estimate's `validUntil`, so no flag stands for it.
* *Several statements.* Login and `forgotPassword` write with statements that commit on
  their own: `PassLogin`, `OpenSession` and `DropResets`, `IssueReset` are separate steps
  with other requests, or an `Abort`, in between.
* *Fairness.* None on the server: no handler waits for another request. In the browser
  `WF(Progress)`: a request that was sent is answered (axios rejects it when the
  connection fails) and the callback of an answer runs (the event loop runs every
  resolved promise). Nobody has to press anything, so what people do is not fair.
  `Console` adds the same for the fetches of the keys it promised (`Settle`: served,
  failed or delivered), one disjunct of `Progress`: otherwise fetches of other keys,
  which people can start for ever, might starve them in the model, and in the browser
  they do not.
* *Failures in the browser.* A request may meet an error other than 401 (`Break` in
  `Browser`, `Lose` in `Console`), a refresh may be turned away or never arrive (`Shed`),
  and the answer to a write or to a refresh may be lost. Fetches are not retried
  (`retry: false` in `query-provider.tsx`). Which requests fail is a constant, so that the
  runs stay small; the proofs cover every choice.
* *Stopping.* `CHECK_DEADLOCK FALSE` stands in `registry`, `workbench`, `console` and
  `browser_page` only: requests are bounded there and nobody has to use the console.

## 3. The modules

| module | models | state and actions |
|---|---|---|
| `Lifecycle` | the tables `VALID_TRANSITIONS` and `STATUS_TRANSITION_ROLES`, enums, the stamp each status sets, the history row | operators only |
| `RepairTickets` | `RepairTicketsService` and `BranchesService.toggleStatus` | `tickets`, `history`, `assignments`, `diagnoses`, `counter`, `branchActive`; `logged` counts the audit and notification rows of each kind per ticket; one Begin/Commit pair per handler (`CommitStatus` is shared by `updateStatus` and `deliverTicket`, whose transactions are alike) |
| `Timeline` | abstract: an append-only log per ticket, opened once, of legal and authorised changes | `Open`, `Extend` |
| `TicketMachine` | abstract: the documented state machine, one history row per move, each starting where the ticket was | `Receive`, `Move` |
| `Estimates` | `EstimatesService`, EXTENDS `RepairTickets` | adds `estimates`, `decisions`, `call`; `Begin/Commit` × `Draft`, `Send`, `Cancel`, `Decide`, and the link's deadline |
| `Quote` | abstract: an estimate is sent once and decided once, or withdrawn | `Draft`, `Advance` |
| `Money` | the tax, total and discount arithmetic, in cents | operators only |
| `Invoices` | `InvoicesService` | `invoices`, `received` (sum of the payment rows), `audit`; `approved` is its environment: the estimates others approve and overturn |
| `Ledger` | abstract: one active bill per ticket, nothing above the bill, only an untouched bill is voided | `Issue`, `Collect`, `Annul` |
| `Billing` | the three services together, EXTENDS `Estimates`, INSTANCE `Invoices` | `approved` is replaced by what the estimates really say; `bill` is the invoice side of a worker |
| `Sessions` | `AuthService`, and `update`, `updateStatus`, `updateRole` of `UsersService` | `users` (status, role, failures, lock, password version), `sessions`, `resets`; the steps of login, refresh, reuse detection, logout, reset link and reset, and the three deadlines |
| `Registry` | `CustomersService`, `DevicesService`, `BranchesService`, the branch membership of `UsersService`, intake as it places a ticket, `AttachmentsService`, and the ownership migration | `branches`, `members`, `customers`, `devices`, `tickets`, `trail` (the last word of the audit rows on each column), `attachments`, `disk`; `Init` is what the migration makes of one of the databases `Old`, or its refusal |
| `Gate` | every route with the roles `RolesGuard` lets through | operators only |
| `Pages` | each page of the console as a table: for whom, which queries under which keys, which buttons and forms with the keys they invalidate | operators only |
| `Console` | one signed-in tab: pages visited, panels opened, one write under way, and the query cache; EXTENDS `Pages` | `view`, `cache`, `fetch`, `flight`; `behind` says which entries lack a write of this tab. The cache itself is a library (TanStack Query 5), modelled from how the pages use it: to invalidate marks entries stale and fetches the mounted ones anew, which gives up a fetch under way only if there is an entry already; a first load goes on and what it brings is fresh |
| `Workbench` | the tickets page: list, drawer, three dialogs and their mutations, while others work on the same tickets | `rows` (the server), `list`, `shown` (the drawer's copy), `dialog`, `form`, `chosen`, `call` |
| `Browser` | the interceptors, `AuthProvider`, login, logout and the layout's redirect, in tabs that share a cookie, against `refresh` | per tab `page`, `call`, `refresh`, `login`; `jar`, `live`, `lapsed`; a page left during a refresh leaves a `Stray` one behind |
| `MC*` | small instances for TLC | roles, branches, databases, symmetry |
| `*_proofs` (`RepairTickets`, `Billing` with `Estimates`, `Invoices`, `Sessions`, `Registry`, `Browser`, `Console`, `Workbench`) | theorems | |

What composes what: `Estimates` writes the same tickets and history as
`RepairTickets`; `Billing` puts `Invoices` over both. `Console` is `Pages` over `Gate`:
the client's tables against the server's. `Browser` has the refresh endpoint of
`Sessions` reduced to what a client can tell apart (a session is live or not, a token
was exchanged or not). `Workbench` has the server of `RepairTickets` reduced to one
request at a time, because the races it is about are those of the page.

Abstractions worth knowing: an actor is a `Staff` member with a fixed role and fixed
branches, except in `Sessions`, where roles and statuses change, and in `Registry`, where
memberships do; a password is the number of times it was changed, a token is the
position of its row; the number of failures that locks an account (5 in the code) is
the constant `LockAfter`; text, contact data and estimate items are left out, an
estimate is its subtotal; an AuditLog row is counted (tickets), kept as what it says
the row became (estimates: the newest; invoices: all), or column by column
(`Registry`). A device's IMEI has the same index and checks as its serial number and
goes by it. `EXPIRED` estimates and `REFUNDED` invoices are in the schema and no code
sets them. Definitions named `X_Something` marked "Mutant" are deliberate mistakes, one
for each property: substituted for `X` they break that property, which shows that
the property looks at what the code does.

## 4. The runs

| run | question | bounds, and why they suffice |
|---|---|---|
| `tickets_race` | What do ticket, timeline, stamps, assignment and trail agree on when two requests overlap anyhow? | a clerk and a technician, two workers, one ticket (a handler touches one ticket; branches and counter are in `tickets_serial`); changes begin up to five history rows, which reaches repair, delivery and every pair of overlapping changes; one assignment row and one diagnosis before an overlapping second |
| `tickets_serial` | Does the service implement `TicketMachine` when requests come one at a time, and are numbers sequential? | one worker; two tickets, so that a delivered one is reopened, in two branches with their switches; every path through the machine fits in five rows or repeats (the parts loop); rolled back intakes |
| `estimates_race` | What do estimate, link, audit, status and timeline agree on when two requests of either service overlap? | two workers, one ticket, one estimate; sending, cancelling, deciding and ticket changes race; history long enough for a decision after a decision |
| `invoices_race` | Do the columns of an invoice, its payments and its audit agree under overlap? | two workers, one ticket, a total of 3 paid in pieces of 1, 2, 3; discount 4 makes the total negative; one invoice is begun, so two can exist |
| `invoices_applied` | a statement of the documents that the code does not keep, see section 6 | two payments that overlap |
| `billing_serial` | All three services, one request at a time: are `Quote` and `Ledger` implemented, and is only approved work billed? | one worker, one ticket, two estimates, two invoices (void and reissue); a discount of 2001 that a clerk may not grant |
| `sessions_race` | What do lock, sessions, reset links and password agree on when two requests of an account overlap? | two workers, one account; two failures lock; three sessions and two links can come about; a suspension is for good, and no deadline passes (that only disables requests) |
| `sessions_serial` | One request at a time: does a reset end every session? | one worker, one account, two logins, refreshes up to the third session, two links, all three deadlines, suspension and reactivation |
| `registry` | Do a ticket's, customer's and device's branches agree, does the trail tell the rows, and do rows and files go together, under overlap and faults? | two workers, three requests (two that overlap on what a third made), one crash or failure; two branches, three databases before the migration: one whose customer belongs elsewhere than the oldest branch, one with two customers of which one has no ticket, and one that the migration refuses |
| `console` | Does a page show what was written, and does it read and offer only what is permitted? | every role, every page as the first, then one more; one write, so that every fetch may be under way when it is answered; one key that ages, and one whose fetch may fail: the timeline in the drawer, which is mounted late and shows what the page writes |
| `workbench` | When can the drawer be believed, and what harm does an old copy do? | an administrator or a technician; two tickets (answers that belong to another), two own requests under way together, one change by somebody else |
| `browser_page` | Does every request settle, does every page decide, and what signs an account out? | one tab with two queries besides `/auth/me` (a leader, one queued, one sent late); two tokens that lapse (a suspension ends them all), two logins, one page opened by hand: the settings, from which the interceptor does not redirect (the dashboard comes after a login); any request may meet another error, a refresh may be turned away, its answer lost, and sessions may be ended elsewhere. The stray refresh of a page that was left is the second party at the cookie; the proofs cover any number of tabs |

TLC takes from a few seconds to two and a half minutes for each.

**Races on the server.** The properties of the *race* runs hold whatever overlaps:

* `TimelineEndsAtStatus`: the newest history row names the ticket's status and, once
  delivered, its deliverer. Two overlapping changes overwrite each other's status,
  yet row and timeline never disagree, because both are written under one lock.
* `TimelineIsAuthorized`, `KeepsTimeline`: each row of the ticket service claims a legal
  change by a permitted role, and rows are only ever appended. What a row claims as
  *previous* status may be stale, so the rows need not continue one another.
* `VerdictsAreTold`: every decided estimate has a history row of its own that tells of the
  verdict in its author's name, wherever the ticket was moved between the reading and
  the decision. (The row says WAITING_FOR_APPROVAL before it even where the row before
  ended elsewhere; section 6.)
* `StagesAreStamped`, `TrailIsComplete`, `AssigneeHasOpenRow`, `LinkAgrees`,
  `HeaderAddsUp`, `PaidWasReceived`, `AuditStatesBalance`: tables that several handlers
  write keep agreeing. The newest audit row of an invoice
  names a voiding exactly when the invoice is void, and otherwise states the balance the
  header has; the row of a voiding states none (`createLog` is called without values).
* `LockIsEarned`, `ReplacedIsDead`, `LinkPerPassword`: a lock has its failures, a replaced
  session is dead and names a later one of its login, a reset link is used once.
* `PlacesAgree`, `TrailTellsRows`, `EveryRowHasItsFile`, `OrphansComeFromFaults`: checks
  made on rows read before the insertion still hold after it, because no handler moves
  a customer or a device to another branch; the audit trail ends at what the row
  holds, because a row and its audit row are written under one lock and only columns
  that were given are written; the file is written before its row and removed after
  it.

**One request at a time.** `FollowsMachine`, `NumbersAreSequential` (also under
overlap, by proof), `KeepsQuote`, `KeepsLedger`, `BilledWasApproved` and
`NoSessionOutlivesPassword` say what each service implements when its checks are still
true at the commit. With `Worker = {w1, w2}` in the same configuration TLC finds each of
them but `NumbersAreSequential` violated: that is the price of checking outside the transaction,
and it delimits what the code guarantees.

**In the browser.**

* `QueueHasRefresh`: a request waits in `failedQueue` only while its page has a refresh
  under way, and exactly one request leads it. `EveryCallSettles`: so each of them is
  answered. `EveryPageDecides`: a page that loads ends with a user or at the login form.
* `OnlyClashSignsOut`: the cookie stands for a live session, or its successor is on its
  way, until one cookie is presented twice (two tabs, or a page and the refresh of the
  page it replaced), the answer of a refresh is lost, or sessions are ended elsewhere. A
  single page whose requests all fail together does not sign its user out.
* `OwnWriteShows`, `OwnWriteComes`: a mounted query of the page that lacks an answered write
  is known to be stale, and a fetch that sees the write is under way or has failed; if it
  does not fail it comes, and no earlier one brings the old rows back. Two kinds of entry
  are not promised: first loads that the write overtook, whose old rows pass for fresh
  (section 6), and keys of *other* pages that show the same rows: several pickers stay
  behind until their entry ages.
* `PagesReadWhatTheyMay`, `OffersArePermitted`: what a page mounts is there, on its way or
  failed, and nothing is mounted or offered that `RolesGuard` turns down, with the
  exceptions the properties name (section 6).
* `DrawerTellsTruth`: once its own requests are answered the drawer shows the row as it
  is, unless one of the named `doubts` applies: it was opened from an old list, somebody
  else wrote the row, an answer was overtaken or belongs to another ticket.
  `ListFollowsOwnWork`: the list does so always. `StaleMovesAreFew`: a change asked for on
  an old copy starts where the drawer said, or cancels the ticket, takes its repair up
  again or calls for parts; the server refuses every other. (The last takes three
  changes by others, which TLC reaches with `MaxOthers = 3` and the proof for any number.)

## 5. What is proved

Everything below holds for every number of tickets, workers, users, branches, tabs and
files, any assignment of roles and branches, any amounts and any bounds. The
assumptions are the named ones of the modules: `StaffAssumption`, `BoundAssumption`
(tickets), `EstimateAssumption`, `InvoiceAssumption`, `OneTeam` and `OfficeAssumption`
(billing: everybody works in every branch, the sums of estimates are those invoices
know), `SessionAssumption`, `RegistryAssumption`, `DatabaseAssumption` and
`TrailAssumption` (the old database is well-formed; ids of different tables differ) and
`BrowserAssumption`, `WorkbenchAssumption` (the tickets start at statuses there are, a
diagnosis has one of the three outcomes the form offers) and `ConsoleAssumption` (pages and keys are those of the tables). TLC evaluates each of them on the run of its module. Where a theorem
says "one at a time" its hypothesis is `\A v, w \in Worker : v = w`.

* `RepairTickets_proofs`: `TypeCorrect`, `TimelineNeverDisagrees`, `TimelineIsLegal`,
  `ImplementsTimeline`, `NumbersStaySequential`, `AssigneesAreOpen`, `TrailsAreComplete`,
  `StagesAlwaysStamped`, and, one at a time, `ImplementsMachine`.
  The timeline is not inductive: a commit writes what a request read earlier. The
  invariant `TimelineInv` adds `RequestsAreLegal` (a request in flight carries a
  transition the tables permit its actor, for an existing ticket, whether or not its
  reading is stale) and `UnopenedIsEmpty`. `StepEffect` then says that any step opens one
  ticket, moves one, or leaves the timelines alone; the refinement of `Timeline` is a
  case split over it, and `Billing_proofs` builds on it.
  `UncheckedWritesAreLegal` covers the writes that consult no table: delivery and the
  outcome of a diagnosis. `StampsInv` adds that the stages of the status a request
  *read* are stamped, which stays true because stamps are never removed.
  `ImplementsMachine` adds `ReadingsHold`: what the only request read is still the status.
* `Billing_proofs`, its first part, on `Estimates` alone: `LinksAlwaysAgree`, `EveryVerdictIsTold`, `TimelinesEndAtStatus` under
  overlap, from `EstimatesInv`, which composes `TimelineInv` with the links and the
  calls in flight (`EveryVerdictIsTold` counts: a step that decides one more estimate
  appends one more row that tells of it); and `ImplementsQuote`, one at a time (`CallsAreFresh`).
* `Invoices_proofs`: `TypeCorrect`, `HeaderAlwaysAddsUp`, `NothingPaidUnreceived`,
  `AuditNeverStale`, negative totals included. The strengthening is `PaymentsFit`: what a
  payment in flight read still bounds what it will write, because a total never changes
  and payment rows are never deleted. That is why two overlapping payments, which do
  lose one from the header, can still never show more than was received or drive the
  balance below zero. `ImplementsLedger`, one at a time, needs `HeaderIsExact` and
  `RequestsAreFresh`.
* `Billing_proofs`, its second part: `BillingIsEstimates` and `BillingIsInvoices` are refinements under any
  overlap: seen without invoices the composition is `Estimates`, and seen without
  estimates it is `Invoices` with an environment that approves and overturns one at a
  time. Hence `BillingKeepsQuote` and `BillingKeepsLedger` follow from the components'
  theorems. `BilledIsAlwaysApproved` is about all three: its invariant `BilledInv` says
  that an approval is in the timeline, and that every bill and every request to issue
  one is backed by an estimate that is still approved.
* `Sessions_proofs`: `TypeCorrect`, `LocksAreEarned`, `ReplacedStaysDead`, `LinksWorkOnce`
  (`LinksCounted`: the password version is the number of links used up, counted as a
  set), and, one at a time, `SessionsEndWithPasswords`.
* `Registry_proofs`: `TypeCorrect`, `PlacesAlwaysAgree` (from any database the migration
  accepts), `TrailAlwaysTells`, `RowsHaveFiles`, `OrphansHaveCauses` (`KeysAreHeld`: a
  key in the hands of a request is no row's, and nobody else is to store it).
* `Browser_proofs`: `TypeCorrect`, `QueueIsDrained`, `OnlyAClashSignsOut`, for any number
  of tabs and queries. `CookieInv` follows the cookie through every refresh that holds
  it, strays included, whether it is served, turned away or its
  answer lost.
* `Workbench_proofs`: `WorkbenchTypeCorrect`, `PageIsOnlyLate`, `DrawerIsTrue`,
  `ListIsCurrent`, `StaleMovesStayFew`, for any tickets, reloads and changes by others. What
  the user sees was true once, and the proof keeps how it can have moved on: `Ages` says
  of the list, the fetch, the answers, the drawer, the form and the request that the
  row's status can be reached, by the server's table (`Later`), from the one they name,
  unless an answer for another ticket was written over it. `Drawer` then says when the copy
  is the row (nothing under way that would change it, no doubt) and what a form can
  only hold. `StaleMovesStayFew` is a question about the two tables, the page's and the
  server's: which moves does the page offer at an earlier status that the server
  accepts at a later one. The attempt found that calling for parts is one of them, when
  others meanwhile took the ticket from diagnosis to repair.
* `Console_proofs`: `ConsoleTypeCorrect`, `OwnWritesAreShown`, `PagesAreReadable`,
  `OffersAreHonoured`, for any roles, visits and writes. The tables of `Gate` and `Pages`
  are read row by row first (`PagesAreSound`): each key belongs to one page, each write
  invalidates what it changes there, each route is one its roles are let through to or a
  named exception. The state machine is then reasoned about with these facts only: a
  page added to the tables needs a row lemma and nothing else. `PromisesAreKept`, with
  `ArrivalsAreServed` (nothing is in the cache whose route is closed to the role, so that
  a refetch is not turned down; what a save puts into the cache the role may read), is
  inductive. For reading it is `ReadInv`: what is mounted was asked for
  (`MountedIsAsked`), and a fetch that was denied is one of a closed route
  (`DeniedIsClosed`).

**Only model-checked.** The liveness properties `EveryCallSettles`, `EveryPageDecides` and
`OwnWriteComes`: liveness under fairness and ENABLED are out of the prover's reach, as
are induction over data and RECURSIVE operators (no module here declares one). Every
other property of a passing run is a theorem.

## 6. Where the code and its documents part

One of these is a run that TLC finds violated (`findings` in `PROJECT.json`):

* `PaymentLowersBalance` (`docs/product-requirements.md:133`): of two overlapping payments
  one is recorded and does not reach the balance.

The others are visible in the modules as the code has them; no property is stated
that the code does not keep.

* `docs/product-requirements.md:105`, and the comment at `repair-tickets.service.ts:134`:
  `reopenTicket` (`:741`) does not look at `Branch.isActive`; an intake that overlaps the
  switch does not see it either.
* `:117`: a customer's decision (`estimates.service.ts:437`) sets the ticket to APPROVED or
  REJECTED whatever its status is.
* `:125`: only the link's days are checked (`estimates.service.ts:392`); no handler reads
  an estimate's `validUntil`.
* `:100`: a change of role ends all sessions in `updateRole`, not in `update`
  (`PATCH /users/:id` with a role).
* The controllers of estimates and invoices repeat their prefix in their handlers, so the
  routes are `/estimates/estimates` and so on, and not those of
  `docs/api-documentation.md:124-138`, which the pages use (the exceptions of
  `PagesReadWhatTheyMay` and `OffersArePermitted`).
* A front desk may post an assignment (`RolesGuard`) and the dialog's list of technicians
  is refused to it; a diagnosis is offered to everybody and accepted from technicians and
  the administrator; the reports page asks for `/reports/export-csv` and the API has
  `/reports/export`; the estimates page offers a front desk to void an estimate (`cancel`),
  which is left to managers.
* The tickets page has a table of its own (`tickets/page.tsx:304`): it offers DELIVERED
  through `/status`, which refuses it, and has no button for tickets that are REJECTED,
  UNREPAIRABLE or PARTS_REQUIRED.
* A write that overtakes the first load of a query that shows it: the query's fetch read
  the rows before the write and its answer comes after the write's. `invalidateQueries`
  does not give up a first load, and its success clears the invalidation, so the old
  rows pass for fresh for five minutes (`query-provider.tsx:16`): for example the timeline
  of a drawer opened and a status posted from it at once (`tickets/page.tsx:286`).
  `Overtaken` in `Console` is this case.
* Several lists are unwrapped as another envelope than the API's. The settings page is
  missing from the interceptor's list of pages to redirect from (`api-client.ts:97`).
  A refresh that is refused never clears the cookie; a late refusal wipes a token that
  a login has just brought.
* An update writes `""` where a creation writes NULL, and the unique indexes take `""`
  for a value: the second customer of a branch whose e-mail is cleared conflicts.

Overlap also breaks the "one at a time" properties of section 4; the ways in which it
does (a second active invoice, a voided invoice with a payment, an overwritten
decision, a cancelled ticket that moves on) are the counterexamples of `KeepsLedger`,
`KeepsQuote` and `FollowsMachine` with two workers.

## 7. What is not modelled

* Reads that change nothing: reports, public tracking, lists, histories, PDF files,
  health. Their routes, and the pages and keys that show them, are in `Gate` and `Pages`.
* Settings on the server: one JSON file, read and rewritten synchronously within a
  request, that no other handler reads.
* Creating users and branches, which inserts one row with a unique column; the
  models of the schema for stock and purchasing, which have no code.
* The pages for a forgotten password and the public pages of a customer, which post
  one form each; search, filters, pagination and layout of the others.
* Details of the queries: those that wait for `activeBranchId` are taken as enabled (the
  branch is there once the user is); a fetch paused while offline counts as under way;
  in `Workbench` the refetch of the list does not fail (in `Console` it may).
* Two tabs in `Console` or `Workbench`: tabs share no cache. That they share a cookie is
  in `Browser`, whose proofs cover any number of tabs.
* Access tokens as such: user, role and branches are read from the database on each
  request (`JwtStrategy.validate`).
* Inside the modelled parts: wording, formatting of numbers, personal data, the 32-bit
  width of amounts (exceeding it is a failed statement, an `Abort`), and the HTTP answer.

## 8. Plan

Done, in this order: tickets with their abstract timeline and state machine; money,
invoices and the ledger; estimates over tickets, and the three together; sessions; the
browser's session; the routes, the pages, the cache and the tickets page; the records,
the files and the migration; proofs of every safety property of the server, of the
browser's session and of the pages, and of every refinement.

Left, in order of use:

1. `RepairTickets` with roles and memberships that change under a request (now fixed per
   run), which would join `Registry`, `Sessions` and `RepairTickets` at the staff table.
2. The answer a handler gives when `createLog` swallowed the failure of its insertion:
   success, although the transaction is rolled back. That needs the answer as state.
