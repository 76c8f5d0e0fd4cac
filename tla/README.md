# car-history-api in TLA+

TLA+ modules, TLC runs and TLAPS proofs about the handlers of `src/` (a NestJS
API over PostgreSQL, accessed with Prisma). A server is one Node process; a
handler is an `async` function, and between two of its `await`s the handlers of
other requests run. Most handlers read, decide, and write later, and few of
them put the read and the write into one transaction: what this project is
about is which promises survive that, and why.

## 1. The system

| component | state it keeps | operations that change it | works with | what must hold |
|---|---|---|---|---|
| Workspaces (`workspaces/`) | `workspaces` (owner, deletedAt), `workspace_members` (role), `workspace_invites` (status, expiry) | create, delete, change role, remove, leave, invite, cancel, accept, reject | guards read its tables on nearly every route; users (deletion of an account); vehicles (deleted along); mail | the creator stays OWNER, nobody is a member twice, nobody joins without an invite, a handler stays in the workspace its guard checked |
| Workspace guards (`common/guards`) | none; hand the membership they read to the handler | – | Workspaces | the role that was checked is the role the handler acts with |
| Maintenance (`maintenance/`) | `maintenance_intervals` (interval, last and next service, status) | create, update, disable, enable, mark as done, delete | mirrors each change to Reminders in the same transaction; adds a service event to Timeline | a disabled interval is silent; next = last + interval |
| Reminders (`reminders/`) | `reminders` (status, due, origin) | create, update, complete, dismiss, delete; sync from an interval or a document | Maintenance and Timeline write it, Notifications reads it | one reminder per origin, in step with it, none without it |
| Timeline (`timeline/`) | `timeline_events` and their details, `mileage_logs`, `vehicles.currentMileage`, purchase and sale of a vehicle | create, update, delete an event | Reminders (documents), Milestones, Tires, ServiceStations, Maintenance | the odometer is the largest log; at most one purchase and one sale; a sold vehicle is archived |
| Tires (`tires/`) | `tires` (status, vehicle), history | create, update, delete, mount, unmount | Timeline mounts and unmounts | a vehicle has at most one mounted set |
| Vehicles (`vehicles/`) | `vehicles` | create, update, soft delete | everything below a vehicle | nothing acts on a deleted vehicle |
| Sessions (`sessions/`, `auth/`) | `sessions` (token hash, status, expiry) | log in, refresh with rotation, revoke one, all, all but one | Accounts revoke sessions | a revoked session stays revoked; the browser holds the token that is accepted next |
| Accounts (`users/`, `tokens/`) | `users`, credentials, one-time tokens, failed attempts, lock | register, verify, log in, reset, change e-mail, delete | Sessions, Workspaces, mail | a verified address is a proven one; links work once; the lock comes after the allowed attempts; a deleted account is logged out |
| Rate limit (`common/guards/auth-rate-limit.guard.ts`) | a map in memory, by route, address and account | each request | – | never more than the limit in a window; a window that ended does not count |
| Notifications (`notifications/`) | `notifications` (PENDING, SENT, FAILED) | a daily job | Reminders, mail | at most one mail per reminder, day and person, and one in time |
| AI conversations (`ai-conversations/`) | conversations, messages | create, send a message | AI provider | the history sent is the recent one; every question is answered once |
| Media (`media/`) | `media`, usages, primary photo | upload, delete, set primary | external image service | the primary photo is the flagged one; no row shows an image that is gone |
| Milestones (`milestones/`) | awards | check after an event is created, ownership job | Timeline, which also changes what is counted without a check | a check leaves no level open that the total stayed above, awards none that was never reached, and no more rows than checks that raced |
| Service stations (`service-stations/`) | stations, visit statistics | create, update, delete, favourite, recalculate | Timeline | statistics match the visits; the star follows the clicks |
| Statistics, dashboard | none | – | read everything, with many queries and no snapshot | the figures of one answer agree; no overdue interval hides behind one that is not |
| Mail, configuration, audit, cookies, crypto, throttler, pipes | none that a property is about | – | – | – |

What is hard in it: handlers interleave at every `await`; checks are made
outside the transaction that relies on them; two transactions may take row
locks in opposite orders; a handler may throw, or the process end, between two
writes that no transaction ties together; a client repeats a call whose answer
was lost; the cron job runs beside the handlers, in every process; an answer is made of
several queries, and the tables move between them. Each place where this bites
is listed in `PROJECT.json` under `hazards`, with the properties about it, and
a note where the code does not prevent it.

## 2. How the code is modelled

*Requests.* `Requests` is the set of requests that may be in flight together.
`pc[r]` names the await at which `r` stands (`"idle"` when there is none) and
`arg[r]` holds what it has read so far and still uses. What lies between two
awaits is one action: nothing else can run there.

*Tables.* A table is a function from ids to rows. A row is `"free"` before it
is inserted, then live (or has its status), then `"gone"`. Ids are never
reused, so the sizes of the id sets bound how many rows a behaviour inserts; an
insert that finds no free id does not happen (in Tires, it fails).

*Transactions.* PostgreSQL at READ COMMITTED, Prisma's default. A transaction's
writes reach the tables when it commits; until then the request's program
counter (or the rows it has written or deleted, `arg[r].held` and `arg[r].doomed`) says which row locks it
holds, and a writer of such a row waits (`LockedByOther`, `IntervalLocked`,
`ReminderLocked`, `RowLocked`). A reader does not wait and sees what is committed. The last
statement and the commit are one step, since nothing but the wait of other
writers can tell them apart.

*Failure.* `Fail(r)` ends a request at any await with its open transaction
rolled back: a lost connection, a timeout of the database, the end of the
process (which is `Fail` for all of them). It also stands for refusals that
depend on nothing in the model (a password, the owner of a vehicle, a link or
a session that has expired). Where the end of the process leaves more behind
than a failed request does, there is a `Crash`.

*Reads without a snapshot.* Where a handler only reads (statistics, dashboard,
lists, the history of a tire), each query is a step, and between two of them the
tables may change. A property of what is answered speaks of
answers during which nothing changed (then different queries must come to the same
figures), or of what must hold although something did.

*History variables.* Where overlapping requests may put rows out of step, a
variable (`torn`, `crossed`, `half`, `met`, `late`, `closed`, `proven`,
`uses`, `toggles`) remembers which rows that can concern. No action depends on one; a
property then says that everything else is in step. Others remember what was
(`highest`, `lowest` and `granted` of Milestones).

*Left to data.* Names, titles, wording and mails are abstracted. An account
stands for its e-mail address.

## 3. The modules

### Workspaces

`Workspaces.tla` models `workspaces.service.ts`, its repositories and routes,
the two guards in front of them, and `UsersService.deleteAccount` as far as it
depends on workspaces. `Arrive` and `Guard` are the reads of
`WorkspaceMemberGuard` (and the role check); the handler then goes on with the
role that was read. The handlers:

| handler | actions |
|---|---|
| `create` | `Create` (one transaction that waits for nobody) |
| `delete` | `DeleteCheckOwner`, `DeleteCount`, then the transaction `DeleteInvites`, `DeleteCommit` |
| `updateMemberRole` | `UpdateRoleCheck`, `UpdateRoleWrite` |
| `removeMember`, `leaveWorkspace` | `RemoveCheckTarget`, `RemoveCheckRecords` or `LeaveFind`, then `DeleteMember` |
| `createInvite`, `cancelInvite` | `InviteGetWorkspace`, `InviteFindPending`, `InviteCreate`; `CancelFind`, `CancelDelete` |
| `acceptInvite` | `OpenInvite`, `validateInvite`, `AcceptCheckMember`, then the transaction `AcceptUpdate`, `AcceptInsert`, `AcceptFind`, `AcceptCommit` |
| `rejectInvite`, an expired invite | `OpenInvite`, `validateInvite`, `RejectWrite` or `ExpireWrite` |
| `deleteAccount` | `DeleteAccountCheck`, `DeleteAccountWrite` |

| run | bounds | shows |
|---|---|---|
| `workspaces` | 2 accounts, 1 workspace, 3 member rows, 1 invite, 2 requests, roles OWNER and ADMIN, both accounts may be deleted | `CreatorIsOwner`, `OneMembershipPerUser`, `JoinConsumesInvite` and the types, with all awaits of two requests interleaved. Three member rows are the owner, the one who joins, and a double. Two invites to one account are left to the proofs, which hold for any number. |
| `workspaces_delete_race` | 1 invite | violated: a workspace with two members is deleted. |
| `garage`, part `workspaces` | 2 workspaces, 2 accounts, 4 member rows, 1 request, roles OWNER and MEMBER | `StaysInWorkspace`: a request writes rows of the workspace its guard checked only, whatever ids it names. `AcceptFindsWorkspace`: `workspace!.id` never fails, one request at a time. |

### Maintenance and its reminders

`Maintenance.tla` models `maintenance.service.ts` and the routes and the
interval sync of `reminders.service.ts`, for the intervals of one vehicle.
Mileage stands for the pair of mileage and date, which the code computes and
stores alike.

| handler | actions |
|---|---|
| `create` | `Create` |
| `update`, `markAsDone`, `disable`, `enable` | the first read and what is computed from it: `OpenUpdate`, `OpenMarkAsDone`, `OpenSwitch`; then one transaction: `Change` (the update, which locks the interval; its new row is `Patched`), `SyncFind`, `SyncUpdate` or `SyncCreate` |
| `delete` | `OpenDelete`, then one transaction: `DeleteReminders`, `DeleteInterval` |
| reminders' `create` | `CreateReminder` |
| reminders' `update`, `complete`, `dismiss`, `delete` | `OpenReminder`, `WriteReminder` |

A change locks the interval and then its reminder, a delete the reminder and
then the interval. `DeadlockVictim` is what PostgreSQL does about that: it
aborts one of the two.

| run | bounds | shows |
|---|---|---|
| `maintenance` | 1 interval, 2 reminders, 2 requests, 2 values of intervalKm | `DisabledIsSilent`, `OneReminderPerInterval`, `ChangesAreSynced` and the types. Two requests are enough for every pair of handlers to overlap; two reminders for a duplicate. |
| `maintenance_ends` | 1 reminder, 2 requests, fairness | `RequestsEnd`: every request ends, deadlocks included. |

### Tires

`Tires.tla` models `tires.service.ts`, the TIRE_CHANGE events of
`timeline.service.ts` and the deletion of a vehicle as far as it deletes tires.
`used` says that a `tire_changes` row refers to the tire; the foreign key of
that row (`ON DELETE RESTRICT` in the migration, although the schema does not
spell it out) is what keeps such a tire. `MountedSet.tla` is what the comment
on `mount` promises: each vehicle has nothing mounted or one tire row, which is
mounted nowhere else.

| handler | actions |
|---|---|
| `create` | `OpenCreate` (`VehicleAccessGuard`), `Create` |
| `update` | `OpenUpdate`, then `Update`, or `manualMount`: a transaction of `MountFind`, `MountDemote` for each mounted set found, `MountTarget` (the last write and the commit) |
| `delete` | `OpenDelete`, `Delete` |
| `createEvent` with a tire | `OpenChange`, `InsertEvent`, then `Update` (unmount), or the same three `Mount` actions without a transaction: each write is visible at once |
| `deleteVehicle` | `OpenDeleteVehicle`, then one transaction: `VehicleTires`, `VehicleCommit` |

The code never compares the vehicle of an event with that of the tire it names.
`OwnTires` says whether clients do: the passing runs assume it (without it even
one request breaks the promise, `tires_foreign_install`).

| run | bounds | shows |
|---|---|---|
| `garage`, part `tires` | 1 vehicle, 3 tires, 2 requests | `OneSetPerRequest`, `HistoryIsKept` and the types. Three tires leave room for one mounted set more than the bound. |
| `services`, part `alone` | 2 vehicles, 3 tires, 1 request | `ImplementsMountedSet`, the refinement of `MountedSet`. |
| `tires_foreign_install` | 2 vehicles, 1 request | violated: two mounted sets, with no race at all. |
| `tires_member_delete` | 1 tire, 1 request, a member who is neither OWNER nor ADMIN | violated: a member may not delete the tire they created. |

Deadlocks of more than two transactions are left out; where they would need
three requests, no run has them.

### Timeline

`Timeline.tla` models the events of one vehicle (`timeline.service.ts`) and what
is stored beside them: the mileage log, the odometer (`currentMileage`), what
the vehicle keeps of its purchase and sale, the reminder of a document
(`syncFromDocument`), the visits of a station (`recalculateVisitStats`). Except
for the event that `markAsDone` adds, no handler here has a transaction: each
write is seen at once, and `Fail` leaves behind what was written.

| handler | actions |
|---|---|
| `createEvent` | `OpenCreate`, `Insert`, `InsertLog`, `ReadMax`, `WriteOdo`, `SyncInfo` (purchase, sale), `ReadDocument`, `FindReminder`, `CreateReminder` or `UpdateReminder` (document), `CountVisits`, `WriteVisits` |
| `updateEvent` | `OpenUpdate`, `Update`, with a new mileage `Relog`, `ReadMax`, `WriteOdo`, then the document and, for the old station and the new one, the visits |
| `deleteEvent` | `OpenDelete`, `ReadDeletedDocument`, `Forget` (document), then `Promise.all`: `SoftDelete` beside `Unlog`, `ReadMax`, `WriteOdo`; `Join`, `SyncInfo`, the visits. `FailSoftDelete` and `FailUnlog`: one half throws and the other goes on |
| `createMaintenanceServiceEvent` | `OpenService`, `ServiceMax`, `ServiceCommit` (in the transaction of `markAsDone`) |
| vehicles' `update`, reminders' `delete` | `OpenPatch`, `PatchVehicle`; `DeleteReminder` |

Nothing keeps two of these apart, so what is derived may fall out of step: two
requests read the largest log, and the one that read first writes last. What
the properties say is how far that reaches. Each request `uses` an event,
stations, the odometer, the info of a type (`Resources`). Two requests *meet*
when one arrives that uses what another in flight uses; `torn` is what requests
that met, or failed, have used. `EventInStep`, `OdometerInStep` and
`DerivedInStep` (the visits of stations, `VisitsInStep`, and what the vehicle knows
of its purchase and sale, `InfoInStep`) speak of what is `Settled`: not torn, and not in use. The
odometer and the visits are recomputed from the tables, so a request that
ends without any two having met since the server was last idle (`crossed`)
mends them; an event and its log are not, and stay torn.
`torn` and `crossed` are history: no action depends on them.

A station counts the events of all vehicles; with one vehicle the others are
more events of the same kind. Only documents that expire and get a reminder are
modelled (others are like a SERVICE event). A patch of `currentMileage` tears
the odometer, by design of the route: the next log overrides it.

| run | bounds | shows |
|---|---|---|
| `timeline` | 1 event, 2 stations, 2 requests, one mileage, DOCUMENT and SALE | `EventInStep`, `DerivedInStep` and the types. Two stations are what an update moves an event between; two requests meet, or race through one event. |
| `timeline_odometer` | 2 events, 2 mileages, 2 requests | `OdometerInStep`: two logs have a largest one, and requests about two events overlap at the odometer without tearing the events. |

### Accounts, sessions and tokens

`Sessions.tla` (the table, rotation, revocation) and `Accounts.tla`, which extends
it, model `sessions.service.ts`, `users.service.ts`, `tokens.service.ts` and
`auth.service.ts` as one specification. A refresh token is a JWT that names its
session and the second it was issued in; two of one second are the same string, so
a token stands for that second.

| handler | actions |
|---|---|
| `register`, Google | `OpenRegister`, `Register`; `OpenGoogle`, `GoogleRegister`; then `CreateToken` (the mail to verify), `CreateSession` |
| `login` | `OpenLogin`, `LoginRead`, `LoginReset` or `LoginFail`, `CreateSession`; `LockEnds` |
| `refresh` | `OpenRefresh`, `RefreshRead`, `RefreshWrite`, `RefreshAnswer`; or `RefreshReuse`, `RevokeFamily` |
| log-out, revocation | `OpenRevoke`, `RevokeWrite`; `RevokeOthers` |
| links that are mailed | `OpenResend`, `OpenForgot`, `OpenChangeEmail`, then `CreateToken` |
| links that are opened | `OpenVerify`, `VerifySpend`, `VerifyMark`; `OpenReset`, `ResetSpend`, `ResetWrite`; `OpenConfirm`, `ConfirmEmail`, `ConfirmSpend` |
| `changePassword`, `deleteAccount` | `OpenChangePassword`, `ChangePassword`; `OpenDelete`, `SoftDelete`, `DeleteRevoke` |

`Tick` is the clock. `Fail` ends a request anywhere, also between a write and its
answer: that is the lost answer, after which the client repeats the refresh with
the token that was just rotated, and is taken for a thief. A link that has
expired, or a session that has, is a refusal, and a request that is refused does
not open. What overlapping requests do to each other is as the code has it: two
refreshes of one session leave its browser with either token, a link opened twice
works twice, a log-in that overlaps the deletion keeps its session. The
properties say how far that goes: each is exact for requests that do not overlap
and bounded by their number otherwise.

| run | bounds | shows |
|---|---|---|
| `accounts` | 2 accounts, 2 addresses, 2 sessions, 2 links, 2 requests, 3 instants, 2 failures until the lock, at most 3 attempts | the types, `CookieInStep`, `BoundedGuesses`, `DeletedIsLoggedOut`, `VerifiedMeansProven`, `TokenSpent`, `RevokedForGood`. `Mixes` splits the routes into sets that share rows, and a behaviour sticks to one of them: all routes together would be too many states. The proofs hold for any `Mixes`. |

### Rate limit

`RateLimit.tla` is `AuthRateLimitGuard`: `canActivate` is synchronous, so each
request is one step, `Allow`, `Refuse` or `RefuseBlocked`; the sweep at the end of
a request that was let through is part of it (`Swept`). `RateWindow.tla` is the
promise, for each key on its own: so many requests in a window, nothing while a
block lasts, then a new window; no request to another key, and no sweep, ever
changes that. `ImplementsWindow` of run `services` checks the refinement with a window
of 2 ticks, a block of 4 and entries retained for 2, the least the assumption
allows, so that the sweep meets windows and blocks that are still open.

### Vehicles, media, milestones, tire history

| module | code | actions |
|---|---|---|
| `Vehicles` | `vehicles.service.ts`, and what others add to a vehicle | `Create`; `OpenUpdate`, `OpenSpecs`, `Write`; `OpenFill`, `Ask`, `Write` (specs by the model); `OpenAdd`, `Add` (any row another handler adds after `VehicleAccessGuard`); `OpenDelete`, `DeleteRows` for each table, `SoftDelete`; `CloseWorkspace` |
| `Media` | `media.service.ts` | `OpenUpload`, `Store`, `Insert`; `OpenSetPrimary`, `Clear`, `Flag`, `Sync`; `OpenDelete`, `Destroy`, `DeleteRow`; `Fail` |
| `Milestones` | `milestones.service.ts` and its cron | what is counted: `StoreEvent`, `StoreUnchecked`, `UpdateEvent`, `DeleteEvent`, `DayPasses`, `Repurchase`; the checks: `OpenCheck` (after `StoreEvent`), `OpenCron`, `CountDays`, `Find`, `CronFind`, `Evaluate`, `Create`, `Done`, `Fail`; `OpenLevels`, `AnswerLevels` |
| `TireHistory` | `tires.service.ts`, `getHistory` | `OpenHistory`, `ReadOdometer`, `Reply`; `Record`, `SetOdometer` |

`DeletionTakesAll`: a deleted vehicle leaves nothing in the six tables but what was
added while its deletion was under way (`late`). `PhotosInStep`: of requests that
do not overlap, the flagged photo is the vehicle's primary one, and never two; of
those that do, their number bounds the primary photos. `RowHasImage`: no row shows
an image that is gone, except during a deletion or after one that failed halfway
(`half`). `DrivenOnce`: the periods of a tire never count a
kilometre twice. An INSTALL after an INSTALL loses the first one's kilometres,
and the changes of events that were deleted are still read.

*Milestones* is about one vehicle and one group of levels: one whose total `evaluate`
computes from the tables (`"counted"`), or the days of ownership that the cron counts
(`"owned"`). Only `createEvent` runs a check, some awaits after it stored the event and
its log, and not for a sale. An update or a deletion of an event, a sale, the service
event of `markAsDone` and the date of a purchase move the total with no check, upwards
or downwards; the mileage is the largest log less the mileage at registration, so the
total may be below 0. So a level can be passed and stay open until the next event is
created, and a level that is awarded can lie above the total: neither is an error of the
model. What holds is said with three history variables: `highest`, the highest total
there was; `lowest`, per check, the lowest since it read the definitions; and `granted`,
the highest of these among the checks that came to their end.

`AwardsInStep` has three parts. `AwardsBounded`: no level has more rows than there are
requests. `LevelsReached`: every level up to `granted` is awarded, although each was
decided on a total of its own and others awarded meanwhile, and no level is that was
never reached. `LevelsShown`: the level shown as current was reached, the one shown as
next was not granted when the awards were read, and the progress needs clamping only
where the total, read one await later, fell below the current level or rose past what
was granted. The next level may lie below the current one; the percentage is computed
as the code does then, with a negative divisor.

`Garage.tla` composes these with Tires and, with one request, Workspaces: the
components share no tables, so they are explored one after the other, and `part`
says which one a behaviour is about. Its properties are those of the parts, and
the theorems of `Garage_proofs` speak of the same specification. Run `garage`
(`MCGarage.tla`) checks them. Media: 2 photos of a vehicle and a profile, uploaded
by an admin or somebody else, 2 requests. Milestones: the levels 1
and 2, totals from -1 to 2, 3 rows, 2 requests: a total can be below 0, at either level
or below both, and a check can meet another, a change, or a failure; levels further
apart, where the percentage is rounded, are left to the proof. Vehicles: 1 vehicle, 2 rows, 2 requests. History: 3 changes on 2
dates with 2 mileages: an install, a removal and one out of order. The other parts
are in the tables above.

### Notifications, conversations, stations

| module | code | actions |
|---|---|---|
| `Notifications` | `notifications.cron.ts`, `notifications.service.ts` | the job in each process: `Begin`, `Log` or `LogFails`, `Mail`, `Mark` or `MarkThrows`, `MarkFailed`, `End`, `Crash`; others: `SetDue`, `TurnOff`, `Delete`, `Choose` (thresholds); `Tick` |
| `Conversations` | `ai-conversations` | `CreateConversation`, `VehicleGone`; a message: `OpenMessage`, `SaveQuestion`, `ReadHistory`, `Stream`, `SaveAnswer`, or `SaveAnswerFails`, `SaveError`; `Fail`, `Crash` |
| `ServiceStations` | `service-stations.service.ts` | `OpenCreate`, `Insert`; `OpenUpdate`, `Update`; `OpenToggle`, `Toggle`; `OpenDelete`, `Delete` |

`MailedOnceADay` and `RemindedBeforeDue` pull in opposite directions: the row is
inserted before the mail, so that a crash never mails twice, and a row that cannot be
inserted must not keep the job from the others. Only two processes that run at the same
instant may mail twice (`met`). Time is counted in half days, since the code
compares days and the job runs at nine. `EveryTurnAnswered`: each stored question
gets exactly one answer or error message, except after a crash or a failed read.
Two questions in flight share one history; what is sent to the model holds the
question twice when the history has it already. `HistoryIsRecent` is violated (run
`conversations_history`). `ToggledInStep`: a star follows its clicks unless two overlap.

### What clients are shown

| module | code | property |
|---|---|---|
| `ReminderProgress` | `attachMaintenanceProgress` | `DueLooksDue`: due by mileage shows 100 %, due by date at least 93 %, since months count 30 days |
| `Pages` | `TimelineRepository.findMany`, `findManyByUser` | `NoneMissed`: whoever follows the pages sees every row, whatever is added meanwhile, unless rows move, go, or agree in both sort keys |
| `Stats`, `Calendar` | `stats.service.ts`, its repository and `stats-period.util.ts` | `ReportAddsUp`: total, categories, months, stations and the extreme months agree; `PreviousPeriodPrecedes`: the period compared with ends where this one begins, except where a day does not exist in the earlier month |
| `Dashboard` | `dashboard.service.ts` and the cards of `vehicles.service.ts` | `DashboardTells`: whatever changes meanwhile, no overdue interval hides behind one that is not, a renewed document is not reported, and a reminder left out of the list gives way only to what the order puts first (`GivesWay`); the figures agree where the tables stood still |

Some of what the dashboard does is in the model as the code has it: a document
without a date sorts first and shows as missing; the monthly expenses of a card count
purchases and future events, those of the summary do not, and what makes the
difference (`LeftOut`) may have a negative cost; reminders overdue by mileage come after
all that have a date, however distant, so a full list of these hides them. A cost may be negative: `@IsDecimal` of the
DTOs lets a sign through, and nothing else looks at it. Then a part may cost more than
the whole, so that fuel, stations and months are parts of the total is promised only
where no cost is below 0; the sums themselves agree anyway, and one of the rows of
`MCServices` has a negative cost.

`ReminderProgress` counts days from a table of the days before each month
(`DaysBefore`), and `Calendar` names the valid dates (`Days`): what is stored is
one of them.

`Services.tla` composes these, the three above, the rate limit and Tires with one
request, again one after the other, and `Services_proofs` and `Reports_proofs` prove about it
what run `services` (`MCServices.tla`) checks. Notifications: 2 processes, 2
reminders, 4 half days. Conversations: 1 of 2 users, 2 messages in flight, a window of
2 and 3 questions, more than the window holds. Pages: 3 rows on 2 dates, pages of 1
and 2. Dates lie around the ends of months and years and on 29 February. Statistics and
dashboard: 2 rows chosen from the kinds that the queries tell apart, one change
during the answer.

*Fairness* (`FairSpec`, for `RequestsEnd` of Maintenance only). Strong fairness of the steps
of a request: Node runs every callback that is ready, and PostgreSQL grants a
row lock to its waiters in turn, so that a request that can go on again and
again does. Weak fairness of `DeadlockVictim`: `deadlock_timeout` ends every
deadlock. Nothing is assumed about requests that arrive, nor that any fails.

## 4. What is proved

Eight modules prove theorems with TLAPS, for any constants that satisfy
`ConstantsAssumption` of the component (`LimitsAssumption` of RateLimit,
`GarageAssumption` and `ServicesAssumption` of the compositions, which are the
assumptions of their parts). These say that null is no id, that the bounds are of the
right type, in Timeline that rows of different tables have different ids, in
RateLimit that a window is no longer than the block and the retention, in
ReminderProgress that a stored interval is at least one kilometre or month (`@Min(1)`
in the DTOs) and a stored day is a valid one, in TireHistory, Stats and Dashboard that
what is null is told from what is not and that costs, dates and mileages are integers
where there are any, and in Dashboard that a year is made of whole months. Nothing else
is assumed about the number of requests or rows, except that what is counted or summed
up is finite and that Accounts has a request.

| module | theorems |
|---|---|
| `Workspaces_proofs` | the types, `CreatorIsOwner`, `OneMembershipPerUser`, `JoinConsumesInvite`; `Contained` and, for one request, `AcceptFinds` |
| `Maintenance_proofs` | the types, `DisabledIsSilent`, `OneReminderPerInterval`, `ChangesAreSynced` |
| `Tires_proofs` | the types, `OneSetPerRequest`, `HistoryIsKept`, and for one request the refinement of `MountedSet` |
| `Timeline_proofs` | the types, `OdometerInStep`, `EventInStep`, `DerivedInStep` |
| `Accounts_proofs` | the types, `RevokedForGood`, `CookieInStep`; `VerifiedMeansProven`, `BoundedGuesses`, `TokenSpent`, `DeletedIsLoggedOut` |
| `Garage_proofs` | `PhotosInStep`, `RowHasImage` (Media), `AwardsInStep` (Milestones), `DeletionTakesAll` (Vehicles), `DrivenOnce` (TireHistory), `StaysInWorkspace`, `AcceptFindsWorkspace` (Workspaces) |
| `Services_proofs` | the types and the refinement of `RateWindow` (RateLimit), `EveryTurnAnswered` (Conversations), `MailedOnceADay`, `RemindedBeforeDue` (Notifications), `ToggledInStep` (ServiceStations), `PreviousPeriodPrecedes` (Stats), `DueLooksDue` (ReminderProgress), `NoneMissed` (Pages), `ImplementsMountedSet` (Tires, one request) |
| `Reports_proofs` | `ReportAddsUp` (Stats), `DashboardTells` (Dashboard) |

In the two compositions each part has an inductive invariant of its own, over its own
variables. `StepOfPart` says that a step is a step of the part a behaviour is about or
leaves it alone, and `PartsInductive` puts the invariants together.

*Workspaces.* `CreatorIsOwner` is not inductive: a demotion or a removal writes after a
role it read several awaits earlier. What makes it so is that such a request never holds
the creator's row, since that row was OWNER when the request read it and no step changes
it from OWNER. `OneMembershipPerUser` needs the unique index across open transactions:
of two that insert the same membership, the second waits, so no two stand past
`AcceptInsert` for one account and workspace. `JoinConsumesInvite` needs that an accept
past its first statement holds the row lock of its invite, so the invite cannot be
cancelled under it, and that what it read of the invite has not changed. These facts
about requests in flight are the other conjuncts of the inductive invariant, and the
theorem of each property follows from it. `Contained` needs of each request that every
row it read, and holds over the next await, is one of the workspace its guard looked at.
`AcceptFinds` needs a single request, and of the tables that a pending invite is one of
a workspace that is there: deleting a workspace takes its invites first, and nobody else
can invite meanwhile.

*Maintenance.* `OneReminderPerInterval` rests on the row lock of the interval:
the update is the first statement of every transaction that syncs, so at most
one request stands between looking for the reminder and inserting it
(`AllApart`), and what it found is still all there is (`AllKnow`).
`DisabledIsSilent` rests on the same: the row that decides and the reminder
that is written commit together, and every reminder of an interval is the one
the sync found.

*Tires.* `OneSetPerRequest` bounds a number, and a count is not inductive. What
is: every mounted set of a vehicle can be blamed on a request of its own, the
last that mounted it (`Blames`, an injection), and a request in the middle of a
mount on that vehicle has met the set it is blamed for: it is among the rows it
has demoted, is about to demote, or mounts. When the mount ends, the request is
to blame for the new set only, so the injection survives; the bound follows
with the pigeonhole principle. `HistoryAlwaysKept` rests on the rows a
vehicle's deletion has locked staying without history until it commits.
`Refinement` shows, for one request, that each step is a step of `MountedSet`
or a stutter: the same injection, into a set of one, says that at most one set
is mounted and that a mount has met it, and every other step touches the tires
of one vehicle and mounts nothing (`StepEffect`).

*Timeline.* `OdometerInStep` speaks of states in which no request uses the odometer, so
it says nothing of what happens in between. The inductive invariant does. Two requests
that use one resource have torn it (`Apart`), since each arrival compares what it uses
with what is in flight. A request that has torn nothing at the odometer is therefore
alone there (`Owns`), so what it read of the logs is still true when it writes, and what
it wrote is still true when it answers (`OdometerAt`). Only such a request takes the
odometer back from what is torn; all others leave it torn, and then the property says
nothing. `EventInStep` and `DerivedInStep` use the same two facts for the other
resources, and differ in what the lone request knows between its writes: `EventAt` says
how far the log and the reminder of its event have come, `VisitAt` which of its stations
it has counted and what the count is worth, `InfoAt` whether the vehicle has been told
of the purchase or sale yet. An event that `Promise.all` removes in two halves needs
both halves followed, and the failure of either.

*Accounts and sessions.* What a request read before an await need not be true when it
writes, but it must still exist: that is `Known`, the part of the invariant of
`Accounts_proofs` that says of each step which row its request holds. `Revocation` needs
no more: the write of a refresh updates hash and token only, and no other write names
the status of a session that was there. `CookieInStep` is inductive together with two
facts (`CookieInv`): of a session that is not torn at most one refresh is under way, and
between its write and its answer the hash is the one it answers with.

*Credentials.* Each of the four theorems has an invariant of its own.
`MailInv`: as long as an address of a user is not proven, every link that could
verify it, and every request that holds such a link, was made for that address;
so a change of address, which leaves the old links alone, gives them nothing to verify.
`GuessInv` counts the guesses in flight that have read too low a count to lock:
with the failed attempts stored they are at most `MaxFailed - 2 + |Requests|`.
`SpentInv` adds the requests that hold a link to the uses of it: the sum never
exceeds the number of requests, since a link once used is opened no more.
`CloseInv` does so with the sessions of a deleted account and the log-ins under way,
which are fewer than the requests as the deletion itself is one. `Counts` is the
lemma about cardinalities that these rest on.

*Rate limit.* An entry stands for a window that is open, a block that lasts, or
nothing (`Quota`). The sweep may drop only entries that stand for nothing, which
is where `Window <= Retention` is needed and where the step of the code that also
sweeps maps to the step of `RateWindow` that does not.

*Media.* The photos that are primary at a vehicle or profile, and the requests that have
cleared what was primary there and are about to set theirs, are together no more than
the requests (`PhotoCounted`): clearing takes all the former away before it adds one of
the latter. A request that none met is alone at what it changes (`PhotoInOrder`), so
what it has cleared, flagged and synced so far is still true, and at rest flag and
pointer name one photo. `RowHasImage` needs that the image of an upload is stored, in no
row, and known to no other request until it is inserted (`PhotoHolds`), and that a row
whose image is gone is one of `half`.

*Milestones.* The rows of a level and the requests about to insert one are no more than
the requests (`AwardBounded`): a request decides to insert only after it found no row.
A check in flight has decided, for each
level it is through with, that it is awarded or lies above the lowest total since the
check began (`AwardDecides`); a total that falls lowers that, a total that rises leaves
it, and an award is never taken back. When it ends, that holds of every level, which is
what `granted` says (`AwardReached`); a check that fails says nothing. No level is
awarded that was not reached, since a total it was compared with was at most `highest`
(`AwardSound`). The level shown as next is the least that is not awarded
(`AwardNextIs`), the current one the greatest that is, and the rounding stays within
0..100 between them (`AwardRounding`).

*Vehicles.* A deletion goes through the tables in order, and what it has been through holds
nothing but rows it has taken and those added since it began (`DeletionCovered`). At the
end that is all six.

*Conversations.* A turn is open while a request holds it, or when it was lost; an open
turn has no answer, and a question whose turn is not open has exactly one (`Answered`).
It is inductive together with: no turn is used before its question (`Numbered`), and who
works on one does so alone (`AloneOnTurn`). What the prompt holds, and in what order,
does not matter to it.

*Notifications.* As long as no two runs met there is one run (`OnceInv`): what it still
has to do, or is about to mail, was not mailed today, and of what was there is a row of
today or the reminder is gone, so no later run takes it again. For `RemindedBeforeDue`,
of the two half days before a reminder is due one is that of the job; `InTimeInv` says
that while that job runs the reminder is told, excused or still on its list, and
afterwards told or excused.

*Stations.* A toggle that met no other is alone at its station and will write the negation
of the star that is still there (`StationInStep`).

*Calendar.* For `PreviousPeriodPrecedes` only the lengths of the months are used
(`MonthLength`): the day before a first day is the last of the month before, and
`setMonth` keeps the day of the month or carries it over (`KeepsDay`, `TooLong`), by
cases on the kind of period. For `DueLooksDue` a month must be compared with thirty
days, for any number of months: its first day lies 28 days at least after that of the
month before, within a year from the table and over years from the count of leap days
(`ManyMonths`), and a date that is not after another has no greater number
(`NumbersFollow`). So a service due by the calendar is due after `28 k` days at least,
which of `30 k`, rounded, is 93 %.

*Pages.* Where no two rows have the same keys, the place of a row in a page is the number
of rows that come before it (`Ahead`, `Position`), and that only grows while rows are only
added. A reader that has read the first `n` places has shown all that it found at first with
fewer than `n` ahead (`ShownSoFar`), and it stops only when `n` is all there are
(`PagesLeft`). That a list with each row in order with the next is in order throughout
wants induction; it follows from the least place where it were not (`OrderedThroughout`).

*Tire history.* The periods are what a loop over the changes has made at its end, in the
code and in the model (a fold). What a fold computes is shown here without an induction
theorem: the fold of a finite set is the one function that satisfies its recurrence
(`FoldExists`, `FoldUnique`; where two such functions differed, or none existed, there
would be a least size at which, `LeastNatural`). So the fold over the changes has a value
for each prefix of them (`FoldAlong`), and what is true of nothing and kept by one more
change is true at the end (`PrefixInduction`). `Paired` is what is true of the first
`k`: there is one period for each mount among them that has come to its end, and their
kilometres are no more than the way driven after these mounts, or just that where all
were read off. The way driven is no more than that from the first change on, since
readings that never fall have no distance below 0 (`DrivenAtMost`).

*Sums.* `MapThenSumSet` adds up a set in the order in which CHOOSE takes its elements;
the database in one of its own. `Sigma` is the former, and `SumOfAny` says that the
order does not matter: any element may come last, since of the sets for which it may not
there would be a smallest. From it follow the sum of two parts (`SumSplit`), of what is
left of one (`SumOfPart`), of groups (`SumOfFibres`, `GroupSums`), the bounds by the
least and largest (`SumBounds`), and, where nothing is negative, that a part is no more
than the whole (`SumOfLess`).

*Reports.* A report is made from eleven queries. As long as nothing changed since the
first, each answer is what is in the tables now (`AnswersStand`), so they are answers
about the same rows: categories and months group the same ones, fuel and stations some
of them. That is the whole invariant (`ReportInv`); `ReportPromises` is arithmetic. The
order of the categories matters only at the cut: what is left out comes after what is
shown (`TopOf`), for which a list in order from each row to the next is shown to be in
order throughout (`Throughout`).

*Dashboard.* `DashInv` has two halves. Whatever changes, what a step has made follows
from what the earlier steps have read (`AnswersFollow`): an interval is due just when
fewer than no months are left by one of its yardsticks (`LeftType`), so what is picked
as the nearest is due if any is (`PickDue`); what the list of reminders cuts off comes
after what it shows in the order of urgency, which is transitive (`RankOrder`); a
document that is shown is the last of its kind (`NearestTells`). As long as nothing has
changed the figures are sums and counts over the tables as they are (`FiguresStand`).
That the month is part of the year needs the start of the year to be no later than
that of the month (`StartsInOrder`), which is where a year of whole months comes in. An
insurance that is shown as expired expired at the latest of its dates (`Insured`), which
is one of the documents that were read, so the nearest one is no later.

*Tires in `Services`.* The refinement proved in `Tires_proofs` is taken over by an
instance of that module (`TP`), as are the theorems of `Workspaces_proofs` in
`Garage_proofs` (`WP`): a step of the part is a step of the instance.

Only model-checked: `HistoryIsRecent` and the other properties of the violated runs,
which do not hold, and `RequestsEnd`, since liveness and the fairness it needs are out of
the prover's reach. Every invariant and every action property of the passing runs is a
theorem for all values of the constants.

## 5. What the violated runs mean

Each of them checks what a test of the repository, a comment, or an assertion in
the code says. They are listed with the lines in `PROJECT.json` under
`findings`. `workspaces_delete_race` is a decision on rows that another request
changes before it is acted on: what the test says holds for one request at a
time only. `tires_foreign_install` (ids of the path
and of the body that are never compared), `tires_member_delete` (a column
that the repository does not write) and `conversations_history` (the 50 messages
read are the first ones, and the comment says the last) need no second request.

The models contain more interleavings of the first kind, for which no run is
kept: two pending invites to one address, a member removed just after becoming
OWNER, an invite created in a workspace that is being deleted, an update of an
interval that writes back what it read, a reminder re-created between the two
statements that delete its interval, an odometer below the largest log, a tire mounted while it is being
deleted, one created while its vehicle is. For most of them a weaker property
holds and is checked: the creator stays OWNER whatever races
(`CreatorIsOwner`), a vehicle has no more mounted sets than requests
(`OneSetPerRequest`), a tire with history is never deleted (`HistoryIsKept`).

## 6. What could come next

1. Rounding: money is added up in whole units here, in the code as `Decimal` and then
   in `Number`; how far two figures of one answer may then differ is not stated.
2. Composition of `Vehicles` with `Notifications`: how long reminders of a vehicle
   in a closed workspace go on being mailed.
3. A promise of Media and Milestones stated abstractly, as `MountedSet` is for Tires.

## 7. Not modelled

Mail, configuration, audit log, cookies, crypto, the HTTP throttler, pipes and
interceptors keep no state that a property could be about; neither do DTO
validation, mappers and the seed script. Profiles, the names of things, and the
settings of a workspace are stored and read back, and decide nothing. The AI
provider and the image service are external, and modelled by what their callers
see. The generated Prisma client is taken by what its calls do. The liveness of
everything but Maintenance is left out: no handler there waits for another, and
a row lock of a single statement is always released.

Some behaviour is in the models without a property, since nothing true and worth
saying could be said of it: two pending invites to one address, an
account deleted while an invite to it is accepted, a reset link spent by a request
that then fails, a milestone row doubled by two checks (`AwardsInStep` bounds the
number), a reminder of a vehicle whose workspace was deleted.
