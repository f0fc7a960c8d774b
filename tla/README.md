# MewMail: a TLA+ verification project

MewMail receives mail and serves it over HTTP.  Postfix accepts SMTP for a
catch-all domain and pipes every message to `postfix/ingest-mail`, which POSTs
it to the Go API; the API stores it in SQLite, notifies a webhook, and lets
clients read, keep, preview and delete emails.  A background cleaner deletes
what is past its retention.

This directory holds TLA+ modules of that system, the TLC configurations that
check them on small instances and theorems about them checked by TLAPS.

    tlc -workers 2 -config links.cfg MCEmailAPI     # one run
    tlc -workers 2 -config life.cfg Server
    tlapm EmailAPI_proofs.tla                       # all proofs of a module

## 1. Inventory

| Component | Source | State | Operations | What makes it correct |
|---|---|---|---|---|
| Email store | `api/internal/database` | table `emails` (kept flag, `opened_at`, two link tokens), `attachments`, AUTOINCREMENT | one SQL statement each: insert, consume a token, track an open, keep, unkeep, new token, delete, delete expired | statements are atomic and conditional; tokens never duplicated; ids never reused |
| Handlers | `api/internal/router`, `api/internal/mail/ingest.go` | the local variables of each request | `ingest`, `preview`, `get`, `raw`, `head`, `keep`, `unkeep`, `previewToken`, `deleteOne`, `deleteMany` | answers agree with the table although other requests run between two statements |
| Process life | `cmd/server/main.go`, `database/schema.go` | boot, serving, draining, closed; the columns of the table | open and migrate, serve, SIGTERM, drain for 10 s, close, exit, restart | an interrupted boot is resumed by the next; a shutdown ends; links survive upgrades |
| Cleaner | `api/internal/cleaner` | round counter, ticker | `clean` every hour, VACUUM every 24 rounds | never deletes a kept email, does delete the rest |
| Rate limiter | `api/internal/middleware/ratelimit.go` | map address -> (count, end of window), at most 1000 | `allow`, `evictExpired` | bounded table, fair refusals |
| Credentials | `api/internal/auth/credentials.go`, `cmd/server/main.go`, `postfix/entrypoint.sh` | `/data/.credentials`, the keys in memory, Postfix's copy of the internal key | load or create, write, print; copy at Postfix start | the printed keys work after any restart; Postfix can always deliver in the end |
| Delivery | `postfix/ingest-mail`, `postfix/main.cf`, `ingest.go` | Postfix queue, HTTP request, table | attempt, post, store, answer, defer, bounce | accepted mail is stored; duplicates only when an answer is lost |
| Webhook | `api/internal/webhook` | goroutines in flight | post with a 10 s limit, no retry | events at most once, none lost without a trace, handlers never wait |
| Queries | `emails.go`, `router.go` | - | list, latest, wait (poll loop), stats | wait returns what arrives, order, limits |
| Web UI | `router/static/ui` | inbox list, selection, busy flag, wait loop, API key in the browser | load, select, keep, delete, wait | one wait loop, the list catches up with the server |
| Authentication, plumbing, parser, config, docs pages | `auth/middleware.go`, `middleware/*`, `mail/parser.go`, `config` | none | - | pure or static |

How they interact: Postfix calls the API over HTTP and shares the credentials
file with it; the handlers and the cleaner share the table through ONE pooled
connection (`SetMaxOpenConns(1)`); handlers and cleaner hand events to the
webhook's goroutines; every request passes the rate limiter's mutex and a 30 s
context.  `main` waits for the requests when it stops, but neither for the cleaner
nor for the webhook's goroutines, and closes the database under them.

What is hard: a handler is several statements, and the connection is released
between two of them (interleaving); any statement can fail half-way through a
handler (partial failure); the link tokens travel through the table, mails and
requests in flight (protocol); Postfix retries what it is not told succeeded
(at-least-once); files, mail and a half-done migration survive crashes in the
middle of things; the newest email by time is not the newest by id.
PROJECT.json lists each hazard at its line.

## 2. Modules

### EmailStore

The table.  One operator per SQL statement that changes rows
(`InsertRow`, `ClearPreview`, `SetPreview`, `SetKept`, `SetOpened`,
`DeleteRows`), and the conditions of the WHERE clauses (`HoldsPreview`,
`Unopened`, `IsUnkept`, `Expired`, ...).  SQLite makes a statement atomic, and
the transaction of `InsertEmail` is one commit on one connection, so each is
one step.  A token is the number of the draw it came from (16 random bytes do
not repeat); the content of a message is reduced to whether it has attachments;
time is a clock in whole units, as in the RFC3339 text of the columns.

### EmailAPI

The handlers and the cleaner around that table.  `pc[r]` is the database
statement that request `r` runs next, so every interleaving of handlers,
statement by statement, is a behaviour; `Start*` picks the route and its
parameters (a link may carry any token drawn so far, current, spent or of
another email), the other actions bear the names of the functions they model.
`Fault` is a statement that fails - the 30 s context, the client going away, an
error of SQLite - and follows the code's error path: 500, except behind
`trackFirstOpen`'s extra read, where the failure is swallowed.  `CleanStart`
computes the cutoff and `DeleteExpired` applies it later, because the statement
waits for the connection in between.  Requests refused before any statement
(bad id, no API key, empty body) change nothing and are not modelled.

History variables: `served` (views per token), `promised` (emails whose keep
was answered with success and not opposed), `purged` (emails the cleaner took).

### OneTimeLinks

The abstract specification of preview links: a token is unborn, good, taken by
one request, then shown or void, and never goes back.  EmailAPI implements it
under the mapping `stage`: a token of a row is good, one that a request consumed
and has not answered for yet is taken, a served one is shown, any other drawn
token (replaced, deleted, or spent on an error) is void.  `PreviewsOneTime` is
this refinement.

### RateLimiter

`allow` is one critical section, so one step; its five outcomes are the
actions `FirstVisit`, `NoRoom`, `NewWindow`, `Counts`, `OverLimit`.  `admitted`
is a history, per address the instants of the requests that were let through in
their order, against which the buckets are compared: that few requests fit into a
stretch of time is that requests with enough others between them are far apart.
`refused` flips, per address, at each refusal, so that `RefusedForCause` judges
every one of them, also the second and the third in a row.

### Credentials

The boot of the API is `Load`, `Truncate`, `Write`, `PrintKeys`; `apc` is what
the process does next, `mem` the keys it holds.  `os.WriteFile` truncates before
it writes, so the two are separate steps and a `Crash` or `WriteFails` between
them leaves a file that is `there` but not `whole` (not JSON).  A key is the
number of its draw, 0 an absent one.  `StartPostfix` is `ingest_refresh_token`
of `entrypoint.sh`: it reads `internal_key` with sed, so it takes a key also from
a file that is cut short.  `Rotate` and `ReloadPostfix` are what `docs/` tell the
operator to do.  `printed` and `retired` are histories.

### Delivery

Extends Credentials with Postfix's queue (`mq`), the recipients of each message
(`to`) and the ingest requests (`ingest[h]`: the statement the handler is at, the
token it was sent, whether the client still waits).  `Attempt` is a pipe that runs
`ingest-mail`: one POST, under the first recipient only.  `Respond` is an answer:
heard if the client is there, turned into exit status 0 (201) or 75.  `taken` is
the gap between exit 0 and the removal from the queue.  The crashes of
Credentials are composed with what they do to requests and pipes
(`APICrashes`, `PostfixStops`, `StackRotates`).  `cuts` counts, per message, the
attempts that ended without an answer.

### Transfer

The abstract specification of that whole way: a message is unsent, pending, then
delivered or returned; only mail with a copy is delivered, and a copy is stored
only while `copies <= cuts`, so every copy but one is paid for by an attempt that
was cut off.  Delivery implements it under `fate` (the queue file: a message that
a pipe holds is pending) and `copies` (its rows); handlers, keys, files and
containers are gone from it.  `AtLeastOnce` is this refinement.

### Migration and Server

`Migration` is `database.Open`: the statements of `schema.go` in their order, each
committed on its own, with `phase` the statement that comes next.  It starts from
the tables earlier versions left: any set of columns without `keep_otk`, each old
email with its link unused or used.  A token is again the number of its draw.

`Server` extends it with the rest of `main`: `Serve`, `SigTerm`, the drain that
ends when every request has (`ShutdownReturns`) or after 10 s (`ShutdownTimesOut`),
`Exit`, `Kill`, and `Start` by Docker.  Beside it run the requests that hand over
events (`ingest`, and a first opening), the cleaner with its ticker, its count of
rounds and VACUUM, and one goroutine per event (`posts`).  A statement of a request may
fail at any time (`StatementFails`) and can only fail once the database is closed;
a round's DELETE (`DeleteFails`) is then not counted, while a VACUUM that fails
(`VacuumFails`) leaves the count as it is, so that the next comes after a whole
interval.  Which emails a round finds expired is left open here; EmailAPI has the
clock.  `seen` and `dropped` are histories of the events; `hours`, `misses` and
`failed` count, since the last VACUUM that worked, the rounds, those that failed and
the VACUUMs that failed.

### Inbox

The list and the wait loop of the inbox page against `GET /emails`,
`GET /emails/wait` and `DELETE /emails/{id}`.  Every `await` is a request slot
with an "asked", an "answered" (or failed) and a heard state, so answers arrive
late and out of order.  A row's `created` is the second in which its message was
parsed, any one up to the insert that draws the id (`InsertEmail`), so ids and times
may be in opposite orders.  The page's list is the set of ids it shows: the highest
id, the search for an id and the filter do not depend on the order they are drawn
in.  `ListEmails` gives the sets of rows `ORDER BY created_at DESC LIMIT n` may
return; rows of one second come in any order.  A loop slot is one activation of `waitLoop`; its
`aborted` flag is its signal, and `waitAbort` the loop the page's controller
belongs to.  The user may delete any listed email at any time, which is more than
the buttons allow.  Each request may fail; a delete that fails may have deleted its
row or not (`DeleteFails`).

### Watch

Inbox's table with another client: one that follows `docs/api.md`, asks for the
newest email and passes its id as `since_id` to `wait`.  `WaitBringsLater` is about
tables in which no two emails share a second (`NoTies`): SQL leaves the order of those
open, so which of them is the newest would be the planner's choice.

## 3. Runs

The EmailAPI runs use two request slots (symmetric): every hazard listed is a
pair of requests, or a request and the cleaner.  `Ops` selects the routes that
take part, so that each run asks one question with the state space it needs.

| Run | Question | Bounds |
|---|---|---|
| links | tokens in one place, one view per token | 2 emails, so a token can be tried on the wrong one; deletion in between |
| onelink | handlers implement OneTimeLinks; refused links stay dead, keep link survives new tokens, a 500 has a cause | 1 email, 2 new tokens: current, replaced and replacing |
| keeping | promised keeps survive the cleaner; answers show the flag; no false 401 or 404; events once; attachments complete | 1 email with attachments, 2 instants, retention 0: kept or expired at the next instant |
| fair | expired mail goes, every request is answered, the first open keeps its time | liveness; 2 instants, so two opens have different times |
| keep404 | "ok is false if missing" (emails.go:270) - violated | see findings |
| limiter | bounded, less than twice the limit in a window's time, refusals for cause | 3 addresses, 2 buckets, limit 2, window 2, 7 instants: buckets expire, are evicted and refill, three in a row; 7 requests of an address, one more than ever pass |
| upgrade | "the API keeps your existing api_key" (deployment.md:28) - violated | see findings |
| delivery | Delivery implements Transfer; nothing forgotten unless stored, duplicates paid for by lost answers, queued mail is stored or bounced; printed keys last, the API serves what is saved, Postfix's token is accepted, both come up | fresh and upgraded installs, 2 failures, 1 rotation, 2 messages, one of them refused by the parser; 2 handlers, so an attempt can overlap the one before it |
| recipients | "All addresses are accepted" (deployment.md:39) - violated | 2 recipients, see findings |
| inbox | one wait loop, it brings what is new, the list catches up | 2 emails with ids and times in either order, 2 list requests, 2 loops, 2 clicks, 1 failed request of any kind |
| since | "block until new mail arrives" (api.md:80) - violated | see findings |
| life | links survive migrations and restarts, events are seen once or dropped, VACUUM comes as often as its failures allow, a shutdown ends | 1 old email of any version, 1 new one, 2 starts: a boot that is killed anywhere and the boot that resumes it; VACUUM every 2 rounds, 1 failed round or VACUUM |

The credentials' properties are checked in `delivery` and not in a run of their
own: Delivery takes every step of Credentials, so they hold there in the
composition, while mail travels.

Deadlock is not checked where the system may really stop: in `delivery` and
`recipients`, when all mail is done and the bounded failures are used up; in
`inbox` and `since`, when nobody waits for mail; in `life`, when the process has
been started as often as the bound allows.

Bounds.  `MaxMail`, `MaxRegen` and `MaxTime` cap emails, new tokens and the clock;
`MaxFailures` and `MaxRotations` the faults of Credentials and Delivery;
`MaxClicks` and `MaxFaults` those of the page; `MaxCalls` the requests of one address
that pass; `MaxStarts` and `MaxMisses` the starts of Server and its failed rounds and
VACUUMs together.
Each stands as a guard of the action it caps.

Fairness.  EmailAPI: `WF` of each request's next statement (Go runs every
goroutine, and a statement ends: the busy timeout and the request context bound
it); `WF` of `CleanStart` (the ticker fires again and again); `SF` of
`DeleteExpired` (a failing DELETE returns to idle, so weak fairness would say
nothing; the code justifies only that it does not fail for ever).  Credentials:
`WF` of `Boot` and `StartPostfix` (`restart: unless-stopped` in the compose
file).  Delivery: the same, `WF` of `Attempt` (Postfix's queue manager tries
deferred mail again), of `Remove` and of the handlers, and of the reload that
deployment.md:28 asks of the operator after an upgrade.  Server: `WF` of `Main`
only - the steps of `main` end, its drain after 10 s, and Docker restarts it; no
request, round or post need ever end for `ShutdownEnds`.  Inbox: requests are
answered and callbacks run.  Clients, senders, clicks, crashes and rotations are
never fair.  `ComesUp` and `EventuallyStored` are conditional on `<>[]~Broken`: a
credentials file cut short stops the API until somebody removes it.

### Findings

`keep404`: `KeepEmail` updates `WHERE kept = 0`, and when nothing changed reads
`kept`.  If an unkeep commits in between, it reads 0 and returns `ok = false`,
which the handler turns into "email not found".  The comment at emails.go:270
says `ok is false if missing`.  `NotFoundMeansGone` shows that this overlap of a
keep and an unkeep is the only way to a false 404 in the reading and keeping
routes.

`upgrade`: the upgrade of a single-key install rewrites the only copy of the
existing key in place.  An API that stops after the truncation, or whose write fails,
is down with a file that has lost the key, and every later boot fails on the file.
`ExistingKeyKept` is stated for an API that is down: the moment between truncation
and write of an upgrade that succeeds is not counted against it.

`recipients`: `master.cf` hands a message with several recipients to one pipe;
`ingest-mail` reads its first argument and exits 0, so the message is stored for
one of them.

`since`: `latest` and the list take the newest email by `created_at`, which is
drawn when the message is parsed and has whole seconds; `since_id` is compared with
ids, drawn by the insert.  Two messages that overlap may have them in opposite
orders, and a client that passes the id of the newest email is then answered at
once with one that was already there.  In TLC's counterexample the second id was
parsed a second before the first.

## 4. Proofs

Every safety property that a passing run checks, every action property among them
and both refinements are theorems; they hold for all values of the constants:

| Module | Theorem | Property |
|---|---|---|
| EmailAPI_proofs | `TypeCorrect` | `Spec => []TypeOK` |
| EmailAPI_proofs | `TokensInOnePlace` | `Spec => []TokenInOnePlace` |
| EmailAPI_proofs | `OneView` | `Spec => []OneViewPerToken` |
| Answers_proofs | `RefusedLinksAreDead` | `Spec => []UnauthorizedMeansDead` |
| Answers_proofs | `KeepLinksLast` | `Spec => []KeepLinkLasts` |
| Answers_proofs | `NotFoundIsGone` | `Spec => []NotFoundMeansGone` |
| Answers_proofs | `InternalErrorIsFault` | `Spec => []InternalErrorMeansFault` |
| Answers_proofs | `AnswersShowTheFlag` | `Spec => []AnswerShowsFlag` |
| Answers_proofs | `AttachmentsComplete` | `Spec => []AttachmentsUnlessDeleted` |
| Answers_proofs | `FirstOpenIsKept` | `Spec => FirstOpenStays` |
| Answers_proofs | `PromiseKept` | `Spec => []PromiseHonoured` |
| Answers_proofs | `EventsReportedOnce` | `Spec => []EventsOnce` |
| Answers_proofs | `PreviewLinksOneTime` | `Spec => PreviewsOneTime`, the refinement of OneTimeLinks |
| Credentials_proofs | `CredTypeCorrect` | `CredSpec => []CredTypeOK` |
| Credentials_proofs | `PrintedLast` | `CredSpec => []PrintedKeysLast` |
| Credentials_proofs | `SavedServed` | `CredSpec => []ServesWhatIsSaved` |
| Credentials_proofs | `TokensAccepted` | `CredSpec => []TokenAccepted` |
| Delivery_proofs | `NothingForgotten` | `Spec => []RemovedMeansStored` |
| Transfer_proofs | `DeliveryTypeCorrect` | `Spec => []TypeOK` |
| Transfer_proofs | `KeysWhileMailTravels` | the three properties of Credentials, for Delivery's `Spec` |
| Transfer_proofs | `RowsPaidFor` | `Spec => []OneRowPerAnswer` |
| Transfer_proofs | `HandoverIsAtLeastOnce` | `Spec => AtLeastOnce`, the refinement of Transfer |
| Server_proofs | `LifeTypeCorrect` | `Spec => []TypeOK` |
| Server_proofs | `LinksSurviveUpgrades` | `Spec => []LinksLast` |
| Server_proofs | `EventsAccountedFor` | `Spec => []NoEventForgotten` |
| Server_proofs | `EventsSeenOnce` | `Spec => []SeenOnce` |
| Server_proofs | `VacuumInTime` | `Spec => []VacuumKeepsUp` |
| Inbox_proofs | `InboxTypeCorrect` | `Spec => []TypeOK` |
| Inbox_proofs | `OneLoopRuns` | `Spec => []OneLoop` |
| Inbox_proofs | `WaitHearsNew` | `Spec => []WaitBringsNew` |
| RateLimiter_proofs | `LimiterTypeCorrect` | `Spec => []TypeOK` |
| RateLimiter_proofs | `TableStaysBounded` | `Spec => []TableBounded` |
| RateLimiter_proofs | `WindowsKeepDistance` | `Spec => []LessThanTwice` |
| RateLimiter_proofs | `RefusalsHaveCause` | `Spec => RefusedForCause` |

### EmailAPI

EmailAPI_proofs begins with one lemma per statement of EmailStore: what it does to
the row, to the other rows and to the type of the table.

`OneViewPerToken` is not inductive: the second view of a token is prevented
because the token is nowhere else when the first is served.  The inductive
invariant `TokenInv` therefore adds `TokenInOnePlace` (a drawn token is in one row, or
with one request that took it, or spent) and `KeepRoute` (the labels between
a consumed preview link and its view are not shared with the keep route).  The
proof goes through the actions one by one; only `Insert`, `ConsumePreviewOTK`,
`RegeneratePreviewOTK` and `AttachmentsFor` move tokens.

Answers_proofs is about what an answer says of a table that moved on.  Three
invariants are proved by induction, each on top of the one before:

- `AnswerInv` says of each slot what its request knows between two statements, and
  what its last answer still says (`Own`).  Two requests could upset it: another
  one that acts on the same email, and a slot's own next step.  `Evolves` settles the
  first: what no statement by whomever does to a row (an id or a token comes back, a
  keep token, the attachments or a first opening change).  The flag does
  change under a request, so `Contest` records that two opposite requests in flight
  know of each other, and `AnswerShowsFlag` and `NotFoundMeansGone`, which except
  them, survive the step of the rival.
- `PromiseInv` carries a promise from the UPDATE to the answer and beyond: an email
  in `promised` is gone or kept with no unkeep in flight against it, and a keep that
  is on its way to confirm (`Confirming`) has an email the cleaner has not taken.
  Without that last part the answer could promise what was just purged.
- `EventInv` counts an event for the request that still has to report it: one
  request at most is at "notify", or at "openHook", for an email, and then the
  event has not been handed over.

The refinement of OneTimeLinks goes through `TokenMoves`, what any step may do to
tokens: only new ones enter the table, a request's claim is taken from the table, and
only a claim is shown.  `StagesKnown` turns the five stages of the mapping into facts
about table, claims and views, by `TokenInv`; `StagesMove` then needs no
action of EmailAPI any more.

### Credentials

`CredInv` of Credentials_proofs says what the file looks like at each step of a
boot: truncated only when it holds no internal key (`BootShape`), so that a file
with both keys is never written again (`PrintedFull`, `TokenInFile`), which is why
neither a printed key nor Postfix's copy is lost.  `KeyBudget` pays for each pair
of keys drawn with the first start, a failure or a rotation, which bounds the
keys.  All its parts are proved together, action by action, and the four theorems
follow from it.

### Inbox

`LoopInv` of Inbox_proofs adds to `OneLoop` that the loop records are whole;
`StoppedStops` and `StartStep` say what `stopWait` and `maybeStartWait` leave.
`WaitBringsNew` needs to know what the loop asked for, long before the answer:
`AsksAfter` says that every id in the list is at most the `since` of the running
loop, and an answer's id above it.  It is kept because whatever replaces the list
also stops the loop, and what a loop adds to the list it adds for itself alone: by
`OneLoop` no other loop runs whose `since` the new id could exceed.

### Delivery

`MailInv` of Delivery_proofs follows a message from the queue to its answer: a
message that arrived has recipients (`Addressed`), a request at work is for such a
message and is at "answer" only once the row of the named recipient is stored
(`Pending`), and a message that a pipe has taken, or that is done, has that row
(`Forgotten`).  Without `Pending` an answer could remove from the queue what was
never committed.

Transfer_proofs composes the two.  `KeysNextInv` shows that every step of Delivery
is a step of Credentials, uses up one failure, or leaves the credentials alone, so
`CredInv` is an invariant of Delivery and its consequences hold there.  `OneClient`
ties queue and handlers: a message is active exactly while one handler serves it
for a client that waits.  A row is then paid for as follows.  Every handler that
holds a message is served by its client or is an *orphan*, whose client has gone;
`RowsBound` says that rows plus orphans that have not inserted yet stay within the
attempts that were cut off, and one more when the message was answered or its
client's handler has inserted.  Cutting a client off adds one to both sides, an
insert by an orphan moves it from one summand to the other, and a new attempt
starts only when the message is queued again.  The refinement follows: `Insert` is
`Store`, whose guard `copies <= cuts` is `RowsBound`; `Remove` is `Confirm`, whose
guard is `RemovedMeansStored`; every cut is `CutOff`; all else is a stutter.

### Server

`ServerInv` has a part per concern, proved one by one and used by each other:

- `TableInv`: the ids and tokens drawn so far are counted against the rows
  (`LinkInv`, `PurgeInv`), which keeps them within the bounds of the model; the *link* of
  a row - its keep token, or before the split of the columns its only token - is
  the one that was mailed, and no two rows share one.  `Bare`, the rows that have a
  link and no second token yet, is empty from the statement that draws it on; a
  migration that is killed and begun again finds each row in one of those states.
- `BootInv`: no request, round or post before the process serves, or after it.
- `CleanInv`: hours since the last VACUUM that worked are rounds counted plus rounds
  `lost`, with one more while a round is at work (`PaceInv`); lost are the rounds
  missed and, for each VACUUM that failed, a whole interval.
- `EventInv`: `NoEventForgotten`, and `OnceInv`, which makes it inductive: an
  event is in one hand only - of one handler, of the cleaner, of a post, or with the
  receiver - so that handing it on cannot report it again.

### RateLimiter

`TableInv` of RateLimiter_proofs adds to `TableBounded` that the set of known
addresses is finite, whatever the set of possible addresses is: cardinalities
mean nothing otherwise.  `HistoryInv` compares each bucket with the history of its
address (`Counted`): it counts the last requests let through, began with the first of
them, and the request a whole limit before that one is more than a window older.  An
address without a bucket is `Rested`: its last whole limit reaches back beyond the
window, which is what a dead bucket leaves (`DeadIsRested`), evicted or not.
`LessThanTwice` follows when a request is added: the one two limits back is
no later than the one a limit before the bucket.  The bound is tight: two limits less one
may fall within one window.

### Assumptions and what is only model-checked

Assumptions: `BoundsAssumption`, `APIAssumption`, `CredentialsAssumption`,
`InboxAssumption`, `LimiterAssumption`, `DeliveryAssumption` (only that the handlers
are finitely many: orphans are counted), `MigrationAssumption` and
`ServerAssumption`, which TLC evaluates in every run of their modules.  They say that
bounds are numbers and limits positive; `MaxMail` of Migration is positive because a
handler that has no request yet still has an id in its slot.

Model-checked only: liveness (`ExpiredGo`, `EveryRequestAnswered`, `EventuallyStored`,
`ComesUp`, `CatchesUp`, `ShutdownEnds`), since the provers do not reason about ENABLED,
on which fairness rests; and the counterexamples of the four findings, which are
instances.

## 5. Not modelled

The message parser (a message is one it accepts or one it refuses), the address
a request is limited by, the reading of the environment, documentation pages,
logging, headers, the webhook's payload.  The filters, offsets and statistics of the
list, which only read.  Requests that fail before the first statement.  Two servers
on one database (the compose file runs one).  A power loss: a commit that SQLite
reports is taken to last, although `synchronous = NORMAL` may lose the last ones when
the machine, not the process, stops.  Server leaves out preview-token renewal (it
does not touch the keep link) and keeping.  The inbox page's pane for the selected
email, key gate, keep, download and filter box, and the preview page.  That a key
set is never printed if the API stops between the write and the print (main.go:39)
is in Credentials, but no property forbids it.  The pool of one connection: a
statement takes it and gives it back in one step, so a connection that is never given
back, or a `db.Close` that waits for a running statement, has no counterpart.

A few hazards of PROJECT.json have no property, and a note says why: the code behaves
so on purpose (the opened event that is dropped, the email answered without its
attachments because it was deleted), or it is outside the models.

## 6. Plan

1. Done: EmailStore, EmailAPI, RateLimiter, Credentials, Delivery, Inbox's list and
   wait loop, Migration, Server, Watch, the two abstract specifications, and the
   theorems above, which state every safety property of the passing runs.
2. Proofs: a theorem for the composition Delivery makes of the requests' answers
   that no run needs yet (a bounce is never followed by a row of the same attempt).
3. Inbox: the pane of the selected email with its late answers, the one busy flag
   that serves list, keep, download and delete, and the key gate.
