# Verification of the voting application

TLA+ models of the Go backend in `src/Backend` and of the browser code in `src/FrontEnd`
that keeps state over its calls, TLC runs on small instances, and proofs that TLAPS checks
for every value of the constants. Source paths below are relative to `src/`; `internal/`
stands for `Backend/internal/`.

## 1. The system

One Go process serves HTTP and WebSockets, one goroutine per request. It keeps its state
in MariaDB (tables `candidates`, `votes`, `voting_settings`, `custom_email_domains`,
`admins`, `email_send_log`) and in Redis (codes, counters, caches, the mail queue).
Nothing in the process itself is shared but the WebSocket hub. No call uses a database
transaction: **two requests interleave between any two calls**, and every correctness
argument rests on single statements of MariaDB, single commands of Redis, and the
constraints of the tables. The browser is a single-page application: a handler runs up to its
`await`, **and goes on when the answer comes, whatever became of the page meanwhile**.

| Component | State | Operations | Interacts with |
|---|---|---|---|
| Voter endpoints (`handler/vote_handler.go`, `service/vote_service.go`, `service/otp_service.go`, `repository/vote_repo.go`) | Redis `otp:`, `otp_attempts:`, `otp_blocked:`; table `votes` | `RequestOTP`, `VerifyVote` | settings (gate), candidates, mail queue, hub |
| Candidates (`repository/candidate_repo.go`, `handler/admin_handler.go`) | table `candidates`, image files | add, update, delete | `votes` through `ON DELETE CASCADE` |
| Rate limit (`service/rate_limit_service.go`, `middleware/rate_limit_middleware.go`) | Redis `ratelimit:<ip>` | `Allow` before `RequestOTP` | - |
| Voting settings (`service/voting_settings_service.go`, `repository/voting_settings_repo.go`, `handler/voting_settings_handler.go`) | one row; Redis `voting:settings`, no TTL; the clock | `GetStatus`, `IsVotingOpen`, two updates | gate of the voter endpoints; hub |
| Live leaderboard (`ws/hub.go`, `ws/client.go`, `FrontEnd/src/hooks/useWebSocket.ts`) | map of clients, channel `Broadcast`, one channel per client, sockets, screens | `Run`, `ServeWS`, `readPump`, `writePump` | publishers: `VerifyAndVote`, `UpdateSettings` |
| Custom e-mail domains (`repository/custom_domain_repo.go`, `handler/email_domains.go`) | table; Redis set and "warmed" flag | insert, delete, look up, warm | gate of `RequestOTP` |
| Mail queue (`email/email.go`, `email/worker.go`) | asynq tasks in Redis, `email_send_log` | `Enqueue`, worker, retries | codes |
| E-mail addresses (`handler/email_domains.go`) | none | `normalizeEmail`, the built-in list of domains | both voter endpoints |
| Voting dialog (`FrontEnd/src/components/VoteModal.tsx`, `pages/Home.tsx`, `CandidateCard.tsx`) | selected candidate, step, captcha token, calls in flight, the mark in `localStorage` | open, request, verify, go back, close | voter endpoints, mails, live view |
| Administrator sessions (`service/admin_service.go`, `middleware/jwt_middleware.go`, `FrontEnd/src/context/AdminAuthContext.tsx`, `services/api.ts`, `ProtectedRoute.tsx`, `ChangePasswordModal.tsx`) | password hash, JWT cookie, `isAuthenticated`, `loading`, the password dialog | `/me`, login, logout, change password, the 401 interceptor | all administrator endpoints |
| Administrator pages (`FrontEnd/src/pages/admin/Dashboard.tsx`, `components/admin/*`) | lists, forms, dialogs, copies of the settings, busy marks | add, edit, delete a candidate or a domain; save the settings; switch the domain mode | candidates, domains, settings endpoints |
| Captcha, start-up, configuration, migrations, images | none of interest here | - | - |

What makes each of them correct, and what is hard about it:

* **Voter endpoints.** One vote per e-mail and per device; a vote is for the candidate and
  from the device the code was asked for; who was told "recorded" is recorded; failed
  attempts are bounded and forgotten in the end. Hard: checks and insertion are many calls
  apart; the code is read and deleted in two calls; INCR and EXPIRE are two calls; the
  candidate may vanish; replies and unchecked calls get lost; Redis restarts.
* **Candidates.** No vote without a candidate, no acknowledged vote lost. Hard: count and
  DELETE are two statements while the foreign key cascades.
* **Rate limit.** At most `maxReqs` per window; every window ends. Hard: the counter may
  expire or vanish between the calls of a request; EXPIRE may be lost.
* **Settings.** A stale cached copy must be explainable and short-lived; "open" must have
  been true. Hard: read-through fill against write-and-delete, without a TTL.
* **Leaderboard.** The hub never panics nor stalls; a client misses nothing until it is
  dropped, and knows a result as new as any that was built. Hard: bounded channels, a hub that
  drops slow clients, payloads built early and sent late, a snapshot against the first
  broadcasts, two pumps, sockets that break at any time.
* **Custom domains.** The set in Redis agrees with the table, and a voter is judged by the
  table. Hard: row and set are changed in two calls, and reloaded by a pipeline that is no
  transaction, while others read.
* **Mail queue.** A task ends, as a mail or in the log; the number of mails is bounded. Hard:
  attempts that go on after their time-out, calls that fail after they took effect, restarts.
* **E-mail addresses.** One mailbox has one key, and a key is of one mailbox.
* **Voting dialog.** Nobody is told of a vote that is not on record; the vote is for the
  candidate the mail named; a captcha token is sent once. Hard: replies that get lost, come
  late, or outlive their dialog; several dialogs, one stored code; a live view that takes the
  dialog away.
* **Administrator sessions.** The page believes in a session exactly while the cookie is good;
  nobody waits for ever. Hard: the answers of `/me`, login, logout and of any call that ends in
  401 come in any order, may judge an older cookie, and act on whichever page is there by then.
* **Administrator pages.** What is shown is what is stored; a candidate is added once; a save
  changes what was edited. Hard: every change is followed by a second call for the list; calls
  that are given up take effect later; copies of the settings are read once; one busy mark for
  several handlers.

## 2. Modules

| Module | What it is |
|---|---|
| `Election` | Abstract specification: a ballot box and a roll of candidates. `Cast`, `List`, `Withdraw`. |
| `EmailNormalize` | `normalizeEmail`, and the reference it is checked against. |
| `VoteFlow` | Both voter endpoints, call by call, with the TTLs, the gate, the administrator's changes of candidates and the faults. Implements `Election`. |
| `RateLimit` | `Allow`, call by call. |
| `VotingSettings` | Row, cache, clock, the readers and both updates, call by call. |
| `Feed` | Abstract specification: subscribers that read what is posted, in order, from joining to leaving. `Post`, `Join`, `Read`, `Leave`. |
| `Hub` | Publishers, `Run`, `ServeWS`, both pumps, socket and browser. Implements `Feed`. |
| `DomainCache` | Table, set and flag of the custom domains: insertion, deletion, look-up, `WarmCache`, call by call. |
| `EmailQueue` | Tasks, worker, attempts, retries, log. |
| `VoterSession` | The voter's browser over the endpoints (one step each) and the mails. Extends `EmailQueue`. |
| `AdminSession` | The administrator's browser and its session: page, provider, cookie, calls. |
| `DashboardCalls` | The HTTP calls of the dashboard. |
| `ListCard` | A list on the dashboard and its table on the server. |
| `RosterCard`, `DomainsCard` | The candidates and the custom domains, with their forms and endpoints. Extend `ListCard`. |
| `SettingsCards` | The voting card and the mode switch over the one row of settings. |
| `AdminPage` | Composes the three: a behaviour follows one part of the dashboard. |
| `VoteFlowProofs`, `RateLimitProofs`, `VotingSettingsProofs`, `HubProofs`, `DomainCacheProofs`, `VoterSessionProofs`, `AdminSessionProofs`, `AdminPageProofs` | Theorems of the module each is named for; those of `EmailQueue` are at the start of `VoterSessionProofs`. |
| `MCVoteFlow`, `MCVotingSettings`, `MCDomainCache`, `MCVoterSession`, `MCAdminPage` | Definitions for the runs: which addresses are written and which ballots asked for, symmetry. |

Conventions. A request is a process with `pc` (the call it makes next, "idle" if none) and
a record of its local variables (`req` or `loc`, `None` when idle). One action is one call
to Redis or MariaDB with the local computation that follows it up to the next call, so
that all interleavings of calls are explored. A refusal that precedes the first call
changes nothing and is not a step. In the browser one action is what runs between two
`await`s; a call in flight is a record in a slot of `call`, with its status once the server
has judged it. A `Faults` constant (in `RateLimit` a variable fixed by
`Init`, in other modules one constant for each kind of fault) says whether calls fail,
processes die and Redis restarts. A variable marked *history* is written by the model only and
never read by a guard. Each module begins with a section of mutated forms: plausible bugs of
single operators, used to confirm that each property depends on the code and is not true
by the shape of the model.

### VoteFlow

| Variable | Code |
|---|---|
| `otp[e]` | Redis `otp:<email>`, `"code:candidate:fingerprint"` as a record |
| `attempts[e]`, `expiring[e]` | Redis `otp_attempts:<email>`; whether the key has a TTL |
| `blocked[e]` | Redis `otp_blocked:<email>` exists |
| `votes`, `roll` | tables `votes` (with its two UNIQUE columns and the cascading foreign key), `candidates` |
| `deleting` | `DeleteCandidate` between its count and its DELETE |
| `open` | the answer of `IsVotingOpen` (how it comes about is `VotingSettings`) |
| `acked` | history: voters that were told "Vote recorded" |

| Actions | Code |
|---|---|
| `RequestOTP`, `CheckEmail`, `CheckFingerprint`, `CheckIP`, `CandidateName` | `handler.RequestOTP`, then `PrepareOTPRequest` |
| `CheckBlocked`, `Store`, `Enqueue`, `Unstore` | `GenerateAndStore` |
| `VerifyVote`, `CheckLock`, `Fetch`, `Consume` | `handler.VerifyVote`, `Verify` |
| `Mismatch`, `Expire`, `Block`, `Clear` | `recordFailure` in `Verify` |
| `InsertVote`, `Reply` | the rest of `VerifyAndVote` |
| `Fail`, `LoseWrite`, `RedisRestart` | a failed call that ends the request, or whose error nobody looks at; a goroutine that dies; Redis without persistence |
| `ExpireOTP`, `ExpireAttempts`, `ExpireBlock` | the three TTLs |
| `OpenOrClose`, `InsertCandidate`, `CountBeforeDelete`, `DeleteCandidate`, `DeleteFails` | the administrator |

Abstractions: a code is an element of `Codes` (wrong codes are the others). Clients write
`Addresses` and send `Asked`; both endpoints normalise first, and `Emails`, `Ballots` are the
normal forms. That `Ballots` need not contain every combination is what lets `VotesBacked`
see a mixture of two requests: in `vote_safety` the voter with two spellings asks with each for
another candidate on another device, so that no mixture of the two is a ballot. The payload and the broadcast at the end
of `VerifyAndVote` belong to `Hub`.

### EmailNormalize

An address is the sequence of characters before its last "@" and its domain. `ToLower` is a
constant operator, of which only that it leaves "+" and "." alone matters (`ToLowerKeeps`); the
runs give it as many letters as they write. `NormalizeEmail` follows `normalizeEmail` step by
step; `SameMailbox` says without reference to those steps which spellings the providers
deliver to one mailbox (the comment at `email_domains.go:143-153`): same provider, as many
letters that count, and the same one at every position. `OneVotePerMailbox` in
`VoteFlow` ties the two together where it matters: at the votes.

### RateLimit

`count` and `expiring` are the Redis key; `Incr`, `Expire`, `Decide` are the three parts of
`Allow`; `window` and `allowed` are history. A request whose INCR fails is let through by
the middleware and counted nowhere; `WindowLimit` is about the answers of `Allow`.

### VotingSettings

`row`, `cache` and `now` are the row, the Redis key and the clock. A process is a gate
check, a status reply, an update of the settings (which reads them again for the payload
it publishes) or an update of the domain mode; `CallsOf` lists the calls to `GetStatus` and
`IsVotingOpen` of each. `ReadCache`, `ReadRow`, `FillCache` are `fromRedis`, `GetSettings`,
`toRedis`; `WriteRow`, `Invalidate` the two halves of both updates; `Judge` is the look at
the clock. `overlap` and `seenOpen` are history.

### Hub

A payload is the version of the results that `GetAllWithVotes` found: `version` counts the votes
recorded, `changes` also the updates of the settings, which publish too. The voting status in the
payload, for which `BuildWSPayload` asks the settings twice after that and whose errors it
ignores, is left out here; how old it may be is the subject of `VotingSettings` (its update
makes the same two calls). So `BuildFails` is a failure of the one SELECT. `current` is the message that `Run` is handing out and the clients that the loop
has still to reach: the goroutines go on during that loop, and `Run` serves nothing else.
`Register` and `Unregister` are rendezvous on unbuffered channels. `WriteFrame` puts
everything queued in one text frame; the browser shows a lone message and ignores
several, because the frame is then not one JSON text (`useWebSocket.ts:39-52`). History:
`taken`, `joined` and `updates` (what left `Broadcast`, from where on a client listens, what it
was given), `first` and `last` (its snapshot, and what it was given last), and `built`, the newest
version any publisher built. `NewestGiven` relates publishers, hub and `ServeWS`: when all have
come to rest, each client in the map was handed a result as new as `built`, in its snapshot or
in a broadcast since it registered. It holds because the registration comes before the snapshot.
That the *last* of these is the newest does not hold (section 5). `ImplementsFeed` maps
what `Run` took to the log of `Feed` and the map of clients to its subscribers (`Place`): `Register`
is a `Join`, `TakeBroadcast` a `Post`, one turn of the loop a `Read` if there was room and a
`Leave` if there was not, `Unregister` a `Leave`; all else stutters. How far a client has come
(`Given`) is where it joined and what it was given.

### DomainCache

`rows`, `nextId` are the table and its AUTO_INCREMENT, `cached` and `warmed` the Redis set and the
flag. A process is one request of the administrator (`Insert`, `Delete`), one look-up of a voter
(`IsDomainAllowed`), or the background `WarmCache` that a look-up without the flag leaves behind.
The `DEL`, `SADD`, `SET` of `WarmCache` are three actions, because a pipeline is not a
transaction. `suspects` (history) collects the domains whose entry a lost call, or a change
during another change or a reload, may have left wrong; the code repairs those only when Redis
loses the flag. `SetMatchesTable` says that nothing else can go wrong, and `LookupJustified` that
a voter's answer is then the table's at some moment of the request. Domains are valid, lower-case
and not of the built-in list, since `AddDomain` refuses the others and `isEmailAllowed` answers
for the list without asking this component.

### EmailQueue

`task` is the place of a task in asynq, `attempt` what its worker does, `loose` the attempts that
asynq gave up after 30 seconds and that go on because `sendSMTP` ignores its context, `logged` the
rows of `email_send_log`. `Enqueue`, `EnqueueDirect` are the two ways through `Enqueue`; `Take`,
`SmtpAccepts`, `Succeed`, `SmtpFails`, `Timeout` are `handleEmailTask` and what asynq makes of it;
`HandleError` is the error handler of `NewServer`, which is told the count of retries before
asynq raises it. Retries, leases, the recoverer and `Shutdown` belong to asynq and are modelled
from its use (`MaxRetry`, `Timeout`, `Shutdown`); the delay between retries and the order of the
queue are left open. `unlogged`, `mails` are history.

### VoterSession

`open`, `selected` and `shown` are `Home` in each tab of one device (what the live view says of
the voting, the candidate whose dialog is up, the vote it knows of), `dialog` is `VoteModal` with
its step, captcha token, busy mark and message, `marked` the mark in `localStorage`, `call` the
HTTP calls in flight. A call whose dialog was closed still runs its continuation
(`owner = "closed"`), one that timed out has had it (`"gone"`) and may still be handled by the
server. `Open`, `Captcha`, `SubmitEmail`, `EnterCode`, `GoBack`, `Close` are the voter, `Answer`
and `GiveUp` the continuations of `handleRequestOtp` and `handleVerifyOtp`. `VotingTurns` is the
live view that closes or opens the voting: `Home` takes the dialog away and brings it back at its
first step, since the selection stays. Each endpoint is one step on `stored` and `vote`: what
happens inside it is the subject of `VoteFlow`. The worker's steps are those of `EmailQueue`, so
that codes arrive late, twice, or in another order. Left out: typing digit by digit, reloading a
page (closing a dialog and taking `shown` from `marked` is all it would do), other voters. A
voter enters only codes that were mailed.

### AdminSession

| Variable | Code |
|---|---|
| `place` | the route: the home page, `/admin/login`, `/admin/dashboard`, or "blank" once React has given up |
| `auth`, `loading` | `isAuthenticated` and `loading` of `AdminAuthProvider`, which only the routes under `/admin` have |
| `modal` | `ChangePasswordModal`: shut, open or busy (`pwLoading`) |
| `cookie` | whether the browser holds a valid `admin_token` |
| `call` | HTTP calls in flight: what they carry, whether their component is still there (`mine`), whether the cookie changed since they were sent (`late`), the answer |
| `astray` | history: page and cookie disagree, for one of the known causes |

| Actions | Code |
|---|---|
| `Load`, `Enter`, `Leave` | an address typed or a page reloaded (calls are aborted), a link followed (they are not); each mount of the provider asks `/me` |
| `SubmitLogin`, `Logout`, `Work`, `OpenModal`, `CloseModal`, `SubmitChange` | `Login`, `handleLogout`, any call of the dashboard, `ChangePasswordModal` |
| `MeReply`, `LoginReply`, `LogoutReply`, `WorkReply`, `ChangeReply` | the continuations, with the 401 interceptor of `api.ts` and the redirects of `ProtectedRoute` and `Login` |
| `Serve` (`Judged`) | `JWTAuth`, `Login`, `Logout`, `Me`, `ChangePassword` |
| `Expire`, `OtherTab` | the 24 hours of the token; another tab that shares the cookie |

The server keeps no session, so a request is judged by the token it carries: `token` is its
validity. Whether a password is right is a choice made with the call.

### AdminPage and its parts

`ListCard` has the table (`rows`, `version`), the list on the page (`shown`), its `spinner`, the
calls, and `stray`: changes under way whose page is gone or gave them up, and that the server may
still make. A change that succeeded asks for a new list within the same handler
(`ChangeReply`, `ListReply`). `RosterCard` adds the add form (`form`, `cropping`), the two dialogs
(`edit`, `doomed`) and the busy marks (`formBusy`, shared by the form and the edit dialog, and
`deleting`); `made`, `unsure` are history. `DomainsCard` adds the input, its busy mark and the one
`domainDeleteLoadingId` of all deletions (`deletingId`). The bodies of the endpoints are single
steps here (`RosterServe`, `DomainsServe`, `SettingsCards!ServeSave`): what happens inside is the
subject of `VoteFlow`, `DomainCache`, `VotingSettings`. `SettingsCards` has the row, its cached copy
(`cached`), what other readers hold and are about to store (`held`), the copy on the page,
`loadCall` and `saveCall`; `late` are wishes of pages that are gone; `touched`, `overlap` and
`doubtful` are history. The status of a page comes from the cached copy (`LoadHit`), or from the
row, which is stored before the answer (`LoadMiss`, `LoadFill`); voters and publishers read in the
same way (`OtherMiss`, `OtherFill`). An update writes the row and deletes the copy in one step,
since whoever is answered in between could have been answered before. `doubtful` collects the
columns that the page may show wrongly, each for one reason: the status failed; it was a
cached copy that differed from the row, which only a straddling fill or a lost deletion leaves
behind (`overlap`); a click took effect while an older status was on its way (`Overtaken`); the
answer to a click was lost; somebody else, or an abandoned save, changed the column. Its actions take the columns they are about: `Control` for
`VotingControlCard`, which saves opening and deadline together, `Switch` for the mode in
`EmailDomainsCard`. The parts have no state in common but the row and the cache that those two
share, so `AdminPage` follows one of them in each behaviour; there a save of the other part is a
`SettingsElsewhere` that writes what the columns hold already and deletes the cached copy. `MountList`,
`SettingsMount` are leaving the page or loading it again; `OtherAdministrator`,
`SettingsElsewhere` are changes by somebody else.

## 3. Runs

| Run | Instance | What it shows |
|---|---|---|
| `vote_safety` | 2 e-mails, 2 devices, 2 candidates, one e-mail spelled in two ways and asking for a different candidate in each, 3 ballots that cross them, 1 code, 2 handlers, all faults; handlers symmetric | `TypeOK`, `OneVotePerVoter`, `OneVotePerMailbox`, `VotesBacked`, `AckedOrWithdrawn`, and the refinement `ImplementsElection` |
| `vote_codes` | 1 voter, 1 address with a limit of 1 vote, 2 codes, 2 handlers, no faults, maximum of 2 attempts | `CounterBounded`, `CounterHasTTL`, `AcceptedCodeCounts` |
| `vote_delete_race` | 1 voter, 1 handler | refutes `NoVoteLost` |
| `rate_limit` | 1 address, 3 handlers, limit 2, 2 windows, with and without faults | `TypeOK`, `WindowLimit`, `WindowEnds` |
| `settings` | 2 processes, 2 instants, all faults; processes symmetric | `TypeOK`, `StaleOnlyByOverlap`, `OpenAnswerJustified` |
| `hub` | 1 client, 2 publishers, capacities 1, 3 changes, all faults | `TypeOK`, `MapMeansOpen`, `NewestGiven`, the refinement `ImplementsFeed`, `PublishersGoOn`, `DeadLeave` |
| `hub_frame` | 1 client, 1 publisher | refutes `ShowsLast` |
| `domain_cache` | 1 domain, 3 processes, 3 rows ever inserted, all faults; processes symmetric | `TypeOK`, `SetMatchesTable`, `LookupJustified` |
| `email_queue` | 2 tasks, 3 retries, 1 orderly restart, all faults | `QueueTypeOK`, `MailsBounded`, `EndsAccounted`, `TasksEnd` |
| `voter_session` | 1 tab, 2 candidates, 2 codes, 2 calls in flight, failing and lost calls, a mail server that works; candidates and slots symmetric | `TypeOK`, `CaptchaUsedOnce`, `ToldTruth`, `VoteAsMailed` |
| `admin_session` | 2 calls in flight, 2 visits, failing calls, other tabs | `TypeOK`, `PageMatchesCookie`, `WaitsEnd` |
| `admin_page` | 2 calls in flight, 2 rows, 2 texts, 2 changes, 1 deadline, 1 other reader of the settings, 1 abandoned save, lost calls, Redis restarts, another administrator; slots symmetric | `TypeOK`, `ShownIsStored`, `OneRowPerText`, `SwitchShowsMode`, `SaveKeepsUntouched` |

`RequestsBacked` and `NoOrphanVotes` of `VoteFlow` and `NoGap` of `Hub` are parts of inductive
invariants and are proved; the refinements cover what they are for, so no run repeats them.

### Bounds and why they are enough

* *Two concurrent requests* suffice for each pairwise race the code has: two votes, a vote
  against a new code, a fill against an update. Requests start over, so a run contains
  arbitrarily long sequences of requests, two at a time. The rate limit needs three: the
  limit is two, and the third request is the one that must be refused.
* `MaxOTPAttempts = 2` (6 in the code) reaches the first failure, the last one, and, with
  two handlers, one beyond it. `AttemptsCap` bounds the counter: only a counter that lost
  its block would pass it. `vote_safety` has one code, so that no attempt fails there;
  failed attempts are the subject of `vote_codes`, and of the proofs, which cover both
  together.
* `MaxVotesPerIP`: `vote_safety` leaves addresses out (`NoIP`), `vote_codes` has one and refuses
  the second request for a code.
* `MaxTime = 1`: a deadline can lie ahead, be now, and have passed.
* `Hub`: channel capacities of 1 and 2 (256 in the code) make full buffers reachable at once;
  the changes (`MaxChanges`, 3 and 2) outnumber the places of one channel. One client is enough
  for the run: the invariants are proved for any number, and progress of a
  publisher or a departing client depends on another client only through the loop of `Run`,
  which that client cannot block.
* `DomainCache`: an insertion, a deletion and a reload at once need three processes;
  `MaxRows = 3` lets a domain be deleted and come back twice. Domains do not interact but for
  `WarmCache`, which treats each alike; the theorems are for any number.
* `EmailQueue`: `MaxRetry = 3` as in the code. Tasks do not interact but for the process they
  share; two show that one does not disturb the other. One orderly restart raises the bound of
  `MailsBounded` by one.
* `VoterSession`: two codes and two calls in flight let an old code, call or reply meet a new one;
  a mail comes twice when Redis took a task whose `Enqueue` reports an error. A second tab has the
  same dialog and shares the mark; its part, a call that outlives its dialog, is played by closing
  and reopening the one. The theorems are for any number of tabs.
* `AdminSession`: two calls in flight (`Slots`) let any two answers overtake one another, two more
  visits (`MaxVisits`) let an answer reach a provider that did not ask for it. The theorems are
  for any number of both.
* `AdminPage`: two calls let two fetches of a list, or a submission and its repetition, meet; two
  rows, texts and changes let one row be there twice, one be edited while another is deleted, and
  an old list differ from a new one. One other reader of the settings (`Readers`) makes a
  straddling fill, and one abandoned save (`MaxLate`) a late one, each any number of times. The theorems
  are for any number of all of these.
* With bounded changes, connections, windows, visits and tasks the systems of `Hub`,
  `EmailQueue`, `VoterSession`, `AdminSession` and `AdminPage` come to rest, and so do the windows
  of `RateLimit`; hence `CHECK_DEADLOCK FALSE` where the cfg says so. The other runs check for
  deadlock.
* Symmetry is used only in runs without liveness properties.

### Fairness

`VoteFlow!FairSpec` is weak fairness of each handler's next step: the Go scheduler runs
every goroutine, and the drivers' calls return. `AcceptedCodeCounts` is checked without
faults, because a crash after the code is consumed does lose the vote. `RateLimit!FairSpec`
adds that a TTL runs out. `Hub!FairSpec` has weak fairness for the goroutines, and strong
fairness where a goroutine competes for a channel that is ready again and again but not
always: `Register` and `Unregister` (Go's `select` picks at random among ready cases) and
`Publish` (a blocked send is queued). Sockets need not break, clients need not connect, and
nobody need vote. `EmailQueue!QueueSpec` is weak fairness of taking a task and of ending an
attempt: the worker polls, and asynq gives an attempt up after 30 seconds; SMTP need not ever
take a mail. `AdminSession!FairSpec` is weak fairness of each call's continuation: axios ends a
call after 15 seconds at the latest (`api.ts:6`); the server need not answer. The other
specifications state safety only and assume no fairness.

## 4. Proofs

All theorems hold for any constants that satisfy the named assumptions of the modules
(finitely many handlers, a maximum of at least two attempts, numbers where numbers are meant,
`None` different from every record).

* `VoteFlowProofs`. The inductive invariant `Inv` is `TypeOK`, `OneVotePerVoter`,
  `VotesBacked`, `NoOrphanVotes`, `AckedOrWithdrawn` and `RequestsBacked`. The last one is
  the strengthening: a vote is a requested ballot only because the stored codes are, and
  because a handler that had a code accepted carries the stored ballot from then on; and an
  acknowledged vote is on record only because the handler in step "reply" has its vote
  there, or its candidate is gone (nothing but `DeleteCandidate` removes votes). `StepTypes`
  and `OtherTypes` are type preservation, `TableInvariants` the two constraints of the
  table, `AckedInvariant` and `HandlersBacked` the rest; `NextInv` puts them together and
  `Invariance` concludes. `TypesHold`, `VotersVoteOnce`, `VotesAreBacked` and
  `AckedVotesStay` follow. `Refinement`: under `Inv` a step changes the ballots only in
  `InsertVote` (a `Cast`, because of the UNIQUE columns and the foreign key) and in
  `DeleteCandidate` (a `Withdraw`, because of the cascade), and the roll besides only in
  `InsertCandidate` (a `List`). `ElectionSound` says what `Election` itself is worth: no two
  ballots conflict, and each is for a candidate on the roll. `MailboxesVoteOnce` [`OneVotePerMailbox`] is `VotersVoteOnce` and
  `KeysAreMailboxes`, which says of addresses of any length what `NormalizeEmail` computes. That
  is a proof by induction, over sets of numbers instead of predicates: the relation < is well
  founded on Nat (`NatLessThanWellFounded`, `WFMin`), so a non-empty set of lengths at which
  something fails has a least element (`LeastElement`), and there it does not fail. In this way
  the recursion of `RemoveDots` is shown to have a solution (`KeptExists`) and to list the letters
  at the places that count in their order (`RemoveDotsEnumerates`). Then, without faults, the counter of failed attempts.
  `CounterStaysBounded`: an attempt that reaches the
  maximum puts its handler among the `Blockers`, and only the deletion of the counter takes
  it out again; the proof is about the cardinality of that finite set. `CountersExpire`: the
  counter leaves 0 only in the hands of a handler that goes to step "expire".
  `AcceptedCodesGoOn`: from acceptance to the INSERT a handler keeps its ballot, and the INSERT
  settles it; `OnRoll` is the strengthening: the candidate of a code was on the roll once, so that
  a foreign key that fails means it is gone.
* `RateLimitProofs`: `TypesHold` and `LimitHolds`. `WindowLimit` counts the requests that were let
  through; the strengthening `Used` counts with them those that are counted and not yet decided
  (`Admitted`): together they never exceed the limit, nor what the counter says while the window
  lasts, and a window that has not begun has none. `WindowsClose`: the counter leaves 0 only in the
  hands of a request that goes on to EXPIRE.
* `VotingSettingsProofs`: `TypesHold`, `StaleByOverlapOnly` (inductive with the types) and
  `OpenAnswersJustified`, whose strengthening `ReadingSeen` says the same of the settings a process
  has read and not yet judged.
* `HubProofs`. `TypesHold` needs `Ready`: what a publisher or `ServeWS` is about to send was built.
  `MapStaysOpen`: a connection is in the map, or has a closed channel, only after it registered,
  and it registers once (`RegisteredOnce`). `NobodyMisses` [`NoGap`]: the message in hand is the one
  `Run` took last, and nobody got anything before registering (`InHand`). `Refinement`: under
  these invariants each action is a step of `Feed` or leaves its four variables alone. That `Run`
  takes no message before the last is handed out makes `TakeBroadcast` a `Post`, `NoGap` makes a turn
  of the loop a `Read` of the right entry, and `RegisteredOnce` keeps who left from coming back
  (`PlaceStays`, `Leaves`). `FeedSound` is about `Feed` alone: what a subscriber read is a piece of
  the log (`Sound`) that begins where it joined (`NoneSkipped`). `NobodyBehind`
  [`NewestGiven`], from `Covered`: for every client in the map the newest results built are still
  with a publisher or in `Broadcast`, or were handed out after it registered (`Coming`), or else its
  snapshot is as new or is not built yet (`Told`). `ClientsAttended`: a client in the map has a `ServeWS` that
  will start its pumps, or a `readPump` that will unregister it, and a message in hand has somebody
  still to get it.
* `DomainCacheProofs`: `TypesHold`; `SetAgrees`, from `Sound`: of a domain that is not suspect a
  change that is about to reach Redis knows the table (`ChangeSeen`), a reload has read what the
  table still says (`ReadSeen`), the set has nothing too much while it is reloaded (`Emptied`) and
  nothing too little when the flag is about to be set, unless another reload is about to fill it
  again (`Filled`); and `LookupsJustified`, from that and `Justified`: who asks the set saw the flag.
* `VoterSessionProofs`, first about the mails: `QueueTypesHold`; `MailsStayBounded`, from `Counted`:
  mails, abandoned attempts and the one under way are no more than the retries counted, the restarts
  and the direct mail allow; `FailuresLogged`, from `UnloggedEnded`; and `TasksGoForward`, an action
  property: only a counted retry or a restart brings a task back. Then about the dialog:
  `TypesHold` and `CaptchaSentOnce`, from `TabFine`: a dialog has at most one
  call of its own, is shown while it waits, and holds a used token only while it waits for the
  request that used it; `TruthTold`, from `Truth`: no answer that tells of a vote is on its way
  either; `VotedAsMailed`, from `Mailed`: what is stored agrees with the mail of its code, and only
  mailed codes are entered.
* `AdminSessionProofs`: `TypesHold`, from: a provider has at most one `/me` and a dialog one change
  under way (`Alone`), no call belongs to a page that is not there (`Attached`), and a provider that
  is still loading has asked for nothing but `/me` (`Settled`); and `PageAgrees`
  [`PageMatchesCookie`], from `Answers`: a call that is not late carries, and its answer tells of,
  the cookie as it is.
* `AdminPageProofs`, from `PageInv`, which has a part for each part of the dashboard. `TypesHold`
  with the busy marks needs that at most one handler of the add and edit forms, one deletion of a
  candidate and one addition of a domain is under way (`Alone`). `ListsRenewed` [`ShownIsStored`],
  from `Renewed`: an outdated list that is not excused has a call under way that will renew it, a
  change that was made or a list that is not older than the table. `AddedOnce` [`OneRowPerText`],
  from `Once`: while a text has no row, a request that carries it is under way or left behind, but
  not both, and the form holds it no more once it is left behind; when it has its row, the handler
  that will empty the form is still at work. `SwitchTold` [`SwitchShowsMode`], from `SwitchKnows`,
  and `UntouchedKept` [`SaveKeepsUntouched`], from `ControlKnows`: what is shown, and what a save
  under way would write, is the row but for what was edited or is doubtful; both need that a cached
  copy is the row but for an `overlap` (`SettingsInv`, with `LoadServed` for the status calls). That no
  call and no row is `None` is assumed (`NoneIsNew`, `NoneIsNoCall`, `NoneIsNoRow`).

Model-checked only: liveness (`AcceptedCodeCounts`, `WindowEnds`, `PublishersGoOn`,
`DeadLeave`, `TasksEnd`, `WaitsEnd`), whose fairness and ENABLED the prover does not reach. What
each rests on is proved: somebody who will take the next step is always there
(`AcceptedCodesGoOn`, `WindowsClose`, `ClientsAttended`; for `WaitsEnd` it is part of
`AdminSession!TypeOK`), and a mail task does not go round in circles (`TasksGoForward`). What is left to
TLC is that such a step is enabled until it is taken, on the instances of the runs.

## 5. Where code and documentation disagree

Shown by runs:

* `vote_delete_race`: `candidate_repo.go:115` "removes a candidate only when they have zero
  votes"; a vote inserted between the count and the DELETE goes with the candidate.
* `hub_frame`: `useWebSocket.ts:11` "the UI is never stale"; two payloads in one frame are
  unreadable for the browser.

Seen while modelling the endpoints, without a run of their own:

* `voting_settings_service.go:94` "next read will pull all fields fresh from DB": a read that
  straddles the update stores the old row (`:62`) after the deletion, and nothing expires it.
  `StaleOnlyByOverlap` is what remains true. The payload that the update broadcasts (`:101`, against
  `:88` "broadcasts the updated state") and the next page of the administrator are among the
  reads; with a stale status his next save writes the old opening or deadline back.
* `vote_service.go:67-68`: the payload drops the errors of both reads of the settings, so that it may
  tell "closed, no deadline" of a voting that is open.
* `vote_service.go:86` "the maximum number of votes allowed from a single IP address" is checked
  when a code is requested only (`:113`): of several codes that are out, each makes a vote.
* `vote_service.go:122`: the name of the candidate is read for the mail before the code is stored;
  a candidate deleted in between is still mailed for, and the insertion then fails on the foreign
  key with the code consumed.
* `otp_service.go:67-68` "confirm all three match" (code, candidate, fingerprint): `Verify` compares
  the code only and takes the other two from the store. A dialog for one candidate therefore
  accepts the code of another; the vote goes to the candidate the mail named, while the dialog
  marks its own as voted for (`VoteModal.tsx:101`, `:112`).
* `otp_service.go:102` deletes whatever code is stored when mailing fails, also that of a
  later request which was mailed.
* `worker.go:54` ignores the context of the task, so an attempt that timed out may still mail.
* `email_domains.go:164`: an address that begins with "+" gets the empty local part, so all
  those of one domain share a key; mail to it cannot be delivered.
* `API_DOCUMENTATION.md:494` "`false` to close it immediately": a request past the gate
  (`vote_handler.go:147`) votes after the closing.
* `voting_settings_handler.go:25-31` asks twice: `is_open` and `effectively_open` may be of
  different settings, against `API_DOCUMENTATION.md:147`.
* `hub.go:33-39`: `SendToOne` panics if the hub dropped the client meanwhile (`PushOnClosed`).
* `client.go:113-114` "delivered exclusively to this newly connected client before any future
  broadcasts arrive": the connection is registered before the snapshot is built, so broadcasts may
  be queued first, of newer results than the snapshot's.
* `README.md:30` "Live leaderboard updates instantly via WebSocket for all connected clients": two
  publishers may send their payloads in the other order than they built them
  (`vote_service.go:153-159`), so that the last broadcast is of an older result. `NewestGiven` is
  what remains true: the newest was handed out. Changes of candidates are not broadcast at all.
* `rate_limit_service.go:42`: a lost EXPIRE refuses an address until somebody deletes the key.
* `candidate_repo.go:106-109`: an update that changes nothing within the same second may report
  "not found", since the driver counts changed rows.
* `custom_domain_repo.go:65,96`: the comments rely on a fallback that a warmed cache does not
  take.

Seen while modelling the browser:

* `VoteModal.tsx:116`: when the reply of a recorded vote is lost, the next submission of the code
  finds it consumed, and the voter is told that the code is invalid. The vote stands, and asking
  for another code says so.
* `Home.tsx:58-67`: the comment says that the memo re-runs the moment the deadline passes, because
  `countdown` "changes every second". When the deadline passes between the first rendering of a
  status and the first tick, `countdown` was `null` and stays so: the page goes on showing the voting
  as open until the next broadcast.
* The dialog is unmounted with everything typed when the voting closes, and comes back empty if it
  opens again (`VotingTurns`).
* `Login.tsx:15` returns before the `useCallback` of `:17`: when `isAuthenticated` turns true while
  the page is mounted, React finds fewer hooks than before and unmounts the application. The
  redirect of `handleSubmit` usually comes first; a `/me` that confirms the session after the page
  was drawn does not have one (`place = "blank"`).
* `FrontEnd/README.md:92` "On 401 (expired/invalid cookie), auth state is cleared": a wrong current
  password in `ChangePasswordModal` is a 401 too, and ends a session that is valid (`api.ts:18-22`).
* `Dashboard.tsx:71`: the success of an update closes the edit dialog, also when it shows another
  candidate by then; the add form is emptied after its success, also of what was typed meanwhile
  (`CandidateForm.tsx:75-82`).
* Removing the picture in the edit dialog has no effect (`CandidateForm.tsx:89-94`): an update
  without a file keeps the old one.
* `EmailDomainsCard.tsx`: `domainDeleteLoadingId` is one for all deletions, so that the button of a
  deletion under way is enabled again when another begins or ends.
* `VotingControlCard.tsx:21`: "keep defaults" after a failed status load shows "open, no deadline",
  and a save then writes both.
* `handleLogout` navigates before the cookie is cleared: the login page finds the session alive and
  sends the administrator back until the answer comes; if logout fails, the failure is swallowed
  and the cookie lives on.

## 6. Not modelled, and the plan

Left out for good: the captcha service (one call, no state), start-up, configuration, migrations
and routing (run once, fixed data), checking, storing and cropping of images (I/O on files with
fresh names; a file whose row fails to be written is left behind), layout, theme and toasts of the
pages, the digits and the readiness of the fingerprint in the dialog, and the back-off of
`useWebSocket` beyond "a reconnect is a new connection".

What would come next, in this order:

1. Closing while a verification is under way, and the torn status reply: `VotingSettings` composed
   with `VoteFlow` as an abstract gate.
2. Image files: no row without its file, and which files are left over.
3. Liveness of the dashboard: that its busy marks end is implied for each call by `TypeOK` and the
   15 seconds of `api.ts`, as `WaitsEnd` shows for the session, but is not checked as a property.
