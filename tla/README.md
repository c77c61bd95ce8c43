# Send: a TLA+ verification project

`sendd` stores end-to-end encrypted "sends" for a short time.  A client creates
a send by declaring its parts, uploads the parts, finalizes the send and passes
a link on; whoever opens the link redeems the send, receives a token, and
downloads the parts with it.  A *one-time* link opens once.  A garbage
collector deletes what is expired, used up or abandoned.

This directory models that server (`src/server`), its process and its shell
client (`src/skill/send/scripts/send.sh`) in TLA+, checks them with TLC on small
instances and proves their safety properties, and what their liveness rests on,
with TLAPS for every instance.

## 1. Inventory

| Component | State | Operations | Called by |
|---|---|---|---|
| State store, `store/sqlite.go` | tables `sends`, `send_parts`, `redeem_grants` in SQLite, one connection | CreateSend, SendStatusOf, DeclaredPart, MarkUploaded, FinalizeSend, RedeemSend, ValidateGrant, GetSendMeta, DeleteExpired, LiveStorageKeys, Close | Coordinator, `sendd` |
| Blob store, `store/fsblob.go` | files `<send>/<part>`, directories, `.tmp-*` files | Put, Open, Delete, List | Coordinator |
| Coordinator, `store/coordinator.go` | none | CreateSend, PutPart, FinalizeSend, RedeemSend, GetPart, GetSendMeta, DeleteExpired, OrphanSweep | API, collector |
| Collector, `gc/gc.go` | none | Run, Sweep | started by `sendd` |
| Ids and tokens, `store/ids.go` | none | NewSendID, NewRedeemToken | state store |
| Rate limiter, `ratelimit/ratelimit.go` | a token bucket per client, under a mutex | Allow, evict | API |
| HTTP API, `api/*.go` | none | create, upload, finalize, meta, redeem, download, pages | clients |
| Configuration, `config/config.go` | read once | Load, validate | `sendd` |
| Process, `cmd/sendd/sendd.go` | the stores it opens, its goroutines | Run: wiring, shutdown | main |
| Clients, `skill/send/scripts/send.{sh,ps1}` | grant cache on disk | save, load, load-detail | users |
| Landing pages, request log, deployment, test doubles | none | output only | |

**Interaction.** Each HTTP request is a goroutine that makes a sequence of SQL
statements and file-system calls; the collector is one more goroutine.  They
share the database and the blob directory, and nothing locks across two calls.
The database pool has one connection (`sqlite.go:47`), so a statement or a
transaction is atomic, and *everything between two statements is not*.  Clients
talk to the API through a proxy; they retry what looks transient and keep the
grant of a send they opened in a file.  On SIGINT or SIGTERM the process drains
its connections for ten seconds and closes the database, while the collector's
goroutine ends when it notices.

**What is hard.**  Redeems racing for a one-time link.  Handlers that go on
with a status, a time or a part count they read some statements ago, while the
collector deletes.  A collector that takes a snapshot (ids to delete, live
keys) and acts on it later.  Two stores with no common transaction: a crash, a
cancelled request or a failed call between any two steps.  Grants that overlap
the expiry of their send.  Calls repeated after their answer was lost, or
delivered after the client gave up.  A client's clock against the server's
bookkeeping.  A shutdown that waits for some goroutines and not for others.
64-bit lifetimes and sums.  A limiter that forgets clients to save memory.  The
`hazards` of `PROJECT.json` list these at their lines, with the property that
watches each.

**What makes each component correct.**

* one-time redemption: at most one token per link, the bytes go only to it, and
  one machine reads them;
* finalization: what is finalized is complete, and complete means the verified
  bytes are there; a link is printed only for such a send;
* collection: nothing that someone may still need is deleted, and everything
  else eventually is, blobs included;
* validation: what is accepted is exactly what is well-formed, and what is
  stored expires in order;
* rate limiter: no client exceeds its rate over any interval, and eviction is
  not observable;
* process: a graceful stop cuts nothing off and leaves a complete database
  file, and a signal always ends the process.

## 2. Modules

| Module | Models | Extends |
|---|---|---|
| `SendTypes` | parameters, their assumptions, storage keys | |
| `StateStore` | the tables, one operator per SQL statement | `SendTypes` |
| `BlobStore` | the blob directory, one operator per system call | `SendTypes` |
| `Coordinator` | requests, collector, faults, clock; `Spec`, `FairSpec` | `StateStore`, `BlobStore` |
| `SendContract` | abstract: what a send promises its clients, and proofs that the rules keep the promises | |
| `SendProperties` | the properties of the send store | `Coordinator` |
| `SendInvariant` | the inductive invariant `IInv` | `SendProperties` |
| `SendTypeProofs`, `SendProofs`, `ContractProofs` | proofs | `SendInvariant` |
| `CreateRequest` | validation of a create in wrapping integers, and its properties | |
| `CreateProofs` | proofs | `CreateRequest` |
| `SendApi` | the `/v1` endpoints, one step each, and their answers | `StateStore` |
| `SendClient` | `send.sh` over a network that loses and delays, and its properties, `SendContract` among them | `SendApi` |
| `ClientInvariant` | the inductive invariant `ClientInv` | `SendClient` |
| `ClientProofs` | proofs | `ClientInvariant` |
| `Sendd` | the process from start to exit, and its properties | |
| `SenddProofs` | proofs | `Sendd` |
| `RateLimiter` | `Limiter.Allow` and `evict`, and their properties | |
| `RateContract` | abstract: a limiter that never evicts | |
| `RateProofs` | proofs | `RateLimiter` |
| `MCSend`, `MCCreate`, `MCClient`, `MCRate` | symmetry and input sets for TLC | |

### The send store

A **handler** is a sequence of actions, one per statement or system call.
`pc[r]` names the call that request `r` makes next, `req[r]` holds its local
variables.  `Arrive`, `GoTo` and `Return` are the only ways `pc` moves, so each
action reads like the code around its call: a guard, an effect, and the early
return.

| Handler | Actions, in order |
|---|---|
| CreateSend | `Create` (reads the clock, may wait for the connection), `InsertStep` (the transaction) |
| PutPart | `PutStatus`, `PutDeclared`, `PutMkdir`, `PutTemp`, `PutCopy`, `PutPublish`, `PutMark` |
| FinalizeSend | `FinStatus`, `FinCount`, `FinUpdate` |
| RedeemSend | `Redeem` (reads the clock), `RedLoad`, `RedConsume`, `RedGrant` |
| GetPart | `GetGrant`, `GetDeclared`, `GetOpen` |
| Sweep: DeleteExpired | `GcSelect`, `GcKeys`, `GcDelete`, `GcPurge` per key |
| Sweep: OrphanSweep | `GcLive`, `GcList`, `GcWalk` per directory, `GcSweep` per key, `GcDone` |

`Abort` is any call of a handler failing, or its context being cancelled
because the client hung up: the deferred clean-up runs, what was done stays
done.  `GcAbort` is a statement of a sweep failing, `GcSkips` a `blob.Delete`
failing, whose error the code drops.  `Crash` kills the process: local
variables are lost, tables and files stay, temp files lose their owner.

Modelling choices a reader should know:

* The row of a deleted send stays as a *tombstone* (`status = "gone"`).  No
  statement matches it; it lets properties speak of a send's past.  `issued`
  likewise remembers every grant.  `bornInSweep` remembers the sends inserted
  while `OrphanSweep` is between its two reads.
* A blob is `"match"` or `"other"` compared with the declared size and hash,
  so that publishing unverified bytes would show.
* A request refused by its *first* check changes nothing and is left out.  So
  are the final SELECT of RedeemSend and GetSendMeta, which only read.
* Two reads that nothing can tell apart from one are one step: the clock and
  the SELECT of `GcSelect`, the SELECT and the clock of `GetGrant`.
* Times are whole units: the code stores and compares Unix seconds.  The clock
  does not go backwards.
* SQLite commits are durable and a crash is the death of the process; loss of
  power, which may lose an unsynced blob, is not modelled.
* Connections always have foreign keys on (see the hazard at `sqlite.go:51`).

### The contract of a send

`SendContract` says what the store promises its clients, without requests,
statements, files or sweeps.  A send is opened with some parts missing (`Open`),
a missing part is supplied only while it is being created (`Supply`), it is
sealed when none is missing (`Seal`), its link is handed out before it expires,
to one token if it is one-time, and no token twice (`HandOut`); a one-time link
may also be spent for nobody (`Spend`).  A send is discarded (`Discard`) only
when it is due, or was found due at an earlier moment and is `condemned`: the
contract admits the window between the collector's SELECT and its DELETE, and
nothing wider.  Promises about time count from the time `t` at which something
was asked, which the store reads before it may have to wait for the connection.

The module also states what these rules come to, and proves it from the rules
alone: `Promises`, and `GrantsLast`, that a grant on a send that is `Held`, there
and not condemned, outlasts every sweep: the send stays so until the grant, or
the send, is over.  Two models are shown to implement the
contract: `Coordinator`, where `condemned` is what the collector has selected,
and the atomic endpoints of `SendApi` under `SendClient`, where it is empty.

### Creating a send

`CreateRequest` follows `handleCreate` check by check, one action per turn of
its loop over the parts: `Decode`, `CheckTTL`, `NextPart` (`CheckPart`, `Count`)
and `Store`, which sums and rounds the times as `CreateSend` does.  Integers
wrap at `Word`, as `int64` does.  `ValidConfig` is `config.validate`.

The default caps, 64 parts of 25 MiB, multiply to far less than an `int64`
holds; `validate` accepts caps that do not.  Under those the sum of the sizes
may wrap to a negative number, which passes the comparison with
`MaxTotalBytes`.  Nothing is assumed of this: `AcceptsWellFormed` excepts
exactly the requests whose sizes add up to more than an `int64` holds, and
`AcceptedUnderCaps` says that there are none where the parts fit at their cap
(`Fits`).

### The API and its clients

`SendApi` has each endpoint as one step on the tables and the answer it yields,
errors mapped as `errors.go` does.  `Coordinator` splits the same handlers into
their statements; at this level they are atomic, but for the failures that
remain visible: a redeem that consumed the link and then failed, a finalize
that took effect and then failed.  `Serve` puts the team token in front of the
writing endpoints and lets any of them be declined by the limiter.

In `SendClient` a process makes calls (`step[p]`), an attempt of curl at a time:
`Answered`, `Lost` (served, but the client gets a 504 or nothing) or `Delayed`
(the client gets that first, and the request is served later, `ServeLate`, or
never).  `Get` retries as `curl --retry` does.  What the scripts do between calls
are `Created`, `Uploaded`, `Finalized`, `SaveFails` for the saver, and `Begin`,
`Redeemed`, `RedeemFails`, `Downloaded`, `DownloadFails` for an invocation of
load or load-detail on some host.  `cache[h]` is the file in which a host keeps
the token of a send and the time until which it uses it.

The client takes a cached grant for good for `GrantWindow` (540 seconds), the
server keeps it for `GrantTTL` (600 by default, any positive number by
`SEND_GRANT_TTL`).  The two are not related in the model, as they are not in the
code.  `CachedGrantWorks` says how long a cached grant can be relied on:
`GrantTTL` from when its client *began* the redeem, however late the answer
came; `WindowIsHonoured` adds that this covers the client's whole window if that
is no longer.  With `SEND_GRANT_TTL` below 540 seconds a client offers a grant
that is over, and fails with `INTEGRITY_FAILED`.

The PowerShell client makes the same calls in the same order with the same
cache and never retries: it is the instance `PostRetries = RedeemRetries = 0`.

### The process

`Sendd` is `Run`: the stores are opened, the collector started, the listener
opened, then served until a signal or a failure; `Shutdown` drains (`Drained`)
or runs out of time (`DeadlinePasses`); the deferred `Close` takes the database
connection, checkpoints the write-ahead log and closes.  Handlers and the
collector compete for the same connection (`BeginStatement`, `EndStatement`);
what they write is `Coordinator`'s matter, here they only hold `holder` and
leave pages in `wal`.  Emptying the log may fail (`Fold`), in the checkpoint,
whose error or busy result `Close` drops (`sqlite.go:109`), and in the closing of
the connection, whose error `Run`'s defer drops (`sendd.go:49`); the history
variable `unfolded` remembers which of the two failed.  `http.Server` and `database/sql` are modelled from how
`Run` and the stores use them.

### The rate limiter

`Allow` runs under a mutex and reads the clock inside, so a call is one action:
`AllowNew` (first event of a key, evicting first if the map is full),
`AllowKnown`, `Deny`.  The code's tokens are floats refilled at `perWindow /
window`; here a token is `Window` units and `PerWindow` units arrive per unit of
time, which is the same arithmetic without rounding.  `spent[c][t]` is history:
what client `c` spent since instant `t`, for every `t`.

## 3. Properties and runs

Runs that pass:

| Run | Instance | Properties | States |
|---|---|---|---|
| `race` | 1 send, 1 part, 2 requests, 2 tokens, clock 0..3, 1 fault | `TypeOK`, `IInv`, `OneRedemption`, `UploadSurvives`, `OneReader`, `RefusedLinkWasSpent`, `TempsOwned`, `ReapOnlyDead`, `ImplementsContract` | 1.6 M |
| `parts` | 1 send, 2 parts, 2 requests, clock 0..2, no fault | `FinalizedComplete`, `GrantedPartReadable` | 1.3 M |
| `collect` | 1 send, lifetimes 0 and 2, 1 request, 1 fault, fair collector | `OrphanCollected`, `DueIsReaped`, `SweepsGoOn` | 0.17 M |
| `create` | up to 3 declarations of 2 ids, caps of 8 and 9 bytes, 2 parts, integers of 5 bits | `CreateTypeOK`, `AcceptsWellFormed`, `StoredLifetime` | 1.7 M |
| `client` | 2 sends, 2 parts, 2 tokens, 1 loader on 2 hosts, 1 retry per call, 1 late request, clock 0..2 | `ClientTypeOK`, `ClientInv`, `LinkIsComplete`, `OneMachineReads`, `CachedGrantWorks`, `ApiImplementsContract` | 0.44 M |
| `shutdown` | 2 connections, 2 statements per request and sweep | `SenddInv`, `NothingCutOff`, `CompleteBackup`, `ShutdownEnds` | 16 k |
| `rate` | 2 clients, a map of 1, 2 events per window of 2, clock 0..5 | `RateInv`, `RateBound`, `EvictionUnobservable`, `GrowsOnlyBusy` | 0.18 M |

* `race` asks whether two requests, the collector and a crash can open a
  one-time link twice, read it without its token, lose recorded bytes, refuse a
  redeem wrongly, leave a temp file behind, or delete a send still in use.  They
  cannot, but for the temp files of a crash.  `ReapOnlyDead` looks at both ends of
  a reap: what is selected has expired, or was consumed and its grants are over,
  or is *unfinished* at its age limit; what is deleted was selected, and a grant
  that runs was not cut short unless its send is that old (the window of
  `reap_race`).  It also shows that all of it together implements
  `SendContract`.
* `parts` asks whether a finalized send is complete, and a granted download
  finds its bytes, when two requests upload, finalize and download two parts.
* `collect` shows that orphan blobs and due sends go away, in spite of a crash,
  a failed sweep or a failed delete; and that the collector gets to the end of a
  sweep again and again (`SweepsGoOn`), from which the theorems derive the two.
* `create` shows that the loop accepts exactly the requests that are well-formed
  by a definition without loop, order of checks or machine integers, but for a
  sum of sizes beyond the integers, which the instance reaches; and that
  the stored times are in order whatever lifetime was asked for.
* `client` asks what becomes of the users' promises when requests are repeated,
  lost and late: a printed link opens a complete send, a one-time link is read
  on one machine, and a cached grant is honoured for its lifetime from when the
  client asked, though the client may take it for good for longer.
  And all of it, through endpoints that are one step each, implements the same
  contract as `race`.
* `shutdown` shows that a graceful stop closes the database under nobody and,
  unless both of Close's attempts to empty the log fail, leaves nothing in it,
  though nothing waits for the collector; and that a signal ends the process
  whatever its handlers do.
* `rate` shows that over *any* interval a client gets at most a burst plus what
  refills, that a limiter that evicts answers exactly as one that never does,
  and that its map outgrows its cap only when its clients are that many.

Runs that end in a violation, each a statement of the repository that the code
does not keep (quoted in `findings`):

| Run | Statement | What happens |
|---|---|---|
| `reap_race` | DeleteExpired removes expired, spent and unfinished sends | a send finalized between its SELECT and its DELETE is deleted, live and unopened |
| `sweep_race` | no part row with missing bytes | a send created and uploaded between OrphanSweep's two reads loses its blob |
| `consume_abort` | the link is consumed and the grant opened atomically | a redeem cut between the two statements spends the link for nobody |
| `ttl` | the server validates the lifetime against its maximum | seconds times `time.Second` wraps, and a request for more is accepted with a lifetime nobody asked for |
| `client_object` | exactly one JSON object on stdout | the error of a failed download goes into the file that was to take the part; a redeem whose connection breaks ends in a shell error |

Further disagreements seen while modelling, without a run of their own:

* a grant is cut short when its send expires, while
  `practical-one-time-redemption.adr.md:18` promises the parts for ten minutes;
  `CachedGrantWorks` therefore excepts it;
* a redeem whose send is reaped between its SELECT and its UPDATE is answered
  `ALREADY_REDEEMED`, which the comment at `sqlite.go:268` does not think of;
  `RefusedLinkWasSpent` therefore excepts it;
* a temp file left by a crash is never collected, while `deploy/README.md:117`
  calls the storage self-cleaning; `TempsOwned` therefore excepts it;
* the limiter's map is not capped, as `ratelimit.go:2` says it is: a new key is
  inserted even if eviction frees nothing.  `GrowsOnlyBusy` says what bounds it;
* the comment at `sqlite.go:107`, that Close checkpoints so that a backup of the
  `.db` file is complete, is not always kept: the errors at `sqlite.go:109` and
  `sendd.go:49` are dropped, and the process exits with status 0 though its log
  still holds pages.  `CompleteBackup` therefore excepts the stop at which both
  attempts fail;
* with caps whose product exceeds an `int64`, which `config.validate` accepts, the
  sum of the sizes may wrap and a request past `MaxTotalBytes` is accepted;
  `AcceptsWellFormed` therefore excepts it;
* `architecture-overview.doc.md:113`, `size-limits.rule.md:23` and
  `server-implementation.guide.md:85` let unfinished sends live an hour,
  `sqlite.go:19` and `backend-http-api.spec.md:74` 15 minutes.  The model has one
  parameter, `CreatingMaxAge`.

**Bounds, and why they are enough to see the interesting cases.**
`MaxTime` lets the clock pass the grant, the stale age and the expiry of a send
in `race`; `GrantTTL = 1`, `CreatingMaxAge = 2` and `TTLs = {3}` differ, so that
each reason to reap decides alone at some instant: a consumed send goes while it
is neither old nor expired, an unfinished one before it expires.  Two requests are enough for every race between handlers, as
each property relates at most two of them (`OneRedemption`, the holder and an
intruder).  `MaxFaults = 1` places one crash, one failed sweep or one failed
delete at every point.  The violation runs set the lifetimes so that only the
hazard in question can cause the violation.  In `create`, sizes and lifetimes
lie at, next to and past each cap, and two parts at their cap add up to more
than an integer holds; lifetimes reach the ends of the integers and wrap past
them; three declarations of two ids make both a repeated id and a part too
many.  In
`client`, two sends make room for a repeated create, two hosts for a link passed
on, a retry and a late request for every call served twice; the grant window
is longer than the grant's lifetime, so that a client also offers grants that
are over.  One
loader runs one invocation after the other, and a redeem it gave up may still be
under way when the other host tries; invocations at the same time are left to
the theorems.  In `shutdown` two connections and the collector contend for the
connection, with statements left to make when the signal comes.  In `rate`, a
map of one bucket makes each new client try to evict the other, and five units
of time contain two full windows.  None of the safety results rests on these
bounds where a theorem covers them (section 4).

**Fairness.**  `FairSpec` assumes weak fairness of the collector's steps alone:
`Worker.Run` sweeps at once and then at every tick until shutdown, and a sweep
waits for nothing but the stores.  Nothing is assumed of clients, which may
stop anywhere, nor of the clock.  Faults are finite, `MaxFaults`: a collector
whose every sweep fails collects nothing.  `SenddSpec` assumes that the main
goroutine runs, its deadline included, that a statement under way ends, and,
strongly, that `Close` gets the connection if it is released again and again:
`database/sql` picks among the waiters at random.  Handlers may hang for ever
between statements and clients may keep their connections open.

**Deadlock** is checked in every run about the server: at the last instant
requests may still arrive and the collector sweep again.  `client`,
`client_object` and `shutdown` do not check it, because their systems do stop:
clients end, and the process exits.

## 4. Proofs

All safety results hold for every value of the constants under the assumptions
their modules name: `IdsAssumption` (`None` and `Nobody` are no ids),
`TimesAssumption` (grant lifetime and stale age are positive; the lifetime of a
send may be 0, as one below a second is stored), `LimitsAssumption` (a limiter
that is enabled, with a positive window), `ConfigAssumption` (what
`config.validate` accepts), `WordAssumption` (each limit fits the
integers), `ClientAssumption` (numbers of retries and the client's window are
natural numbers, and the saver is no loader), and `SenddAssumption` (the
goroutines are different).

What the modules of the store take for granted of a create, that lifetimes are
natural numbers and that a manifest is a set of parts, not empty, is what
`LifetimeInOrder` and `AcceptedExactly` establish.

| Theorem | Module | States |
|---|---|---|
| `Invariance` | `SendProofs` | `Spec => []IInv` |
| `TypeCorrect`, `RedeemedOnce`, `Completeness`, `UploadsSafe`, `Readable`, `ReadByRedeemer` | `SendProofs` | `TypeOK`, `OneRedemption`, `FinalizedComplete`, `UploadSurvives`, `GrantedPartReadable`, `OneReader` |
| `ReapsDead` | `SendProofs` | `Spec => ReapOnlyDead` |
| `TempsHaveOwners`, `RefusalsAreRight` | `SendProofs` | `TempsOwned`, `RefusedLinkWasSpent` |
| `DueGoes`, `OrphansGo` | `SendProofs` | `Spec /\ SweepsGoOn => DueIsReaped`, `... => OrphanCollected` |
| `KeepsPromises`, `GrantsKept` | `SendContract` | the rules of the contract give `Promises` and `GrantsLast` |
| `Refinement` | `ContractProofs` | `Spec => ImplementsContract` |
| `PromisesKept`, `GrantsOutlast` | `ContractProofs` | hence `[]Contract!Promises`, and `Contract!GrantsLast` |
| `LifetimeInOrder`, `CreateTypes` | `CreateProofs` | `StoredLifetime`, `CreateTypeOK` |
| `AcceptedExactly`, `AcceptedUnderCaps` | `CreateProofs` | `AcceptsWellFormed`, without its exception where the parts fit at their cap |
| `OnlyOverflowEscapes` | `CreateProofs` | `LongTTLRefused` holds unless the lifetime overflows |
| `ClientInvariance` | `ClientProofs` | `ClientSpec => []ClientInv` |
| `PrintedLinkIsComplete`, `OneTimeMeansOneMachine`, `CacheIsHonoured`, `ClientTypeSafe` | `ClientProofs` | `LinkIsComplete`, `OneMachineReads`, `CachedGrantWorks`, `ClientTypeOK` |
| `WindowIsHonoured` | `ClientProofs` | if `GrantWindow <= GrantTTL`, every cached grant the client takes for good is honoured, unless its send has expired |
| `ApiRefinement` | `ClientProofs` | `ClientSpec => ApiImplementsContract` |
| `SenddInvariance`, `GracefulClose`, `BackupIsComplete` | `SenddProofs` | `SenddInv`, `NothingCutOff`, `CompleteBackup` |
| `SignalEnds` | `SenddProofs` | `SenddSpec /\ RunGoesOn => ShutdownEnds` |
| `RateInvariance`, `RateHolds`, `GrowthIsBusy` | `RateProofs` | `RateInv`, `RateBound`, `GrowsOnlyBusy` |
| `EvictionHides` | `RateProofs` | `RateSpec => EvictionUnobservable` |

**The invariant of the send store.**  No safety property is inductive alone,
since each handler acts on what it read earlier.  `IInv` says what is still
true of it:

* `RowsInv`: parts and grants belong to rows that exist; a live grant belongs to
  a finalized send.  Needed because the cascade and the foreign key are what
  keep grants and parts from outliving a send.
* `RequestsInv`: what a handler checked still holds, *or the send is gone*.  A
  declared part stays declared, `Missing` stays empty after `FinCount` (an upload
  only shrinks it), a finalized send only becomes gone.
* `OneTimeInv`: a request past `RedConsume` is the only one entitled to insert
  the grant, the link was consumed at that request's time, and no grant exists
  yet.  Without it `OneRedemption` is not inductive.
* `InTime`: a redeem past its SELECT found the send unexpired at the time it goes
  by, so that only consumption or a reap can make its UPDATE miss.
* `BlobsInv`: a handler about to publish holds verified bytes; one about to mark
  has its blob in place, unless the send is gone or was born in a sweep.
* `DirsInv`: every file lies in a directory that exists, although `Delete` removes
  directories while uploads create them; so a walk finds every blob.
* `GcInv`: the reason a send was selected stays true of it; keys to purge belong
  to sends selected or gone; keys to sweep are not live, and every send *not* born
  in the sweep has its keys in the snapshot.  This is what makes
  `UploadSurvives` true exactly outside the window that `sweep_race` exhibits.

`SendTypeProofs` proves type correctness action by action; `SendProofs` has, for
each conjunct, one step per action that can disturb it.  `ReapOnlyDead` is proved
at both ends of a reap: at `GcSelect`, where what the SELECT finds spent has no
grant left that runs (`SpentIsOver`, from `OneTimeInv`), and at `GcDelete` from
`GcInv`.

**The contract.**  `ContractProofs` maps every step to a step of the contract or
a stutter: `InsertStep` is `Open`, `PutMark` is `Supply` or a stutter,
`FinUpdate` is `Seal`, `RedConsume` is `Spend`, `RedGrant` is `HandOut`,
`GcSelect` and a sweep given up are `Condemn`, `GcDelete` is `Discard`, the clock
is the contract's.  `IInv` is needed at each: that what `FinUpdate` seals misses
nothing, that `RedGrant` is the only grant on a spent link, that what `GcDelete`
deletes was due when it was selected.  `PromisesKept` and `GrantsOutlast` are
then the contract's own theorems, applied to the store; their premise, that
durations are natural numbers, is `TimesAssumption`.

**The collector's progress.**  Fairness is beyond the prover, but not what the
collector does with it.  `SweepsGoOn` says that sweeps come to an end again and
again and that deletions of blobs do not fail for ever; `collect` checks that a
fair collector does this, and the theorems assume it.  A due send is `Picked`
once a sweep begins: no step of anybody, a failed sweep or a crash included, ends
that before the send is no longer due, and while it is picked no sweep can end.
A blob whose send is gone is `Tracked` in the same way: not among the live keys
(`RowsInv`), in a directory that the walk has still to read (`DirsInv`) or
already listed.

**The invariants of a create.**  `CreateInv` carries the granted lifetime from
the check to the times stored; the rest is arithmetic on whole seconds
(`WholeSeconds`) and on wrapping integers (`WrapFits`, `WrapType`).  `LoopInv`
says what the turns so far have established: the parts before `index` are
well-formed and distinct, `seen` is the set of their ids, and, as long as so many
parts fit at their cap, `total` is at most `index - 1` times it: the sum has not
wrapped (`SumFits`).  `AcceptedExactly` needs two more parts: `SumInv`, that running
sums of the sizes that stay within an `int64` end in `total`, and that there are
such sums unless the sizes add up to more; and
`RefusedInv`, that a request refused so far deserved it.  Running sums stand for
a fold over the parts, which would need induction over data.

**The invariant of the clients.**  `ClientInv` relates tables, calls and caches:

* `TablesInv`: a send that is not stored has no parts, a finalized one misses
  nothing; a one-time send has at most one
  grant, which ends `GrantTTL` after the link was consumed; a grant is on file
  until its send is gone.
* `CallsInv`: what a call in progress, or a late request, is about exists; a
  finalize that was answered 200 concerns a send that is `Kept`: still finalized,
  or gone for expiry or after its redemption and the end of its grants.  A late
  or repeated request does not undo this (`KeptStays`), which is what makes
  `LinkIsComplete` inductive.
* `TokensInv`: a token that a host caches, or a loader has just been answered,
  was issued for the link, lasts for `GrantTTL` from when its client began the
  redeem (`Begun`), and is nowhere else.  A fresh token cannot be in any cache because what is there was issued
  (`FreshToken`).

Every step is then one of few: a step of the tables (`EveryStep`), an attempt of
curl (`ProcAttempts`), or a step of one script.  `OneMachineReads` follows
because two hosts with tokens for a one-time link hold the same token, and a
token is in one place; `CachedGrantWorks` because a link that is gone for its
redemption has no grant left that runs.

**The invariant of the process.**  `SenddInv` says that whoever holds the
connection is at work with it, and that once `Shutdown` has drained the server
nobody is left who could take it: handlers are done, and the collector's context
is, so `database/sql` begins no statement for it.  What the log holds after that
is what the checkpoint failed to fold, and at the exit what both steps failed
to.  After a stop that was not
graceful (deadline, failed listen or serve) the log may be left behind, and the
next start reads it.

`SignalEnds` is about liveness: its premise `RunGoesOn` is the fairness of
`SenddSpec` with the guards of its actions written out in place of `ENABLED`,
which the prover cannot reason about: `Run` is not stuck where a step of its own
is possible, statements end, and `Close` is not passed over for ever.  The
theorem goes from there through the places of `Run` (`MainMoves`), one lead-to
each; `shutdown` checks `ShutdownEnds` without the premise.  At `Close` it uses `SenddInv`: who holds the
connection is a user who will release it.

**The invariant of the limiter** is that what a client has spent since `t` and
what it could still spend are together at most a burst plus the refill since
`t`.  Each action moves that sum as it should because eviction only drops a
bucket whose credit is already full (`RefilledBounds`); the same lemmas on
credits (`CreditNew`, `CreditKnown`, `CreditDeny`, `CreditTick`) give the
refinement.

**Only model-checked**: that weak fairness gives `SweepsGoOn`, and that the
fairness of `SenddSpec` is what `RunGoesOn` writes out (fairness and `ENABLED`
are beyond the prover), and so the liveness
properties `OrphanCollected`, `DueIsReaped` and `ShutdownEnds` without these
premises; and all the violations.  Every invariant, action property and
refinement that a passing run checks has a theorem.

## 5. Not modelled, and what remains

Modelled: the send store with its collector and its contract, the validation of
a create, the API, the shell client, the process and the rate limiter.  What
could still be added:

1. The reads of GetSendMeta and of the parts a redeem lists: two statements that
   a reap may separate, seen only in an answer that decides nothing.
2. Loss of power as a fault of the blob store, which renames without an fsync.
3. That the statements of `Coordinator` implement the atomic endpoints of
   `SendApi`.  Both are proved to implement `SendContract`; the answers that
   interleaving leaves visible, which `SendApi` lists, are related by reading.

Left out for good: landing pages, request log, deployment scripts, the mock
server of the tests, parsing of the environment, packing and encryption in the
clients (the server never sees plaintext), health and metadata pages, and the
randomness of ids and tokens, which are taken to be fresh.
