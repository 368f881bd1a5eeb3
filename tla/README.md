# A TLA+ model of Mariner

Mariner is an S3 browser: a Go server keeps each user's connections in an
encrypted vault, signs users in over OIDC, streams files to and from S3
and writes an audit trail; a React client runs in the browser; an optional
sidecar forwards the audit trail to stdout. This directory holds TLA+
modules for the parts whose correctness depends on the order of events, the
TLC configurations that check them and the TLAPS proofs about them.
Paths below are relative to the repository; `server.go`, `security.go` are in
`internal/httpapi`, `oidc.go` in `internal/auth`, `connections.go` in
`internal/api`, `service.go` in `internal/service/s3`, `api.ts` in
`frontend/src`, the repositories in `internal/vault`.

## 1. Inventory

| Component | State it keeps | Operations | Talks to |
|---|---|---|---|
| Upload endpoints (`server.go`) | map `uploads` under `uploadMu`, a temp directory per upload | `uploadInit`, `uploadPart`, `uploadComplete`, `uploadAbort`, `multipartAbort`, `multipartUploads` | S3 service, audit, vault (to resolve the connection) |
| Browser upload client (`api.ts`) | the state of one `upload` promise | init, batches of parts, complete, cleanup | upload endpoints, over a network that loses answers |
| S3 service (`service.go`) | cache of S3 clients | upload through a pool of goroutines, browse, search, versions, delete, archive | S3 |
| Audit logger and forwarder (`internal/audit`, `audit_repository.go`) | table `audit_events`; the sidecar's cursor | `Write`/`Append`, `Cursor`, `ListAfter`, `RunForwarder` | database, stdout |
| Sessions (`oidc.go`) | map `sessions` with user, expiry and master password | login, callback, `Current`, `SetPassword`, `Lock`, `Logout` | identity provider, cookies |
| Vault (`store.go`, `vault_repository.go`) | table `vaults`: one encrypted envelope per user | `Exists`, `Load`, `Save`, `Delete` | every handler that needs connections |
| Connections (`connections.go`, controller) | none of its own | list, create, test, update (with moves between vault and organizations), delete | vault, organizations, S3 (test) |
| Organizations (`server.go`, `organization_repository.go`) | provisioned map, table `organizations` | effective configuration, membership, admin save and delete | connections, groups |
| Connection groups (`server.go`, `model/connection.go`) | paths inside vaults and organizations | create, rename, delete up to five levels | vault, organizations |
| Security middleware (`security.go`) | rate-limit windows per address and path | limiter, CSRF token, strict JSON | all routes |
| Backup (`backup.go`) | none of its own | export of four tables, import that replaces them | database |
| Preferences, admin audit view, config, migrations, TLS, logging | rows or nothing | reads, upserts, set-up | database |
| React UI, deployment | presentation; manifests | - | - |

What is hard in this code, beyond what its tests exercise:

- **Concurrency.** Go runs a goroutine per HTTP request. `uploadPart` reads the
  entry under the lock, works for seconds without it and comes back to it;
  `uploadComplete` removes the entry before it checks anything. The pool in
  `service.go` has a feeder on an unbuffered channel, workers that leave on
  error and two contexts. Vault and organization handlers load, change and save
  in separate statements.
- **Failure.** S3 calls may fail with or without effect; writes may leave a torn
  file; a restart empties the maps and keeps the directories, the rows and S3.
- **Ordering.** Parts, completion and DELETE overtake each other; audit rows of
  several replicas arrive in an order that is not that of their timestamps.
- **Boundaries.** The last part of a file, the last batch, the batch size of the
  forwarder, timestamps as strings.

`PROJECT.json` lists each hazard at its line with the properties that cover it,
or with the reason why none does.

What makes each component correct:

- *Upload endpoints*: one finisher per upload; only the owner completes; the
  object is made of parts accepted once each; the audited digest is that of
  the object; what a client leaves behind is what its calls could not remove.
- *Client*: what S3 ends up with is the file; success means stored.
- *Pool*: it terminates; no part is dropped silently; no orphan at S3.
- *Audit*: no replay, nothing skipped, everything new is delivered.
- *Sessions and vault*: a session that is over stays over; data stays under its
  password; serial changes behave serially; removed data stays removed.
- *Connections and groups*: no connection is lost in a move; failures leave a
  state that a retry repairs; members' requests file nothing deeper than
  five levels.
- *Limiter, backup, listings*: bounded rate; an import or export is one state
  of the database as far as one process can see to it; a paged operation covers
  every object that was there throughout.

## 2. Modules

| Module | Models | Notes |
|---|---|---|
| `AtomicUpload` | the promise of the upload endpoints | abstract: no requests, locks or files |
| `MultipartUpload` | the upload handlers, temp directories, S3's side | implements `AtomicUpload`; one action per stretch under the lock, per S3 call and per file operation |
| `BrowserUpload` | `api.upload` for large files | EXTENDS `MultipartUpload`: client and server composed |
| `MultipartPool` | `Service.uploadMultipart` | feeder, workers, contexts, S3 |
| `AuditForwarder` | `Logger`, `audit_events`, `RunForwarder` | any number of replicas, one sidecar |
| `VaultSession` | sessions, vault row, unlock, lock, destroy, settings, personal connections | one user, any number of sessions and requests |
| `Connections` | vaults, organizations, the moves between them, the administrator, export and import | any number of users, organizations and requests; vaults are unlocked |
| `ConnectionGroups` | the tree of groups in one place | a vault, a stored or a provisioned organization |
| `ObjectPages` | listings page by page and what acts on them: browse, search, versions, uploads, deletions, archives | one request while others change the bucket |
| `RequestGate` | CSRF check and rate limit before every handler | tabs of browsers, ticks, restarts |
| `MC*` | instances for TLC | symmetry sets, concrete files, limits and exports |
| `*_proofs` | theorems of the module they are named after | see section 5 |

**MultipartUpload.** `live` is the key set of `s.uploads`; `owner`, `conn` and
`parts` are the fields of the `uploadState` a handler reaches through its
pointer even after the entry is gone; `dir` and `file` are the temp directories;
`phase`, `stored` and `object` are S3's view; `req[r].pc` is where the goroutine
of request `r` is. `InitCreate`/`InitRegister`/`InitNoTempDir`/`InitAbort` are
`uploadInit`; `PartLookup`, `PartSend`, `PartOpen`, `PartWrite`, `PartRecord`
the stretches of `uploadPart`; `CompleteTake` .. `CompleteReply` those of
`uploadComplete` (with `Service.CompleteMultipart`'s abort on error);
`AbortTake`/`AbortSend` `uploadAbort`; `MultipartAbort` `multipartAbort`.
Completions and aborts end with `os.RemoveAll` of the temp directory, whose
error they ignore: `RemoveFiles` removes the files it lists, `RemoveDir` the
directory, unless a part file was created in between (`late`) or the disk
refused one of the two (`stuck`). `os.WriteFile` is `PartOpen`, which creates or
truncates the file, and `PartWrite`; of two requests that write one file at a
time the model lets one have the last word, though the bytes could mix. A
handler that cleans up keeps the answer it will give in `status`. An
ETag is the body it identifies and a digest the sequence that was hashed, so
S3's ETag check and the audit's claim are comparisons. `Crash` is a restart of
the process; it also stands for the fatal error the Go runtime may raise when a
part is recorded while `uploadComplete` reads the map without the lock.

**BrowserUpload.** `client` is the promise: the next part, the parts on their
way and those awaited by `Promise.all`. `LoseInitAnswer` and `LoseAnswer` are a
cancellation or a lost answer, of init, which stands outside the `try` block, and
of every call after it; `CallRefused` and `CleanupRefused` are calls that do not
get to their handler (no session, vault locked, limiter) or do not arrive.
`Finalize` completes through whatever the client's connection id stands for by
then: the connection, another one after an edit, or none after a deletion.
`forsaken` is a history: what no call will remove any more once one of these has
happened. A second user may abort the upload from the list of open uploads.
The composition leaves `Crash` out: after a restart nobody knows the temp
directory any more and nothing reclaims it; that is how the code is.

**MultipartPool.** `pc` and `next` are the calling goroutine, `worker[w]` the
pool, `slots` the slice `parts`, `callerDone`/`partDone` the two contexts. The
select of the feeder is two actions that may both be enabled.

**AuditForwarder.** A timestamp is its place in the order of strings: `Format`
drops trailing zeros as RFC3339Nano does, with two digits in base `Base` for the
nine of the format, and `Z` sorts after every digit. `logger[r]` is the event a
replica has stamped and not inserted. Two simplifications: no two
readings of the clock are equal, and an event id is never drawn twice. `fresh`
and `late` are history variables: the rows inserted since the sidecar started
and those of them that were inserted behind its position.

**VaultSession.** `sessions[s]` is the entry of a session id, the zero `Session`
when there is none, as a Go map reads; `row` is the user's envelope, keyed by the
password that opens it; `req[t]` is a handler with its own copy of the password
(`session.Password`) and the row it last read (`seen`). Decryption is perfect:
a row opens under its own password only. `promised`, `stale`, `under` and
`destroyed` are history variables. One server process is modelled, as the map is
in memory; the statements on the row are atomic because the database and the
repository's mutex make them so.

**Connections.** `vault[u]` is what the row of a user holds, `rows[o]` the row of
an organization (or that there is none), `shared[o]` the map of connections
behind `s.Organizations`, which every request of the process gets a reference to.
`Effective` is `effectiveOrganizations`: the row overrides what Helm provisioned.
A request is its operation, its connection, where the connection was and where
it goes, and the organization or the vault it has read (`seen`); an organization
in a handler's hands is either the row it read or the provisioned one, whose map
it shares with all others. Each operation is cut where the code waits:
before and after the S3 test (`CreateShared`/`Mint`, `CreatePersonal`,
`Find`/`Target`), and at each statement (`Put` saves the target, `Take` loads
the vault, `Save` saves it, `Drop` saves the source organization). `DeleteShared`
and `DeletePersonal` are the deletion up to its save; `Fail` is any error answer,
`Restart` the end of the process, which is also what a concurrent write to a Go
map leads to. `AdminForm`/`AdminSave`/`AdminDelete` are the administrator, whose
page shows what was there when it was loaded. `ExportVaults` and
`ExportOrganizations` are the queries of `ExportBundle`, `ImportBegin`,
`ImportInsert`, `ImportCommit` and `ImportRollback` the transaction of
`ImportBundle`; `mu` is `Store.mu`. The server may run as several replicas over
PostgreSQL (README.md:36-44 of the repository), and `Store.mu` and the shared
maps are those of one process: the threads of `elsewhere` are requests that other
replicas serve, which do not wait for an export (`Free`) and whose saves of vaults
between its queries `overtaken` records. They use organizations that have a row
only, as their maps are their own; the administrator's requests are those of the
modelled process. An import keeps all requests waiting: others wait for the rows
its transaction has deleted. Histories: `issued` and `promised` (what
there is if requests apply one at a time), `granted` (the members the
administrator or Helm last set), `raced`, `torn` and `dropped` (what two
requests worked on at once or a save overwrote unread; what requests that ended
between two changes leave behind).

**ConnectionGroups.** The place may start with, and be replaced by
(`Replace`: an administrator's save, an import), one whose groups nobody
validated: their paths are members of `Outside`. `imposed` records those that
are deeper than the limit. A path is a sequence of names, a list of groups a set,
since the handlers drop duplicates and sort. The helpers of
`model/connection.go` and `server.go` (`AppendGroupPath`, `RemoveGroupPath`,
`RenameGroupPath`, `HasChildGroup` ..) are operators. `CreateConnectionGroup`,
`DeleteConnectionGroup`, `RenameConnectionGroup` and `FileConnection` are a
handler up to its save: it reads the place and checks what it read; in a
provisioned organization it changes the shared map there and then (`Begin`).
`Save` computes and writes the whole place. `serial` is the place if the requests applied one after the other;
`raced`, `torn` and `deepened` record what excuses a difference.

**ObjectPages.** A bucket is a set of entries, each an object's version, a
delete marker or an open multipart upload; what a client sees under a key is the
newest entry. A listing is continued after a marker, as S3 does it, with pages of
any size up to `PageSize`. `req` is the request: what it lists, how far it has
come, what it has collected, what is still to be deleted or copied. `Browse`,
`Search`, `Versions`, `MultipartUploads`, `FolderVersions`, `FolderObjects` and
`ArchivePage` are one call of S3 with the service's treatment of its page;
`DeleteBatch` is a batch of at most `BatchSize`, which S3 may refuse
(`DeleteRefused`); `Head` and `Remove` the deletion of one object with the digest
that is audited; `Copy` one object of an archive, whose limit is compared by
subtraction as in the code: the sizes it counts are those of the listing, which a
tar entry is cut to, while a zip entry takes the body as it is by then (`grown`).
A page may be cut off without a marker for the next (`RudePages`), which sends
every loop back to the start of its listing but that of the uploads, which looks
for it and ends. Others add, replace and remove between any two
calls. `always` and `ever` are what was in the listing all along and at some
time; `lost` is what the request removed.

**RequestGate.** A request of a tab is built with the token the tab reads from
the cookie, leaves with whatever cookie the browser has then, and its answer may
set another. The limiter's map has an entry per address and path with the time
its window began and its count; time passes in ticks. The limiter reads the clock
(`ReadClock`) before it takes its lock (`Admit`, `Deny`): a request that waits may
open a window that began in the past, which `late` counts. A restart empties the
limiter and may change COOKIE_SECRET. `passes` records how many requests had
passed by each tick, so that what a window let through is a difference; `calm`
is the tabs whose cookie nobody else has changed.

How they fit together: `RequestGate` is what every request passes first;
`VaultSession` decides whether its vault is open; `Connections`,
`ConnectionGroups` and the upload endpoints start from an open vault.
`ConnectionGroups` and `Connections` look at the same rows, one for the paths in
them and one for the connections. What one component needs of another is a
guard or an assumption named above; only `BrowserUpload` is a composition that
TLC explores as one system, as only there does one side react to the other's
answers.

## 3. Runs

| Run | Question | Bounds |
|---|---|---|
| `upload` | Do the handlers implement `AtomicUpload`, and is an upload finished once and by its owner? | 2 requests, 2 users, 2 connections, 2 bodies, 2 parts, 1 failure or crash |
| `upload_digest` | Is the audited digest the object's? **No** | 3 requests, 1 part |
| `browser` | Does the client leave the whole file or nothing, and what else stays behind? | 4 parts in batches of 3, 3 failures or lost answers, any refusal, 2 connections, another user's abort |
| `pool` | Does the pool drop, leak or hang? | sizes up to 5, parts up to 2, 3 workers, 2 failures of any call |
| `forwarder` | What does the sidecar guarantee with any timestamps? | 2 replicas, 3 events, 4 readings, batches of 2, 2 failures |
| `forwarder_format` | Are dropped zeros harmless? **No** | 1 replica, 2 events |
| `vault` | Do passwords and sessions stay apart, and does the vault lose or revive connections? | 2 sessions, 2 passwords, 2 requests, 1 connection |
| `vault_destroy` | Is destroying a vault final? **No** | 1 session, 2 requests |
| `connections` | When can a connection be lost or doubled, do members stay as granted, what is an export one moment of? | 1 user, 2 organizations (one provisioned), 2 connections, 4 requests, 2 at a time in this process or another, 2 files |
| `groups` | Do groups behave serially, what takes them beyond their depth, are other groups left alone? | 2 names, 1 connection, 3 requests, 2 at a time, depth 2, paths up to 3, unvalidated paths of 3 |
| `pages` | Are paged operations complete while the bucket changes, and do they end? | 3 keys, pages and batches of 2, sizes 0 and 2 with a limit of 2, 3 writes before, 1 change during, any page without a marker; archives of buckets without versions |
| `gate` | How much does the limiter let through or deny, and does a refused write succeed when it is repeated? | 2 tabs of 1 browser, a read path without a limit and a write path with one of 2, windows of 2 over 3 ticks, 3 requests each, 1 restart |

Why the bounds are enough for the cases to happen: a race needs two handlers
(a request that has been answered is free to be the next one), and a third where
the completion reads what two raced parts left (`upload_digest`); two parts make
a gap and an order; four parts in batches of three make a full and a
cut batch; sizes up to 5 with parts up to 2 contain exact multiples and
remainders and, with parts of 1, more parts than workers; three failures reach
a directory that stays because of a late part file as well as one the disk
keeps; three events exceed
the forwarder's batch of two; two passwords and a destroy let a session hold a
key that no longer fits, and the second session holds it while the first goes on.
With one connection a lost update of a vault is one of the connection by a
change of the settings or of the master password.
Four requests on two places make a move, its failure, the retry and somebody
else's request in between; a provisioned and a stored organization are the two
ways an organization is held. A place of groups starts new, or provisioned with a
group that is too deep; a row as deep comes by `Replace`. A group two levels deep that moves
one level down passes a limit of two as one of five passes the code's. An archive reads the newest objects
only, so buckets with versions would show it nothing else. Pages of
two over three keys have a full, a cut and an empty page and a page that ends
inside a key's versions. Three ticks hold the end of a window of two and the
beginning of the next.

Named bounds: faults `MaxFaults`, part numbers `MaxPart`, sizes `MaxSize` and
`MaxLimit`, events the sets `Ids` and `Instants`, connections `Conns`, logins
`Sids`, requests `MaxCalls`, paths `MaxLength`, the bucket `MaxWrites` and
`MaxChanges`, the gate `MaxTime`, `MaxSent` and `MaxRestarts`. Symmetry is used
for interchangeable requests, bodies, ids, names and passwords, in runs without
liveness properties only. Deadlock is checked in every run: where the system may
stop (`Settled`, `Returned` and the like) the specification says so with a
stuttering action.

Every property of a passing run has a mutant: a definition of the module changed
the way a plausible bug would change the code (the comment `Mutant of ..` stands
before it), under which TLC finds the property violated.

Several properties except the states that follow a race the code does not
prevent: `Serial` (`raced`, `stale`, `torn`), `NotLost` (`dropped`, rows
overwritten unread), `ExportsAreSnapshots` (`overtaken`, vaults that another
replica saves between the queries), `DeeperOnlyByRename` (`deepened`, and paths
as deep as `imposed` ones), `Reclaimed` (`forsaken`, `late`, `stuck`),
`LessThanTwice` (the limit once more for each restart and each window in `late`)
and `NoCopy` (`raced`, `torn`, and `Ambiguous`: an id is
unique in its organization only, and Helm may name it in two). In `Connections`
an exception names the connections or rows concerned, and every other one keeps
the property; `Serial` excepts the whole place once two requests have overlapped
on it. What is
excepted is listed in section 6.

## 4. Fairness

`MultipartUpload`, `VaultSession`, `Connections`, `ConnectionGroups`,
`RequestGate` and their runs state safety only.
`BrowserUpload` assumes weak fairness for each request's handler, for the client
and for each part on its way: the Go scheduler runs every goroutine, S3 calls
end, a request that was sent arrives, is refused or is lost. `MultipartPool`
assumes weak fairness for the calling goroutine and for each worker. A choice
the feeder has between two ready cases of its select is not assumed fair.
`AuditForwarder` assumes weak fairness for the sidecar's loop: it keeps running
and its queries end. `ObjectPages` assumes it for the request's own steps, but
not for browse, where a user may never ask for the next page; of a store that
sends pages without a marker again and again nothing is assumed. No failure,
cancellation, restart, stamp, commit or other user's action is ever assumed to
happen.

## 5. Proofs

All theorems hold for every value of the constants that the named assumptions
admit. The inductive invariants were checked with TLC before they were proved.
Every safety invariant and action property of a passing run is the conclusion of
a theorem.

- **MultipartUpload_proofs.** `TypeCorrect`; `FinishedOnce` (`OneFinisher`);
  `OwnerCompletes` (`OnlyOwnerCompletes`); `Refinement`
  (`Spec => ImplementsAtomic`). `IInv` adds to the types:
  *Custody* (an upload is held by S3 alone, by the map, or by one request),
  *OrderedRecorded* (the ETags a completion goes to S3 with are still the
  recorded ones, as parts are recorded once), *OwnerChecked* (a completion past
  its checks is still the owner's, as only a registration writes an owner and
  has the upload to itself) and *AnnouncedLast* (the success
  event comes after the object, from the only holder). Without Custody two completions
  could both announce; without OrderedRecorded the object could differ from the
  accepted parts at the moment it appears. Assumptions: `None` and `Torn` are
  not values of the other sets.
  For client and server composed, `BrowserFileArrives` (`ObjectIsFile`, the
  audited digest included) and `BrowserDone` (`DoneMeansStored`), for a file of
  any length, any number of parts at a time and any number of failures. Every
  step of the composition is one of the server, so `IInv` holds;
  `ClientInv` adds what the client knows: which request carries which call
  (*Roles*), that each part number is sent once (*SentOnce*, the reason why no
  two requests race for a part file), that a part whose answer is no longer
  awaited is recorded, and all are before the completion (*Awaited*), that the
  completion hashes the recorded parts in the file's order (*Hashing*), that no
  part file is created while it removes the directory, as every part has been
  answered by then (*Cleared*), and that an answer is what the server did
  (*Outcome*). Assumption: the file is not empty and has at most `MaxPart` parts.
- **MultipartPool_proofs.** `TypeCorrect` and `WholeList`
  (`CompleteListIsWhole`). The strengthening is `NoSilentLoss`: an index that
  left the feeder is with a worker or in its slot unless somebody failed or gave
  up, and a cancelled context always has a reason. `WholeFile`
  (`ObjectIsFile`) adds *InOrder*: a slot holds the section of its index or
  nothing, and a completed object is the sections in order; that these make up
  the file, without gap or overlap, is arithmetic proved for all sizes
  (`PartCountBounds`, `SectionTyped` and what follows them).
  `NothingLeftOpen` (`NoOrphan`): a step that returns to a caller who is still
  there leaves an upload open only if it is the creating or the aborting call
  and that call failed.
- **AuditForwarder_proofs.** `TypeCorrect`, `WrittenOnce` (`NoReplay`),
  `NothingOwedIsLost` (`OwedForwarded`), from `IInv`: what is owed is written,
  in the batch, or after every row of the batch. `InOrderNothingIsSkipped`
  adds the hypothesis `InOrder` (one replica, timestamps that sort as the
  clock runs) and proves `EachNewForwarded`: the two ways to break it that
  section 6 tells of are the only ones.
- **VaultSession_proofs.** `TypeCorrect`, `KeysSeparate`, `SerialUnlessStale`,
  `SessionsEnd` (`OverIsOver`) and `NothingReturns` (`GoneForGood`). `IInv` adds
  that a request in progress came with an id that was handed out and holds a
  password (`Admitted`), and that what a handler is about to save was created
  under its password (`OwnData`).
- **Connections_proofs.** `TypeCorrect`, `NothingIsLost` (`NotLost`),
  `MembersAreKept` (`MembersAsGranted`), `ExportsHold`
  (`ExportsAreSnapshots`).
  *Sound* is the types together with what each step of a request knows
  (which places, which ids). `NotLost` needs *Course*: two requests on one
  connection have raced (*Exclusive*); what is about to be saved from a shared
  map is in it (*Owned*); and a promised connection is in a vault, in an
  organization even if the process ends, or with the request that moves it
  (*Kept*). Without Exclusive the vault a second request has loaded could
  overwrite the connection; without Owned a save from the shared map could
  leave it out. `OnePlaceAtMost` (`NoCopy`) needs *Single* besides: a connection
  nobody is at work on is at one place, or at none when deleted (*Settled*); one
  that a request is at work on is where the request took it from or where it
  brings it (`Source`, `Goal`, `Way`), and has left what the request has dropped
  (*Goes*); and what an organization without a row shares is what Helm
  provisioned, but for the change of a request that is about to save
  (*Provision*). Without Provision a row that an administrator deletes could
  uncover a connection in the shared map that has moved away since. `Ambiguous`
  ids are left out as such an id is at two places to begin with. That
  users and organizations are finitely many is assumed for the count in
  `NoCopy`. *Backup* says that an export holds `Store.mu` from query to
  query, so that of the vaults it has read only those another replica has saved
  may have changed when it reads the organizations, the moment the export is
  of.
- **ObjectPages_proofs.** `TypeCorrect`, `ListingsComplete` (`Complete`),
  `FoldersGo` (`FolderGone`), `UnlistedSpared` (`SparesUnlisted`),
  `ArchivesBounded` (`ArchiveBounded`), for any set of keys, sizes of pages and
  batches, number of changes and of listings that start again. `IInv` says what a request has at each step
  (*Flow*), that the histories follow the bucket (*Tracked*) and an entry is
  known by key and number (*Unique*), that what was there all along and lies
  behind the marker has been reported (*Seen*, with *Known* for the converse),
  that what was in the folder all along is to be deleted or lies ahead (*Gone*),
  and that an archive counts listed sizes and holds besides what a zip's objects
  have grown (*Counted*).
- **ConnectionGroups_proofs.** `TypeCorrect`, `DepthKept`
  (`DeeperOnlyByRename`), `SerialUnlessRaced` (`Serial`). *Depth* adds that the
  shared map and what requests have read are no deeper than the limit or than
  what was imposed, and that no request about to save makes a path longer; it rests on lemmas about paths
  (`AncestorsOfPath`, `RenamedPath`). *Agreed* says what a place is compared
  with `serial` while requests are under way: a stored place is `serial` once
  no request on the shared map is pending, and a provisioned one is what the
  only pending request made of it. A second pending request needs no such
  relation, as the later of the two finds a row and has raced.
  `SubtreesMove` (`OnlyTheSubtree`): a rename moves the group and what is in
  it, a deletion removes the group alone, and every other group stays, but for
  ancestors that appear with a path. It rests on the algebra of paths
  (`RenamedAncestors`: the ancestors of a renamed path are its renamed ancestors
  and those of the new name) and on *Vacated*: a request about to save a deletion has found
  nothing in the group it read.
- **RequestGate_proofs.** `TypeCorrect` and `NoSecondRefusal` (`RefusedOnce`):
  a tab that was refused and whose cookie nobody changed holds a token the
  server will accept. `RateBounded` (`LessThanTwice`) and `OnlyTheBusyAreDenied`
  (`DeniedOnlyIfBusy`), for every limit and window: *Metered* says that `passes`
  only grows and knows nothing of the future (*Growing*), that an entry's count
  is made of what has passed since its window began, at least one of it at the
  very tick that opened it (*Counting*), and that a span which holds the start
  of the window has let through less than the limit besides what the window
  counts (*Bounded*): the two together give less than twice the limit, and once
  more the limit for each restart and each window opened with an old reading.

Only model-checked: liveness (`Reclaimed`, `Delivered` and the two properties
`Terminates`), as temporal reasoning under fairness and ENABLED is out of the
prover's reach, and the absence of deadlock. The three runs of section 6 that end
in a counterexample have nothing to prove.

## 6. Findings

Shown by a run:

1. **Digest of a raced part** (`upload_digest`). `uploadPart` writes the part
   file outside the lock and before the duplicate check; two requests for one
   part number leave a file that is not the stored part, and the success event
   carries the digest of bytes the object does not have (README.md:161).
   The web client sends each part once, so `ObjectIsFile` holds for it.
2. **Skipped events, one replica** (`forwarder_format`). Timestamps without
   their trailing zeros do not sort as text in the order of time; an event may
   be inserted behind the sidecar's cursor and is never written (README.md:101).
3. **Vault after destroy** (`vault_destroy`). A change that overlaps the
   destruction writes the destroyed connections back
   (frontend/src/App.tsx:906).

Behaviour the models contain, that a property excepts or bounds:

- **Skipped events, several replicas.** The timestamp is read before the INSERT;
  an event stamped first and committed second is skipped (README.md:101, 114).
  `OwedForwarded` and `InOrderNothingIsSkipped` draw the line.
- **Password after logout.** An unlock that ends after its session was logged
  out puts an entry with the master password, and without an expiry, back into
  the map (README.md:206). `OverIsOver` shows that the entry is never accepted
  as a session.
- **A connection between two places.** A move to the vault, and a deletion,
  change the organization's row first; a failure after that loses the
  connection (`dropped` in `NotLost`). A move into an organization never does,
  but leaves a copy when it fails between its saves (`torn` in `NoCopy`).
- **A row overwritten unread.** When the list of stored organizations cannot be
  read, a member's save goes on from the provisioned organization and
  overwrites the row with it (server.go:1019).
- **A shared map with a past.** After an import that has no row for a
  provisioned organization, the organization is again what the process holds
  in memory, with the changes made there, until the next restart.
- **Groups too deep.** Renaming a group to a longer path moves what is inside it
  past five levels, unchecked (server.go:518-523; the limit is in
  model/connection.go:35 and App.tsx:2074). An administrator's save
  (server.go:649-681), the provisioned configuration (config.go:43-77) and an
  import put in paths nobody validates, deep ones and others. Such a group can
  then be neither renamed nor deleted, and its connections cannot be edited, as
  their paths do not validate. `DeeperOnlyByRename` shows that members' requests
  do this by a rename to a longer path only.
- **Leaks of an upload.** `Reclaimed` excepts them: the entry of `s.uploads`, the
  temp directory and the S3 upload stay when the answer of init is lost
  (api.ts:294-312, outside the `try`) or the only DELETE is refused or lost
  (api.ts:382-390); the directory and the S3 upload, when the connection is gone
  by the completion (server.go:1475-1483), and the S3 upload alone, when the
  connection leads elsewhere by then; the directory, when a part file is created
  while it is being removed or the disk refuses. A retry cannot reach any of them:
  the completion and the DELETE take the entry out before anything else.
- **A zip beyond the limit.** The maximum total size of ZIP and TGZ downloads
  (README.md:48) is compared with listed sizes; a tar entry is cut off there, a
  zip entry is the whole body of an object that may have grown since
  (service.go:299-317). `ArchiveBounded` bounds the excess by that growth.
- **A listing that does not end.** Only the list of uploads looks for a page that
  is truncated without a marker (service.go:380); the loops of search, versions,
  archive and folder deletion start again from the beginning and go on as long
  as the store does so (service.go:163-166, 218-222, 329-332, 426-430).
- **Twice the limit and more.** A request that waits for the limiter's lock with
  an old reading of the clock (security.go:205-207) opens a window that began in
  the past and ends early: exactly twice the limit may pass within one window's
  length. `LessThanTwice` counts such windows.
- **An export across replicas.** The four queries of an export are in no
  transaction and `Store.mu` is a lock of one process (backup.go:44-61): a
  connection that another replica moves between the queries may be in the
  export twice or not at all. `ExportsAreSnapshots` shows that nothing else does
  this.
- **A digest of another object.** `DeleteObject` reads the digest in one call
  and deletes in the next; an object written in between is deleted with the
  digest of its predecessor in the audit trail (service.go:457, README.md:161).
- **An archive that ends early.** The archive's writer is closed by a deferred
  call on errors too, so that what was written until then reads as a complete
  archive (service.go:272).
- **A folder half deleted.** The versions of a folder go in batches, newest first
  within a key; a failure in the middle may uncover versions that were hidden.

## 7. Not modelled

- *UtcTimestamps*, the data migration 00003: its result is that of the
  database's own `substr`, on which its two dialects may differ.
- The user's preferences (one upsert), the admin audit view (read-only pages by
  offset; nothing is promised of rows that arrive in between).
- A concurrent write to a provisioned organization's map is a fatal error of the
  Go runtime when it is noticed; it is `Restart` here, and when it is not
  noticed both writes take effect.
- The maps of other replicas, rows they insert while an import is open and what
  they read of it; the deletion of the organization whose groups
  `ConnectionGroups` follows, and an import without a row for it. That a group's
  name is not empty is assumed there.
- The cache of S3 clients (a memo of the connection), the download of one
  object and uploads below the multipart threshold (one call each).
- Ciphers and the identity provider: external, perfect by assumption. The form
  of a connection, its validation and the encryption of rows.
- Configuration parsing, TLS and logging set-up, constant response headers,
  strict JSON; rendering and manifests.

What a continuation would prove next: the safety half of the liveness
properties (a step of the request's own makes a measure smaller: pages left,
parts left, rows behind the cursor), and the digest of `MultipartUpload` for any
client that sends each part number once, of which the browser is one.

## 8. Running

`tlc -config <name>.cfg <Module>` for a run of section 3 (`PROJECT.json` names
module and configuration), `tlapm <Module>_proofs.tla` for the proofs.
