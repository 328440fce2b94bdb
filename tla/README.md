# A verification project for RomM

RomM is a self-hosted game library: a FastAPI backend over MariaDB and Redis, background
workers, and a web client. The part with the most delicate logic of its own is **streaming**: a pool of
emulator containers, shared by all users, on which the backend starts, watches and ends games through a
broker, with Redis as the only lock. That is the core of this project. Around it stand the other places where
requests, workers and outside programs meet over shared state: uploads in chunks, saves synchronised between
devices, library scans, the promotion of a game's file to a folder, device pairing, and the cap on outgoing
requests. Paths below are relative to `src/backend/` unless they start with `src/`.

## 1. Inventory

| Component | Sources | State it keeps | Operations | What makes it correct |
|---|---|---|---|---|
| Session store | `handler/streaming/session_store.py` | one Redis key per container: nothing, a session record, or a drain marker, each with a TTL | `SET NX`, compare-and-set merge, replace, delete; keepalives | no write made for one claim lands on another; reservations hold; every key goes in the end |
| Lifecycle | `handler/streaming/lifecycle.py` | detached teardown tasks | release, takeover of an abandoned session, abort, collecting the exit state | one teardown per container; container held until the exit state and the card are safe |
| Claim and launch | `endpoints/streaming.py`, `handler/streaming/launch.py` | one request, one detached launch | win a container, probe and push the card, activate, stamp | one driver per container; every claim answered; an aborted launch leaves no trace |
| Live-session routes | `endpoints/streaming.py` | – | heartbeat, volume, mute, save, load, swap disc, save-and-exit, release, sweep | a late answer does not disturb the next session |
| Broker | outside the repository, used through `handler/streaming/{commands,webstation,broker,states}.py` | the running game, the exit state of the last one | activate, exit, save-and-exit, fetch state | a player's state reaches that player's library |
| Memory cards | `handler/streaming/memory_cards.py`, `utils/memory_cards.py`, `handler/database/{memory_cards,container_adoptions}_handler.py` | card rows, their snapshots, an adoption answer per container, the container's slot | resolve, probe, adopt, hydrate, evacuate, wipe, discard | cards are private and no progress is lost |
| Outgoing request limiters | `utils/rate_limiter.py` | in-flight count, waiters, capacity, next slot | acquire, release, cancel, change capacity | the cap holds, no waiter is stranded |
| Chunked uploads | `endpoints/roms/upload.py` | Redis session and chunk set, chunk files, the library file | start, chunk, complete, cancel, hourly cleanup | the file assembled is the one uploaded; nobody's file is overwritten |
| Save synchronisation | `endpoints/{sync,saves}.py`, `handler/sync/`, `tasks/sync_push_pull_task.py`, `sync_watcher.py` | saves, last sync per device and save, sync sessions | negotiate, upload, download, confirm, complete | no device overwrites a save it has not seen |
| Device pairing | `endpoints/device_auth.py`, `utils/device_auth.py` | pending request and user code in Redis, tokens | init, approve, deny, poll | one decision per request, one token handed out |
| ROM promotion | `handler/rom_conversion.py`, `handler/filesystem/base_handler.py` | the game's file or folder, its row | stage, make the folder, move, convert; undo | no file is lost, the row says where it is |
| Netplay rooms | `endpoints/sockets/netplay.py`, `handler/netplay_handler.py` | one hash of rooms | open, join, leave, disconnect, hourly cleanup | capacity, a present owner, no ghost rooms |
| Scans | `watcher.py`, `handler/scan_jobs.py`, `endpoints/sockets/scan.py` | RQ queue, delayed jobs, the stop flag | watch, schedule, ask, run, stop | every change on disk reaches the database; a stop ends the scan it meant |
| Zip cache | `utils/zip_cache.py` | archives on disk | build under a lock, serve, expire | what is served is complete |
| Everything else | metadata providers, collections, users, authentication, filesystem, feeds, web client, deployment | – | – | one transaction per request, or data rather than control; see `PROJECT.json` |

How the streaming parts interact: a request reads the key of a container, awaits the broker (seconds to
minutes), and writes the key again. Detached tasks (launch, teardown, keepalives) do the same without a
client waiting. Nothing locks across the await: every write has to ask again whose key it is. The hard
behaviours are therefore interleavings of late writes, reservations that must outlive their request but
not a dead backend, and failures half-way through moving a card or a state off a container. `PROJECT.json`
lists each hazard at its line.

The other parts meet the streaming code nowhere; each is a component of its own. A completed upload to an existing
game promotes it (`endpoints/roms/upload.py` calls `handler/rom_conversion.py`) and its file appears to the watcher
as a change. An upload's clients are the web client (`src/frontend/src/services/api/rom.ts`), which sends a chunk
again when a request breaks off; the devices that synchronise saves and pair themselves are programs outside the
repository.

## 2. Modules

| Module | Models | Built on |
|---|---|---|
| `SessionStore` | what a container's Redis key can hold and the tests the guarded writes make of it | – |
| `ContainerLease` | abstract specification: who occupies a container, whatever happens to the keys | – |
| `StreamingSession` | claim, launch, live-session routes, every way a session ends, keepalives, expiry, restarts | `SessionStore`; implements `ContainerLease` |
| `StreamingBroker` | the above with the emulator: running game, exit state, library | `StreamingSession` |
| `StreamingCards` | the above with the memory card in the container's slot and the players' cards | `StreamingSession` |
| `ConcurrencyLimiter` | the cap on requests in flight to a metadata provider | – |
| `LibraryPaths` | abstract specification: what uploads do to the paths of the library | – |
| `ChunkedUpload` | an upload in chunks from start to publication or cleanup, with the client's retries | implements `LibraryPaths` |
| `SaveSync` | the saves of one slot, negotiated, uploaded and downloaded by several devices | – |
| `LibraryScans` | watcher, scan queue, worker and stop requests | – |
| `RomPromotion` | a single file made into a folder by one or two processes, with the undo | – |
| `DevicePairing` | one pairing request, its decisions, its polls and its expiry | – |
| `StreamingSessionProofs`, `StreamingBrokerProofs`, `StreamingCardsProofs`, `ConcurrencyLimiterProofs`, `LibraryFilesProofs`, `SaveSyncProofs`, `LibraryScansProofs`, `DevicePairingProofs` | theorems | the modules they name; those of the broker and of the cards also on `StreamingSessionProofs`; `LibraryFilesProofs` is about `ChunkedUpload` and `RomPromotion` |
| `MCStreaming`, `MCBroker`, `MCCards`, `MCUpload`, `MCSync`, `MCScans`, `MCPromotion`, `MCPairing` | pools, players, request mixes and symmetry for TLC | the modules they name |

### How `StreamingSession` corresponds to the code

A step is what the code runs between two awaits that matter. What a handler read before an await is in the
process's own record, so the model can be as wrong about the store as the code can.

- `store[c]` is the Redis key of container c: `st` is what is there (nothing, a session record, a drain
  marker), `by` the claim it was written for, `fresh` whether its heartbeat is inside the stale window, `ttl`
  whether it expires in hours or in a minute, `merged` whose disc, card or launch stamp was merged into it.
  A `WATCH`/`MULTI` compare-and-set is one step; its retries are not modelled, their exhaustion
  (`StreamingSessionContended`) is the event `contention`.
- `req[k]` is one `claim_session` or `claim_desktop_session` with its detached `run_launch`: `pc` says where
  it is, `at` the container it won, `idx` the position of its walk, `hold` its keepalive.
- `task[t]` is one teardown. Its `kind` is the path that began it: a release, the takeover of an abandoned
  session, a save-and-exit, the sweep. `of` is the session it read, `token` says that its marker landed,
  `keep` is the keepalive behind it, `waiter` the claim awaiting it.
- `op[o]` is one heartbeat, control (volume, mute, save, load) or disc swap between finding the session and
  writing the key.
- A keepalive is `off`, `armed` (started, has not stamped) or `ticking`. While it ticks the key neither ages
  nor expires: it stamps many times within a TTL (`session_store.py` 44-56). `overrun` is its ceiling.
- `Crash` is a restart of the backend: requests, tasks and keepalives vanish, Redis and the containers stay.

`Env` names the requests and mishaps a run admits, so that each run can say under which of them its
properties hold. What is the whole of a handler is one action or a short chain of them; `PROJECT.json` maps
each definition to its lines.

### `StreamingBroker`

`game`, `exited`, `slot` and `filed` are the emulator's running game, the exit state the broker keeps until
the next activate, whether this teardown's stop reported a state, and what reached whose library. The broker
is outside the repository: what it does is read off `commands.py`, `webstation.py`, `lifecycle.py` and
`states.py`, including that a broker that cannot be reached leaves the game running, and that a pull that fails
leaves the state where it is while the container is freed all the same. `loose` is history: the containers whose exit
state nobody will file any more, because no marker reserved it or its pull has failed.

### `StreamingCards`

Contents are values: `<<k, n>>` is what the game of claim k wrote the n-th time, `Foreign` a card that was in
the slot before. A card row is identified with the claim that created it. Four abstractions: probe and
settlement of an adoption are one step; so are reading a card off the container and storing its snapshot;
one teardown begins only after the launch is up (the assumption `"early" \notin Env`), so it finds the card on
the record; and `newest` and `played` are history variables: the content a game was last played on and that was then
taken off a container, for each card, and the claims whose game has written. `Faults` names which broker, storage or launch steps may
fail, `Reverts` whether a game may restore an earlier content of its card.

### `ConcurrencyLimiter`

`pc[p]` is where a caller's `acquire` is; `waiters` is the deque with the callers for their futures. `woken`
means the future has its result and the coroutine has not run yet: in between others take slots, the capacity
moves, or the caller is cancelled. `Wake(n, at)` is `_wake_next` n times. A future cancelled before its
wake-up leaves the deque one loop iteration later; nothing can tell, since `_wake_next` skips it.

### `ChunkedUpload`

`put[u][i][n]` is the n-th request that sends chunk i. The client sends a chunk again after a request broke off, and
the abandoned request may go on on the server: it was the last to open the chunk's file (`open`), another has opened
and truncated it since (`lag`: it writes on at its own position and leaves zeros before it), or the file was unlinked
(`stale`). `file` is what the chunk's file holds: nothing, less than the whole, a whole with a hole, or the whole.
`Open`, `Finish` and `Fail` are `upload_chunk` before and after its stream. `job[u][r]` is one `complete` request: it
counts the chunks, claims the session (`Claim` is the atomic delete), assembles chunk by chunk (`Read`), puts an
empty file at the destination with an exclusive create (`ClaimDestination`), renames over it (`Replace`), and cleans
up. `Crash` ends a worker between any two of these. `CleanupTask` is the hourly task. It goes by the directory's
age only: the session is gone by then, since it is no younger, but a request that takes long enough may still be at work.

`LibraryPaths` is what this comes to for somebody who looks at the library only: an upload may reserve its path once,
while nothing stands there, and then publishes at it or withdraws. Its `content` is `lib`; `entitled` are the uploads whose
session has not been claimed or cancelled, or of which a completion is between its claim and its placeholder (`Entitled`).

### `SaveSync`

`rows` are the database rows of one slot and `disk` their files. A row's `at` and `tag` are seconds of the server's
clock, which moves on with every write unless `"second" \in Env` admits two writes within one. `sync[d]` is the
device's history per row (`device_save_sync`), `act[d]` what negotiation told it, `req[d]` an upload between its
awaits: checked, file written, row stored, surplus chosen but not yet deleted. `Compare` is `compare_save_state`
line by line. `local`, `held` and `Play` are the device, which the repository does not contain; it does as it is
told, and settles a conflict either way. What a device sends as modification time of a downloaded save is the
server's time, unless `"restamp"` says otherwise.

### `LibraryScans`

A change on disk is a value with its platform; `unseen` are those the database does not show. `inbox` is what watchfiles
has gathered, `watcher` the process it starts for a batch: it reads the queue, then the delayed jobs, then schedules what
neither covers (`Rescans` is `process_changes`). `queue` and `running` are RQ's scan queue and its one worker. `Begin`,
`List`, `Record`, `Finish`, `Unwind` are `scan_platforms`: it clears the stop flag, walks its platforms looking at
the flag before each, lists a folder and later records what it saw. Three things fail: a file whose scan raises is logged
and passed over (in `Record`), so is a platform whose folder cannot be listed (`PassOver`), and any other exception or the
job's timeout ends the scan with what it had still before it (`Break`). None of them is tried again. `failures` counts
them, and `excused` is history: the changes a stop or a failure has lost, which only another scan brings back. A scan's type decides what it looks at
(`Skips`, `Adopting`, translated from `should_scan_rom`). `Stop` and `SetFlag` are `stop_scan_handler` with
the step between emptying the queues and setting the flag; `running.hit` says that a stop was under way while the scan
was on the worker.

### `RomPromotion`

`fs` are the three entries that matter: the game's name, the new folder's, and the temporary name a file without
extension waits under (then name and folder are one entry). Each file operation is one step with what it does when its
target exists, as `base_handler.py` has it; it may also fail. `_promote` runs down the steps of `pc`, `_restore` is
`Undo` to `Return`. Two processes do not share the lock that one process has (`now.two`).

### `DevicePairing`

`key` is the pending request in Redis, `left` its time to live, `code` the short code that finds it. `approve` is
`Look`, `Make` (the token's transaction) and `mark_approved` (`Load`, `ReadTtl`, `MarkApproved`), which reads the key,
reads its TTL and writes it back in three calls; `deny` is `Look`, `Load`, `MarkDenied`, `DropCode`. `Consume` takes
the key with GETDEL and `PutBack` returns what was not an approval. `Tick` is a second.

## 3. Runs

| Run | Asks | Instance |
|---|---|---|
| `store_guards` | do the guarded writes keep reservations, records and the lease intact in any order of requests? | 1 container, 2 claims, 2 teardowns, 1 other request, contention |
| `settles` | does every marker go, every container end up free, every claim get its answer? | 1 container, a claim and a desktop claim, 1 restart, overruns, sweeps |
| `launches` | does a launch keep its claim, its container and its exit state to itself? | 1 container, 3 claims, broker |
| `cards_kept` | is nothing played lost, is it resumed, is a pre-existing card kept unless given up? | 2 containers, 3 claims of one player, one release or save-and-exit at a time, no faults |
| `cards_private` | do cards stay private when two teardowns race and broker, storage and launch fail? | 1 container, 3 players, 2 releases or takeovers at once |
| `limiter` | does the cap count right and strand nobody? | 4 callers, allowance 1 to 3, 2 requests each |
| `uploads` | is what is published whole, nobody's file overwritten, nothing left behind, and is `LibraryPaths` implemented? | 2 uploads (2 chunks, 1 chunk) to one path, 2 completions of one, a cancellation, a repeated chunk, 1 mishap |
| `saves` | does nobody overwrite what they have not seen, and do devices converge? | 2 devices, one confirming, limit 2, 2 contents each, 1 deletion or lost answer |
| `scans` | does every change reach the database unless a stop or a failure lost it, and does a stop spare the scans after it? | 2 platforms, 2 changes, 1 scan asked for or by the clock, 1 stop, 1 failure |
| `scans_absorbed` | counterexample, section 6 | 1 known platform, 1 new folder |
| `promotion` | is nothing lost and the row right, when the undo runs? | 3 requests, 4 situations, 1 failure |
| `pairing` | is a token handed out once, and does a denial stand? | 2 approvals, 1 denial, 2 polls, keys that expire |

Why the bounds are enough to be interesting. Two claims on one container make every stale-write race: one
session ends, the next begins, the first one's late writes arrive. Two teardowns are needed for the races
between them (a repeated exit, two takeovers, a release against a takeover); a third claim adds the player who
takes over in between. Two containers, each with a card of its own, let a player bring the card of one to the
other, where it may be refused as an older version; three claims of one player make two sessions on one card that
overlap, and one that comes after both. Save-and-exits, which take their marker last, come one at a time there, and the
run with two teardowns has releases and takeovers only (section 6 has what two save-and-exits do); a late one finds the next player's
card in the slot. In the limiter, four callers at an
allowance of up to three leave room for a holder, a woken caller, a waiting one and one who gets in first. An upload
of two chunks can be complete but for one that is being sent again; the second upload is the other claimant of
the path. `MaxLingering` bounds the abandoned requests of one upload that are still at work. Two devices are the conflict; two contents each are one that was seen and one that was not, and a limit of
two makes autocleanup delete. Two platforms and two changes let a scan be past the one and not the other, and one failure
lose one of them while the other still has to arrive. Three
promotions are the one that fails, its rival and one that comes after. Keys that live 3 ticks, denials 1, in a time of 5, let
every call find the key there, gone, and replaced.
`MaxCrashes`, `MaxWrites`, `MaxCapacity`, `MaxCalls`, `MaxTries`, `MaxLingering`, `MaxMishaps`, `MaxFailures`, `MaxPlays`, `MaxChanges`,
`MaxAsked`, `MaxStops`, `MaxAge`, `Tasks` and `Ops` are the only bounds; the claims are
finite because a claim identifier (user and time) is used once. One bound bears on a property:
`NewestStays` counts on the user deleting fewer saves than `Limit` while an upload decides what is surplus; its theorem
says so without a bound.
`CHECK_DEADLOCK FALSE` everywhere: when the requests are over and the bounds are spent, nothing is left to do.

Symmetry is used over claims and teardown slots in safety runs whose initial states do not tell
them apart; the liveness runs use none.

**Fairness.**

- `StreamingSession`: weak fairness of each request and each task (every broker call carries a timeout, every wait a
  budget, and the event loop runs every task that is ready), of `Expire` (Redis TTLs) and of `Age` (players leave: a
  session whose heartbeat stops becomes stale; a heartbeat that keeps coming can postpone it for ever). Keepalives,
  player requests, mishaps and restarts have none. `NothingWedged` is checked without contention, because a release
  that is contended on every attempt, and repeated for ever, keeps its container for ever.
- `ConcurrencyLimiter`: a woken coroutine runs and a request ends; each carries a timeout.
- `ChunkedUpload`: for each upload, requests that run get on, the session expires, and the hourly task comes. No client
  has to send, complete or cancel anything, and `TmpReclaimed` holds all the same.
- `SaveSync`: devices keep negotiating and do what they are told; playing is not fair, and bounded.
- `LibraryScans`: batches are handed over and dealt with (`Watch`), delays run out (`Release`), the worker works
  (`Scan`). Users, the clock and the disk owe nothing.

Every property has a mutant: a definition of the model changed as a plausible bug would change the code,
under which TLC finds the property violated (`PROJECT.json`, `mutants`; the mutated forms stand beside the
originals, marked as such).

## 4. Proofs

Proved with TLAPS, for every value of the constants under their named assumptions.

**Streaming sessions** (`StreamingSessionProofs`). `Invariance` is `Spec => []IInv`. `TypeOK`, `ReservationHeld`
and `SoleTeardown` are not inductive: whether a marker is still there depends on no other process being able to
write over it. The parts of `IInv` that are needed for it:

- `ReqInv`, `TaskInv`, `OpInv`: what each process record says in each of its steps;
- `StoreInv`: a key names a claim that won exactly that container. So a claim is at most at one key;
- `OfInv`, `WaitInv`: a teardown's session did win its container; a claim awaits one teardown;
- `TokenInv`: a claim that was drained is at no key again, and one teardown drained it. This is what makes the
  marker's token unique: whoever holds it is the only one whose guarded writes match;
- `HeldInv`: `ReservationHeld`, unless the administrator's sweep is among the events. With the sweep it is
  false (section 6), so the theorems `ReservationIsHeld` and `TeardownIsSole` assume `"sweep" \notin Env`.

Each action is shown to preserve `IInv` in a lemma of its own, and on the way to do one of four things to the keys
(`KeyStep`: quiet, took, drained, vacated). `ImplementsLease` follows from those: `StreamingSession` implements
`ContainerLease` under every request, mishap and restart, the sweep included. The refinement mapping reads `mode`
and `holder` off the store; `spent` is the claims that have won a container.

On top of `IInv`, `LaunchInv` says that the key of a claim from winning its container to the end of its launch is its own
and fresh, and that no teardown has begun from it (`LaunchKept`). That needs `Steady`: nobody ends a session before its
launch is up, nobody sweeps; each of the two breaks it (section 6). From it comes `LaunchesHoldTheirClaim`:
an activate therefore lands on a container that is the launching claim's.
`BeatingSessionsStay` is an action property and needs only `IInv`: `KeyWrites` lists every write the code makes to a key
with the guard it makes it under, and `ClaimKept` finds that only the claim's own steps match a fresh session.
`RecordsCarryTheirOwn` and `MarkersStayShort` rest on `DataInv`; with card sync they need `Steady` too, for a new card's
merge, which is not guarded by the claim.

**Broker** (`StreamingBrokerProofs`). `BrokerKeepsSessions` carries all of the above over. `MatchInv` ties the emulator to the
key: past its activate, the claim at the key is the only one whose game may run and whose exit state may be kept.
`AwaitInv` says that a state saved under a marker, whose pull has not failed, has a teardown that is about to pull it. Both
need `Orderly`: launches are not cut into, every marker lands and is kept (`"contention"` and `"overrun"` are out), and the
backend does not restart between a stop and its pull (section 5 has what the code accepts there). `ExitStatesAreCollected`
says no more than that the pull comes before the next activate: a pull that fails loses the state (section 6), and so does
a session without a library to pull into.

**Cards** (`StreamingCardsProofs`). Four layers, each under the assumptions it needs and no more; TLC gives a counterexample to
the next property as soon as one is dropped.

- `CardTypeCorrect` holds under every fault, event and restart; `TypeInv` adds that whoever pushes a card has one.
- `PreexistingCardsKept` assumes `LaunchesSucceed` (a failed push or launch deletes the card that has just adopted the
  pre-existing one, section 6). `RowInv` says that the card a claim mounts stays in the library, `PhaseInv` that only a
  teardown at its stop has come anywhere, `FoundInv` what is known of a slot that still holds the foreign card.
- `CardsStayPrivate` and `GamesBootTheirOwnCard` assume `Sheltered`: launches are not cut into, markers land and are kept, no
  session is left to its TTL (`"forgotten"`), the broker stops what it is asked to stop, there are no restarts, and where
  save-and-exits occur, whose marker comes last, one teardown runs at a time. Cards that cannot be read, stored, pushed
  or launched are allowed, and games that revert. `PlayInv` ties the running game to the key of its container and every
  teardown to the container its session won; a container is `Tended` while the session at its key is launched and none of its
  teardowns has taken the card off. `CardInv` then says that what is in a slot, on a card and mounted is the same player's.
- `NoProgressOverwritten` assumes that nothing fails but that a snapshot's file may be gone (`Preserving`). `UnsavedInv` is the
  crux: what a game wrote and no snapshot has sits in a `Tended` container, and nobody pushes into one.
- `ClaimsResumeTheirCard` assumes that pushes and launches succeed, snapshots' files are there, and games do not revert
  (`Resuming`); cards may not be read or stored. `NewestInv` (the last content taken off is the latest snapshot) is inductive
  only with what makes a captured content new to its card: it is this session's (`WroteInv`), and nothing of this session's has
  been taken off before (`FreshInv`); if the game wrote nothing, the capture changes nothing (`UnplayedInv`).

**Limiter** (`ConcurrencyLimiterProofs`). `IInv` adds `Queued` to the checked invariants: who waits or was woken
is in the deque, without which removing a caller from it means nothing. The proof turns on two counting
lemmas: `Moved` (one caller changes state) and `Woke` (a wake-up leaves nobody waiting, or wakes as many as asked).
`LimiterNoneStranded` then says that the passed-on grant of a cancelled caller, the wake-up of a release and the
wake-ups of a raised capacity are each enough, whoever gets in between.

**Uploads** (`LibraryFilesProofs`, first part). `IInv` is `TypeOK` with four parts that need each other: who is about to replace
a file put the placeholder there (`OwnPlaceholder`), is the only one about to (`SoleReplacer`), a placeholder has an owner
who is about to replace it or died (`PlaceholderOwned`), and `PublishedFullLength`, for which `OwnPlaceholder` also says that what is about to be renamed has no
short chunk. All chunk writes leave these alone (`LandingKept`); only
`ClaimDestination` and `Replace` touch the library. The theorems hold for any uploads, also to different paths,
and any number of retries, completions and deaths.

`UploadsKeepPaths` is the refinement of `LibraryPaths`. It needs one more invariant, `SoleAssembler`: the session's key is
deleted once, so of all the completions of an upload one at most assembles, and none while the session is there. Without it two
completions of one upload could each reserve the path, the second after the first had withdrawn. Every step is then
one of three: it lets nobody begin to assemble (`Keeps`), and is a stutter or a `GiveUp`; it is the claim, which passes the
right from the session to one completion; or it touches the library, and is a `Reserve`, `Publish` or `Withdraw`.

**Promotion** (`LibraryFilesProofs`, second part). Neither property is inductive, nor anything near it: they say where the file
ends up, and the steps between pass through half a dozen arrangements. `PromotionInv` lists them. With one promotion at a time
`Placed` says for each step what the entries hold, who moved the file, and, where the undo runs, that the file is where that undo
takes it; at rest the row's claim is true. With two processes `Raced` says that either nobody has moved the file, or exactly
one has and it is in the folder, and the loser's undo finds nothing of its own to move. `Placed` and `Raced` hold until a second
failure; beyond it only that the file is in one of the three entries (`Stands`), which is enough for `PromotionsLoseNothing`, for any
number of failures and deaths. `RowsMatchTheDisk` has the hypothesis `failures =< 1` inside the box: when the undo itself fails,
the code logs it and leaves the file where it is. Both theorems hold for any number of requests in the situations of `Contained`. TLC
finds a counterexample to `NothingLost` in each of the other eight (section 6), so the hypothesis cannot be weaker; `RowMatchesDisk` fails in seven of
them, and holds in the eighth on the instance TLC looks at (one process, a file with an extension, a failure and another's game).

**Saves** (`SaveSyncProofs`). `IInv` says that the tags of rows, and of files written whose row is still to come, are pairwise
distinct (`RowsApart`, `UploadsApart`). The crux is `TagFresh`: an upload takes the least tag nobody has taken,
which exists because the taken ones are finitely many. `OnRecord`, on top of it, says that a device has held the content of every row it is on record for, also of one whose
confirmation is under way. `SavesHaveFiles` assumes that
no two uploads share a second, `SavesSeenBeforeReplaced` also that no optimistic answer is lost: section 6 has
what happens otherwise. `NewestSaveStays` needs a count: every row an upload is about to delete leaves as many later ones
that nobody is about to delete as the limit says, less those the user has deleted (`Outlasted`). Several uploads may have
chosen at different times; the proof is the case of a row that a new upload spares and an earlier one had chosen, whose later
rows the new upload must then spare too.

**Scans** (`LibraryScansProofs`). `FlagHits` (a flag set while a scan walks was set by a stop that was under way while that
scan was on the worker) gives `LaterScansAreNotStopped` without any assumption: a scan the worker takes once the stop is
done is not ended by it. One taken, or even asked for, between the stop's look at the worker and its flag may be (section 6).
`ScansAccountForChanges` rests on `Heard`, which strengthens `Accounted` in
the one place where it is not inductive: a batch whose watcher has already found a covering scan is accounted for by that
scan, no longer by the batch. A failing file, folder or scan excuses exactly the changes it had before it, and `Heard` carries the
others past it. The theorem assumes no new platform folders (section 6), no watcher cut short, and that users
ask only for scans of types that pass no file over.

**Pairing** (`DevicePairingProofs`). `OneShot` says that the token in an approved key has not been given to
anyone, and that its approval will not write again; `Decided` that a request once decided is never pending again, since
what a poll puts back was decided; `TooLate` that an approval which had not begun when a denial was recorded gets nowhere.

Only model-checked: liveness (`NothingWedged`, `DrainEnds`, `ClaimAnswered`, `Served`, `TmpReclaimed`, `Converges`,
`EveryChangeSeen`), which is beyond the prover. Every other property of a passing run is a theorem.

## 5. What is not modelled

- Streaming: termination notices, play-time credit, activity, the save-archive pull, join links, listings,
  corrupt keys. They do not write what the models read. Which user may see which session is left out too.
- The broker runs exclude restarts and contention. After a restart between the stop and the pull a game or an
  exit state stays on the container without a session that names it, and the properties `StopsOwnGame` and
  `ExitStateCollected` do not hold; the code accepts that.
- The card runs exclude restarts, contention, and teardowns before the launch is up.
- `RateLimiter`, the pacing half of `utils/rate_limiter.py`: one lock, one clock, nothing interleaves.
- Uploads: which library an upload goes to, and permissions. Sync: sessions, untracked rows, saves without a slot.
  Scans: what is extracted from a file, a worker killed in the middle of a scan, delayed scans dropped at start-up.
  Pairing: the pacing of polls.
- Netplay rooms (`endpoints/sockets/netplay.py`): a room is read, changed and written back whole without a guard. With two
  requests at once nothing beyond the shape of a room is true, with one at a time it is a dictionary update; neither has
  a property worth a model.
- The zip cache (`utils/zip_cache.py`) writes to a temporary file and renames it, so what is served is whole by construction; a
  cleanup between a build's mkdir and its lock costs a second build.
- Push-pull and folder sync compare as `SaveSync` does, with the server acting as one more device over SSH.
- Most of the repository: about nine tenths of its hundred thousand lines are clients of metadata services, matching
  heuristics, database queries, schemas, start-up, tests' data and the web client's views. They have inputs and outputs, but hardly a
  state that two steps share, and a model would restate them. `PROJECT.json` lists each such component with its reason.

## 6. Where code and documentation disagree

One has a run of its own, which checks one property and of which TLC prints the behaviour:

**`scans_absorbed`** (`EveryChangeSeen`). A change of a platform's folder "should trigger a full rescan" (`watcher.py` 233), but
the scan it schedules is of type UPDATE (`watcher.py` 236), and that type looks at no file without an entry
(`endpoints/sockets/scan.py` 345-355). The game that came with a new folder is not added until another scan is asked for.

Others appear when a passing run's `Env`, `Faults` or bounds are widened; no run is kept for them.

| Behaviour | Widen | Property that fails |
|---|---|---|
| The sweep's final delete is unconditional (`endpoints/streaming.py` 1494): a marker that landed during its broker calls goes with it, although the loop passes markers over because "cutting that short would lose the state and free the container mid-pull" (1499-1501) | `store_guards` with `"sweep"` | `ReservationHeld` |
| A launch activates without asking whose key it is by then (`handler/streaming/launch.py` 64) and starts its game on the next player's container | `launches` with `"early"` | `LaunchHoldsClaim` |
| A card that cannot be read at an exit is "recoverable, since the next claim prompts to adopt whatever is still on the container" (`lifecycle.py` 367-369), but the recorded answer silences the probe (`endpoints/streaming.py` 412) and the hydrate overwrites it | `cards_kept` with `Faults = {"fetch"}` | `ProgressKept` |
| A control request's TTL refresh lands on a drain marker and makes it last hours | `store_guards` with `"control"` | `MarkerStaysShort` |
| A first play's new card id is merged into the next player's record | `store_guards` with `CardSync = TRUE` | `OwnDataOnly` |
| A repeated save-and-exit releases the key under the first one's pull | `launches` | `ExitStateCollected` without its exemption of `loose` |
| A pull that fails frees the container with the state still on the broker, which "is recoverable from the container on the next claim" (`lifecycle.py` 95-97), but no claim fetches it and the next activate discards it | `launches` | the same |
| Two exits of one container: the later capture files the next player's card | `cards_private` with `Env <- Both` | `CardStaysPrivate` |
| A restored earlier content is deduplicated and an older version stays the latest | `cards_kept` with `Reverts = TRUE` | `ResumesLastPlayed` |
| A failed launch discards a blank card that another session of the player already mounts | `cards_kept` with `Faults = {"launch"}` | `ProgressKept` |
| A failed launch deletes the card that just adopted the container's pre-existing one | the same | `PreexistingKept` |
| A chunk's abandoned request writes on into the file its retry has truncated: the right size, zeros inside | `uploads` | `data # "holed"` in `PublishedFullLength` |
| A worker dies between the placeholder and the rename: an empty file blocks the path | `uploads` | `NoPlaceholderLeft` without `"cut"` |
| Two uploads within one second share a tag: deduplicating one removes the other's file | `saves` with `"second"` | `RowHasFile` |
| A lost optimistic answer leaves the device on record for a save it never had | `saves` with `"early"` | `SeenBeforeReplaced` |
| Devices that date a download by their own clock need not converge | `saves` with `"restamp"` | `Converges` |
| History is kept per row, so after another device's upload a device that was played on is told to download, where `comparison.py` 30 says "conflict" | `saves`, no mishaps | `NothingDiscarded` |
| Two uploads that overlap both pass the 409 check; `PUT /saves/{id}` has none | `saves`, by design of `SeenBeforeReplaced` | – |
| A pending scan that passes files over (update, unmatched, new platforms) counts as covering a change | `scans` with `Asked` widened | `EveryChangeSeen` |
| A watcher still at work when the next batch comes is ended and its batch lost | `scans` with `"impatient"` | `EveryChangeSeen` |
| A stop that comes between the worker taking a job and the scan clearing the flag is lost (`endpoints/sockets/scan.py` 1113) | `scans` | the converse of `StopEndsNoLaterScan` |
| A scan taken or asked for while a stop is in progress is ended by that stop's flag (`endpoints/sockets/scan.py` 1493-1502) | `scans` | `StopEndsNoLaterScan` without the stop in progress in `Take` |
| A file whose scan raises (`endpoints/sockets/scan.py` 1045-1048), a folder that cannot be listed (942-946) or a scan that breaks off (1386-1391) is not tried again: its changes wait for another scan, although "a duplicate scan costs less than a rescan that never happens" (`watcher.py` 99-100) | `scans` | `EveryChangeSeen`, `Accounted` without what a failure excuses |
| Two processes promote a file without extension, or one of them fails; or a step fails while another's game is in the folder: the undo moves back what it does not own | `promotion` with those situations | `NothingLost`, `RowMatchesDisk` |
| Two approvals that overlap both make a token; the second write revives a consumed key | `pairing` | `Cardinality(tokens) <= 1` |

One more is visible in the model but stated as no property: `_win_container` evicts a stale session only "once every
container is held" (`endpoints/streaming.py` 327-329), but the walk that takes containers ends before the walk that
evicts begins, and a container freed in between is not noticed.

## 7. Plan

Done: the session store and lifecycle with its abstract lease, broker and cards; the limiter; uploads, saves, scans, promotion
and pairing; the proofs of section 4.

A specification of a pairing request as a register that is decided once was planned and dropped: an approval and a denial that overlap
may overwrite each other, so a request is never undecided again, but not decided once.

Next:

1. **Termination notices** and the contended card id, to close the streaming hazards that no property covers.
2. **Push-pull sync** as one more device of `SaveSync`, which compares in the same way but transfers in place.
