# A verification of Taida

Taida is a programming language with four ways to run a program: an
interpreter in Rust, a native compiler whose programs link a C runtime, a
WebAssembly compiler and a JavaScript compiler. The same repository holds the
package manager (`taida ingot`), the addon loader, the graph analyses, the
language server and the documentation tools.

This directory holds TLA+ specifications of the parts of that code where a
correct answer depends on an order of events nobody wrote a test for, TLC
configurations that check them on small instances, and TLAPS proofs for every
instance. Paths below are relative to the repository (`src/` is its Rust and C
code). A definition's comment says which operation it stands for; `map` in
`PROJECT.json` gives the lines.

## 1. The system

### Components, their state, and what makes them correct

| Component | State it keeps | Operations | Correct when | Modelled |
|---|---|---|---|---|
| Native pools, `codegen/native_runtime/tls.c` | table of pools (open, idle queue, in-use table, next token, waiting count), one mutex and one condition variable for all | `poolCreate`, `poolAcquire` and its wait thread, `poolRelease`, `poolClose`, `poolHealth`; `Cancel` in `core.c` | never more leases than `maxSize`, no lease lost or shared, no wakeup lost, every acquire answered, a closed pool stays closed | yes |
| Pool token table, `tls.c` | open-addressing hash with tombstones | add, remove, clear | behaves as a set at its fixed capacity | yes |
| Interpreter pools, `interpreter/os.rs` | the same table under one `Mutex`, a polling tokio task per waiting call | the same | the same contract, although tasks run only while the program awaits | yes |
| Native HTTP/1.1 server, `net_h3_quic.c` (accept loop) and `net_h1_h2.c` (workers) | socket queue, request count, active count, shutdown flag under one mutex with two condition variables | accept, enqueue, dequeue, read, claim a request, handle, close, shut down | limits kept, every socket closed once, the server stops at its limit and leaves nothing behind | partly |
| Native HTTP/2 and HTTP/3 servers, same files | HPACK/QPACK tables, streams, QUIC slots | frames in, frames out | stream states, slot reuse | planned |
| Native values, `core.c` | reference counts, arenas, async cells and their threads | allocate, retain, release, spawn, await, cancel | no use after free, an async is settled once | planned (async) |
| Package store, `pkg/store.rs` | directories per package and version, marker, sidecar, lock file, staging directories | fetch, stage, commit, roll back, lock | after any crash an installed package is whole or absent, an install gives what is pinned, an old install is not lost | partly |
| Resolver and lockfile, `pkg/resolver.rs`, `pkg/lockfile.rs`, `pkg/provider.rs` | dependency set, lockfile | select versions, link packages, write atomically | one version per package, every requirement met | planned |
| Manifest, publish, scaffolding, `pkg/*` | none | parse, generate, push | text | no |
| Addons, `addon/*` | registry of loaded libraries, prebuild cache, addon lockfile | load, verify, call | loaded once, only verified binaries | planned |
| Build commands, `cli/build.rs`, `cli/build_descriptor.rs` | staged outputs, backups, lock file, staging directories, `artifact-map.json` | sweep, lock, build, commit, roll back, clean up | one build at a time, all outputs of one build or what was there before, a map that names only its own outputs | partly (commits) |
| Self-upgrade, `upgrade.rs` | the executable and its staged copy | download, verify, rename | the executable always starts | planned |
| Interpreter evaluation, `interpreter/*` | environments, values | evaluate | language semantics | no |
| Async values and molds, `interpreter/unmold.rs`, `mold.rs` | a cell Waiting / Resolved / Done per Async | await, All, Race, Timeout, Cancel | one result, replayed on every await; an await returns | partly |
| Interpreter network, `interpreter/net/*` | connection slots, writer state; of HTTP/2 the streams, windows, header block, decoder | serve loop, streaming writer, WebSocket, HTTP/2, HTTP/3 | one response per request, windows that agree with the peer's, stream limit kept | partly (HTTP/2) |
| Front end and type checker, `lexer`, `parser`, `types` | none | pure functions of source text | language semantics | no |
| Native, Wasm and JS back ends, `codegen/*`, `js/*` | IR, object cache | lower, optimise, emit | retain/release balance kept by `rc_opt.rs` and `lifetime.rs` | planned (rc) |
| Graph analysis, `graph/*`, `module_graph.rs` | none | cycles, reachability, tail positions | agrees with the definitions | planned |
| Language server, `lsp/*` | document table | open, change, close, queries | answers from the latest text | no |
| Docs, diagnostics, auth, community | none or a token file | format, call a service | text | no |

### How they interact

A compiled program calls the native runtime directly. Its threads are of three
kinds: the program's own thread, one pthread per background Async (among them
one per waiting `poolAcquire`), and the workers of a server. They meet at the
pool mutex, at the server's mutex, and at the fields of an Async cell. The
interpreter runs the program on one thread and owns a *current-thread* tokio
runtime (`interpreter/eval.rs:249`): spawned tasks make progress only inside a
`block_on`, that is, while the program itself awaits something.

The package manager, the build commands and self-upgrade share only the file
system with other processes. Their hard behaviours are crashes between two
renames and two processes at once.

### Hazards

`PROJECT.json` lists them, each at its line: wakeups and fast paths competing
for a slot; a timeout handled without looking again; closing under waiters; a
failing `malloc` or `pthread_create` after a count was raised; a thread killed
while it owns a mutex; a hash table that never rehashes; an accept loop that
reads counts, sleeps in `accept`, and queues later; requests claimed by several
workers at the limit; a shutdown started from two sides; flow-control windows
that two sides count; a header block in pieces; a stateful decoder that skips a
block; a lock file removed by path; a commit of several files that fails or dies
half way; one result read through many copies of a pending value.

Four have no property: `cache clean` during an install (`pkg/store.rs:1687`), an
upload larger than the initial HTTP/2 window (`interpreter/net/eval/h2.rs:312`), a
header block that is refused before it is decoded (`interpreter/net/h2.rs:1717`) and
a release of token -1 (`tls.c:1629`). Section 3 says what the code does.

## 2. Modules

| Module | Stands for | Extends / instantiates |
|---|---|---|
| `ResourcePool` | what one pool promises: an atomic waiting semaphore over tokens | |
| `NativePool` | the native pools, one step per critical section | implements `ResourcePool`, one instance per pool id |
| `NativePoolProofs` | the proofs about `NativePool` and, in its last part, about `PoolTokenTable` | extends `NativePool` and `PoolTokenTable` |
| `TokenSet` | a set with add, remove, clear | |
| `PoolTokenTable` | the in-use hash table | implements `TokenSet` |
| `InterpPool` | the interpreter's pools and their tasks | implements `ResourcePool` |
| `HttpServe` | accept loop and workers of the native HTTP/1.1 server | |
| `StoreInstall` | installs of one package version in the global store | |
| `H2Serve` | the interpreter's HTTP/2 server | |
| `DescriptorBuild` | builds from a descriptor, several processes | |
| `BuildCommit` | how a JavaScript build replaces its outputs | |
| `AsyncCell` | the interpreter's pending Async values | |
| `InterpPoolProofs`, `HttpServeProofs`, `StoreInstallProofs`, `H2ServeProofs`, `DescriptorBuildProofs`, `BuildCommitProofs`, `AsyncCellProofs` | the proofs about those modules | extend them |
| `MC...` | constants and symmetry sets for TLC | |

### ResourcePool

One pool, no threads. A call is granted a token (the last idle one, or a fresh
one below `maxSize`), waits while no slot is free, times out only while it waits
and no slot is free, or is refused. Closing empties the pool. Both runtimes
implement it, so a program sees the same pool in both, up to one difference the
interpreter run reports (section 3).

### NativePool

`pool[p]` is the C struct of pool `p` without the resources, which travel with
their token. `call[c]` follows one `poolAcquire`:

    new -> registered -> ready <-> asleep -> expired -> resolving -> done
    ready -> resolving              (granted, or closed)
    asleep -> dying -> dead         (cancelled)
    new -> done                     (refused, or a slot was free)

`registered` is the window between `waiting++` and `pthread_create`, when the
mutex is free; `asleep` is `pthread_cond_timedwait`. `expired` is the window in
which that call has decided ETIMEDOUT (`Expires`) and has not got the mutex back:
whatever is released or closed meanwhile, `WaiterTimesOut` then reports the
timeout without looking at the pool, as `tls.c:1870-1877` does. `Take` is
`taida_pool_try_take_slot`, `Woken` is `pthread_cond_broadcast`, which wakes the
waiters of every pool. `SpawnFails` and a failing `poolCreate` are the error paths
present when `MayFail`; `ReleaseOutOfMemory`, a release whose idle queue cannot
grow, happens in the pools of `Starved`. `Cancel` only marks the thread; it acts at
its one cancellation point (`CancelActs`), and once the thread has the mutex again
it dies with it (`DieAsleep`), so every action that locks asks `mutex = Unlocked`.

`StrayTokens` are tokens a program passes to `poolRelease` although it was not
given them: they are plain integers and the code accepts any that is in use. It also
accepts -1, which matches a tombstone of the table; that one release is outside the
model, and every property and theorem about native pools is about programs that
do not make it (section 3).

`held` is a history of the leases: set by a grant, cleared by the release the
code accepts. No guard of the code's own logic reads it except to say which
tokens an honest program releases.

### PoolTokenTable

The table at one capacity, `Add` under the guard the caller establishes (the
token is not in use, fewer than `maxSize` are), which is what `TokensApart` and
`Capacity` say of the caller and `PoolsKeepContract` proves step by step. The names of
its specification carry the prefix `Table`, so that one module can extend it and
`NativePool`. `MCPoolTokenTable` gives the hash: below 256
slots the multiplier of `taida_pool_hash_slot` acts by its low byte.

### InterpPool

`awaiting` is what `block_on` is blocking on: a pool call, `other` (a sleep, a
socket, a `Timeout` mold that gives its receiver back) or nothing. Program
operations need it to be nothing, polls need it not to be. A poll looks for the
close, then a slot, then the deadline, and sends before it yields, so it is one
step. `Cancel` in the interpreter makes a new Async and does not touch the task.

### HttpServe

The accept loop is `main`: `checking` (one critical section), `waiting` on
`cond_done`, `accepting`, `holding` a socket not queued yet, `stopping`,
`joining`, `returned`. A worker is `idle` at its queue test, `asleep` on
`cond_available`, or at a point of its keep-alive loop between two critical
sections. What the client sends and what the handler does decides among the
next points and is left free. `pthread_cond_signal` wakes any one sleeper and
spurious wakeups may come at any time. `handled` counts handler calls and is not
in the code.

### StoreInstall

One directory of the store, `pkg`: its files, the sidecar `_meta.toml`, the
marker `.taida_installed`. A process goes

    idle -> locking -> deciding -> [staging] -> fetching -> downloading -> hashing
         -> extracting -> verifying -> describing -> marking -> resolved -> idle
    (any failure) -> undoing -> [restoring] -> failed -> idle

with one effect on the file system per step, so that `Crash` can fall between
any two. A crash frees the lock (`flock` goes with the file descriptor) and
leaves the files; the backup of a refresh becomes an orphan, since its name
holds the process id and no code looks for it. `lockFile` and `inode` tell the
path from the opened file, which matters when the path is unlinked. A tarball
stands for its digest, its commit and its files; two tarballs share a path and
the first has one more. `found` (what the process found under the lock), `kept`
and `leftover` are histories. A `remove_dir_all` whose error is ignored may leave
any part of its directory (`Remains`). Every way to answer an error passes through
`failed`: a rollback that fails as well, and a refresh that is complete, with its
backup gone, when `compute_dir_hash` fails (`Commit`).

`CleanBegins`, `CleanRemoves`, `CleanEnds` and `CleanStops` are `cache clean
--store-pkg`. It takes no lock, so it may run beside installs, it removes the
package directory bit by bit, the lock file included, and may stop anywhere. `torn`
is the history of that: a clean has overlapped an install or has stopped half way,
and no clean since has emptied the store while nobody was at work. The properties
speak of a store that is not torn. `FollowTorn` says whether a run follows the
others too.

### H2Serve

`serve_h2` takes one connection after the other, and within one it calls the
handler as soon as a request is complete and writes the whole response before it
reads on. So one action is one frame and everything the loop does because of it:
`RecvHeaders`, `RecvContinuation`, `RecvData`, `RecvSettings`,
`RecvWindowUpdate`, `RecvReset`, a malformed frame (`BadFrame`), a frame between
the pieces of a header block (`Interrupted`), the end of the connection. The peer
may send anything at any time. Windows and bodies are counted in units. A stream
enters the map idle when its block is split, leaves it on a stream error or when
its request is answered; a reset only marks it closed, and closed streams are
swept when an answer is sent. A request whose headers are no request is refused
but its stream stays in the map. `mayReceive` and `granted` are what the peer
believes: it is told of the windows by SETTINGS and WINDOW_UPDATE and spends them
with DATA. `handled` is a history of the connection. The HPACK decoder is left out: a
block may decode to a request or to none.

### DescriptorBuild

A process goes

    idle -> scanning <-> checking, removing
         -> locking <-> reading, probing, unlinking -> writing
         -> making -> naming -> building -> backing -> placing -> cleaning
         -> unlocking -> ended
    (a failure) -> [undoing -> restoring] -> cleaning or unlocking

one file-system step at a time, and dies anywhere (`Crash`). `scanning` is
`cleanup_stale_descriptor_staging`, which runs before the lock is taken. The pid in
`transaction.json` or in the lock file is read in one step (`Examine`, `ReadLock`),
looked up in the next (`CheckOwner`, `ProbePid`) and acted on in a third
(`RemoveStale`, `Unlink`); a process is gone when it was killed and also when it has
returned (`PidGone`). `writing` is the window between `create_new` and the write of
the pid. `lock.by` is who made the file, `lock.pid` what it holds. A file's content
is the process that built it. The commit's first loop (`backing`) moves what is in
place into the staging directory, the second (`placing`) moves the new outputs in.
When that fails, `undoing` removes what was placed and `restoring` brings back what
was displaced, last first; each of these calls may fail and its error is ignored
(`RollbackFails`), then `CleanUp` deletes the staging directory with the backups that
are still in it. `stolen` and `spoilt` are histories: a lock was removed that is not
the one whose pid was read; the builds one of whose rollback calls has failed.

### BuildCommit

`commit_staged_js_outputs`, loop by loop: `copying`, `backing`, `placing`,
`finishing`, and `restoring` after a failure. Two outputs may share a final path
(`PathOf`), which happens for modules outside the source tree. Names of copies and
backups hold the process and a counter, so no build touches another's. Builds run
one after the other; there is no lock, and builds that overlap on one output
directory are not modelled.

### AsyncCell

`cell[c]` is the `PendingState` that all copies of one pending value share. A mold
under evaluation (`op`) resolves its list item by item: `TakeReceiver` leaves
`Done` in the cell and blocks, `Receive` caches the result, `ReplayResult` serves
a cached one, `Expire` is a `Timeout` that puts the receiver back. Tasks run only
while the program blocks. `All` throws the first rejection of its list; `Race`
answers a value fulfilled from the start, else it resolves its first element.
`Cancel` answers a rejected copy and changes no cell.

## 3. Runs

| Run | Bounds | Checks | Shows |
|---|---|---|---|
| `pool` | 2 pools, 3 acquires, sizes 1 and 2, stray token 1, one call cancellable, pool 1 starved, failures on | `TypeOK` `Capacity` `TokensApart` `LeasesAccounted` `WaitingCounted` `NoLostWakeup` `SettledOnce` `ImplementsPool` `EveryAcquireSettles` | sizes, tokens, leases and counts stay right in every interleaving; the shared condition variable loses no wakeup of pool 2, which is a `ResourcePool`; every acquire is answered, by its deadline at the latest, unless a cancelled thread has died with the mutex |
| `token_table` | 8 slots, 4 in use, 7 tokens, absent tokens released | `TableSound` `LengthExact` `AddNeverFails` `ImplementsSet` | the table is a set although tombstones pile up |
| `interp_pool` | 2 pools, 3 acquires, sizes 0..2 | `PoolSound` `ImplementsPool` `AwaitReturns` | the polling pools keep the same contract, and awaiting an acquire returns |
| `http` | 3 clients, 2 workers, `maxConnections` 2, `maxRequests` 2 | `ConnectionLimit` `SocketsSound` `HandlerLimit` `NoLostSignal` `StopsAtLimit` `EverySocketCloses` | limits, ownership of sockets, wakeups, shutdown; the server stops and every accepted socket is closed |
| `store_install` | 2 installs at once, any number in sequence, 2 tarballs, 1 crash or failing call, any number of cleans; torn stores not followed | `DiskSound` `ResolvesToPin` `FailureKeepsInstall` `InstallsReturn` | after any crash a marked package is whole, an install resolves to what is pinned, a failed refresh restores, an install once completed is still somewhere in the store, every install returns |
| `h2` | 3 client streams, 2 at once, 3 requests over any number of connections, windows of 4 units | `StreamsSound` `ReceiveWindows` `NeverOversends` `ResponsesFit` | against any frames, windows agree with the peer's, streams and limits stay right |
| `descriptor` | 3 processes, 2 units, 1 failing call, any failing calls of a rollback, 1 death, symmetry; followed until a lock is stolen (`KeptApart`) | `MapTellsTruth` `EndsWell` | the map claims no output of another build but one that a failed rollback has left, a second loop that fails comes back |
| `build` | 3 builds, 3 outputs of which two share a path, 1 failing call in each, 2 deaths | `VersionKept` `EndsWell` | a build ends with all its outputs or with what was there before; a path once written keeps a version on disk |
| `async` | 2 pending values, values settled from the start, lists of up to 3 with copies | `OneResult` `AllInListOrder` `AwaitReturns` | one result for each pending value through every mold, `All` in list order, a blocked program goes on |

Five properties are conjunctions, so that their parts are read together:
`TableSound` (types, no token twice, every token reachable by its probe
sequence), `PoolSound` (types, capacity and distinct tokens, waiting count,
leases), `SocketsSound` (types, each open socket with one owner, nothing open
when the server has returned), `DiskSound` (types, a marked package is whole, a
completed install survives) and `StreamsSound` (types, request budget, stream
limit, idle streams are exactly the one being assembled, answered streams are
gone). Each part has a name and a comment of its own.

Three more runs check one documented statement each, which the code does not
keep; `findings` quotes the statement.

| Run | Statement | What the code does |
|---|---|---|
| `pool_cancel` | `PoolAnswers`: `poolHealth` answers at once | a cancelled wait thread leaves the mutex locked, all pool calls block |
| `descriptor_lock` | `OneBuilder`: the lock is exclusive, only a dead build's is taken over | `acquire` reads the pid, probes it, then removes whatever lock is at the path. The owner ends after the read, a third build makes its lock, and that lock is removed: two builds at once, without a failure or a death |
| `descriptor_rollback` | `FailureTouchesNothing`: a failed build does not touch the committed area | a failure in the commit's first loop returns at once, and the cleanup deletes the outputs moved away before |

### Seen while modelling, without a run

These are modelled as the code has them, or left out where it is said.

- Native pools: `poolRelease` that cannot grow the idle queue returns without the
  broadcast, so a waiter sleeps on beside a free slot, until its deadline: hence
  `Starved`. `poolRelease` of -1 takes a tombstone for a token and lowers the count
  (`tls.c:1629`); after that more than `maxSize` leases can be out, and `Capacity`,
  `LeasesAccounted` and the table's properties fail. All of them leave -1 out. A timeout
  may be reported when a slot is free or the pool closed, because the thread does not
  look again; the refinement counts the call as timed out when the deadline woke it,
  and then its pool was open and full. A second `poolClose` answers a failure
  of kind `closed` (the document calls it idempotent); `poolCreate` cuts a `maxIdle`
  above `maxSize` down (the document lists it as a failure). Pool ids are never given
  back.
- Interpreter pools: `poolClose` lets no waiting call progress before the program
  awaits something.
- Native server: a fatal `accept` error still answers `ok`.
- Store: a fetch that finds the remains of a crashed one extracts over them, so a
  package pinned anew in between can keep a file of the old tarball for good;
  `MarkedIsWhole` promises "no other file" only where no fetch met remains. The
  comment at `pkg/store.rs:681` speaks of a crash after the marker and before the
  sidecar, but the sidecar is written first. The one at `pkg/store.rs:1845` makes
  a tag that does not exist an install error, but `apply_stale_decision` goes on as
  if offline. `cache clean` takes no install lock: beside an install it unlinks the
  lock file, and a second install then makes a new file and locks that. With
  `FollowTorn` TRUE, `OneInstaller` (of `StoreInstallProofs`) fails in seven steps: an
  install opens and locks the file, a clean begins and unlinks it, another install
  opens a new one and locks it. The comment at `pkg/store.rs:2377` says that the lock
  is enough because Taida is the store's only writer. An interrupted clean can leave
  the marker of a package whose files are half gone.
- HTTP/2: receive windows are topped up when a request is complete and not before,
  so a body larger than the initial window waits for the read timeout. A response
  larger than the send windows costs the connection, whose windows cannot open
  while it is written. A stream refused for concurrency is refused before its
  header block is decoded, so the HPACK decoder is behind from then on. A new initial window may push a
  stream's send window over 2^31 - 1, which only WINDOW_UPDATE checks.
- Descriptor builds: two builds that find the same dead lock may both build too, the
  second removing the lock the first has just made. A build that
  dies between making the lock file and writing its pid leaves a lock no build
  removes. One that dies in the commit leaves the displaced outputs in its staging
  directory, which the next sweep deletes. When a rollback cannot remove an output it
  has placed, the backup of that output does not come back and is then deleted, while
  the old map returns: it names an output of the failed build (`spoilt`). The document
  gives a staging directory 24 hours, the code 6.
- JavaScript builds: a failing `create_dir_all` leaves the copies made so far.
- Async: `docs/api/prelude.md:756` and `docs/guide/11_async.md:195` have `Race`
  answer the first value to complete. The code answers a value fulfilled from the
  start if the list has one, and otherwise waits for its first element, as the
  guide's example two lines below says.

### Why the bounds are enough

Two of everything a step can confuse, and one more. For the pools: three calls
make a holder, a waiter and a fast-path thief; two
pools make the shared broadcast wake the wrong sleeper, and one of them loses a
wakeup while the other must not; one cancelled call dies in its sleep among others
(`maxIdle` 0, where nothing is ever idle, is left to the proofs). For the table: eight
slots, where 1 and 9 collide and seven tokens leave tombstones in every position
of a probe sequence. For the server: more clients than connections, as many
workers as connections (so it is up to `maxConnections` 16), and more heads
complete than requests left; a server with fewer workers than connections is
covered by the proofs, which hold for any number of both. For HTTP/2: three streams
where two may be active, so that one is refused, one reset and one answered; a
window of four units and DATA of three, so that a stream can be over its window,
below half of it, and topped up; two initial windows, so that SETTINGS moves a
stream's window down below zero and up again. For descriptor builds: two builds
meet at a dead lock and the third left it there; two units and the map are an
order in which one is first, one is second and the map is last. `MaxFaults` counts
failing calls, those of a rollback apart, of which any may fail. The run
stops at a stolen lock (a constraint), where the properties promise nothing; three
tries at a lock take four builds, so that exit is left to the proofs. For the JavaScript
commit: the shared path is first and last, with another between. For Async: a
list of three can hold one value twice and another between, two values can
settle in both orders. For the store: two
processes, since the lock lets one work at a time; one crash, after which any
number of installs follow; two lock files, one open and one new; two tarballs, so that pin, tag, cache and remains can
all differ. Actions are all taken in the
passing runs; each property is also shown to fail for a plausible slip in the
code (`mutants`: a dropped guard, an unreset count, a forgotten signal). The
slips are definitions placed before the ones they replace; no specification uses
them.

Deadlock checking is off in the runs of programs that end: a program that has
made its calls, or a server that has returned, has no next step.

### Fairness

`NativePool!FairSpec`: a started call and its wait thread run on (weak fairness
for spawning, resolving, and getting the mutex after a deadline or a Cancel, which
nothing but a dead owner keeps locked between steps). A thread's turn at the top of
its loop is strong fairness, because a broadcast may keep waking it; so is the
deadline, since it is absolute and a thread woken in vain returns to sleep with the
same one. The program is never assumed to release, close or cancel.
`InterpPool!FairSpec`: the runtime keeps polling inside `block_on`, and whatever
else the program awaits answers. Nothing makes the program await.
`StoreInstall!FairSpec`: a process that has the lock runs on (the download has
a time limit of 120 s), and `flock` is strong fairness. No install is assumed to
start, and none to succeed.
`AsyncCell!FairSpec`: the interpreter goes on, and a task that runs ends; nothing
makes the program await or a timeout expire.
`HttpServe!FairSpec`: threads run on; reads and writes have socket timeouts, a
head is at most one mebibyte, `accept` has a 100 ms timeout; a handler is
assumed to return. Clients are never assumed to connect.

## 4. Proofs

Each theorem is about every value of the constants. The only assumptions are the
named ones of the module it is about (`NativePoolAssumption` and so on: sets are
finite, bounds are naturals, `None` is no process), which TLC evaluates on every
run.

| Theorem | Says |
|---|---|
| `NativePoolProofs!TypeCorrect` | `Spec => []TypeOK`; no waiting count falls below zero |
| `NativePoolProofs!CapacityKept` | `Spec => []Capacity`, for programs that do not release -1 |
| `NativePoolProofs!TokensKeptApart` | `Spec => []TokensApart` |
| `NativePoolProofs!WaitingIsCounted` | `Spec => []WaitingCounted` |
| `NativePoolProofs!LeasesAreAccounted` | `Spec => []LeasesAccounted` |
| `NativePoolProofs!SettlesOnce` | `Spec => SettledOnce`, an action property |
| `NativePoolProofs!NoWakeupIsLost` | `Spec => []NoLostWakeup`, of the pools that are not starved |
| `NativePoolProofs!PoolsImplement` | `Spec => ImplementsPool`, the refinement of `ResourcePool`, of the pools that are not starved |
| `NativePoolProofs!TableStaysSound` | `TableSpec => []TableSound`, unless -1 is released |
| `NativePoolProofs!LengthIsExact` | `TableSpec => []LengthExact`, unless -1 is released |
| `NativePoolProofs!AddsSucceed` | `TableSpec => []AddNeverFails` |
| `NativePoolProofs!TableImplements` | `TableSpec => ImplementsSet`, the refinement of `TokenSet`, unless -1 is released |
| `NativePoolProofs!PoolsKeepContract` | each step of `NativePool` adds a token to a pool's set only when it is absent and fewer than `maxSize` are in it, removes a present one, or clears the set: the guard of `Add` |
| `InterpPoolProofs!PoolsStaySound` | `Spec => []PoolSound` |
| `InterpPoolProofs!PollingImplements` | `Spec => ImplementsPool`, the refinement of `ResourcePool` |
| `HttpServeProofs!ConnectionLimitKept` | `Spec => []ConnectionLimit` |
| `HttpServeProofs!SocketsKept` | `Spec => []SocketsSound` |
| `HttpServeProofs!HandlerLimitKept` | `Spec => []HandlerLimit` |
| `HttpServeProofs!SignalsSuffice` | `Spec => []NoLostSignal` |
| `StoreInstallProofs!DiskStaysSound` | `Spec => []DiskSound`, which speaks of a store no clean has torn, as the next two do |
| `StoreInstallProofs!PinsResolved` | `Spec => []ResolvesToPin` |
| `StoreInstallProofs!FailuresKeepInstall` | `Spec => []FailureKeepsInstall` |
| `H2ServeProofs!StreamsKept` | `Spec => []StreamsSound` |
| `H2ServeProofs!ReceiveWindowsCover` | `Spec => []ReceiveWindows` |
| `H2ServeProofs!SendWindowsExact` | `Spec => []NeverOversends` |
| `H2ServeProofs!ResponsesKeepToGrants` | `Spec => ResponsesFit`, an action property |
| `DescriptorBuildProofs!TypeCorrect` | `Spec => []TypeOK` |
| `DescriptorBuildProofs!MapStaysTrue` | `Spec => []MapTellsTruth`, until a lock is stolen; outputs that a failed rollback left are excepted by name |
| `DescriptorBuildProofs!BuildsEndWell` | `Spec => []EndsWell`, until a lock is stolen; failing rollbacks included |
| `BuildCommitProofs!VersionsKept` | `Spec => []VersionKept` |
| `BuildCommitProofs!BuildsEndWell` | `Spec => EndsWell`, an action property |
| `AsyncCellProofs!OneResultEach` | `Spec => []OneResult` |
| `AsyncCellProofs!AllKeepsListOrder` | `Spec => []AllInListOrder` |

Each inductive invariant was checked by TLC, on the instance of the module's
run, before it was proved.

**Pools.** For any finite set of calls, any table size, any sizes, any stray
tokens, cancellation and failures included. The inductive invariant `IInv` is
`TypeOK`, `Placed` (a call that waits has a pool that was created), `AllSound`
(each pool record has a finite in-use set, is within capacity and keeps its
tokens apart) and `WaitingCounted`. Neither part is inductive alone: a count can
only be lowered within `Nat` because it equals the number of waiting calls, of
which the one that leaves is a member; a token can only be appended to the idle
queue without a duplicate because tokens in use are not idle; and `Capacity`
survives a grant from the idle queue only because the token moves from one side
of the sum to the other, which needs it not to be in use already. Lemmas about a
record alone (`TakeSound`, `GivenBackSound`, `FreshSound`, `WaitingSet`) say that
each replacement keeps it sound; lemmas about the set of waiting calls
(`CountSame`, `CountLeaves`) follow its cardinality. Each action is then one of
four shapes: create, a call step with a pool step, a call step alone, a release
or a close.

`LeasesAccounted` needs three facts more (`LInv`): a call that has no answer yet
holds nothing (`Fresh`), a holder's pool was created (`Lent`), and an id not
created yet has handed out nothing (`Untouched`). A grant then adds one holder
and one token, which `TokensApart` says no other holder has; a stray release takes
the lease from whichever call holds that token. `NoLostWakeup` and the refinement
leave the starved pools out: when an idle queue cannot grow, `ReleaseOutOfMemory` frees
a slot, drops the resource and skips the broadcast, which is neither a step of the
abstract pool nor a wakeup. They hold of the others beside it, other failures and
cancelled threads included. The refinement rests on all of it: a step of one pool
must leave the others' view as it is, a deadline that passes is a step of the abstract pool
only because a thread asleep has no free slot to take (its report, later, is a stutter), and a woken thread's turn is a
grant, a refusal or a stutter.

**Token table.** For any capacity of at least twice `maxSize`, any hash and any
tokens. `TableInv` is that a search works (`Searchable`: no token twice, no empty slot
before a token on its probe sequence) and, unless -1 may be released,
that the length is the number of tokens. `Probes` says that a probe sequence visits
every slot once; with it, a table that has no slot for one more token maps its
slots one to one into the tokens in use, of which there are fewer than half as
many (`RoomForOne`). A remove leaves a tombstone and not an empty slot, so it breaks
no probe sequence; an add takes the first free slot, so only tombstones and tokens
lie before it. The hypothesis about -1 is the defect of section 3: the table takes
its own tombstone for that token and lowers the length. `AddsSucceed` does not need
it. What the adds rest on, that the token is absent and fewer than `maxSize` are in the
table, is no assumption about the program: `PoolsKeepContract` has it of every step of
`NativePool`, from `Capacity` and `TokensApart` before the step.

**Interpreter pools.** For any calls, sizes and pool ids. As for the native pools,
with `Numbered` and `Absent` (ids are handed out in order) in place of the table.
`LeasesAccounted` is part of the invariant from the start, since a task can be
granted a lease the program never awaits. A poll looks for the close, then a slot, then
the deadline under one lock, so each poll is one abstract step and the
refinement needs no hypothesis.

**HTTP/1.1 server.** For any connections, workers and limits, fewer workers than
connections included. `ConnectionLimit` speaks of sockets, the code's test of two
counts. `ActiveCounted` and `Bounded` (`active`, the queue and the socket about to be
accepted are together at most `maxConnections`) tie the counts to what is held, so
that a test made before `accept` still holds when the socket is queued: only the
accept loop lengthens the queue, and a worker that takes from it raises `active` by
as much. `Ownership` (`Placed`, `HeldOnce`, `OpenHeld`) says that the open sockets are
those held by the accept loop, the queue or one worker; counting both
sides bounds the sockets. `NoLostSignal` is inductive because each queued socket
signals one sleeper and a worker goes to sleep only on an empty queue; `Ended` says that
nothing is queued any more once the accept loop has stopped.

**Package store.** For any installers, tarballs, crashes, failing calls and cleans. The
invariant follows one installer: what its stash holds (`StashSound`), where the install
it found is (`FoundSound`), what a fetch has put in the directory so far
(`FetchSound`), and what its pin has been compared with (`PinSound`). `SameLock`, that
whoever has opened the lock file has the one at the path and that there is at most one
holder, is what lets the other installers be ignored in a step of one. All of it
(`Intact`) holds until a clean meets an install; the other case of `IInv` is a clean
at work in a store nobody uses, at whose end everything is gone and `Intact` holds
again, or which has stopped and left the store torn. `MarkedIsWhole` is
not inductive alone, since the marker is written last and trusts what was written
before; neither is `InstallSurvives`, which needs the stash to be the install that was
found and the undo to come back to it.

**HTTP/2.** For any windows, limits and stream ids, and any frames. `Sound(c)` is one
condition on the connection record: streams one by one (`SoundStreams`), the
connection's windows (`SoundFlow`), the stream map (`SoundMap`), the stream
limit (`Room`). Every frame builds its next record by a few
operators; a lemma for each says which part it keeps, and each action's proof
composes them. `ReceiveWindows` bounds a body by its stream's window because a
DATA frame is refused before it is buffered; `NeverOversends` survives SETTINGS
because the change of the initial window moves both sides of each stream by the same
amount. `ResponsesFit` follows from the same invariant and from the order in which an answer
uses the windows.

**Descriptor builds.** For any number of processes, units, failing calls and
deaths. Everything about the outputs rests on `LockHeld`: until a lock is stolen, whoever
went past the lock is its creator, so there is at most one. `MayTry` bounds the
tries, which types the counter, and `SeenGone` keeps a process that was found gone from
coming back. Most steps do not touch the lock; `Quiet` says so once, and three
lemmas put all steps of the sweep, the transaction and the commit under it.

`MapTellsTruth` and `EndsWell` are about `OInv`. `Side` keeps the sweep away from the
staging directory of a build that runs (`RemovesGone`), and from naming a process that
has not started (`Unborn`). `InStep` says, while no lock was stolen, what the
committed outputs and the staging directory of the builder hold at each stage
(`Untouched`, `Displacing`, `Replacing`, `Undoing`, `Reverting`, `Over`). The map is
displaced last and placed last (`MapLast`): while it is in place, the outputs it names
are its build's or are gone already, and while another build's are coming in there is
no map (`Honest`). A rollback starts without the map too and brings it back first: what
a failing removal left in place by then is the builder's, and its name is in `spoilt`,
which only grows.

**JavaScript builds.** For any number of builds and outputs, any sharing of
paths, any failing calls and deaths. `VersionKept` alone is not inductive: a file
may be renamed into place over nothing, or taken out of place by a rollback. `InTurn` adds,
for each loop, that no backup is there before its turn, that what has been backed
up is out of place, and that while outputs are placed every path that had a
version has a backup (`Backed`), which is what a failing `Place` relies on;
while backups are removed, all outputs are in place. `Alone` (one build runs)
keeps the others' files still, `Counted` keeps the numbering in range. `EndsWell` adds
`Undoable`: every path holds what it held before, or nothing and a backup still to
come back holds it (`Safe`). Two outputs of one path make this hard: the
second finds nothing in place to back up and so has no backup, and the rollback
must neither remove what the first has brought back nor bring nothing back over it.

**Async.** For any set of pending values and lists of any length. `OneResult` is
kept because a receiver is taken by one mold at a time, `Done` stands in the cell
the program is blocked on and nowhere else (`DoneIsBlocked`), so the rejection
`already` is never given out, and what is cached is what the task sent
(`CachedIsSent`), which it sends once.

`AllInListOrder` adds `InOrder`: the results so far are those of the items before the
one being resolved, in their order. A rejection that comes first exists because `<` is
well founded on the naturals (`Least`), not by an induction over the list. For
that reason `Outcome` takes the least index of a rejection, `Min(Rejected(results))`.

Only model-checked: liveness under fairness (`EveryAcquireSettles`, `AwaitReturns`
twice, `StopsAtLimit`, `EverySocketCloses`, `InstallsReturn`), which stays with TLC
for good, since the prover has no reasoning about `ENABLED`. The three statements of
the code's documents that it does not keep (`PoolAnswers`, `OneBuilder`,
`FailureTouchesNothing`) are refuted by their runs.

## 5. Plan

In this order.

1. Proofs of what the modules below add, each with its inductive invariant.
2. `StoreInstall`: generation resolution, which reads markers without the lock.
3. `NativeAsync`: the thread-backed Async of `core.c`.
4. `InterpServe`: the interpreter's HTTP/1.1 serve loop and the streaming writer.
5. `LockfileWrite`, `SelfReplace`, `DepsSwap`: atomic replacement with crashes; the
   prebuild cache.
6. `HpackTable`: the dynamic table and its eviction; `QuicSlots`: slots and draining.
7. `Resolve`, `DepGraph`: version selection and cycle detection as operators
   against reference definitions.
8. `RcOpt`, `Lifetime`: the retain/release passes on small IR programs.

## 6. Not modelled, and why

Text in, text out: the lexer, parsers, emitters, formatters, the documentation
generator and the diagnostics have no interleaving, no bounded state and no
property that a small instance would show. They are most of the code: the
modules here cover the protocols in it, which are a small share of its lines.
Terminal, file and socket primitives are I/O. The evaluator and the type checker
are recursive over unbounded programs.

Within what is modelled: resource values, Result packing, log lines, HTTP syntax,
header compression, TLS records, handler results, `maxRequests = 0` (a server that
is not meant to end), a clock that is set back, an unchecked `pthread_create` in
`httpServe` and in the HTTP/3 server, whose consequence is undefined behaviour
rather than a state; staging directories removed for their age or their owner, a
pid used again, and what a build compiles.
