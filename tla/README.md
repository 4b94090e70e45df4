# A TLA+ verification of EdgeScope

EdgeScope is a remote-diagnosis tool for one Linux device: an **Agent**
(`agent/`) that reads `/proc`, logs and systemd and serves a gRPC API, and two
clients (`client/`): a Qt desktop client and a command-line one.  This directory
models the parts of both where order, concurrency and failure matter.  Paths
below are relative to the repository; `PROJECT.json` maps every definition to
the lines it stands for.

## 1. Inventory

| Component | State | Operations | Talks to | What is hard |
|---|---|---|---|---|
| `MetricsSampler` (+ `GetSystemMetrics`, `StreamSystemMetrics`) | `latest_`, `generation_`, `has_sample_`, `stopping_`, mutex, condition variable | `Sample`, `Run`, `GetLatest`, `WaitForNext`, destructor | its own thread; one gRPC thread per stream | lost wake-ups, matching snapshot and generation, pacing, teardown |
| `DiagnosticCollector` (+ create/download handlers) | registry `bundles_`, sequence number, mutex; staging directories and archives on disk | `CreateBundle`, `GetBundlePath`, destructor | collectors, a `tar` child, concurrent handlers, the file system | a dozen failure paths, eviction against downloads, crash and restart |
| Log streaming (`StreamLog`) | `offset`, `inode`, `partial_line` of one call | poll, read, split, write | the program that writes and rotates the log | chunk boundaries, rotation between two system calls, truncation |
| Diagnostic download | server offset, stream, client file | send, read, write, close, remove | Agent, gRPC, local disk | any of the three failing at any point |
| Agent process (`main`, `AgentLogger`) | signal mask, logger, service, server | start-up, `sigwait`, shutdown | every handler | teardown order, streams that never end |
| Desktop client (`MainWindow`, `RpcWorker`) | label, buttons, timers, modal boxes; `client_`, `stream_thread_` | 16 slots, ten signals, the user's clicks | Qt event queues between GUI thread, worker thread and stream thread | requests overtaken by answers, nested event loops, join and close |
| `ServiceManager` (+ `CreateTarGzip`) | whitelist; pipes and children of running commands | `ListServices`, `ControlService` | `systemctl` | concurrent fork and pipe |
| `LogCollector` | none (whitelist) | `ListLogs`, `ReadLog`, `SanitizeUtf8` | log files | boundaries of the backward scan |
| `ProcessCollector`, `ProcessController` | none | list, details, signal | `/proc`, `kill` | processes that exit, pid reuse |
| `NetworkCollector` | none | interfaces, TCP tables | `/proc/net`, `/proc/*/fd` | inode-to-pid map older than the table |
| `SystemCollector` | previous CPU counters | `Collect` | `/proc/stat`, `meminfo`, `loadavg`, `uptime` | counters that go back, readings that fail, 64-bit sums |
| `AgentConfig` | none | `Load` | a file | acceptance of names, numbers and addresses |
| `EdgeScopeClient`, command-line client | a channel; the place in `main` | one method per RPC; every option of `edgescope-cli` | Agent | deadlines and calls that have none, narrowing of numbers, exit status |

How they interact: `RpcWorker` calls the Agent synchronously from its QThread,
one slot at a time; the window never blocks except in its destructor.  On the
Agent every RPC is a handler on its own gRPC thread; handlers share the sampler
(mutex and condition variable), the diagnostic registry (mutex), spdlog's default
logger and the file system, and nothing else.

What makes each part correct is listed with the modules below; what can go wrong
and is hard to test is the `hazards` list of `PROJECT.json`, each at its line.

## 2. Modules

Each component has a specification `X.tla`, an instance `XMC.tla` for TLC with
its `.cfg` files, and, where theorems are proved, `XProofs.tla` (`CollectorProofs` for
`ProcessTable`, `ProcessTexts`, `LogRead` and `Utf8` together).  Those four also have
one instance, `CollectorsMC`: the processes and the log share no state, in memory or on
disk, so one is at rest while the other moves and nothing is lost.  In every
module an operator `X_Y` next to `X` is `X` with the defect `Y`: it is outside
the specification and shows that a property notices that defect.

### MetricsSampler
The sampler thread, the metric streams and the owner that destroys the service,
at the grain of the mutex's critical sections.  `condition` is the set of threads
asleep in the condition variable; `notify_all` empties it, a spurious wake-up takes
one out.  `Publish`/`NotifySample` are the two halves of `Sample` (the notification
comes after the unlock); `GetLatest`, `WriteResponse`, `WaitForNext`, `Sleep` are
one round of `StreamSystemMetrics`.  Samples are numbers; a failed collection keeps
the previous snapshot, as in the code.

* `NoLostWakeup`: no stream sleeps past a published generation unless a
  `notify_all` is under way.
* `SnapshotMatchesGeneration`: a stream never sends the snapshot of another sample.
* `QuietTeardown`: the sampler is destroyed only with no handler inside it, and
  its thread has ended when it is gone.
* `PacedResponses` (a property of steps): two responses of one stream are at
  least the requested interval apart, for any rounding.
* `WaiterServed`, `TeardownTerminates`: liveness, under weak fairness of the
  sampler, the streams and the owner (threads of a running process).

### SystemCollector
What one `Sample` collects, as operators on the state of `/proc`: `ReadCpuTimes` and
`CollectCpuUsage` with the previous counters (`CollectorAfter` is the collector after
any sequence of readings, good or not), memory, load and uptime, with `std::uint64_t`
sums and products modulo `Word`.  `SampledMetrics` puts it beside `MetricsSampler`: the
n-th sample of the sampler is the n-th `Collect` of a sequence of readings.

* `MetricsAreCoherent`: a usage is a share of time whatever the counters do, and the
  true share of the whole time since the last reading that succeeded when they only
  advance; the first one is 0; used and available memory add up to the total.  It is
  compared with `BusyTime`/`IdleTime`, which are defined without modular arithmetic.

### BundleStore, DiagnosticCollector
`BundleStore` is what the Agent promises: a creation happens at one moment or not at
all, the newest `MaximumBundles` bundles are stored, a download is refused only for a
bundle that is not stored at that moment.  `DiagnosticCollector` implements it
(`ImplementsBundleStore`, by `INSTANCE ... WITH`): a bundle is stored when `CreateBundle`
appends it to the registry, the number is the sequence number, and files, `tar`, the
mutex and every intermediate place of a creator are stutters.

Creators and downloads against the registry mutex and the disk.  Every early
return of `CreateBundle` is an outcome of the action it leaves from; `tar` is
a child that may fail at any point, with or without a partial archive; the staging
directory is made and then secured, each of which may fail; removals may fail; the Agent may exit (destructor) or crash and be started again.

* `RegistryBacked`: the registry is ordered, bounded, and every entry has its
  finished archive on disk.
* `EvictsOldestOnly`: an entry is forgotten only when capacity-many newer ones stay.
* `NothingLeftBehind`: between calls the disk holds what is registered, what a crash
  left, and what the code tried to remove in vain (it looks at no result of `remove` or
  `remove_all`); no path forgets to remove.
* `ImplementsBundleStore`: above.  That a download reads a finished archive whatever is
  evicted between its lookup and its open (`DownloadsFinishedArchive`) is proved and no
  longer run.

### ClientSession
`MainWindow`, `RpcWorker` and the stream thread.  The two Qt queues are sequences;
a slot that begins with `StopLogStream` cancels the stream, waits for the thread
(`Joined`) and goes on; a slot without a client returns silently.  Boxes and dialogs
run nested event loops, so `boxes` is a stack of suspended handlers: events are
handled while it is non-empty, the user reaches only its top, and what a handler
does after its box (the `SetConnected(false)` of a failed connect) is part of
`Dismiss`.  The five refreshes `HandleConnected` requests are `RefreshBurst` calls.

* `ConnectedMeansClient`, `ControlsMatchTheLabel`: once both queues are empty, no
  slot runs and no box is open, a window that says Connected has a client, its
  timers run exactly then, and no button is left disabled by a request that got no
  answer.  While messages are under way they legitimately do not agree.
* `ClosedCleanly`: closing leaves neither a stream thread nor a channel.
* `ConnectingResolves`, `ClosingTerminates`: liveness.  Fairness: the event loops
  and the stream thread are scheduled; an RPC ends because `EdgeScopeClient`
  gives each a deadline; `StreamLog` has none and ends only once it is cancelled.
  Nothing is assumed of the user.
* `RunningStreamCanBeStopped`: violated, see section 5.

### LogStream
One `StreamLog` call against the program that writes the log.  A byte is
`<<line, index>>`, so every byte in history is distinct and a delivered line
shows its origin.  `Poll` is the stat, `Read` the open, the read and the append to
`partial_line`, `SendLine` one line cut off, filtered and written (a `Write` that fails
ends the call), `EndOfLines` the cap on what is left and the sleep; the file may change
between any two of them.  The request checks, both initial offsets, the
cap on lines and on the unfinished line, and the keyword filter are in.

* `GenuineInOrder`: a delivered line is one piece of one line of the log, and no
  line comes out of order or twice, across chunks, rotations and truncations.
* `NothingMissed`: while the file only grows, exactly its lines are delivered
  however the reads cut them, each with the length the cap gives it.
* `LinesArrive`: a complete line that stands in the file is delivered
  across the rotations and truncations that the next stat notices; liveness under weak
  fairness of the handler (it sleeps 250 ms between rounds).

`UnnoticedSwaps` says whether the file may be replaced in the instant between stat and
open, or grow back to the old offset after a truncation: not in `log_stream`, whose four
properties say nothing of either; the first in the race run, which checks `NoSplicedLine`
(the first half of `GenuineInOrder`) alone.  A file grown back is in no run: the code loses lines then.
With a keyword, `NothingMissed` is checked for lines up to the cap: of a longer line
the code filters a piece that depends on where the reads fell.

### DiagnosticTransfer
The handler, the stream and the client's file, a size counted in chunks.  `front` is
the client at work (`"worker"` for `RpcWorker`, `"cli"` for the command line).  gRPC is
external: messages in order, then the status, or the stream cut off.  The `ofstream`
is external too: a full chunk is written through, a short last one (`shortTail`) stays
in the buffer until `close`.  A write that fails half-way leaves part of a chunk,
which counts as not written.

* `WorkerKeepsItsPromise`: the desktop client's file is complete or gone, and
  reported as what it is.  Excepted are a failed flush in `close()`, which nothing looks
  at, and a failed `QFile::remove`, after which a partial file stays but an error was
  reported; see section 5.
* `SavedIsComplete`: a download reported as saved is the whole archive, for either
  client, with the same exception and, for the command line, a failed last write.

### CommandLineClient
`edgescope-cli` from its first call to its exit status, on top of `DiagnosticTransfer`:
`Dispatch` looks at the arguments (after `GetAgentInfo`, as `main` does), `NextCall`,
`ReadFirstLog` and `ServicesListed` are the overview, `--control` one call, `--stream-log`
and the three samples the two streams; `--diagnostic` takes the steps of the transfer
(`Transfer`).  A `RpcWorker` download is the same composition with `front = "worker"`, in
which the program itself does nothing.  Unary calls may be answered, fail, or pass their
deadline; a `ControlProcess` may be handled after its deadline has passed
(`Signal` without an `Answer`).  `Int32`, `ParsePid` and `Wanted` are the conversions as
the C++ library defines them: prefixes, trailing text, narrowing, and negation modulo
2^64 after a minus sign.

* `SuccessIsComplete`: exit status 0 means that what the command line stands for was
  done.  The code's own limits are in the statement: a `--stream-log` whose stream is
  reset with CANCELLED by anybody counts as ended, its COUNT may have trailing text, and
  the details and the log text of the overview may be missing.
* `ControlsAsTyped`: the only pid ever signalled is the number that was typed, with a
  valid action, also by a call whose answer came too late.
* `ProgramEnds`: liveness under the two clients' threads and their deadlines only; the
  Agent may hang.  The exception is a stream, which has no deadline.

### AgentLifecycle
`main` line by line with a signal at any moment, and handlers that run, log and
stream.  `Server::Shutdown` without a deadline is external: no new calls, wait for
the running ones, cancel none.

* `CallsRunInsideTheService`: no handler outlives the collectors or the logger.
* `GracefulExit`: with signals blocked none kills the process, and a regular exit
  leaves no logged line unflushed.
* `SignalTerminates`: holds when every client ends its calls
  (`FairSpecWithClients`), violated without that assumption, see section 5.

`LoadConfig` is `AgentConfigLoader::Load`, of the module `AgentConfig`: a file is any
sequence of lines, and each key has what the code looks at (`IsValidAddress`,
`IsValidInterval`, `IsValidServiceName` with `size() - 8` in `size_t`).  Without
arguments the defaults stay; other arguments than `--config FILE`, and a file that does
not open, end the program; a read that fails midway (`Readable`: `getline` stops at an
error as at the end) does not.

* `ConfigurationIsValid`: a running Agent has an interval within the limits that
  `MetricsSampler` assumes, absolute paths, an address with a host and a colon, and
  names that end in `.service` (`ServiceName`) or have the one size for which the code's
  `size() - 8` is `npos` (`WrapsToNpos`).
* `OnlyServicesAllowed`: every name ends in `.service`; violated, see section 5.

### CommandRunner
`PosixServiceCommandRunner::Run` for `ListServices` and `ControlService`, and the `tar`
child of `CreateTarGzip`, in concurrent handlers.  The subject is `fork`: no descriptor
is close-on-exec, so each child holds a copy (`writers`, `readers`) of every pipe end
open in the Agent when it was forked.  Output is counted in read buffers.

* `TypeOK` says in particular that a handler that returned has closed its pipe and reaped its
  child, on every path.
* `OutputIsWhole`: a command whose output fits the cap is never cut short or killed
  by what other children hold or let go of.
* `CallsReturn`: liveness, fairness of handlers and of commands that end by
  themselves.  It needs outputs of at most cap plus pipe, see section 5.

### LogRead, Utf8
`ReadLog` block by block on real bytes: the backward scan with its two ends, the
selection, the keyword and the caps, against an appending or truncating writer.
`Utf8` holds `SanitizeUtf8` as the code computes it (lead byte, continuations,
minimum, surrogates) and `Repaired`, the reference written from the Unicode table of
well-formed sequences; `LogRead` checks one against the other on every answer.  A line
is given by the place where it ends (`Ends`, `Begin`, `LineAt`), and the lines wanted are
picked with `At` of the module `Selection`.  The names of the specification have the
prefix `Read`, so that it can stand beside `ProcessTable` in one module of proofs.

* `AnswerIsTheTail`: the answer is the last lines of the file as it was opened,
  wherever the blocks were cut; at the scan cap it may have fewer, marked truncated.
* `UnmarkedIsComplete`: an unmarked answer has every matching line, uncut.  Lines of 5
  bytes are cut at `LineCap`; two defects, a wrong `ValidAt` and a forgotten mark of a cut
  line (`Truncated_ForgettingCutLines`), are shown to be noticed.

### ProcessTable
`ListProcesses`, `GetProcessDetails`, `ListTcpConnections` and `ControlProcess`
against a `/proc` that changes between any two reads.  A process is
`<<pid, incarnation>>`; `during`, `steady` and `held` record what was true in the
course of the call.  What files contain is reduced to whose they are.  Opening a file
may fail for want of descriptors or memory, a read may yield nothing, and the iteration
over `/proc` may end in an error; `missed` has the processes that such an error kept from
being read.

* `SnapshotsAreTrue`: a listing misses no process that lived all through it and was not
  `missed`, fails only before the first one, and mixes two processes only under a reused
  pid; details of a lasting process are never NOT_FOUND, and INTERNAL only after an I/O
  error.
* `OwnersAreReal`: a pid shown with a socket had that inode open during the call.
* `OnlyTheNamedProcess`: a signal reaches the one process that has the pid then.

### ProcFiles
The texts those calls read, which `ProcessTable` takes to parse: `ParseStatLine`,
`ParseStatus`, `ParseIo`, `CalculateCpuUsage`, and `ParseEndpoint`, `ParseTcpLine` and
`GetInterfaces` of the network.  A text is a sequence of characters and numbers, as
`operator>>` splits it.  `StatLine`, `StatusLines`, `IoLines`, `TcpLine` are external: what
the kernel prints, where a name may hold parentheses, blanks and digits.
`PrintedAssumption` says what is assumed of that: numbers fit the types the kernel has
for them, a state is a character that is neither blank nor `)`, addresses have 4 or 16
bytes; of a name it says nothing.  `At` (module `Selection`) picks the elements of a sequence at
given places by a recursive function.  `ProcessTexts` puts the texts beside `ProcessTable`.

* `TextsReadBack`: an entry or a row of an answer says what the kernel printed, for
  every name, for kernel threads, for counters at their limits and for addresses, which
  the kernel prints as little-endian words; every address is under its interface.

## 3. Runs and bounds

The instances are small on purpose and every bound is a named constant.

| Run | Bounds | Why they are enough |
|---|---|---|
| `sampler` | 2 streams, intervals 0 (default), 999 and 60001 (refused), 2500 (three samples), 4 generations ; every sequence of 3 of some 40 states of `/proc`, `Word` = 4096 | two waiters and the sampler are all parties of the condition variable; the paces 1 and 3 show rounding; counters advance, stand, go back one by one, wrap and fail to be read between the constructor and two `Collect`s |
| `bundles_safety` | 2 creators, 1 download, capacity 2, 4 bundles, any number of exits and crashes | the third bundle evicts; both creators meet at the mutex; a download spans an eviction |
| `session`, `session_stop_button` | 4 user actions and 1 timer expiry (3 and 0 for the violation), burst 1 | connect, reconnect, start and a box answer fit; queues are bounded only by the number of actions |
| `log_stream`, `log_stream_stat_open_race` | 2 finished lines of up to 3 bytes, reads of 2, cap 2, a keyword or none, 1 rotation and 1 truncation (3 lines of 2, reads of 3, 1 unnoticed rotation and no truncation for the race) | every position of a chunk boundary within a line, a line longer than a read and than the cap |
| `transfer` | 3 chunks, both clients, full and short last chunk; 32-bit integers end at 7, 64-bit ones at 31, `std::stoul` at 128, COUNT at 3; 2 logs, streams of 4 messages; pids and counts at and around each limit, with and without trailing text | first, middle and last chunk fail differently; a pid that narrows to another, one that wraps to a negative number; a stream longer than the three samples and than COUNT |
| `agent_lifecycle`, `agent_shutdown_with_stream`, `agent_config_service_names` | 2 call slots, up to 4 calls; configuration files of up to 2 lines, values at and around each limit, `Word` = 70000 | a unary and a stream at once, a slot used again; a line that decides, overrides or refuses, a number that wraps to a valid one, names of 6 and 7 characters, the bare suffix, the suffix inside and twice |
| `commands` | 2 handlers, 2 calls, 2 services, outputs of 0, 1 and cap + pipe buffers | every overlap of two forks with two open pipes; a listing runs two commands in one call |
| `collectors`, the log | files of up to 5 bytes from newline, return, keyword letters, of 7 from newline and keyword letters, every combination of UTF-8 byte classes up to 3 bytes, and 4-byte characters alone and beside another byte; blocks of 2, lines cut at 4, scan capped at 5 | lines end before, at and after each block boundary; a file of 7 bytes is longer than the scan reads; a line of 5 is longer than what is returned of it, and a character of 4 still fits |
| `collectors`, the processes | 2 other pids, each reused once, 1 inode that processes share and reuse, sensible and senseless requests; names of up to 3 characters, `Word` = 4096 | a process exits and its pid returns within one call; a socket changes hands; every order of parentheses, blanks and digits in a name |

What each shows is its `about` line in `PROJECT.json`.
Deadlock is checked except where the program really stops: a bounded writer and a
returned call in `LogStream`, and an exhausted generation bound in `MetricsSampler`.

## 4. Proofs

Eight modules hold theorems, for every value of the constants.  The assumptions are the
named `ASSUME`s of the modules (disjoint sets of threads, positive sizes, integers as
wide as the code's), nothing else.

| Module | Proved | For any |
|---|---|---|
| `MetricsSamplerProofs` | types, `NoLostWakeup`, `SnapshotMatchesGeneration`, `QuietTeardown`, `PacedResponses`; `MetricsAreCoherent` of `SampledMetrics`, with `UsageIsAShare` and `UsageIsTrue` | streams, intervals; readings of `/proc` |
| `DiagnosticCollectorProofs` | types, `RegistryBacked`, `EvictsOldestOnly`, `NothingLeftBehind`, `DownloadsFinishedArchive`; the refinement `ImplementsBundleStore` | handlers, capacity |
| `ClientSessionProofs` | types, `ConnectedMeansClient`, `ControlsMatchTheLabel`, `ClosedCleanly` | clicks, timer expiries, bursts of requests |
| `LogStreamProofs` | types, `GenuineInOrder` unless `UnnoticedSwaps`, `NothingMissed` | sizes, caps, keywords, lines, rotations, truncations |
| `AgentLifecycleProofs` | types, `CallsRunInsideTheService`, `GracefulExit`, `ConfigurationIsValid` | calls, configuration files |
| `CommandRunnerProofs` | types, `OutputIsWhole` | handlers, cap, pipe and sizes |
| `DiagnosticTransferProofs` | types, `SavedIsComplete`, `WorkerKeepsItsPromise`; `CliSpec => Spec`, `ControlsAsTyped`, `SuccessIsComplete` of the command-line client | chunks; command lines, widths, messages |
| `CollectorProofs` | types, `SnapshotsAreTrue`, `OwnersAreReal`, `OnlyTheNamedProcess`; `TextsReadBack` of `ProcessTexts`; types, `AnswerIsTheTail`, `UnmarkedIsComplete` of `LogRead`; `SanitizeUtf8` = `Repaired` | processes, reuse of pids, sockets, requests; names, counters, addresses; logs, keywords, blocks, caps, growth; bytes |

The type invariants of `BundleStore`'s implementation, the transfer and the process table
are proved and are not repeated in a run.

*Sampler.*  The inductive invariant `IInv` adds to the properties: a stream past
its wait holds a generation no newer than the published one; each private copy
of a snapshot is the one its generation had when it was copied; the sampler between
`Publish` and `NotifySample` is exactly the excuse of `NoLostWakeup`; the owner's
progress determines `stopping_` and the sampler's end; a stream about to write
has waited for its pace.  `PacedResponses` follows from the last part at every
`WriteResponse` step.

*Metrics.*  `previous_cpu_times_` after any number of readings is the last that could be
read.  Of the numbers for which that fails the least one is taken (`LeastExists`, from
the well-foundedness of `<`), and the step of the recursive function there contradicts
it.  What is left is arithmetic on two readings: a usage is a share with or without
wrapping, and is the true one where the counters advanced and their sums fit.

*Diagnostics.*  `IInv` relates the holder of the mutex to the bundle in the making
(its staging directory and archive are the only unregistered files a live process
has), keeps the registry sorted by sequence number below the next one, and gives
each registered or opened bundle a finished archive.  Eviction then needs that an
appended bundle is the newest.

*Bundle store.*  The refinement mapping takes the registry's numbers for `stored` and
reads the phase of each creator and download.  With `IInv` of the collector every step
maps to the one action of the store its effect has, or to a stutter; the one step that
needs more is the append with its eviction (`Store`), where the registry is ordered and
its first entry is the oldest.

*Session.*  `IInv` says what every disagreement between window and worker is owed to.  A
worker without a client, under the label Connected, has an event in the window's queue or
a box on the stack that will make the label fall, and no event behind it raises it again
(`LabelFollowsClient`).  A disabled button waits for a request, a running slot, a stream,
an event or a box (`DiagnosticReturns`, `StartReturns`).  Once the destructor has asked
for it, the disconnection is the worker's last request (`DisconnectIsLast`).  The step
of each actor is summarised once (`UserStep`, `WorkerStep`, `StreamStep`) by what it adds
to the queues, and each part of the invariant is preserved by these summaries.

*Log stream.*  `WriterInv`: the file holds consecutive bytes of the log, each line whole
but for the one being written.  `CallInv`: while the path still names the file that was
read, `partial_line` is the piece of it that ends at `offset`; if not, it comes from an
older file, all lines of which come before those of the new one; all delivered lines
come before both.  A file replaced between stat and open, or grown back to the old
offset, breaks exactly this, so `GenuineInOrder` is proved for `~UnnoticedSwaps`.
`AppendInv`, for a file that is only appended to: what was delivered stands, line by line,
for the lines up to a position, and `partial_line` is the text from there to `offset` or,
when that is longer than the cap, its last `LineCap` bytes.

*Agent.*  `IInv` says what exists at each place of `main` (log, service), that handlers
run only from `StartServer` to the end of `Shutdown`, and that an unflushed line belongs
to `main` or to a handler that is about to flush it.  So when `Shutdown` has seen the last
handler return, only `main`'s own line is left, which `spdlog::shutdown` comes after.

*Commands.*  `Holding` fixes the pipe ends of each phase, `Conserved` that what a command
wrote is in its pipe or collected until its handler stops reading, and that a live
child holds its own write end.  End-of-file then means that the child has exited, and
since the read end was open all along, that it was not killed and wrote everything;
nothing depends on which copies the other handlers' children hold.  One lemma
(`OwnStep`) reduces every action to the handler that makes it.

*Transfer and command line.*  For the transfer `IInv` says what the file holds at each
place of the client: a prefix of the archive as long as what was received while no write
has failed, and all of it once the stream ended with OK, since the server compares the
offset with the size before it returns OK.  `CliSpec => Spec` shows that every step of the
program is a step of the transfer or leaves its variables alone, so its theorems hold in
the program; the rest of the program's invariant follows which calls must have been
granted at each place of `main`.

*Process table.*  `IInv` has one part per concern.  `GhostInv`: what lives or is held now
did so during the call, what is steady lives.  `EntryInv`: the parts of the entry being
read are of processes that had that pid during the call, and all entries so far have
lower pids, so no two have the same.  `CoverInv`: every steady process up to the cursor
is told of, hidden or missed; when nothing is ahead of the cursor, or what is ahead has
been missed, that is every steady process.
`TcpInv` and `SignalInv` relate `owner` to `held` and `hit` to the one process at the pid.
The order of `/proc` needs that a nonempty set of numbers has a least one
(`LeastExists`).

*Texts.*  Whatever the name, the first `(` and the last `)` of a stat line are the kernel's
own, since before the name there is no `(` and after it no `)`: so the name is what stands
between, and the words after it are the fields, by unfolding `At` over their places.  A
32-bit word printed and taken apart in the other order gives each byte of an address back
at its place.

*Log reading.*  `ReadInv`: what was read is the end of the log as it was opened, its
newlines are counted, and the log as opened is still a prefix of the file unless the file
was cut.  Wherever a block begins, the lines that end after the first newline of what was
read are the file's own lines (`LinesAreShared`, `LinesOfTheEnd`), so at most the first
one differs.  The scan stops with more than `max` newlines, and then the last `max` lines
are shared (`EndsAlike`); or at position 0, and then what was read is the whole file; or
at the cap, and then the answer is marked.  An unmarked answer has position 0, no line
left out and none cut.  What `At` takes is known by lemmas on its places (`AtAgrees`,
`AtSplits`, `AtTakesTheLast`), each proved by the least place at which it would fail.

*UTF-8.*  By first byte and length the arithmetic on code points accepts what the table of
well-formed sequences lists (`TwoBytes`, `ThreeBytes`, `FourBytes`, `CharactersAre`): the
point is linear in the bytes, so its bounds are bounds on the second byte.  So at every
place of a text the two recursive functions take the same step, and a least place where
they differ cannot exist.

TLC checked every inductive invariant on the small instance before it was proved.

Every invariant and every safety property of steps that a passing run checks is stated by
a theorem (`GenuineInOrder` with the premise of its run, `~UnnoticedSwaps`).  Model-checked
only: liveness (`~>`, weak fairness), which the provers cannot treat, and the
disagreements of section 5.

## 5. Where code and documents disagree

| Run | What the run shows |
|---|---|
| `session_stop_button` | Connect, Reconnect, Start: the stream runs and its Stop button is disabled (README.md:35 promises stopping at any time) |
| `log_stream_stat_open_race` | a rotation between stat and open glues bytes of two files (docs/architecture.md:62 says that rotation is detected by inode and size) |
| `agent_config_service_names` | `allowed_services` takes any plain name of seven characters, `x.timer` for one: for these `size() - 8` is `npos`, which `find` returns when there is no `.service` (README.md:82-83 says that only a `.service` may be operated; AgentConfig.cpp:42) |
| `agent_shutdown_with_stream` | one open stream keeps the Agent from terminating on a signal (docs/architecture.md:63-64 promises a graceful shutdown) |

Other disagreements and weaknesses seen while modelling, which no run is spent on:

* README.md:32 keeps at most five bundles; after a crash the archives of the dead
  Agent stay on disk and are not counted (`Crash` in `DiagnosticCollector`).
* A log truncated in place that has grown back to the old offset by the next poll is
  taken for the old one (`Truncate` in `LogStream`).
* An unreadable log streams silently (EdgeScopeServiceImpl.cpp:383: an `ifstream` that
  cannot be opened looks like an empty read), though permission failures are said to be
  mapped to a status (docs/architecture.md:61-62).
* docs/architecture.md:63 says that partial downloads are deleted; the command-line
  client leaves them (`Fronts = {"cli"}` in `DiagnosticTransfer`).
* `RpcWorker` does not look at what `close()` flushed: a short last chunk lost there is
  reported as saved.  Nor does it look at what `QFile::remove` returned: a partial file
  that could not be removed stays (RpcWorker.cpp:356).
* A failed `permissions` of the staging directory, like every failed creation, ends in a
  `remove_all` whose result is ignored (DiagnosticCollector.cpp:146).
* A listing that lacks descriptors, or whose `readdir` fails, leaves processes out and still
  answers OK (ProcessCollector.cpp:361-364).
* Two commands that write more than the cap and a pipe can block each other for ever
  (`Sizes = {1, 4}` in `CommandRunner`); `systemctl` writes far less.
* The configuration takes what `std::stoul` takes: blanks or a sign before the number,
  and a negative number that wraps into the range.  Text after it is refused
  (AgentConfig.cpp:33 and :104).  A directory given
  as the file, or a read error in it, loads the defaults or the first lines.
* `--stream-log` takes a COUNT with text after it.

Behaviour met while modelling that no document speaks about, and that therefore is
a hazard and not a finding: a stream lost marks the window Disconnected but leaves
`client_` alive; a failed connect's box closed after a later success leaves the
window Disconnected with a live client; the buttons for process and service control
are never disabled, and their tables are not emptied by a disconnect: a box opened on a
row of one Agent can be answered when another is connected (MainWindow.cpp:660).  Bundle
ids are time, pid and sequence number (DiagnosticCollector.cpp:128): two Agents with one
pid within a second would share them.

## 6. Not modelled

* Liveness is assumed of gRPC, Qt, spdlog and libstdc++, whose documented behaviour is
  external to the modules.
* `ServiceManager`: the text of `systemctl show` (`ValueFor`) and the whitelist are a
  choice of the outcomes they lead to.
* `LogCollector`: `ListLogs`, a list of the configured sources and whether each exists.
* `NetworkCollector`: the counters and the state of an interface, which are copied from
  one file each.
* `ProcessCollector`: the text of a command line.
* `MainWindow`: what its tables show, and with it the selection of a row;
  `ProcessTableModel` and the widgets (presentation).
* The texts `edgescope-cli` prints.
* The protocol definition and the build files (generated or declarative).

What would come next, in this order: the window's tables with the selection and the
confirmation boxes; a second client of the same Agent; `ListLogs` and `ValueFor` as pure
functions.
