# A TLA+ verification project for GoPOSIX

GoPOSIX is a multicall binary of some 115 POSIX utilities with a daemon that
serves the same utilities over JSON-RPC on a Unix socket. This directory models
the parts of it that are concurrent, stateful or easy to get wrong, checks them
with TLC on small instances, and proves the safety properties of the daemon, of
the command line and of sessions with TLAPS, for every value of the constants.

Paths below are relative to the repository root (`src/` in `PROJECT.json`).
`PROJECT.json` lists, definition by definition, which lines of code each one
translates.

## 1. Inventory

| Part | Code | State | Operations | What is hard |
|---|---|---|---|---|
| Connection lifecycle | `internal/daemon/server.go`: `acceptLoop`, `Stop` | `connSem`, `connWG`, `conns`, `shuttingDown` | accept, take a slot, count, track, serve, untrack, release, drain, sweep | `Add` racing `Wait`; a connection held between two bookkeeping steps; the drain timeout |
| Request pipeline | `handleConn`, `handleBatch`, `handleSingleAsync`, `WorkerPool` | the pool's semaphore, one message in flight per connection, batch results | decode, submit, process, signal, write | handlers and workers writing on one connection; a bounded pool everyone waits for |
| Request execution | `processRequest`, `pkg/common/io.go`, `pkg/tar/tar.go` | counters, pooled buffers, the directory of the process | count, take buffers, run, respond, give back | buffers that go back before the response is encoded; one directory for all requests |
| Observability | `internal/daemon/observability.go`, `procTitle` | the counters | `/metrics`, `/status`, process title | counters updated and read one by one |
| Request reader | `PerRequestLimitReader`, `json.Decoder` | bytes read for this request, bytes buffered | read, take a request, refuse, reset | read-ahead across requests; a request exactly at the limit |
| Rate limiter | `internal/daemon/ratelimit.go` | tokens, time of last update | refill and grant or refuse | order of refill, cap and timestamp; truncated burst |
| Sessions | `internal/daemon/session.go`, `processRequest` | the session map; each session's directory, base and last use | create, get, setCwd, destroy, expire; shell.exec and utilities | handlers made of several critical sections; write-back of stale directories; expiry under use |
| Path confinement | `pkg/common/security.go` | none (the file system) | `SecurePath`, `resolveSymlinks` | links, `..`, paths that do not exist yet |
| Command forwarding | `forwarder.go`, `cmd/goposix/main.go`, `goposix.go` | a socket, a connection, an exit code | check, dial, send, receive, cold start | every call can fail with the command not begun, running or done |
| Socket file | `Server.Start`, `Server.Stop`, `RunDaemon` | the file | remove, listen, close, remove | overlapping daemons, kills, stale files |
| Self-upgrade | `upgrade.go` | the binary, a temporary file | fetch, compare, download, rename | failures and kills between steps; version order |
| Shared helpers | `pkg/common` | none | flag parser, limit writer | option clusters, the cut at the limit |
| Utilities | `pkg/*` | files and streams | operand loops, stream algorithms, evaluators | partial failure, exit status, corner cases of the algorithms |

What correctness means for each: slots and counts are exact and the limit holds;
shutdown loses no connection and ends; every request is answered once, in order,
by one writer and with its own output; reports agree with themselves; limits
refuse exactly what they should; a session never leaves its base directory,
never comes back, and expires in time; a command line is carried out once and
reports its own status; the binary on disk is always whole and never goes back;
a utility does what it says and its exit status tells whether it did.

## 2. Modules

| Module | Models | How state and actions correspond |
|---|---|---|
| `ConnLifecycle` | accept loop, handler clean-up, `Stop` | one program counter per goroutine (`acceptPC`, `hpc[c]`, `stopPC`, `waiter`); every channel, mutex and WaitGroup operation is one action; `busy` are the handlers that wait for their workers, for as long as a command takes |
| `RequestPipeline` | from a decoded message to its reply | per connection the queue of messages, the handler's place, the batch's results; `jobs` are the goroutines that hold a slot of the pool |
| `Server` | the two together | `L == INSTANCE ConnLifecycle`, `P == INSTANCE RequestPipeline`; the sweep of `Stop` closes connections under running requests |
| `Execution` | the inside of `processRequest`, reports, tar's `-C` | `pc[w]` follows the function and its deferred calls; a buffer is a sequence of units that know whose they are; `strays` are the commands that `start-stop-daemon -b` left running, which go on writing to the buffers they were given, and `tainted` says in whose response that may show |
| `RequestReader` | the limited reader under the decoder | messages are lengths, buffers are byte counts; a `Read` may bring any number of bytes the code allows. The decoder stops at a message's last byte, so the white space between two messages counts towards the later one |
| `Intake` | `Allow`, and `handleConn`'s loop head | tokens in integer units (`Token` units are one token, `Rate` units are gained per tick) in place of float64; a request is taken from the stream of `RequestReader` and the bucket decides |
| `SecurePath` | path confinement | paths are component sequences, links are walked component by component as `filepath.EvalSymlinks` does |
| `SessionManager` | the session map and its users | each method is one step because it holds `sm.mu`; each handler is the sequence of the methods it calls. Only the encoder's reads of a new session hold no lock: they are steps of their own, and each half of a string they read may be old or new |
| `Forwarder` | one command line against daemons | `pc` follows `TryForward`, `forwardToDaemon` and `main`; each daemon's `phase` follows `Start` and `Stop`; `slipped` remembers a request that reached a daemon although the client's write failed |
| `Upgrade` | `--upgrade` | `place[u]` follows `Upgrade`; versions are sequences of segments with their number and whether a hyphen follows |
| `CommandLine` | the two together | a cold start of `--upgrade` enters `Upgrade`, beside other processes that upgrade the same binary |
| `DiffPatch` | `diff`, `diff -r`, then `patch` | operators: the O(ND) search diagonal by diagonal, its trace read backwards, hunks, the unified format as tagged lines; parsing, placing, reversing and applying it. `Compare` and `CompareTrees` run `diff`, `Repair` runs `patch` on what it printed |
| `SortPipeline` | `sort` and what follows it | keys, comparators and merges are operators; `SortFiles` sorts two inputs, then one of `RunUniq`, `RunComm`, `RunJoin` works on the result |
| `FileSystem` | what the kernel and `os` do | external: a function from paths to nodes (directory, file with inode and bytes, link), with a second device mounted in it; at a `badByte` reading or writing breaks off |
| `FileWork` | `cp`, `mv`, `rm`, `ln`, `link`, `unlink`, `mkdir`, `rmdir`, `touch`, `tee`, `realpath`, `readlink -f`, `find`, `ls`, `tree`, `du` | one operator per command, from a tree and operands to the tree left, the status and what is printed; `RunCommand` applies one, `NextCommand` forgets it; the tree stays |
| `GoStrings`, `GoWords` | what `strings`, `bufio`, `strconv` and `regexp` do | external: text as character codes that compare, words as characters; integers of `IntBits` bits; expressions of literals, dots, stars, anchors, boundaries and groups |
| `Filters` | `head`, `tail`, `cat`, `nl`, `cut`, `paste`, `tr`, `fold`, `expand`, `unexpand`, `split`, `tsort`, `cmp`, `wc` | one operator per command, from options and operands to what is printed and the status |
| `Bytes` | `dd`, `uuencode`, `uudecode`, `xxd`, `od`, `hexdump`, `strings`, `rev` | the same, on bytes that arrive in pieces |
| `FilterPipeline` | these alone and piped | `RunFirst` runs one on its operands, `RunSecond` another on what the first printed |
| `Archives` | `tar`, `ar`, `unzip`, `cpio`, `gzip`, `gunzip` and the other decompressors on `FileSystem` | an archive is a file whose bytes encode its members; one operator per function of the code |
| `ArchiveWork` | archive commands one after the other | `RunJob` runs the next; `packed` remembers the last storing command and the tree it found |
| `Expressions` | `expr`, `test`, the modes of `chmod` | each parsing function takes the tokens and the cursor and returns value, cursor and whether there was an error; the five loops of `expr` are one operator with a level |
| `Calculator`, `Bc` | `dc`, `factor`; `bc` | `dc`'s machine is a record (stack, registers, scale, output, input) and `evalDC` calls itself for macros; `bc` is lexer, parser and a walk over the tree on the same numbers; `factor` has words of `UintBits` bits |
| `Sed` | `sed` | the parser goes from characters to instructions; the engine is a record, its loops over cycles and files are recursions |
| `Arguments`, `Grep` | the flag parser and `xargs`; `grep` | operators from argument lists or files to what is found, run or printed |
| `Formatters` | `echo`, `printf`, `date`, `cal` | formats, zones and dates are sequences of the items their parsers find |
| `ProgramWork` | a program of one of these run once | one action per tool; next to them the meaning of programs: trees for `expr`, the number of arguments for `test`, exact numbers for `dc` and `bc`, lists of lines for `sed`, and so on |
| `Xmodem` | `rx` | `Ask`, `Receive` (`Handshake` and `RecvLoop`), `Finish` and `Fail` are the receiver; an external sender (`HearAnswer`, `Resend`, `GiveUp`) and a line that loses and damages frames (`Lose`, `Damage`) are the other side. An item's `place` in the transfer is history: `rx` sees only the number, which comes round again |
| `Utilities` | the families of utilities | one specification, so that one run checks them; the families share no variable |
| `MC...` | | values of the constants for TLC |
| `IntakeProofs`, `ConnLifecycleProofs`, `RequestPipelineProofs`, `ServerProofs`, `SessionProofs`, `CommandLineProofs`, `ExecutionProofs`, `XmodemProofs` | | theorems, section 4 |

## 3. Runs

Run with `tlc -config <cfg> <module>`.

| Run | Module, cfg | Shows |
|---|---|---|
| `intake` | `Intake` | sizes below, at and above the limit, cut into every sequence of reads, with a bucket of burst two: in no window are more requests let through than the burst and the rate allow, a client that keeps to the rate is never refused, and a request is refused for its size only if it is too large |
| `request_size` | `RequestReader` | **violation**: a request longer than the documented maximum is decoded if its beginning was read ahead |
| `lifecycle` | `ConnLifecycle` | two clients compete for one slot while `Stop` runs: the limit holds, `Stop` does not get to the end before what it found is drained, swept connections are torn down, queued connections are served, and `Stop` ends when clients leave, each unless a command that never ends stands in the way |
| `stop_hangs` | `ConnLifecycle`, `ConnLifecycleHang.cfg` | **violation**: a connection the accept loop holds during the sweep is registered after it, so `Stop` waits for that client without a bound |
| `pipeline` | `MCRequestPipeline` | two connections and one worker: one writer per connection, every message taken up is finished |
| `server` | `MCServer` | lifecycle and pipeline together: replies in order, no request of a tracked connection cut short by the exit, every reply before the close; the composition implements `ConnLifecycle` (checked as a property) |
| `execution` | `MCExecution` | two workers, buffers from a pool, an output limit of two units, `tar -C`, and reports meanwhile: an answer holds its own request's output unless a child left behind wrote into its buffers, reports add up, the directory comes back, requests end |
| `sessions` | `MCSessions` | two workers, one session, a file system with nested directories, a sibling whose name extends another's, and links inside, out of and onto directories, and targets that do not exist: a session's directory stays in its base, which stays what it is; utilities and the redirections of scripts stay there too; a session that is gone stays gone and expires in time; the answer to `session.create`, read while others change the session, shows nothing from outside |
| `client` | `MCCommandLine`, `CommandLine.cfg` | every kind of command line against two daemons that may overlap, drain, cut off or die, with a second process that upgrades the binary, failures and kills everywhere, and releases that go up and down |
| `forwarded_twice` | `MCCommandLine`, `ForwarderTwice.cfg` | **violation**: exit code -1 is both "a signal ended the child" and "not forwarded" |
| `upgrade_prerelease` | `MCCommandLine`, `UpgradePreRelease.cfg` | **violation**: `1.0-beta.2` replaces `1.0` |
| `utilities` | `MCUtilities`, `Utilities.cfg` | every family of utilities against a definition that does not know the algorithm (below) |

The ten invariants of `utilities`: the edit script of `diff` is valid and as short
as a longest common subsequence allows (`DiffIsRight`), its hunks rebuild either
file from the other (`PatchRebuilds`); `sort` returns an ordered, stable
permutation, and `uniq`, `comm` and `join` of files in the order they compare by are
what relations say (`SortIsRight`); a file command with status 0 has done what it says, `realpath`,
`readlink -f`, `ls`, `tree` and `du` report what is there (`CommandsDoAsTold`), and
nothing but the operands changes and no contents are lost but those at a destination, also when a copy breaks off halfway (`OnlyOperandsChange`);
filters print what their definitions say, `expand` undoes `unexpand`, `cat` undoes
`split`, `uudecode` undoes `uuencode`, `xxd -r` undoes `xxd` (`FiltersAreRight`);
what `tar`, `ar` or `cpio` stored comes back, extraction replaces what is in the
way and nothing else, and compression never loses a file (`ArchivesAreRight`);
`expr`, `test`, `dc`, `bc`, `factor`, `chmod`, `echo`, `printf`, `date`, `cal`, the flag
parser, `xargs` and `grep` do what their input means (`EvaluatorsAreRight`); `sed`
makes of the lines what its script means and leaves no file behind
(`SedIsRight`); what `rx` writes is some first blocks of what was sent, and all of
it if the sender's end came through and nothing misled either side
(`TransfersAreRight`). A side is misled by a damaged block number, or by an item that
is sent again while an answer to it is still due: then the property speaks of
behaviours with fewer faults than it takes for the numbers to come round
(`Tellable`: fewer than 255 with the 256 numbers of the code).

### Bounds

- `intake`: a limit of two bytes with messages of 1, 2, 3 and 5 and two messages
  in flight reaches every relation between message, limit and read-ahead. The
  clock stops at six ticks, four times what a token takes.
- `lifecycle`: two connections and one slot are the least for which one waits on
  the full semaphore while another is served; the safety part is proved for any
  number.
- `pipeline`, `server`: one worker makes connections wait for each other, two let
  a batch run in parallel. `Server` has one connection: two are covered by
  `pipeline` and `lifecycle` separately, and their product is beyond TLC; its
  four properties are proved for any number.
- `execution`: two workers give every interleaving of two requests; a load says
  which requests and reports a behaviour may have and how many (two or three),
  so that each hazard has a load of its own; the one with a child left behind has
  two requests, enough for the second to be given the first one's buffers. A limit of two units lies inside a
  write, between two, and beyond all.
- `sessions`: sessions do not interact (the map is keyed by id), so one suffices;
  two workers give every interleaving of two handlers. The lifetime is one tick,
  the cleanup period two, so that expiry falls inside handlers. About a million
  states.
- `client`: a second daemon is what overlap needs. Codes -1, 0, 1 and 127 stand
  for a signalled child, success, failure, and one that looks like the binary's
  own. A builtin method (`ping` and the like) is one the daemon answers and the
  binary does not know. Two upgrading processes; versions that differ in number, length and suffix.
- `utilities`: all files of up to five lines over two lines, and of up to three
  over an empty line, a word and one that looks like a patch header; all lists
  of up to three lines that digits, suffixes, months, blanks and case tell apart,
  with the option combinations of `MCUtilities`; every pair of command lines over
  six paths on four trees (a plain one, one with hard links, one with links in a
  circle and two devices, one with a file whose copy breaks off): two commands are what it takes to make the second
  meet what the first left (`ln` then `cp`, `ln -s` then `rm`). Filters: all texts
  of up to four to six characters over those the filter tells apart, one or two
  operands, one of which may be missing; for byte utilities also damaged
  encodings and input in pieces. Archives: four trees with hard links and absolute,
  relative and dangling links, and one on which compressing breaks off or its end
  cannot be written; pairs of targets stored, then extracted into an
  empty directory and into three that hold something else under the same names;
  damaged and foreign archives. Programs: integers have four bits (`IntBits`), so
  that sums and products overflow; `factor`'s words have eleven (`UintBits`), enough
  for squares of primes beyond its wheel; expression trees of depth two over
  operands at both ends of the range; conditions of up to four arguments;
  calculations with up to two decimal places at scales up to two; for `sed` one
  script per command and kind of address on texts of up to four lines, piped, in
  one or two files, with a missing file, and in place. `rx`: blocks of two bytes,
  block numbers modulo six, three retries and four faults of the line, the most
  for which `Tellable` holds of every behaviour; a transfer of seven blocks makes
  the numbers come round.

The runs of `utilities` and `execution` take two to four minutes, `sessions` one and a
half, every other one less than a minute.

### Fairness

- `ConnLifecycle`: weak fairness of every goroutine's next step, which Go's
  scheduler gives, and of the shutdown timer; strong fairness of a handler's return
  once its connection is closed at either end, since between two messages its next
  read fails. That a command ends (`GetsDone`) is not fair: utilities have no
  deadline. So the liveness properties except what waits for such a command for
  ever (`[](c \in busy)`): its own connection, `Stop`, and, when such commands
  hold every slot, admission. Clients are not fair, except where a property says
  "if clients leave" (`PatientClients`).
- `RequestPipeline`: weak fairness of handlers and workers, and strong fairness of
  `Submit`: goroutines blocked on a channel are served in the order they came.
  `MessageIsFinished` also assumes that clients read their replies and that a
  command that was started ends; the code has no deadline for utilities (scripts
  have one), and `RequestsEnd` of `Execution` is about just that.
- `Execution`: weak fairness of each worker; nothing of reports or of children left
  behind. `RequestsEnd` speaks of utilities that end by themselves or at the first
  failing write; those that do neither ("never" in `Shape`) keep their worker.
- `CommandLine`: weak fairness of the client only. Its calls carry deadlines; the
  daemons may stop doing anything at any point. `Upgrade` is not fair, since its
  HTTP requests have no deadline, so `LineEnds` ends where `Upgrade` begins.

## 4. Proofs

Checked by `tlapm <module>.tla`, with no step left unproved. Every listed theorem
is about the specification of the run that checks the same property on a small
instance. The invariants that strengthen them are established by the proofs
themselves. Leaves go to Zenon where a module says so at its top
(`USE ZenonT(30)`) and name the SMT solver where they need arithmetic, records or
sequences; elsewhere they go to the SMT solver first. `XmodemSpec` is the part of
`Utilities` that is about `rx`: it takes the same steps on the same variables.

| Module | Theorems | For every | Assuming |
|---|---|---|---|
| `IntakeProofs` | `WindowBoundHolds`, `PacedClientHolds`, `FitsIsServedHolds`, `BufferBoundHolds` | rate, tick, limit, stream | positive rate, token and limit; for `PacedClientHolds` a burst of at least one |
| `ConnLifecycleProofs` | `TypeCorrect`, `InductiveHolds`, `ConnLimitHolds`, `DrainTrackedHolds` | limit, set of connections | the set is finite |
| `RequestPipelineProofs` | `OneWriterHolds`, `AnsweredInOrderHolds` | connections, messages, batch sizes, pool, send buffers | a batch has a request (the code refuses empty ones) |
| `ServerProofs` | `ImplementsLifecycleHolds`, `AnsweredInOrderHolds`, `NoRequestIsCutShortHolds`, `AnsweredBeforeCloseHolds` | the same | the assumptions of both parts |
| `SessionProofs` | `InductiveHolds`, `CwdInsideBaseHolds`, `RunsInsideBaseHolds`, `ExpiryBoundHolds`, `BaseIsForGoodHolds`, `GoneForGoodHolds`, `NewSessionIsToldRightHolds` | sessions, workers, lifetimes, file systems | `SecurePathSound` (below) |
| `CommandLineProofs` | `OnceUnlessSignalledHolds`, `StatusIsHonestHolds`, `UpgradeIsCleanHolds`, `NoDowngradeHolds` | daemons, exit codes, upgrading processes, releases | there is a release to fetch |
| `ExecutionProofs` | `AnswersAreTheirOwnHolds`, `DirectoryComesBackHolds`, `ReportsAddUpHolds` | workers, output limit, requests | what the shapes of requests say and, for reports, finitely many workers (`ExecutionAssumption`) |
| `XmodemProofs` | `TransfersAreRightHolds` | file, block size, range of block numbers, retries, faults, queues | blocks have a byte, there are two numbers or more (`XmodemAssumption`) |

The arguments:

- *Intake.* The handler takes every step of the limiter and of the reader and no
  other, so what holds of either holds of it (`IntakeIsLimiter`, `IntakeIsReader`).
  `WindowBound` talks about all pairs of grants; `Credit` says that the tokens left
  and the grants since any one grant are paid for by a burst and the time passed.
  With a rate below one request a second the burst is zero and nothing is ever
  served, hence the premise of `PacedClientHolds`. Both results about the reader
  need `ReadAhead`: how much can be buffered beyond what this request has read, and
  beyond the current message.
- *Connections.* The limit is not inductive: it follows because `connSem` is the
  number of connections that hold a slot, and that `Stop` waits long enough because
  `connWG` is the number of handlers that have not called `Done` (`Accounting`).
  Both need each connection to be in one place at a time (`Bookkeeping`);
  `DrainVerdict` carries the WaitGroup's zero to the connections `Stop` found.
- *Pipeline.* That only one goroutine writes follows from where workers are: a
  worker belongs to one request of one decoded message, the handler's present one
  until it has signalled (`JobsInv`), and `pending` counts those that have not
  (`PendingInv`). That replies are in order needs in addition which requests of a
  batch have left a result (`ResultsInv`) and that at most the present message is
  unanswered, and only while an answer is due (`RepliesInv`, `Due`).
- *Daemon.* `StepRefines` shows that a step of the daemon is a step or a stutter of
  `ConnLifecycle`, so `Spec => L!Spec` and the lifecycle's invariant hold. The
  pipeline's is shown again for the daemon's steps, since there connections start,
  close and are swept while messages are served. `Joint` ties them: a handler
  serves exactly while it is inside the pipeline's loop, and a connection that
  is served and was not swept is open. `NoRequestIsCutShort` is then the drain
  guarantee applied to handlers that wait for their workers.
- *Sessions.* Of `SecurePath` it is assumed only that what it accepts under a base
  other than `/` lies physically inside it (`SecurePathSound`, which TLC evaluates
  on the concrete file system of `MCSessions`). `RunsInsideBase` needs `Snapshots`: a
  copy read earlier is still true of the session's base, because a base other
  than `/` does not change; it holds of the copies utilities and scripts start from, not
  of where a script's `cd` takes it. `NewSessionIsToldRight` needs `Held`: whatever
  directory the session ever `had` is `/` or inside the base it has now. `ExpiryBound` needs `Deadline`: idle time plus what the
  ticker still waits.
- *Command line.* `RequestInv` says where the request is while the client goes on:
  at a daemon that has not run it, is running it, has run it or never will; and that
  of a request that slipped out after a failed write nobody hears again, so that it
  is the one case besides a signalled child in which a command may run twice.
  `StatusInv` and `LineInv` tie the status to what ended, `UpgradeInv` says what each
  upgrading process has on disk and that, without overlap, it still replaces the
  version it compared with. That `isNewer` never prefers smaller numbers is a
  lemma about the comparison of versions of any length.
- *Execution.* `OutInv`: between `Get` and `Put` a worker's two buffers are in no other
  hands and not in the pool (`Holds`, `Apart`); they hold the first units of the
  request's own output, as many as were written or as the limit lets through
  (`Progress`), unless a child left behind has written there (`tainted`); and a
  response is a copy, so that what the next holder writes does
  not matter (`Own`). `DirInv`: while no two requests used the directory at once, at
  most one is under way between `Getwd` and the deferred `Chdir`, and it has noted the
  daemon's own. `CountInv` ties each counter to the workers that have stepped past
  it; `ReportInv` says how the figures already read relate to the counters that have
  moved on since, which is where the order of the reads comes in.
- *Transfers.* `rx` knows a block by its number only, so the invariant has to say
  where in the transfer it is: it has taken `n` blocks (`At(n)`), and what is on the
  line comes in order, from place `n` on (`InOrder`). A number is mistaken for
  another if the sender gets a whole round ahead. `Excess` counts how far it could
  get if everything under way, answers included (`Owed`), were good news; no step
  but a fault adds to it, so it never exceeds the faults, and `NoAlias` follows:
  the number that is expected, or the one before, is that of no other block. If
  nothing misled either side there is no such limit, because then one thing is
  under way at a time (`Alone`, `Fit`), which also makes the end of the transfer
  come after the last block.

Four things came out of the proofs. The exit status of a forwarded command is cut
to eight bits by `os.Exit` just as that of a cold start, which the model had only
for the latter. A command that itself returns 126 or 127 cannot be told
from the binary's own 126 and 127, so `StatusIsHonest` says "unless a run
returned it". And of a utility that goes on writing after the
output limit was reached, the model had stopped counting the writes, so that it
never came to its end. And the property of `rx` had been stated without a bound on
the faults, which is false once there are as many as block numbers less one: a
sender that is misled that often gets a round ahead, and `rx` takes a block for
another one.

Only model-checked:

- everything about liveness (`TrackedIsTornDown`, `AdmissionProgress`,
  `StopTerminatesInTheEnd`, `MessageIsFinished`, `LineEnds`, `RequestsEnd`): the prover
  does not do fairness;
- nine invariants of the utilities (all but `TransfersAreRight`) and what `SecurePath` computes: they compare
  recursions over data with reference definitions, which needs induction over
  the data, and the modules use `RECURSIVE`.

## 5. Disagreements between code and documents

With a run: `stop_hangs`, `request_size`, `forwarded_twice`,
`upgrade_prerelease` (see `findings` in `PROJECT.json`).

Met while modelling, without a run of their own. In the daemon and the client:

- Requests without an id are "useful for fire-and-forget operations"
  (`wiki/rpc_quickstart.md:162`), but `session.*` and `shell.exec` return before
  doing anything when the id is missing.
- "Sessions isolate state" (`wiki/rpc_quickstart.md:91`), but the working directory of
  the process is shared: while one request runs `tar -C`, relative names of the
  others are looked up in tar's directory, and two overlapping ones may leave the
  process in the wrong one. `DirectoryComesBack` therefore speaks of behaviours
  without such an overlap.
- `session.create` encodes the live session object without a lock, so the answer is
  not a snapshot: it may show a new directory with the base `/`, or mix the words of
  two strings, which is a data race. `NewSessionIsToldRight` says what remains true
  of each word; a mixture of one string's pointer and another's length could also
  read beyond a string, which the model does not show.
- The directory of `shell.exec` is only confined where it starts and where its
  redirections go: `cd` in the script is the interpreter's own.
- `/metrics` reads the total before the calls per method, so the latter may add up
  to more; `/status` reads them the other way round.
- `tail -f` looks at no write error and never ends; its worker is lost, and with it
  its client's place among the connections, and `Stop` waits for it. So are those of
  the other utilities without an end.
- `start-stop-daemon -b` hands the request's writers to a child it does not wait for.
  The child's output lands in the buffers when they are already another request's
  (`ChildWrites`). The model lets it append what it likes at any moment; the
  unprotected `bytes.Buffer` could also panic, which would end the daemon.
- `SessionManager.Get` does not look at the age of a session, so a request that
  comes after the lifetime and before the next tick revives it.
- `wiki/security.md:29` says `session.setCwd` does not validate its path; the code
  confines it to the base directory.
- A rate below one request a second makes the burst zero: every request is
  refused.
- `forwarder.go` forwards neither directory, environment nor standard error, and
  forwards `--upgrade` as an unknown method, which a running daemon refuses (126);
  `wiki/deferred.md:67` calls the forwarding transparent. `ping`, `session.create` and
  the like are methods of the daemon: forwarded as commands they exit with 0 without having
  run anything, where a cold start says 127; `StatusIsHonest` excepts them. A write
  that fails with only the final newline missing has handed the request over, and
  the cold start runs it again; `OnceUnlessSignalled` excepts it (`slipped`).
- `upgrade.go:24-26` says that being up to date already is an error; lines 51 to 58
  return none.
- `pkg/shell/shell.go:173` says that `cd` carries over between lines; every line
  starts from the process's directory.
- `upgrade.go:161` says the temporary file is in the binary's directory;
  `os.CreateTemp("", ...)` puts it into the system's, so `os.Rename` fails across
  file systems.
- Two daemons on one path: the old one's last `os.Remove` deletes the new one's
  socket.

Of the utilities. The properties leave these cases out, by name (`KnownLoss`,
`ThroughLinks`, `Unfinished`, `Canonical`, `Refused`, `Claimed` and the premises of the properties).

Files and archives:

- `cp a a`, and `cp` onto a hard link of or a link to the source, leave an empty
  file and exit with 0; `cp -r d d/x` goes on until a path is too long; `cp -r`
  onto an existing directory writes through the links in it.
- `mv.go:40` calls copy-and-remove the cross-device fallback, but every failed
  rename takes it: moving a directory onto a file truncates the file and fails.
- `mv x/f y/f d` replaces the first `f` in `d` by the second and exits with 0. When the
  copy of `cp` or `mv` breaks off, what was at the destination is lost and a beginning
  of the new contents is left there; the source is kept.
- `gzip` ignores the error of closing the compressor (`gzip.go:290`), which writes what
  it still holds, all of a small file: on a full disk the original is removed, the
  output is cut short and the status is 0 (`Unfinished`).
- `ln -f a a` removes `a` and then fails. `rm` without `-r` removes empty
  directories, `rmdir` regular files (`rmdir.go:26` says otherwise), `touch` fails on
  a directory, `find` on a missing path exits with 0.
- `chmod`: the comment promises `[ugoa]*[-+=]`, but an empty who (`+x`) is refused; `s`
  and `t` have no effect; numeric modes above 0777 lose the setuid, setgid and
  sticky bits; clauses separated by commas are read as one.
- `ls`: a missing operand fails the whole command and nothing is printed; `-R` goes
  into hidden directories that are not shown; a link's target is shown without `-l`
  too, and a link to a directory is listed as a file; `-r` negates the comparison,
  which then is no strict order. `du` knows files by inode number alone, anew for
  every operand, and prints a size 0 for a missing one.
- `patch` applies a pure insertion at the top of the file wherever it belongs,
  takes a hunk as applied already if its new lines happen to be there, takes
  removed lines that begin with `-- ` for a header, and writes the hunks that
  succeeded when one fails, although `patch.go:128` says that the original is kept.
  `diff` reports files that differ in the final newline only as equal.
- `tar`: an absolute target is looked for below the current directory; `-X` and
  `-j` are ignored on create; operands are ignored by `-t`; naming a directory
  extracts the directory without its contents; links that cannot be made, or
  whose first name was not extracted, are skipped with status 0.
- `cpio`: `-p` always reports 0, and to the directory the files are in truncates them;
  `-o` skips missing names with status 0; `-i` writes through existing links and makes
  directories only with `-d`; members before a damage are extracted.
- `gunzip -f` of a damaged file destroys the output that was there, `bunzip2 -f` of
  data that is not bzip2 removes it; after a panic of the library `uncompress`
  leaves a partial output, which stops later runs; a destination that is a link to
  the source loses the data. `ar d` on a missing archive creates one. `unzip` of
  names that are not there exits with 0.

Text and bytes:

- `tail -c 0` prints ten lines and `tail` reads the process's standard input instead
  of the one it is given (`tail.go:171`); `fold -s` drops a blank after a break;
  `paste` drops trailing empty fields; `tr -s` with two sets does not translate;
  `expand` ignores operands it cannot read; `nl` reads only its first operand;
  `split` starts over and overwrites its first files when letters run out, and
  stops with status 0 when digits do; `cmp -l` prints only the first difference;
  `wc -L` has no total.
- `sort -n -u` drops lines whose keys are equal as text, not as numbers; the order
  of months is not transitive; `-k2` means the second field only.
- `dd`: `conv=notrunc` opens for append, so that `seek` has no effect; a failing read
  with `conv=noerror` is tried again for ever; numbers that do not parse count as
  0; a short read from a pipe counts as a block; `sync` pads to `obs`; "records out"
  counts input blocks.
- `uudecode` of a text without its end exits with 0. `strings` searches its files as
  one, ignores unreadable ones, and `-f` always names the first. `rev` drops the rest
  of a line behind a NUL with its newline. `od` and `hexdump` read only their first
  file; `od` does not end on failing input; `od.go:198` says three characters where
  octal gives four; a skip past the end makes `hexdump` print nothing, and
  `hexdump.go:456` names another format than the one used.
- `rx`: damage that turns a block's number into that of the one before has the last
  block acknowledged and lost, as does a late acknowledgement after an early
  repetition; a transfer that breaks off reports 0; nothing has a timeout.

Programs:

- `expr`: an empty operand is an error; `:` is looked for only behind an atom and
  binds to the right; `substr` with a negative length panics; only `0` itself counts
  as zero. `test`: file tests do not follow links, `-t` is an error, `-b` holds for
  character devices.
- `dc`: a square root has two digits more than the scale however many places its
  operand has; `n` and `P` add to the last line printed before them; `5.` has one
  decimal place; errors in a line read with `?` are dropped, others leave the status
  0; `q`, `i` and `o` are ignored.
- `bc`: an assignment in a function to a name that is not yet global makes a local
  that vanishes; `halt` works only between statements at the top; array elements
  have no postfix `++` and `--`; unknown escapes lose their character; `-(0.00)` prints
  `-.00`; `&&` and `||` evaluate both sides; `sqrt` is cut to its scale only when shown.
- `sed`: `&` or `\1` before a letter, digit or underscore expands to nothing (they
  become `$0b` for Go's `Expand`); the flag `I` is escaped with the pattern and
  never works; the end of a range is looked for on its first line too; a file
  ended by `D` takes the first line of the next with it; `q`, and `n` or `N` at the
  end, leave an edit in place undone with a `.tmp` beside it and end the run; at the
  end of a file that is not the last, `n` and `N` take empty lines, so that
  `:a;N;$!ba` over two files never ends; `$` is missed when the last files are
  empty or unreadable; `c` on a range prints its text for every line; `r` and `l`
  do nothing; a label swallows the brace behind it.
- `grep`: the separator `--` is followed by an extra empty line; `-F -o` prints each
  pattern once; `-o -x` prints nothing; `-L` on a binary file does not set the status
  to 0; `-a` on a directory prints a count or a name.
- Flags: `-` does not end them where the first operand should; `--bool=x` ignores the
  value. `xargs -I` without input runs the command once without arguments.
- `printf`: arguments and no conversion never end; arguments are used again from the
  first in the last pass; an empty argument to `%d` is an error but a blank one or `+`
  is 0; `%.0d` of 0 prints a blank; a negative `*` width does not pad strings; an
  escaped backslash before `c` acts as `\c`, and `%b` and `echo -e` do not stop at `\c`;
  a lone `"` to `%d` fails at run time (`printf.go:255`); `%u` prints
  `%!u(uint64=42)` (`printf.go:399`) although `printf_test.go:496` says that it
  "prints as unsigned decimal". `echo -n -e` prints a newline.
- `date -d` without a zone of its own is read in standard time even in summer; a
  negative hour in a zone's rule adds its minutes positively; rules on the first or
  last day of a year are wrong for as many hours as the offset has; a dotted date
  such as `1.2-3:04` is taken to end in a zone. `cal` knows only the Gregorian
  calendar.

## 6. Not modelled

- The WaitGroup-misuse panic of the Go runtime; panics in utilities (they end the
  daemon); wording and layout of output; links that point nowhere and file systems
  that change while a path is resolved; `/healthz` and `/readyz`; the PID file.
- Codecs, hashes, the JSON decoder, `awk` (goawk) and the script interpreter are
  libraries and appear only as the code uses them.
- Modes, owners and times of files; `find -exec` and name patterns; `ls -l`, `-t` and
  directories of more than a dozen entries; patches of several files; the same
  file as input and output of `dd`.
- Text beyond ASCII, carriage returns, `cat -v`, classes of `tr`, `split --filter`;
  bracket expressions, alternatives and repetitions in regular expressions; the
  wrapping of long lines by `dc`; of `bc` the library `-l`, `--json` and output bases
  below two.
- Errors of the system while a file is read, written or closed, except in `cp`, `mv` and
  `gzip`: `tar` ignores those of its three deferred closes (`tar.go:256`, `450`, `456`), and
  `gunzip` that of the output. `sed -i` where the temporary file cannot be made (status
  1) or renamed (ignored, `engine.go:229`).
- Signs and decimal points in `sort -n`, and keys that end before they begin, on which
  `sort.go:207` panics.
- Archives on standard input or output, and member names that lead upwards.
- `seq` (binary floating point), `cksum`, `sum` and the digests with their check mode,
  `chown`, `chgrp`, `mkfifo`, `makedevs`, `mdev`, `mount`, `mkfs_minix`,
  `start-stop-daemon`, and the utilities that print what the system tells them: see
  `components` in `PROJECT.json` for the reasons.

## 7. What could come next

- The check mode of the digests and `cksum` with its words in halves.
- A finer `Execution`: sessions and execution share `processRequest`, and are two
  modules that meet only in the counters of sessions.
- `SecurePathSound` for all file systems needs induction over paths and stays with
  TLC; a larger family of file systems would say more.
