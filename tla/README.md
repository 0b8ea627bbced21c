# Formal models of Gemtek-SW-Training

The repository is a set of Linux system-programming exercises in C and one
larger program, the speed test in `Linux-System-Programming/Mini-Project`.
Paths below are relative to `src/Linux-System-Programming` unless they start
with `src/`.  The specifications model the parts of it that have state and that
run concurrently or depend on others: the speed test and the older program it
was rewritten from, the two IPC programs, the daemon, and the search for a file
that is then linked.

* TLC checks small instances (`*.cfg`, listed under *Runs*).
* TLAPS proves every safety property those runs check, and three implementation
  relations among them, for all values of the constants (`*Proofs.tla`, listed
  under *Proofs*).
* `PROJECT.json` lists components, runs, hazards, findings, theorems, the lines
  every definition stands for, and for every checked property a mutated
  definition under which TLC finds that property violated.

## 1. Inventory

### Mini-Project/Application

Measures download and upload speed against the fastest of the ten nearest
servers.  `main()` runs these parts one after the other.

| part | code | state | operations |
|---|---|---|---|
| startup | `main.c:44-98`, `http.c` | two files in `/tmp`, the socket, `status` of `select` | `get_ipv4_addr`, `get_http_file`, `get_https_file`, `get_ip_address_position` |
| nearest servers | `speedtest_server.c:27-105` | the table `nearest_servers`, the buffers `sscanf` fills | `get_nearest_server` |
| best server | `speedtest_server.c:154-228` | `/tmp/latency.txt`, `line`, `tv1`/`tv2`, the latencies, `best_index` | `get_best_server` |
| measuring | `main.c:18-30,118-137`, `speedtest_download.c`, `speedtest_upload.c`, `handle_time.c` | `thread[THREAD_NUMBER]` (3), `thread_all_stop`, the timer, two counters and their mutexes, the start times | the dispatchers `speedtest_download/upload`, the worker threads, the reporter threads, the SIGALRM handler |
| printing | `common.c` | none | `LOG`, `ftoa` |

How they interact: startup leaves the files that the table is read from; the
table's order is the order in which `get_best_server` asks; what it chooses is
copied by the dispatcher into every slot `thread[i]`, where the workers read it.
Dispatcher, up to three workers, a reporter and the alarm handler share
`thread[i]`, `thread_all_stop` and the counters; only the counters have a mutex.

What is hard:

* *Interleaving.* `thread[i].running` is written by dispatcher and worker
  without a lock and decides who owns a slot; `thread_all_stop` is cleared
  between the measurements, while every thread must have seen it set.
* *Failure.* `pthread_create`, `pthread_join`, `connect`, the TLS handshake and
  the fetches fail, and most results are ignored or tested by a condition that
  does not fit the value.  `init_connection` loses a socket per failure, and
  `https_download_thread` a slot.
* *Timeouts.* `select` waits 3 s, `recv` and `send` 5 s; `recv` is called also
  when `select` timed out, and then its result is passed over.
* *Headers.* A fetch looks for the end of the HTTP header in every block by itself,
  with `strstr` and `strlen` on a buffer that need not be terminated.
* *Stale data.* Files of an earlier run, the buffers of the line or server
  before, the slot's request rewritten while a worker reads it.

What makes it correct: one worker per slot, no lost addition, no credit to the
wrong measurement, the stop flag only cleared when all is quiet, termination;
a file is the body of the reply; the table holds the nearest; the fastest is chosen.

### 04-IPC-Synchronization

* **01, threads with mutex and semaphores.** Three threads repeat five times:
  choose a file at random, take its semaphore, draw a number from `glob` under a
  mutex, append it, give the semaphore back.  Hard: the number is drawn under one
  lock and written under another.  Correct: what is appended to each file ascends,
  every number is appended once, nobody waits for ever.  The files are never emptied,
  and the repository comes with the numbers of a run in both: a second run leaves
  files that as wholes neither ascend nor hold a number once.
* **02, processes and signals.** Parent and child append the next number to one
  file in turns, each waking the other with SIGUSR1.  Hard: the flag is tested
  before `pause()` and cleared after the signal that asks for the answer, so
  wakeups can be lost; the limit is tested for equality.

### 03-Processes-And-Threads, SystemV daemon

`become_daemon` (fork, `setsid`, fork, descriptors) and a loop that logs the
logged-in users once a minute until SIGTERM.  Hard: who leads the session and the
group when it is started in different ways, the lowest free descriptor, users
that come and go during a pass, signals between test and sleep, and the handler
that goes away once it has run.

### Mini-Project/Ref

The older speed test, in one file of 861 lines.  Its functions that read and
choose servers are those of Application, and so are its slots and workers.  It
lacks the joins, the second mutex and the assignment of the timer's interval, and
treats every failed fetch alike.

* *Choice of a server* (`main`, `get_http_file`, `get_ip_address_position`,
  `get_nearest_server`, `get_best_server`): the table `nearest_servers`, the files
  in `/tmp`.  The number of lines read, not of servers found, decides whether it
  goes on.  Correct: what is measured with is in the list, near and fast.
* *Measuring*: threads of the download run on into the upload, next to the threads
  the upload starts, in slots whose request is rewritten under them.  Correct: a
  slot still has one worker, the sockets stay bounded, no addition is lost, and
  only left-over threads add to the download's counter.

### 02-Linux-File-System/03-Link-To-File

`main()` asks for the name of a directory, searches it and what is below it for
`hello_world.txt`, and makes two links to what it found.  State: the process's
current directory, which the recursive search changes as it goes; the path of the
last match; the buffer of `lstat`.  Hard: no result of `chdir`, `lstat` or the
recursive call is looked at, directories may be closed to the user, those above the
inherited current one included, the path of a match is that of one activation and is
used from another directory, and each activation keeps a directory open.
Correct: the search reads where it stands and misses nothing; the links lead to
the file that was found; the second one is a soft link.

### Others

`02-Linux-File-System/01` and `02` (listing, writing), `01-Shell-Script-Programming`
(three short scripts), `glibc_main.c` and the unit file; see *Not modelled*.

## 2. Modules

| module | models | checked by |
|---|---|---|
| `SpeedtestPool` | the measuring part of Application, both builds | `SpeedtestHttp.cfg`, `SpeedtestHttps.cfg` |
| `Measurement` | abstract: one measurement after the other, each with a counter of its own | refined by `SpeedtestPool` |
| `Startup` | Application's `main()` up to the choice of servers, both kinds of fetch | `Startup.cfg`, `StartupConfig.cfg` |
| `ServerTable` | the size of the table of servers, shared by the next two | |
| `NearestServers` | `get_nearest_server` | as part of `RefServers` |
| `BestServer` | `get_best_server` | as part of `RefServers` |
| `RefServers` | Ref's `main()` up to the measurement: composes the two above | `RefServers.cfg`, `BestServerLow.cfg` |
| `RefPool` | Ref's measuring part, on the state of `SpeedtestPool` | `RefPool.cfg` |
| `OverlappingMeasurement` | abstract: two measurements, the threads of the first running on into the second | refined by `RefPool` |
| `SemaphoreWriters` | 04/01 | `SemaphoreWriters.cfg` |
| `TicketLog` | abstract: a number is drawn and written in one step | refined by `SemaphoreWriters` |
| `PingPong` | 04/02 | `PingPong.cfg` |
| `Daemon` | 03/SystemV | `Daemon.cfg` |
| `LinkFile` | 02/03 | `LinkFile.cfg`, `SoftLink.cfg` |
| `MC...` | instances for TLC | |
| `...Proofs` | theorems and proofs | TLAPS |

Actions carry the names of the functions they stand for where they stand for
one.  Operators marked *Mutant* are not part of the specification: each is a
definition below it with a plausible mistake, and shows that the properties
notice it.

**SpeedtestPool.** `main` and `index` are the program counter and loop variable
of `main()` and of the dispatcher it is in; `running`, `target` and `tid` are
the fields of `thread[i]` (`running`, `request_url` reduced to the measurement
it belongs to, and the handle); a request is the path and the host it names
(`asked`), built by `build_http_get` or `build_http_post` from the slot's two
strings.  The upload hands these over in the wrong order
(`speedtest_upload.c:76`), so that it posts to `/<server>` with its file's name
as the host; the model does the same and `RequestMatchesPhase` says it.  No
document of the repository states what an upload asks for, and its answer is
read by nobody.  Per thread, `worker` is its program counter, `fd` its socket
(`"lost"` if `init_connection` failed after opening it), `size` and `loaded` the
two operands of `total_size += size`, which is a read (`Lock`) and a write
(`Store`).  A worker's `Release` is the last store to `running`.  The constant
`USE_HTTPS` is the Makefile's switch.  A block moved counts one.  A
`pthread_join` of a handle that was never filled or was joined before either
comes back or leads to `"undefined"`, a state nothing is claimed about, except
*how it was reached* (`UndefinedJoinOnlyAfterLeak`).  Creating a reporter may
fail like creating a worker: then nothing is printed, and its join is one of
these. Abstracted: speeds, url texts, and the two-second sleep between the
measurements.

**Startup.** `step` and `which` say where the program is; `sent`, `taken` and
`ended` are the connection: what the peer has sent, how much of it `recv` has
returned, how the peer ended.  A reply is a sequence of pieces: a line that is
looked for, a line end, a NUL.  `recv` returns any part of it that fits into
`BUFFER`, and `Written` is what the loop makes of a block: if `strstr` finds a
blank line before the first NUL, what follows it up to that NUL, and otherwise
the whole block.  So a header whose blank line is split over two blocks gets
into the file, and a blank line in a later block loses what precedes it.  A full
buffer without a NUL is not terminated, and the string functions read on into
what lies behind it: `Beyond` is what they can find, `past` notes that it made a
difference.  `ret` records how a fetch ended: `refused` for the failures before
a reply, `broken` for a failed `recv`, `whole` for the end of the stream.
`Stops` is the test `main()` makes of that, which differs by build.

**NearestServers.** `parsed` is what the local buffers hold after `sscanf`; a
line may be read in whole, up to its url, or not at all, in which case the
server of the line before is inserted again.  `Takes` and `Insert` are the inner
loop.  Distances are numbers; 0, 0 (what `atof` makes of an empty text) is
`Origin` away.  Ref and Application have the same function but for a missing
`fclose` in Ref, so one module stands for both.

**BestServer.** One round is `get_ipv4_addr`, `get_file` and `ReadFile`; `file`
is `/tmp/latency.txt`, `line` the buffer that `fgets` may leave alone, `elapsed`
is `tv2 - tv1` of this or an earlier server, or of nothing (`Garbage`).

**RefServers.** `step` is where Ref's `main()` is, `list` the file of servers: it
may be absent, of an earlier run, whole, or cut off by a failed `recv`.  A step of
`get_nearest_server` is one of `NearestServers` while `step` is `"nearest"`, and the
rounds of `get_best_server` are those of `BestServer` while it is `"best"`; `Found`,
the number of servers at the head of the table, is what the one hands to the
other.

**RefPool.** Every variable but `it_interval` is `SpeedtestPool`'s, with the same
meaning; `StartClock`, `NextSlot`, `RecvData`, `Send`, `CheckStop`, `Close` and the
like are its actions, used where the two programs agree, and an action that
differs is defined anew.  `it_interval` is what the uninitialised field means to
`setitimer`: nothing, a repeated alarm, or an error that leaves no timer at all.
`LeftOver` are the download's threads in the upload.

**SemaphoreWriters.** `glob++` is a read (`Lock`) and a write (`Increment`);
`Format` reads `glob` again for `sprintf`, as the code does.  `Earlier` are the contents
an output file can have at the start, `old` remembers them, and `appended` is
what this run has put behind them; `TicketLog` is implemented by `appended`.

**PingPong.** Per process a program counter, the flag, whether SIGUSR1 is
pending, and the local counter.  `told` and `first` are history variables used
to say which wakeup was lost.  The handler runs between any two steps.

**Daemon.** `me` is the process that goes on; the parents of the two forks only
have their exit left.  `fd` is the descriptor table of `me`.  The program is
compiled with `-std=c99` and `main.c` defines no feature macro, so glibc gives
`signal()` its System V meaning: the handler is gone once it has been called,
and a second SIGTERM kills.  `steady` and `seen` record what happened to utmp
during a pass.

**LinkFile.** `parent` and `called` are the directories and their names, `enter`
and `read` those the user may enter and list; the constants `Trees` and `Rights`
say which of these are tried.  The program starts in `Home`, anywhere in the
tree, and neither `Home` nor what is above it need be open.  `opendir` fails for
a directory that cannot be reached or listed, or when descriptors run out;
`chdir` for one that cannot be entered; `Up` is `chdir("..")`, which fails where
the current directory or its parent cannot be entered.  The user may type a
name, `.`, `..`, a full path, or two names one below the other.  `stack` has one
record per activation of `search_file_in_directory` with its directory, the path
it was called with, the entries left and its `statbuf`; `cwd` is the process's.
A path is a sequence of names, `Walk` the kernel's step along it and `Follow`
the whole way.  `Ancestors` goes up as often as there are directories, which
comes to the root in any tree. `lstat` of a name that is not in the current
directory leaves `statbuf` as it was.  A file is a directory and a version,
which another process may raise (`Replace`).

## 3. Runs

| run | instance | what it shows |
|---|---|---|
| `speedtest_http` | 2 slots, 4 threads, 2 descriptors, 1 block a connection | with any interleaving of dispatcher, workers, reporters and alarm, in both measurements: slots are exclusive, no addition is lost, a request holds the name of its own measurement's file (an upload's in the place of the host), the stop flag is cleared only when all threads are through, the pool implements `Measurement`, and the program ends unless a peer stays silent |
| `speedtest_https` | 1 slot, 5 threads, 2 blocks | an abandoned slot keeps the one socket it leaks; a wrong `pthread_join` is only reached through an abandoned slot or a failed `pthread_create`, of a worker or of the reporter; the last figure printed misses at most two blocks of the slot, one of the worker that has not seen the stop and one of the thread the sweep under way puts in its place, and the bound is tight |
| `startup` | both builds, replies of 4 pieces in blocks of up to 3 | a file never holds anything that was not received, or in another order, or of an earlier run; it is exactly the body of a reply whose one blank line came with the first block and that has no NUL, unless `select` timed out or memory behind the buffer was taken for a part of it; no measurement on a broken file; only refused fetches leak a socket; the fetches end unless the peer is silent |
| `ref_servers` | 3 slots, 2 distances, 4 lines, 2 times, times read before they are set | slot k holds the server of rank k (`HoldsTheNearest`, which does not mention insertion) and nobody nearer was dropped; the fastest is chosen *if the first server has a latency*, and then the nearest of the fastest; what is chosen has an address and is in a list whose fetch was not cut off |
| `ref_pool` | 2 slots, 3 threads, 2 descriptors, 1 block, all meanings of the interval | without joins: never more sockets than slots, a request for the wrong file comes from a left-over thread only, the pool implements `OverlappingMeasurement`, and it ends if the timer was accepted |
| `semaphores` | 3 threads, 2 rounds, files that are empty or hold a number this run draws too | what is appended ascends behind what was there, all numbers are appended once, no deadlock, the program implements `TicketLog` |
| `pingpong` | limit 15, files ending in 0 to 17 | strict turns; from an even number the limit is reached exactly, unless a wakeup is lost |
| `daemon` | 2 utmp entries, 2 users, 2 SIGTERMs, all starters and inherited descriptors | it is detached, logs who stays logged in, and stops when asked |
| `link_file` | every tree of 4 directories, which may have the name searched for, started in any of them, 2 open at once, at most one closed to entering, listing or both | the search never stands beside or below the directory it reads and ends at or above the named one, if that can be entered; where all that can be listed can be entered, it stands in the directory it reads, ends in the parent of the named one if `..` may be entered, misses only what is deeper than the descriptors go or behind a directory that cannot be listed, and the links lead to the file found if it is in the directory named, by a plain name or from `/`.  It always ends |

Three runs end in a violation, on purpose; each checks what a comment or a
message of the code says (details in `PROJECT.json`, "findings").

* `best_server_low`: "Select low latency server" (`speedtest_server.c:202`).  The
  first server is chosen if it could not be measured, since its latency -1 is
  below all others.  The last loop is the same in Ref, in whose composition the
  run finds it.
* `startup_config`: `main.c:75` announces a missing configuration.  If the name
  does not resolve the test is not reached, and `http.c:225` closes a file that
  was never opened.
* `soft_link`: "Create the soft link" (02/03 `file_handling.c:78`).  It calls
  `link()`, and the result does not follow the name once the file is replaced.

A comment that is not true and needs no run: "Both parent and child come here"
(04/02 `main.c:112`); the parent's loop has no way out.

Bounds, and why they are enough:

* *Slots and threads.* Slots do not interact but through the counters and the
  flag, so two show every pair; four threads let a slot be used again within and
  across the measurements, and in `RefPool` three let one of the upload's threads
  work beside one of the download's.  The safety properties of the two pools are
  proved for any number.  When the threads run out the
  model takes the branch of a failed `pthread_create`, so the bound is an outcome
  the code can meet.
* *MaxFd.* Two descriptors run out at once, the case of interest.
* *MaxBlocks.* In the pools a connection may end at any time, so more blocks
  repeat the same loop; what a worker can add after the stop needs a second block
  and threads to spare, hence one slot and five threads in `speedtest_https`.
* *BUFFER*, *MaxSent*, *Left* (`Startup`): four pieces are two blocks of any cut, the
  first a full buffer or not, with a header's blank line (two pieces) in front,
  between or behind, and a timeout before, between or after; the loop that fetches
  the two files is the same, so the short one is the configuration.  An earlier run
  leaves a list of servers or an empty one.  The bound also says that a peer does not
  send for ever: the fetch loops have no other end, and the termination properties
  assume it.
* *MaxLine* (`PingPong`, 20) cuts off the file that starts at an odd number and
  grows without end; the properties about the end are about even numbers.
* *MaxLines* (`NearestServers`) exceeds the slots by one, so that one is dropped;
  two distances give both order and ties.  What the table holds is proved for any
  number of lines, slots and distances.
* *LOOPS* is 2 for the program's 5: one round that follows another.  *Earlier*: an
  empty file, or one with a number that is drawn again, as in the shipped ones.
* *MaxSignals*, *MaxFd* (`Daemon`): a second SIGTERM is all that differs from
  the first; of five descriptors one is above the lowest limit tried.
* *Dir*, *MaxOpen*, *MaxSaves* (`LinkFile`): four directories are one more level
  than can be open at once; one replacement tells old from new.  `EveryTree` are all
  trees up to exchanging the two directories `Root` and `Home` are not, with `Home` at
  any depth; two names let a directory be called like the file or not.  `OneClosed`
  closes any one directory in any way.  The safety properties are proved for any
  tree, any rights and any `Home`, the root included.

Deadlock is checked for the pools, the semaphore writers and `LinkFile`, whose
last states have an explicit stutter.  It is not checked where the program really stops
(`Startup`, `RefServers`, `Daemon`) or may wait in `pause()`
for ever (`PingPong`).

Fairness:

* Threads and processes are scheduled (`WF` of each one's own steps), a pending
  alarm or signal is delivered, and sleeps end.  This is what Linux does.
* Calls with a timeout return: `connect`, `send` and the handshake run under
  `SO_SNDTIMEO`/`SO_RCVTIMEO` of five seconds, so they are steps of the program.
* Nothing is assumed of a peer.  What needs one (`RecvData`, `RecvEnd`,
  `DrainEnd`, `PeerSend`, `PeerEnd`) has no fairness, and the liveness
  properties name the silent peer as the exception.
* In `RefPool` only `main()` and the alarm are scheduled: nobody is waited for, so
  workers and reporters owe nothing, and a peer need not answer.
* `LinkFile` is one process, weakly fair as a whole; who replaces the file is not.
* Weak fairness of `pthread_mutex_lock` and `sem_wait` suffices for termination:
  the rounds, and with the stop flag the blocks, are finite.

## 4. Proofs

TLAPS checks every proof; nothing is assumed but the named assumptions on the
constants: sizes are natural numbers, tables have a slot, an earlier file is a
sequence, and for `LinkFile` that there are finitely many directories, none called
`/`, `.` or `..`, and that `Trees` and `Rights` are sets of trees and of rights.

* **SpeedtestPoolProofs.** Types first (`TypeCorrect`), on their own, since the
  rest needs them.  Then the inductive invariant `PoolInv`: a live worker's slot
  is marked running, holds its handle, and names its measurement, which is the
  one in progress (`SlotHeld`); `main()` has no live worker behind it in the slots
  it has joined, nor between the measurements (`JoinedOnes`, `MainPhase`); who is
  about to write a counter holds its mutex and has read its value (`Exclusion`);
  requests, open sockets and clocks (`Asked`, `OpenHeld`, `ClockSet`).  None of the
  properties is inductive alone: exclusion of slots needs the handle, and
  `StopIsSeen` needs what the joins have passed.  `JoinsAreDefined` rests on a
  second invariant, `HandleInv`: a sweep leaves every slot either leaked or with the
  handle of a thread nobody has joined, a worker's own step gives no slot back but
  its own, and a join uses up the handle of its own slot only (`OwnHandle`).
  `ReportsMissLittle` counts: a block that is still to be added after the last
  figure is one of a worker that has not seen the stop or of a slot the sweep has
  not passed.  `Room` adds both (`Adders`, `Unswept`) to the counter and bounds the sum;
  a step that raises one term lowers another, and none can raise the sum once the
  reporter is done.  The first bound is that slots are exclusive, an injection.
  `PoolMeasures` shows the steps of the pool to be steps of `Measurement` or
  stuttering.
* **RefPoolProofs.** The same state without joins has other facts: a live worker
  owns its slot and its handle, and the slot's request is that of its own kind or of
  the measurement in progress (`Owned`); only a live thread has a socket open or a
  request made (`Idle`); the one mutex guards the addition of either kind
  (`Guarded`).  The bound on sockets is an injection from the threads with a socket
  into the slots.  `RefOverlaps` maps the set of left-over threads to the abstract
  tail, and `Owned` gives each a slot to itself, as the abstract upload demands.
* **StartupProofs.** First what the loop writes of a block (`WrittenIs`), from what
  `strlen` and `strstr` return (`BeforeFirst`).  `StartInv` joins what a file holds
  (`WrittenAsReceived`), where
  a file that was not fetched comes from (`Inherited`, `Untried`), what a failure
  leads to (`FailureStops`), and that a closed connection brings nothing more
  (`ClosedIsQuiet`).  That a measurement uses whole files only follows from all of
  them together, not from the last step.
* **ServersProofs**, of the two functions on the table and of Ref's `main()`, which
  composes them.
  * `get_nearest_server`.  `TableInv` adds to sortedness that everything read is in
    the table or dominated by a full one.  `InsertSorted` and `InsertKeeps` are the
    two facts about `Insert`; that the loop finds the *first* slot comes from the
    least-element principle of the naturals.  `TableHoldsTheNearest` says the most:
    which server each slot holds, by a rank that knows nothing of the table.  Its
    invariant is `RankInv`, the property with the fact that what is behind the
    servers read is free (`FreeTail`).  A rank is the cardinality of a set that grows with
    the list, so the lemmas are about counting: appending a server raises the rank of
    exactly those it comes before (`RankAppended`), ranks differ and fill an interval
    (`RankFollows`, `RankOnto`), and the loop stops at the rank of the new server
    (`PlaceIsRank`).
  * `get_best_server`.  `BestInv` says for every part of the round where the file, the
    line and the latencies can have come from, and for the last loop that `low` is the
    latency of `best` and minimal so far.
  * `main()`.  Every step of the composition is a step of each function or leaves it
    alone, so `RunsBothFunctions`, and the theorems about the two hold of the program.
    `NearestOfFastestIsChosen` is derived from them: the table is in order, and the
    last loop keeps the first of equals.  `ListedServerIsMeasured` adds what the two
    hand over: the table's head is filled (`HeadIsFilled`), every server in it was read
    (`FromList`), and who is resolved is in the head (`CallInv`).
* **SemaphoreWritersProofs.** The holder of a semaphore, and of the mutex, is
  alone (`SemaphoreHeld`, `MutexHeld`); who is about to write `glob` knows it
  (`Fresh`); a number drawn but not written is above everything its file holds
  (`Below`).  Ascending order follows, then `ImplementsTicketLog` with the number
  counted as written when `glob` is incremented.  `NumbersAreOnce` needs no sum over
  the threads: `NumbersInv` says that `glob` is the number of the rounds (thread,
  number) that have drawn, the lengths of what was appended that of those that have
  written, and the numbers appended and on their way are 1 up to `glob`.  What the
  files held before stays apart from all of it (`OldStays`).
* **PingPongProofs.** `OneTurn` says that the turn is in one place: with a process
  that reads, writes or tells, in a pending signal, or in a flag not looked at yet;
  the flag of a process about to clear it is none, which is how a wakeup is lost and
  why no turn is ever doubled.  `Parity` ties the turn to the parity of the lines.
  `FileStopsAtLimit` needs an odd limit, as the program's 15 is: only then the child
  is the one to see it.
* **DaemonProofs.** `ForkInv` and `SessionInv` follow the process that goes on from
  fork to fork, `FdInv` the descriptors from step to step; `PassInv` says that a
  pass has logged every entry it has read and that has not changed, and has
  logged nobody it has not seen.
* **LinkFileProofs.** The types hold in every tree; most of the rest is about trees
  in which every directory that can be listed can be entered, as the properties are.
  `CwdInv` says for every place of the program where it stands there: in the directory
  the activation on top reads, about to open a child of it, or, at the end, where `Up`
  leads from the directory named.  That `chdir("..")` leads back to the caller's
  directory needs `StackInv`: each activation is in a child of the one before, so the
  directories of the stack are ever deeper (`Depth`, the shortest way to the root) and
  differ.  `SearchInv` is why nothing is missed: as long as there is no match, every
  file near enough and with a way that can be listed is `StillToCome`: in what an
  activation has left to read, or below a directory that one has left or is about to
  call for.  A directory that cannot be opened for want of descriptors would break
  this, but then the stack is an injection into the way from the directory named to
  the file, which is longer than the descriptors go (`StackFits`).  `FoundInv` ties
  `ret_dir` to the match, and `FileAtNamed` is that this path still leads there from
  where the program stands after the search: a plain name because the parent of the
  directory is the one the program was started in, a full path from anywhere.

  In any tree, `ControlInv` and `AboveInv` prove the part of `CwdFollowsSearch` that
  needs nothing but that the directory named can be entered: each activation reads a
  child of a directory at or above its caller's, so the current directory is never
  anywhere but on the way up from the one being read.  `SearchCanGoBack` says which
  directories on that way can be closed: only those at or above the one the program
  was started in, since the kernel let the search come to the others through them.
  So `chdir("..")` fails only where the way up was closed from the start.

The model's recursions here (`Ancestors`, `Follow`) are recursive functions on an
interval `0 .. n`.  `UpDefined` shows that such a function exists, and what it computes
is proved along its domain with `CountUp`, an induction whose predicate is a set;
paths have at most two names, so `Follow` needs none.

Only model-checked: all liveness (`EndsUnlessPeerSilent`, `StartsUnlessPeerSilent`,
`EndsIfArmed`, `Ends` of two modules, `ChildEndsUnlessLost`, `StopsWhenAsked`), which the
prover does not support, and the three properties that do not hold.

## 5. Not modelled

* Certificates, what is in an HTTP header (but not where it ends), number
  formatting and the arithmetic of speeds and distances (rounding can make a distance NaN; see the hazards).  `calcDistance`
  is a number per server.
* Data that OpenSSL has decrypted but `select` does not see: `Startup` lets `select`
  time out at any moment and drops the block, which includes this case, but does
  not tell the two apart.
* SIGPIPE: the programs call `send` without `MSG_NOSIGNAL` and do not ignore the signal,
  so that a send to a connection the peer has reset ends the whole process; the models
  let the call fail instead, which is what the code around it is written for.  A failing
  `fopen` of a file in `/tmp` (mode `"w+"`), whose NULL is used by `fwrite` and `fclose`,
  is left out too.
* In `Ref`: the figures the reporters print, the rewriting of the url, and the socket
  loop of a fetch, which is one step with all its outcomes.
* In `LinkFile`: symbolic links, other programs that rename directories, and the
  lengths of the path buffers.
* `get_list_servers`, `file_handle_*` except the append and the last line, the
  SIGCHLD branch of 04/02: never called, or never reached.
* `02-Linux-File-System/01` and `02`: two terminal dialogues.  The first prints a tree
  by the recursion `LinkFile` models; the second asks for a name until one is valid
  and writes what is typed into one file.
* `01-Shell-Script-Programming`, `glibc_main.c`, the unit file, empty and
  duplicate sources: no state of their own.

## 6. Plan

1. (done) The measuring pool with its abstract specification and proofs; the
   table of servers; the choice of the best; startup; the two IPC programs; the
   daemon.
2. (done) `LinkFile`, `RefPool`, `RefServers`, the last as the composition of table
   and choice along what they hand over; proofs for `Startup`, for both parts of Ref,
   for `PingPong`, and of `UndefinedJoinOnlyAfterLeak` and `EveryNumberOnce`.
3. (done) Proofs of what was only checked: what the last report misses, the rank of
   every server in the table, the search and its links in any tree.
4. Open: the same composition for Application, with the socket loop of `Startup`
   under each fetch.
