# A TLA+ model of goprecords

goprecords collects the records files of uptimed from many hosts, stores them
in a *stats directory* (by HTTP upload) and reports on them: as web pages, on
the command line, or through a SQLite database. This directory models the parts
of it that share state, checks them with TLC on small instances, and proves the
most important properties with TLAPS for every instance.

## 1. The system

| Component | Code | State it keeps | Operations |
|---|---|---|---|
| Upload endpoint | `internal/daemon/upload.go` | files `HOST.KIND` and temps `.up-*.tmp` of the stats directory; the umask of the process | `PUT /upload/HOST/KIND` |
| Client keys | `internal/authkeys/store.go` | table `client_key`: one hash per host | KeyCount, CreateKey, Verify |
| Web pages | `internal/daemon/daemon.go`, `internal/goprecords/aggregate.go` | `htmlCache`: the last page of `GET /` and its expiry | `GET /`, `GET /report` |
| Metrics and exclusions | `internal/daemon/metrics.go`, `internal/storage/db.go`, `cmd_exclude.go` | table `excluded_host` | `GET /metrics`, exclude, unexclude, list-excluded |
| Import | `internal/storage/db.go`, `cmd_import.go` | tables `record`, `host_meta`, `host_class` | import |
| Classification | `internal/hostclass`, `cmd_classify.go` | files `HOST.class` and `HOST.class.tmp`, table `host_class` | classify, list-classes, uploads of kind class |
| Query, reports | `internal/goprecords` | none (pure) | aggregate, sort, format |
| Daemon life cycle | `daemon.go` `Run`, `cmd_daemon.go` | the process, its listener, its key store, its connections | start, graceful shutdown |
| Upload client | `scripts/goprecords-upload-client.sh` | none | one PUT per file |

They interact through the stats directory and two databases, not through calls:

* uploads rename files into the stats directory; web pages, scrapes and imports
  list that directory (one `Stat` per file; a file that is empty or whose `Stat`
  fails drops out, and nobody is told) and open its files at any time, from other
  goroutines or other processes;
* an operator changes client keys, exclusions, class files and tables from the
  command line while the daemon runs;
* two classify commands for one host use one temporary name, and an upload or an
  import may come between any two of their steps;
* scrapes write to the database of the daemon (they lift exclusions);
* all uploads of a daemon share its umask, all requests to `GET /` its cache, and
  all handlers the key store that the main goroutine closes when it is told to stop.

What is hard here: handlers run concurrently and every call between two
statements may fail; a request is checked by two queries and acts later; a
records file may be replaced between the reading of the directory, its `Stat` and
each of its reads; the
daemon or an import may die between two steps; the umask belongs to the process
and not to a handler; an import is only partly one transaction. `PROJECT.json`
lists these hazards at their lines.

What makes each component correct:

* Upload endpoint: whole files only, whatever overlaps or fails; one effect per
  request, at one instant, as the answer says; only entitled clients; no temp
  shared or lost; permissions like those of a file created directly; an answer
  for every request.
* Exclusions: an alert is suppressed only for a host that is silent; a host that
  is back, with a file that is not empty, is freed without help; only a newer file
  lifts an exclusion.
* Import: no boot counted twice; all of the files or none; rows never without
  their time; classes set in the database survive; repeatable.
* Classification: the class file is whole whenever somebody reads it; commands
  that got in each other's way leave no lasting disorder; a command given both places that
  reports success has stored its class in both, whatever an import with the write
  lock does.
* Daemon: told to stop, it stops within its 30 seconds, and sooner if nobody is
  busy; until then no handler loses the key store; its exit status is true.
* Reports: the figures of a host do not depend on the order of its lines or on
  where they are read from; all tables add up to the same boots; tables are ranked
  by what they show.
* Web pages: of each host that the listing did not drop, never older than the cache
  allows; never dated later than the data.

## 2. The modules

| Module | Content |
|---|---|
| `AtomicUploads` | what clients are promised: ask, be admitted, put at one instant, get the answer |
| `Uploads` | every step of a PUT, key creation, crashes; instance `Atomic` maps it to `AtomicUploads` |
| `UploadsProofs` | the inductive invariant of `Uploads` and its safety theorems |
| `UploadsRefinement` | `Uploads` implements `AtomicUploads` |
| `Exclusion` | scrapes of `/metrics`, exclude and unexclude, uploads as changes of a modification time, with empty files |
| `ExclusionProofs` | the safety properties of `Exclusion` |
| `Mirror` | what an import promises the readers of its database: tables emptied, each file looked at once, then all filled at one instant |
| `Import` | ImportFromFS, with uploads and classify around it; instance `Mirror(i)` maps import `i` to `Mirror` |
| `ImportProofs` | the safety properties of `Import`, and that it implements `Mirror` |
| `Pages` | `GET /` and `GET /report` over a changing directory, with the cache |
| `PagesProofs` | the safety properties of `Pages` |
| `ClassRegister` | what classify promises of one host: a class in the directory at one instant, then in the database, then success |
| `Classes` | every step of classify with its one temporary name, beside uploads and an import that may hold the write lock or not; instance `Register(h)` maps it to `ClassRegister`, host by host |
| `ClassesProofs` | the safety properties of `Classes`, and that it implements `ClassRegister` |
| `Daemon` | the life of the daemon: key store, listener, signal, shutdown, connections and handlers |
| `DaemonProofs` | the safety properties of `Daemon` |
| `Reports` | aggregation of records from files and from the database, the table of one metric, and the tables of `-all` in their order |
| `ReportsProofs` | the safety properties of `Reports`, all of them |
| `MCUploads`, `MCExclusion`, `MCImport`, `MCPages`, `MCClasses`, `MCReports` | instances for TLC (`Daemon` needs none) |

Correspondence with the code. In each module `pc` holds the place of a handler
or process between two steps others can see: one stage per query, system call
or critical section. A loop over the files of the directory is a stage with a set
of files still to do (`names`, `todo`, `unread`) and one step per file; that is how
`ListNonEmptyFiles` looks at each file, and `LoadFS` opens each class file. Local variables of the Go functions are functions from the
handler (`job`, `tmp`, `mask`, `seen`, `listing`, `current`, ...). Go's early
returns are the actions that end in `Finish`, `Return` or `Exit`. `PROJECT.json`
"map" names the lines behind each definition.

What the data is abstracted to:

* a body is a model value; only its size class, what `hostclass.Parse` makes of
  it and whether all of it was written matter;
* a token is a model value that is never issued twice (it is 32 random bytes);
* a mode is the set of its permission bits other than the owner's;
* a records file is the number of its uploads so far, which stands for its
  content and its modification time; the rows of a file are one block. In `Pages`
  and `Exclusion` it may also be empty. In `Import` every version has a valid line:
  an empty file is to the listing of an import what a failed `Stat` is (`StatFails`);
  one that becomes empty after that leaves a row in `host_meta` without rows in
  `record`, which is left out;
* times in `Exclusion` are whole seconds, as in the code;
* a line in `Reports` is its two numbers and its kernel; numbers wrap at `Word`,
  and the constants of the score keep their proportions only roughly. SQLite has
  no integer above 2^63 - 1: `database/sql` refuses such a parameter, and so does
  `ReadLine` for the import;
* a class file in `Classes` is the class that `readClassFile` makes of it, or
  `Blank` if it has no valid line. Of a file that `os.WriteFile` has open the model
  knows under which name it is found by now (`fd`), because a rename or a remove by
  another command moves it away under the writer;
* a handler in `Daemon` queries the key store, writes, and answers; what it does
  in detail is in `Uploads`. `net/http` is external and modelled as `Run` uses it:
  `Shutdown` closes the listener, waits for the accept loop, then closes idle
  connections until there are no others. It looks at the state of a connection before
  it closes it: a request that arrives just then is handled, but not waited for.

Variables marked *history* (`arrival`, `silent`, `imported`, `past`, `missed`, `lost`,
`overlapped`, `broken`, `alone`) record what was true earlier so that properties can
speak of it; no action reads them for another purpose. `missed` and `lost` are the
hosts whose `Stat` failed when a page, or the cached page, was made; `broken` the
hosts for which a classify command died, could not write, or could not remove its
temp after a failed rename; a command leaves `alone` when its host is changed by
somebody else, or when it stores its class before an import stores another one that
it had read earlier without the lock.

`Uploads`, `Import`, `Exclusion` and `Pages` assume host names without a dot
(the README recommends "a stable short name"): then a host has one file of each
kind. With dots `HostFromFileName` may give two files one host. `Reports` has
such files: the second one ends the report, and the import, before any of its
lines is counted on top of the first.

`Exclusion` assumes that a host's client sends one records file at a time, as
`scripts/goprecords-upload-client.sh` does: the temp that is renamed last is then
also the one that was written last, and a modification time does not go back.

## 3. What is checked

| Run | Module | Instance | Shows |
|---|---|---|---|
| `uploads_files` | Uploads | 2 requests, bodies good, bad and huge, crashes | TypeOK, FilesAreWhole, AtomicEffect |
| `uploads_auth` | Uploads | 2 hosts, keys created and replaced, both flags | AdmissionSound, AtomicEffect |
| `uploads_modes` | Uploads | 2 requests, 2 permission bits, leftover temps, removes that fail | TempsAccountedFor, NeverLeftPrivate, Answered |
| `uploads_umask_race` | Uploads | 2 requests in `chmodLikeCreate` | **violated**: ModeLikeCreate |
| `exclusion` | Exclusion | 2 scrapes, 1 host, 2 seconds, empty files | TypeOK, HiddenOnlyIfSilent, FreedEventually |
| `exclusion_lost` | Exclusion | 1 scrape, an exclusion that is renewed | **violated**: LiftedOnlyIfNewer |
| `import` | Import | 1 import at a time, 2 hosts, 2 versions, 1 fault | TypeOK, OneBlock, AllOrNothing, RowsDated, DatabaseClassesSurvive, Repaired, ReplacedAtOnce |
| `import_overlap` | Import | 2 imports, 1 host | **violated**: OneBlock |
| `pages` | Pages | 2 requests, 1 host, 2 versions, empty or not, 2 ticks | TypeOK, FreshEnough, NeverPostdated |
| `classes` | Classes | 2 commands at once, 1 host, 2 classes, errors and kills, an import with and without the lock | TypeOK, ReadersSeeAClass, OrderAfterOverlap, StoredInBoth, AtomicUnlessOverlapped |
| `daemon` | Daemon | 3 connections, a signal or a failing listener at any moment | TypeOK, Drained, StatusTrue, StopsInTime, StopsWhenIdle |
| `reports` | Reports | 3 files of 2 hosts, 3 of 5 lines, every table, 6 orders | TypeOK, FiguresRight, EveryBootOnce, DowntimeIsGaps, SourcesAgree, TopRanked, AllTablesOnce |

Each property has a mutant in `PROJECT.json`: a plausible bug in one mapped
definition that makes TLC find it violated.

### Bounds

* Two requests (`Req`), scrapes or page requests: every race in this code is
  between two handlers that hold one shared thing each (a temp name, the umask,
  a key, the cache, a row); a third adds no new pair of steps. The theorems of
  section 4 need no such argument.
* `Temp`, `Token`, `MaxOrphans`: as many temps as handlers and orphans can hold,
  enough keys to create one and replace it, crashes until a temp is left over.
  `MaxOrphans` bounds both the crashes and the removes that may leave one.
* `MaxTime` in `Exclusion`: two seconds have before, after and same-second. In
  `Pages`: with `TTL = 1` two ticks reach a hit at the very end of a lifetime, an
  expiry, a second store, and a hit on that.
* `MaxVersion = 2`: a file can be absent, new or replaced between any two steps.
* `MaxFaults = 1` in `Import`: an import fails at any step and the next one finds
  what it left, or the `Stat` of a file fails. A refused write (lock taken, key exists)
  is not counted, and so an import can always fail for that reason; nor is a class
  file that cannot be opened, whose host is left out.
* In `reports` the five lines are chosen so that two follow each other, overlap, tie
  in their boot time, start at second 0, or have an end and a score that wrap; three of them make every pair
  meet in every order, with a third before, between or after. `Limit` is below the
  number of kernels, the orders of `-stats-order` include none, one with names in
  another order, twice, blank, and of a table that only comes with `-include-kernel`,
  and three that are refused; and the clock passes the moment at which hosts of some of the
  lines become inactive.
* One host in `exclusion` and `pages`: a scrape or a page treats its hosts one
  after the other and independently (the theorems are for any hosts: a page of which
  one host was dropped is right of the others). One in `classes`: two hosts share no file, no
  row and no temp. Two commands there run any number of times, one after the
  other or at once, so that one may take over what a dead one has left.
* Three connections in `daemon`: one that is busy, one idle and one closed while its
  request comes in, all at once. `Daemon` has no other bound; it stops when the process exits, and so
  that run does not check for deadlock.

### Fairness

* `Uploads!FairSpec`: a handler is a goroutine that the runtime schedules, and
  `ReadTimeout` (2 minutes) makes its reads fail. The client owes nothing, so
  `ClientStep` has no fairness: a request is answered although its body never
  arrives.
* `Exclusion!FairSpec`: Prometheus scrapes again and again (the scrape `Regular`;
  of other scrapes nothing is asked), and no error is permanent. Of the scrapes
  that get as far as looking at the file of a host, opening the database, loading the
  exclusions, or the `Stat` and the DELETE of that host, some succeed: strong fairness
  of each of these steps, for each host on its own. A step that the code cannot take,
  to list a file that is empty, is not made possible by that. Nothing is assumed of
  uploads or the operator.
* `Import!FairSpec`: a process runs until it exits and the import is started
  again; faults are finite by `MaxFaults`, so no strong fairness is needed.

* `Daemon!FairSpec`: the main goroutine and the listening one run whenever they
  can. The two liveness properties add, as premises, what else they need and no
  more: `StopsInTime` that the 30 seconds of the context end; `StopsWhenIdle`
  instead that handlers end (`ReadTimeout`, `WriteTimeout`) and that `Shutdown`
  keeps closing connections that are idle. Clients owe nothing, and the signal
  need not come.

`Pages`, `Classes` and `Reports` have no liveness property: their handlers and
commands wait for nobody, and deadlock is checked in their runs except in `reports`,
which ends with its table.

## 4. What is proved

TLAPS checks, for every value of the constants that satisfies the named
assumptions (sets may be infinite where the code does not bound them):

* `UploadsProofs`: `TypeCorrect`, `AdmissionIsSound`, `FilesStayWhole`,
  `FilesStayReadable`, `NoTempIsLost`, `ModesLikeCreate`. None of these invariants is inductive.
  The invariant `IInv` adds what a handler knows at each stage: it has a job
  while it runs and a temp between CreateTemp and Rename (`StageInv`); a temp
  has one holder or is an orphan (`TempInv`); the temp holds the body of its own
  request (`ContentInv`); every umask anybody has seen is the initial one or
  cleared, so that modes only get wider (`ModeInv`); a key that matches now
  matched on arrival because new keys are fresh (`KeyInv`). Each part is shown
  to be kept by each action in a lemma of its own, with the parts before it.
  `ModesLikeCreate` says that the race of `uploads_umask_race` is the only way to a
  wrong mode: if no two handlers are ever between the two calls of `syscall.Umask`
  at once, all modes are right (`UmaskInv`: the umask is cleared only while one
  handler is there, which has seen the true one).
* `UploadsRefinement`: `Refinement`, every behaviour of `Uploads` is one of
  `AtomicUploads` under the mapping at the end of `Uploads`. Each action is
  shown to be one abstract action or invisible; `IInv` supplies that the content
  renamed is the content asked for and that the key was current.
* `ExclusionProofs`: `TimesCorrect`, `HiddenWithReason` and `LiftedWithReason`. A scrape reads the
  exclusions, and later the modification time of each file it has listed. The invariant says
  that a file's time never goes back while a temp waits to be published
  (`written` is at least `mtime`), so that a file that is not newer than the
  exclusion when it is looked at was not newer when the exclusions were loaded.
  `LiftedWithReason` says that the race of `exclusion_lost` is the only one of its
  kind: if nobody sets or renews an exclusion while a scrape works with those it has
  loaded, an exclusion is lifted only because the file has become newer.
* `ImportProofs`, for any number of imports: `TypeCorrect` and `ClassesSurvive`.
  For imports that do not overlap (the assumption `Single` of those theorems: one
  `Importer`, which stands for any number of processes one after the other; the
  run `import_overlap` shows that it is needed): `NothingTwice`, `NothingHalf`,
  `NothingPostdated` and `ImportIsMirror`. The invariant says that the tables are empty from the
  DELETEs to the commit (`EmptyInv`), and that a transaction holds the rows and
  times of exactly the files that were listed and read so far, with rows not
  older than the listing (`TxInv`). With it every step of an import is one step of
  `Mirror` or none: the DELETEs, the reading of the directory, the look at each file
  or its failure, each class file that is opened or skipped, and the commit, whose
  rows are those of versions that the files have had since they were looked at
  (`LocalInv`); statements, locks and the single rows are invisible. The times of two
  files are not of one instant, and neither `Mirror` nor `ReplacedAtOnce` says so.
* `PagesProofs`: `TypeCorrect`, `FreshPages` and `PagesInOrder`. Freshness is not
  inductive: a cached page outlives the request that made it. The invariant says
  of the cached page that it shows all that was there `TTL` before it expires
  (`CacheInv`), and of a request that each host it has finished shows at least
  what was there when it began (`Good`), a host that is not listed because it has no
  file or an empty one included; both except the hosts whose `Stat` failed. That files
  only get newer
  (`HistoryInv`) carries both over the uploads in between.
* `ClassesProofs`, for any number of commands: `TypeCorrect`,
  `ReadersAlwaysSeeAClass`, `LastCommandTidiesUp`, `SuccessMeansBoth` and
  `ClassifyImplementsRegister`. The invariant says who a temp belongs to as long as nobody
  overlapped (`OwnTempInv`: the one command past its open, and the temp holds its
  word once it is written); that a temp or a blank file has a command on its way
  that will rename or remove the one and write to the other, unless one died, or
  could not write or remove (`PendingInv`); and that a command no other change has
  disturbed finds its class wherever it has come to store it, and that no import holds
  another class of its host (`AloneInv`).
* `DaemonProofs`, for any number of connections: `TypeCorrect`, `StopIsGraceful`,
  `StatusIsTrue`. The invariant says how far the shutdown is at each step of
  `Run` (`StageInv`), that a connection `Shutdown` has waited for does not come
  back (`DrainInv`), and that the listener stops only when told to (`ReturnInv`).
* `ReportsProofs`, for any number of lines, files, hosts and kernels, any clock, limit
  and order of tables: `TypeCorrect`, `FiguresAreRight`, `EveryBootCounts`,
  `GapsAreDowntime`, `SameReport`, `TablesAreRanked` and `EveryTableOnce`. The runs
  check `FiguresRight` and `EveryBootOnce` for the table that is asked for; the
  theorems say it of all four maps and both sources in every state.
  - `FigureInv` says of each entry of each map what its figures are of the lines
    added so far, by host and index. It is not what `FiguresRight` says: to add a line
    one must know what the first boot and the newest kernel are without lines, and
    that `kernel` and `newest` come from the same line. Sums are stated without
    recursion: boots are the number of lines, and the uptime is the number of seconds
    that the lines cover, so that adding a line is adding to two finite sets.
  - `GapsAreDowntime` counts: the seconds of lines that do not overlap are as many as
    the seconds that are covered, and the rest of the lifespan is what is left.
  - `SameReport` follows from `FigureInv` alone: once all rows are loaded both sources
    have added the same lines, and the figures of regular hosts are determined by the
    set of their lines. `StageInv` says that all rows are loaded by then.
  - `RankInv` says that the ranking has each entry once, that each key is the value the
    entry had at some time since, and that each row shows one of a later time. Values
    change only when an entry becomes inactive (`ValueLater`), which is where
    the bonus in `TopRanked` comes from, and why it needs that no score wraps.
  - `TablesInv` says that the tables are those of a valid order. What the three loops
    over lists give (`Kept`) is shown by induction, as a smallest counterexample
    (`LoopRuns`, `KeptPicks`): the kept entries are those at the wanted places, in their
    order; of equal ones the first (`FirstPicks`); every table stays (`TablesPicks`).

Assumptions used: those of the modules, named `...Assumption`. They say that
model values such as `None` are none of the others, that the canonical name of
a class is short and parses to itself, and that bounds are numbers.

Only model-checked: liveness (`Answered`, `FreedEventually`, `Repaired`,
`StopsInTime`, `StopsWhenIdle`), which is out of the reach of the proof system, and
the counterexamples of the violated runs. Every other property of the passing runs
is a theorem. `OneBlock`, `AllOrNothing`, `RowsDated` and `ReplacedAtOnce` are
theorems for imports that do not overlap, as in their run.

## 5. Where the code and its documents disagree

* `uploads_umask_race`: two overlapping uploads in `chmodLikeCreate`: the second
  reads the cleared umask of the first, gives its file mode 0666, and may leave
  the umask of the daemon cleared. `NeverLeftPrivate` shows that the opposite
  error, a file nobody else can read, cannot happen, and the theorem `ModesLikeCreate`
  that nothing but this overlap makes a mode wrong.
* Without keys uploads are refused unless `-allow-anonymous-upload` is given
  (`upload.go`, line 72); `README.md`, line 263, and the comment of `KeyCount` in
  `store.go`, line 70, say that they are accepted. `Uploads` has what the code does,
  and `AdmissionSound` speaks of it.
* `exclusion_lost`: a scrape deletes an exclusion that was renewed after it had
  loaded the old one. The theorem `LiftedWithReason` shows that it takes a renewal
  during the scrape.
* README.md, line 353, says that the exclusion of a host goes away when its records
  file has become newer. It does not if that file is empty: a PUT with an empty body
  is accepted, but the listing of `/metrics` leaves empty files out
  (`recordsdir.go`, line 38), so that no scrape looks at the exclusion. `BackAgain`, and
  with it `FreedEventually`, therefore asks for a file that is not empty.
* `import_overlap`: two overlapping imports store every row twice, because the
  two DELETEs are outside the transaction.

A `Stat` that fails while a page is made drops that host from the page, which is
sent with 200 and cached like any other (`recordsdir.go`, line 37): `FreshEnough` speaks
of the other hosts. In the same way an import leaves out a records file whose `Stat`
fails, and a class file that it cannot open.

An import that finds no records file, or only empty ones, inserts nothing before it
reads the class files, and so holds no write lock while it does. A command that then
classifies a host in both places, after its class file was read and before the first
INSERT, succeeds, and the import puts the old class back into the database; the next
import repairs that. `StoredInBoth` excepts it (`Outdated`).

The temp of a classify command stays if the command dies, cannot write, or cannot
remove the temp after a rename that failed (`hostclass.go`, line 145, ignores that
error); the next command for the host takes it over.

Overlapping classify commands for one host may publish an empty class file for a
moment, or fail although they did nothing wrong; `OrderAfterOverlap` shows that this passes
when the last one is through. A class set only in the database is replaced
by the next import if the host also has a class file: that is what the import says it does, and
why `StoredInBoth` speaks of commands that were given both.

Three statements hold only with the conditions that the properties of `Reports`
name. README.md says that the lifespan is downtimes plus uptimes: it is if the
records of a host do not overlap (`DowntimeIsGaps`), else the downtime is cut at 0.
The integration runner expects the same report from files and from the database:
it is the same for hosts without a boot at second 0 and without two boots at one
second (`SourcesAgree`), and a host without a valid line is only in the first. And
a table shows its entries by score only up to the bonus for being active, and only if
no score wraps at 2^64 (`ScoresFit` in `TopRanked`): scores are taken twice, to sort by and
to show, and a host may become inactive in between.

## 6. What is not modelled

* Power failure: a crash here is that of the process; nothing is fsynced by the
  code, and what a file system keeps is outside it.
* Readiness and health probes (stateless), parsing of URLs, headers, flags and
  records lines, output formats, logging, the build and its test runner.
* Queries during an import: `LoadAggregates` reads three tables in three
  statements. Each sees one committed state (`AllOrNothing`, `RowsDated`), nothing in the
  repository says what the three together show, and nothing is stored.
* The syntax of `-stats-order` and of the other options, layout and output formats.
* SQLite itself: its statements are atomic and its write lock is `writer`.
  Readers that make a commit fail are among the faults.
* Deleting keys or files: no code does it.

## 7. Plan

Done in this order: `Uploads` with its abstract specification and proofs, because
it is the part that many actors share and that must not lose data; `Exclusion`;
`Import`; `Pages`; the proofs of each; `Reports`; `Classes` with `ClassRegister`
and its proofs; `Daemon` with its proofs; removes that fail in `Uploads`; files of one
host and the tables of `-all` in `Reports`; `ReportsProofs`; `Mirror` and its proof; the
theorems that bound the two races of `Uploads` and `Exclusion`; listings that look at
one file after the other and drop some; removes that fail and imports without the lock
in `Classes`.

Next:

1. `Query` over `Import`: what three reads without a transaction can show, as far as
   the repository says what they should.
2. `Classes` inside `Import`, so that both are checked with one table `host_class`.
