------------------------------ MODULE Reports ------------------------------
(***************************************************************************)
(* From records to one table of a report (internal/goprecords): the same    *)
(* records files are aggregated line by line (aggregate.go), and row by row *)
(* from the database that import made of them (db.go); then a table of one  *)
(* category and metric is ranked and rendered (report.go), or the tables of *)
(* -all are put in order (order.go).  The clock may move on between any two *)
(* steps, for a host is active or not at the moment it is asked.            *)
(*                                                                          *)
(* A valid line is its two numbers and the name of its kernel; other lines  *)
(* are skipped without a trace.  Numbers have 64 bits in the code, Word      *)
(* values here.  The directory does not change (see Pages for that), and a  *)
(* report that fails shows nothing.                                         *)
(***************************************************************************)
EXTENDS Naturals, Sequences, FiniteSets, Functions

CONSTANTS
    Host,
    File, HostOf,  \* names of records files, and the part before the first dot
    Kernel, NameOf, MajorOf,  \* OS strings, their kernel names and major versions
    Lines,       \* the valid lines that files may hold
    Updated,     \* when each records file was written
    Word,        \* 2^64
    Day, Month, ScoreUnit, ActiveSpan,  \* 24 hours, 30 days, 1000000, 90 days
    Limit,       \* rows of a table
    Orders,      \* values of -stats-order
    Start, Stop, \* bounds: the clock when the program starts and ends
    MaxLines,    \* bound: lines of all files
    None, Malformed

ASSUME NumberAssumption ==
    /\ Word \in Nat \ {0, 1} /\ Day \in Nat /\ Month \in Nat /\ ActiveSpan \in Nat
    /\ ScoreUnit \in Nat \ {0} /\ Limit \in Nat /\ MaxLines \in Nat
    /\ Start \in Nat /\ Stop \in Nat /\ Start <= Stop
ASSUME LineAssumption ==
    /\ Lines \subseteq [uptime : 0 .. Word - 1, boot : 0 .. Word - 1, os : Kernel]
    /\ NameOf \in [Kernel -> STRING] /\ MajorOf \in [Kernel -> STRING]
    /\ Updated \in [Host -> Nat] /\ None \notin Host \cup Kernel
    /\ HostOf \in [File -> Host]

Number == 0 .. Word - 1
Sources == {"files", "db"}
Categories == {"Host", "Kernel", "KernelName", "KernelMajor"}
HostMetrics == {"Downtime", "Lifespan", "LastUpdated"}
Metrics == {"Boots", "Uptime", "Score"} \cup HostMetrics
Pair == [category : Categories, metric : Metrics]

\* An entry between two commas: a pair, nothing but blanks, or something else.
ASSUME OrderAssumption ==
    Orders \subseteq Seq(Pair \cup {None, Malformed}) /\ None \notin Pair

VARIABLES
    listed,   \* the records files that are not empty and not opened yet
    lines,    \* the valid lines of each file, and so the rows of table record
    fits,     \* the database can hold all their numbers
    loaded,   \* the rows LoadAggregates has added, as indices
    present,  \* per source: the keys of Aggregates.Host
    agg,      \* per source: the other figures of the four maps
    at,       \* the host whose lines or rows are being read
    pc,
    now,
    request,  \* source, category and metric of the table
    keys,     \* the sort keys it has taken so far
    ranking,  \* the entries in sorted order
    table,    \* the rows rendered so far
    tables    \* what -all gives: with Kernel or not, for which order, and the tables

readVars == <<listed, lines, fits, loaded, present, agg, at>>
oneVars == <<request, keys, ranking, table>>
tableVars == <<oneVars, tables>>
vars == <<readVars, pc, now, tableVars>>

\* NewAggregate and NewHostAggregate; newest is maxBoot.
NewAggregate == [uptime |-> 0, first |-> 0, last |-> 0, boots |-> 0]
NewHostAggregate == [uptime |-> 0, first |-> 0, last |-> 0, boots |-> 0,
                     kernel |-> None, newest |-> 0]
Names == {NameOf[k] : k \in Kernel}
Majors == {MajorOf[k] : k \in Kernel}
Empty == [host   |-> [h \in Host |-> NewHostAggregate],
          kernel |-> [k \in Kernel |-> NewAggregate],
          name   |-> [n \in Names |-> NewAggregate],
          major  |-> [m \in Majors |-> NewAggregate]]

Init ==
    /\ listed \in SUBSET File
    /\ lines = [h \in Host |-> <<>>]
    /\ fits = TRUE
    /\ loaded = [h \in Host |-> {}]
    /\ present = [s \in Sources |-> {}]
    /\ agg = [s \in Sources |-> Empty]
    /\ at = None
    /\ pc = "files"
    /\ now = Start
    /\ request = [source |-> "files", category |-> "Host", metric |-> "Uptime"]
    /\ keys = <<>>
    /\ ranking = <<>>
    /\ table = <<>>
    /\ tables = [kernels |-> FALSE, custom |-> <<>>, pairs |-> <<>>]

-----------------------------------------------------------------------------
(* Aggregation. *)

End(l) == (l.uptime + l.boot) % Word

\* Mutant: the first boot is the smallest of the boots and 0.
FirstOrZero(first, boot) == IF boot < first THEN boot ELSE first
\* Mutant: the last boot counts as the first.
LatestBoot(first, boot) == boot
FirstBoot(first, boot) == IF first = 0 \/ boot < first THEN boot ELSE first

AddRecord(a, l) ==
    [a EXCEPT !.uptime = (@ + l.uptime) % Word,
              !.boots = @ + 1,
              !.first = FirstBoot(@, l.boot),
              !.last = IF End(l) > @ THEN End(l) ELSE @]

\* Mutant: the kernel of the last line of the file.
LastLineKernel(a, l) == [a EXCEPT !.newest = l.boot, !.kernel = l.os]
LastKernel(a, l) ==
    IF l.boot >= a.newest THEN [a EXCEPT !.newest = l.boot, !.kernel = l.os] ELSE a

\* Mutant: a kernel is entered when it is new, and otherwise forgotten.
OnlyNew(m, name, l) == IF m[name].boots = 0 THEN [m EXCEPT ![name] = AddRecord(@, l)] ELSE m
\* getOrNewAggregate(m, name).AddRecord(...)
AddTo(m, name, l) == [m EXCEPT ![name] = AddRecord(@, l)]

AddLine(g, h, l) ==
    [g EXCEPT !.host[h] = LastKernel(AddRecord(@, l), l),
              !.kernel = AddTo(@, l.os, l),
              !.name = AddTo(@, NameOf[l.os], l),
              !.major = AddTo(@, MajorOf[l.os], l)]

\* Mutant: the second file of a host is not noticed.
NotNoticed(h) == FALSE
Duplicate(h) == h \in present["files"]

\* Aggregate enters a host before it reads its lines.  A second file of the host
\* ends the report, and the import, whose row in host_meta exists already.
OpenFile(f) ==
    /\ pc = "files"
    /\ f \in listed
    /\ listed' = listed \ {f}
    /\ LET h == HostOf[f] IN
       \/ /\ Duplicate(h)
          /\ pc' = "failed"
          /\ UNCHANGED <<present, agg, at>>
       \/ /\ ~Duplicate(h)
          /\ at' = h
          /\ present' = [present EXCEPT !["files"] = @ \cup {h}]
          /\ agg' = [agg EXCEPT !["files"].host[h] = NewHostAggregate]
          /\ UNCHANGED pc
    /\ UNCHANGED <<lines, fits, loaded, now, tableVars>>

LineCount == FoldFunction(LAMBDA s, n : Len(s) + n, 0, lines)

\* The next valid line; importFile inserts it as a row, unless SQLite has no
\* integer for one of its numbers: then the whole import fails.
ReadLine(l) ==
    /\ pc = "files"
    /\ at # None
    /\ LineCount < MaxLines
    /\ lines' = [lines EXCEPT ![at] = Append(@, l)]
    /\ fits' = (fits /\ l.uptime < Word \div 2 /\ l.boot < Word \div 2)
    /\ agg' = [agg EXCEPT !["files"] = AddLine(@, at, l)]
    /\ UNCHANGED <<listed, loaded, present, at, pc, now, tableVars>>

FilesRead ==
    /\ pc = "files"
    /\ listed = {}
    /\ at' = None
    /\ pc' = IF fits THEN "db" ELSE "ready"
    /\ UNCHANGED <<listed, lines, fits, loaded, present, agg, now, tableVars>>

Unread(h) == DOMAIN lines[h] \ loaded[h]

\* LoadRecords: ORDER BY host, boot_time; rows that tie come in any order.  Hosts
\* come one by one, here as in OpenFile, but whichever comes first.
LoadRow(h, k) ==
    /\ pc = "db"
    /\ k \in Unread(h)
    /\ at # None => h = at \/ Unread(at) = {}
    /\ \A i \in Unread(h) : lines[h][k].boot <= lines[h][i].boot
    /\ at' = h
    /\ loaded' = [loaded EXCEPT ![h] = @ \cup {k}]
    /\ present' = [present EXCEPT !["db"] = @ \cup {h}]
    /\ agg' = [agg EXCEPT !["db"] = AddLine(@, h, lines[h][k])]
    /\ UNCHANGED <<listed, lines, fits, pc, now, tableVars>>

RowsLoaded ==
    /\ pc = "db"
    /\ \A h \in Host : Unread(h) = {}
    /\ at' = None
    /\ pc' = "ready"
    /\ UNCHANGED <<listed, lines, fits, loaded, present, agg, now, tableVars>>

-----------------------------------------------------------------------------
(* One table. *)

\* time.Since(...) < 90 days, with the epoch as a signed number.
IsActive(a, t) == a.last < Word \div 2 /\ t < a.last + ActiveSpan

Lifespan(a) == IF a.last < a.first THEN 0 ELSE a.last - a.first
Downtime(a) == IF a.uptime > Lifespan(a) THEN 0 ELSE Lifespan(a) - a.uptime

Points(a) == a.uptime * 2 + a.boots * Day
MetaScore(a, t) ==
    ((Points(a) + (IF IsActive(a, t) THEN Month ELSE 0)) % Word) \div ScoreUnit
HostScore(a, t) == Downtime(a) \div (2 * ScoreUnit) + MetaScore(a, t)

Map(r) == LET g == agg[r.source] IN
    CASE r.category = "Host" -> g.host
      [] r.category = "Kernel" -> g.kernel
      [] r.category = "KernelName" -> g.name
      [] r.category = "KernelMajor" -> g.major

\* What is in the map: hosts once they are present, others with their first line.
Entries(r) ==
    IF r.category = "Host" THEN present[r.source]
                           ELSE {n \in DOMAIN Map(r) : Map(r)[n].boots > 0}

\* metricExtractors: the value to rank by, and the value to show.
Value(r, n, t) == LET a == Map(r)[n] IN
    CASE r.metric = "Boots" -> a.boots
      [] r.metric = "Uptime" -> a.uptime
      [] r.metric = "Score" -> IF r.category = "Host" THEN HostScore(a, t) ELSE MetaScore(a, t)
      [] r.metric = "Downtime" -> Downtime(a)
      [] r.metric = "Lifespan" -> Lifespan(a)
      [] r.metric = "LastUpdated" -> Updated[n]

\* WriteReports refuses the metrics of hosts for other categories.
Begin(r) ==
    /\ pc = "ready"
    /\ r.source = "db" => fits
    /\ r.category # "Host" => r.metric \notin HostMetrics
    /\ request' = r
    /\ pc' = "keys"
    /\ UNCHANGED <<readVars, now, keys, ranking, table, tables>>

\* A Go map is ranged over in any order.
TakeKey(n) ==
    /\ pc = "keys"
    /\ n \in Entries(request) \ DOMAIN keys
    /\ keys' = [m \in DOMAIN keys \cup {n} |->
                  IF m = n THEN Value(request, n, now) ELSE keys[m]]
    /\ UNCHANGED <<readVars, pc, now, request, ranking, table, tables>>

\* Mutant: the smallest first.
Ascending(a, b) == keys[a] <= keys[b]
InOrder(a, b) == keys[a] >= keys[b]

\* sort.Slice is not stable: entries with equal keys come in any order.
Sort ==
    /\ pc = "keys"
    /\ DOMAIN keys = Entries(request)
    /\ \E s \in Bijection(1 .. Cardinality(DOMAIN keys), DOMAIN keys) :
          /\ \A i, j \in DOMAIN s : i < j => InOrder(s[i], s[j])
          /\ ranking' = s
    /\ pc' = "rows"
    /\ UNCHANGED <<readVars, now, request, keys, table, tables>>

\* hostStatusMarker, and the column of other tables.
Marker(r, n, t) ==
    IF IsActive(Map(r)[n], t) THEN "*"
    ELSE IF r.category = "Host" /\ Updated[n] <= t /\ t < Updated[n] + Day THEN "+"
    ELSE " "

\* Mutant: one row too many.
OneMoreRow == Len(table) < Len(ranking) /\ Len(table) <= Limit
MoreRows == Len(table) < Len(ranking) /\ Len(table) < Limit

\* The marker and the value ask again whether the entry is active.
AddRow ==
    /\ pc = "rows"
    /\ MoreRows
    /\ LET n == ranking[Len(table) + 1]
       IN  table' = Append(table, [name |-> n, marker |-> Marker(request, n, now),
                                   value |-> Value(request, n, now)])
    /\ UNCHANGED <<readVars, pc, now, request, keys, ranking, tables>>

Rendered ==
    /\ pc = "rows"
    /\ ~MoreRows
    /\ pc' = "done"
    /\ UNCHANGED <<readVars, now, tableVars>>

Tick ==
    /\ now < Stop
    /\ pc \in {"keys", "rows"}
    /\ now' = now + 1
    /\ UNCHANGED <<readVars, pc, tableVars>>

-----------------------------------------------------------------------------
(* The tables of -all. *)

P(c, m) == [category |-> c, metric |-> m]

\* defaultStatsOrder
DefaultOrder ==
    <<P("Host", "Uptime"), P("Host", "Lifespan"), P("Host", "Downtime"), P("Host", "Boots"),
      P("Host", "Score"),
      P("KernelMajor", "Boots"), P("KernelMajor", "Uptime"), P("KernelMajor", "Score"),
      P("KernelName", "Boots"), P("KernelName", "Uptime"), P("KernelName", "Score"),
      P("Kernel", "Boots"), P("Kernel", "Uptime"), P("Kernel", "Score"),
      P("Host", "LastUpdated")>>

Unsupported(p) == p.category # "Host" /\ p.metric \in HostMetrics

\* What a loop over s has appended in the end that skips all but the positions in K.
Kept(s, K) ==
    LET upto[i \in 0 .. Len(s)] ==
            IF i = 0 THEN <<>>
            ELSE IF i \in K THEN Append(upto[i - 1], s[i]) ELSE upto[i - 1]
    IN  upto[Len(s)]

\* ParseStatsOrder: blank entries are skipped, but not all of them may be.
Entered(order) == Kept(order, {k \in DOMAIN order : order[k] # None})
Valid(order) ==
    order # <<>> =>
        /\ Entered(order) # <<>>
        /\ \A e \in Range(Entered(order)) : e # Malformed /\ ~Unsupported(e)

\* Mutant: the default order is appended as it is.
KeepAll(order) == order
\* Of equal entries the first.
FirstOnly(order) ==
    Kept(order, {k \in DOMAIN order : \A j \in 1 .. k - 1 : order[j] # order[k]})

StatsOrderList(order) == FirstOnly(Entered(order) \o DefaultOrder)

\* skipPair
Skipped(kernels, p) == (~kernels /\ p.category = "Kernel") \/ Unsupported(p)

TablesOf(order, kernels) ==
    LET list == StatsOrderList(order)
    IN  Kept(list, {k \in DOMAIN list : ~Skipped(kernels, list[k])})

BeginAll(order, kernels) ==
    /\ pc = "ready"
    /\ \/ /\ ~Valid(order)
          /\ pc' = "failed"
          /\ UNCHANGED tables
       \/ /\ Valid(order)
          /\ tables' = [kernels |-> kernels, custom |-> order, pairs |-> TablesOf(order, kernels)]
          /\ pc' = "all"
    /\ UNCHANGED <<readVars, now, oneVars>>

Next ==
    \/ \E f \in File : OpenFile(f)
    \/ \E l \in Lines : ReadLine(l)
    \/ FilesRead
    \/ \E h \in Host : \E k \in DOMAIN lines[h] : LoadRow(h, k)
    \/ RowsLoaded
    \/ \E r \in [source : Sources, category : Categories, metric : Metrics] : Begin(r)
    \/ \E n \in Host \cup Kernel \cup Names \cup Majors : TakeKey(n)
    \/ Sort \/ AddRow \/ Rendered \/ Tick
    \/ \E o \in Orders, k \in BOOLEAN : BeginAll(o, k)

Spec == Init /\ [][Next]_vars

-----------------------------------------------------------------------------
(* Properties. *)

Figures == [uptime : Number, first : Number, last : Number, boots : Nat]
HostFigures == [uptime : Number, first : Number, last : Number, boots : Nat,
                kernel : Kernel \cup {None}, newest : Number]
Maps == [host : [Host -> HostFigures], kernel : [Kernel -> Figures],
         name : [Names -> Figures], major : [Majors -> Figures]]
Row == [name : Host \cup Kernel \cup Names \cup Majors, marker : {"*", "+", " "}, value : Nat]

\* Every variable keeps its type; no number leaves its word, what is ranked are
\* entries of the map, and a table has no more rows than its limit.
TypeOK ==
    /\ listed \subseteq File
    /\ lines \in [Host -> Seq(Lines)]
    /\ fits \in BOOLEAN
    /\ loaded \in [Host -> SUBSET Nat]
    /\ \A h \in Host : loaded[h] \subseteq DOMAIN lines[h]
    /\ present \in [Sources -> SUBSET Host]
    /\ agg \in [Sources -> Maps]
    /\ at \in Host \cup {None}
    /\ pc \in {"files", "db", "ready", "keys", "rows", "done", "all", "failed"}
    /\ now \in Start .. Stop
    /\ request \in [source : Sources, category : Categories, metric : Metrics]
    /\ keys \in [DOMAIN keys -> Nat]
    /\ DOMAIN keys \subseteq Entries(request)
    /\ ranking \in Seq(DOMAIN keys)
    /\ table \in Seq(Row)
    /\ Len(table) <= Len(ranking) /\ Len(table) <= Limit
    /\ tables.kernels \in BOOLEAN /\ tables.custom \in Orders \cup {<<>>}

\* What of a host's lines a source has added so far, as a set of indices; all it
\* has added, as pairs of a host and an index; and what of that counts for an entry.
Added(s, h) == IF s = "files" THEN DOMAIN lines[h] ELSE loaded[h]
Counted(s) == UNION {{h} \X Added(s, h) : h \in Host}
Line(c) == lines[c[1]][c[2]]
EntryOf(r, c) ==
    CASE r.category = "Host" -> c[1]
      [] r.category = "Kernel" -> Line(c).os
      [] r.category = "KernelName" -> NameOf[Line(c).os]
      [] r.category = "KernelMajor" -> MajorOf[Line(c).os]
RecordsOf(r, n) == {c \in Counted(r.source) : EntryOf(r, c) = n}

\* The figures of the entries of a map against their definition over all their
\* records at once, whatever the order of the lines and however the numbers wrap:
\* the last end, the first boot, and of hosts the kernel of a last boot.  The first
\* boot is only defined this way if no boot is at second 0, which AddRecord takes
\* for no boot yet.
FiguresFor(r) ==
    \A n \in DOMAIN Map(r) :
        LET a == Map(r)[n]
            records == RecordsOf(r, n)
        IN  /\ a.last \in {End(Line(c)) : c \in records} \cup {0}
            /\ \A c \in records : End(Line(c)) <= a.last
            /\ records # {} /\ (\A c \in records : Line(c).boot # 0) =>
                  /\ a.first \in {Line(c).boot : c \in records}
                  /\ \A c \in records : a.first <= Line(c).boot
            /\ records # {} /\ r.category = "Host" => \E c \in records :
                  /\ Line(c).os = a.kernel
                  /\ \A d \in records : Line(d).boot <= Line(c).boot

\* Whichever map a table is made from, of hosts or of kernels, from files or from
\* the database: its figures are right.
FiguresRight == FiguresFor(request)

\* The seconds a line covers, and those of all records of a set.
Covers(l) == l.boot .. (l.boot + l.uptime - 1)
Seconds(R) == UNION {{c} \X Covers(Line(c)) : c \in R}

\* In a map every record counts once, with each of its seconds, for its own entry
\* and for no other.
CountsFor(r) ==
    \A n \in DOMAIN Map(r) :
        /\ Map(r)[n].boots = Cardinality(RecordsOf(r, n))
        /\ Map(r)[n].uptime = Cardinality(Seconds(RecordsOf(r, n))) % Word

\* Every record counts once in each table, whichever map it is made from, so that
\* the tables of all categories add up to the same boots and the same uptime.  Two
\* files of one host never get into one report.
EveryBootOnce == CountsFor(request)

\* Records of a host that do not overlap, and whose ends do not wrap.
Disjoint(h) ==
    \A i, j \in DOMAIN lines[h] :
        /\ lines[h][i].boot > 0 /\ lines[h][i].boot + lines[h][i].uptime < Word
        /\ i # j => Covers(lines[h][i]) \cap Covers(lines[h][j]) = {}

\* README.md, "Lifespan: Downtimes plus uptimes".  If the records of a host do
\* not overlap, its downtime is the seconds between them that none covers.
DowntimeIsGaps ==
    \A h \in Host : lines[h] # <<>> /\ Disjoint(h) =>
        LET a == agg["files"].host[h]
            covered == UNION {Covers(lines[h][k]) : k \in DOMAIN lines[h]}
        IN  /\ Downtime(a) = Cardinality((a.first .. a.last - 1) \ covered)
            /\ Lifespan(a) = Downtime(a) + a.uptime

\* No boot at second 0, and no two boots of a host at one second.
Regular(h) ==
    \A i, j \in DOMAIN lines[h] :
        lines[h][i].boot > 0 /\ (i # j => lines[h][i].boot # lines[h][j].boot)

\* integration_test_runner.go, "import/query report differs from in-memory": a
\* report from the database has the figures of a report from the files, although
\* its rows come in another order, except for hosts without a valid line.
SourcesAgree ==
    fits /\ pc \notin {"files", "db", "failed"} =>
        /\ present["db"] = {h \in present["files"] : lines[h] # <<>>}
        /\ \A h \in Host : Regular(h) => agg["db"].host[h] = agg["files"].host[h]
        /\ (\A h \in Host : Regular(h)) => agg["db"] = agg["files"]

\* Points that becoming inactive can cost, and whether no entry has so many that
\* its score wraps, which a file with an absurd uptime could bring about.
Bonus == IF request.metric = "Score" THEN (Month + ScoreUnit - 1) \div ScoreUnit ELSE 0
ScoresFit ==
    request.metric = "Score" =>
        \A n \in Entries(request) : Points(Map(request)[n]) + Month < Word

\* A table has the top entries, each once, ranked by the values it shows.  A score
\* is taken once to sort by and again to show, and the entry may become inactive in
\* between: then it shows up to the bonus less than its place asks for.
TopRanked ==
    LET shown == {table[i].name : i \in DOMAIN table}
        others == Entries(request) \ shown
    IN  /\ Cardinality(shown) = Len(table)
        /\ pc = "done" /\ others # {} => Len(table) = Limit
        /\ ScoresFit =>
              /\ \A i, j \in DOMAIN table : i < j => table[j].value <= table[i].value + Bonus
              /\ pc = "done" => \A n \in others, i \in DOMAIN table :
                    Value(request, n, now) <= table[i].value + Bonus

\* "Generate all possible stats but Kernel" (report_config.go, -all): whatever
\* -stats-order names, once, twice or not at all, every table that WriteReports
\* gives for a category and a metric alone comes exactly once, those that the
\* order names first and as it names them.
AllTablesOnce ==
    pc = "all" =>
        LET pairs == tables.pairs
            wanted == {p \in Pair : /\ p.category # "Host" => p.metric \notin HostMetrics
                                    /\ p.category = "Kernel" => tables.kernels}
            mentions(p) == {k \in DOMAIN tables.custom : tables.custom[k] = p}
            before(p, q) == \E k \in mentions(p) : \A l \in mentions(q) : k < l
        IN  /\ Range(pairs) = wanted
            /\ Len(pairs) = Cardinality(wanted)
            /\ \A i, j \in DOMAIN pairs :
                  i < j /\ mentions(pairs[j]) # {} => before(pairs[i], pairs[j])
=============================================================================
