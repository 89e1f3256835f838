----------------------------- MODULE Exclusion -----------------------------
(***************************************************************************)
(* Hosts that an operator excludes from alerts (internal/storage/db.go,    *)
(* table excluded_host; commands exclude and unexclude) and the /metrics    *)
(* endpoint (internal/daemon/metrics.go), which labels each host excluded  *)
(* or not and lifts the exclusion of a host that uploads again.  Scrapes   *)
(* run concurrently with each other, with uploads and with the operator.   *)
(* An upload may have an empty body; the listing of /metrics leaves empty   *)
(* files out (internal/recordsdir).                                         *)
(* Times are in seconds, as in the database and in fi.ModTime().Unix().    *)
(***************************************************************************)
EXTENDS Naturals

CONSTANTS
    Host,    \* hosts that may have a records file
    Scrape,  \* scrapes in progress at once
    Regular, \* the one among them that comes again and again
    MaxTime  \* bound of the clock

Never == 0   \* no file, no exclusion

ASSUME TimeAssumption == MaxTime \in Nat \ {Never}

ASSUME RegularAssumption == Regular \in Scrape

Time == 0 .. MaxTime
Stages == {"idle", "stat", "open", "load", "next", "resolve"}
Labels == {"none", "false", "true"}

VARIABLES
    now,       \* the clock, from 1 on
    written,   \* when the upload in progress wrote its temp, or Never
    mtime,     \* modification time of HOST.records, or Never
    emptyTemp, \* the hosts whose temp is empty ...
    empty,     \* ... and those whose HOST.records is
    excluded,  \* excluded_at of the host's row in excluded_host, or Never
    pc,        \* the next step of each scrape
    names,     \* files in the directory whose size it has not looked at yet
    entries,   \* hosts listed and not yet looked at
    hasDB,     \* db # nil
    seen,      \* the map of exclusions it loaded
    host,      \* the host it is looking at
    fileTime,  \* the modification time it read for that host
    label,     \* the metrics written so far: label excluded of each host
    silent     \* history: the excluded hosts without newer upload at the load

hostVars == <<now, written, mtime, emptyTemp, empty>>
localVars == <<pc, names, entries, hasDB, seen, host, fileTime, label, silent>>
vars == <<hostVars, excluded, localVars>>

Nobody == [h \in Host |-> Never]
NoLabels == [h \in Host |-> "none"]

Init ==
    /\ now = 1
    /\ written = Nobody
    /\ mtime = Nobody
    /\ emptyTemp = {}
    /\ empty = {}
    /\ excluded = Nobody
    /\ pc = [s \in Scrape |-> "idle"]
    /\ names = [s \in Scrape |-> {}]
    /\ entries = [s \in Scrape |-> {}]
    /\ hasDB = [s \in Scrape |-> FALSE]
    /\ seen = [s \in Scrape |-> Nobody]
    /\ host \in [Scrape -> Host]
    /\ fileTime = [s \in Scrape |-> Never]
    /\ label = [s \in Scrape |-> NoLabels]
    /\ silent = [s \in Scrape |-> {}]

-----------------------------------------------------------------------------
(* Uploads and the operator. *)

Tick ==
    /\ now < MaxTime
    /\ now' = now + 1
    /\ UNCHANGED <<written, mtime, emptyTemp, empty, excluded, localVars>>

\* writeUploadBody writes its temp, whose modification time the rename keeps;
\* a host's client sends one file at a time.
WriteTemp(h) ==
    /\ written[h] = Never
    /\ written' = [written EXCEPT ![h] = now]
    /\ emptyTemp' \in {emptyTemp, emptyTemp \cup {h}}
    /\ UNCHANGED <<now, mtime, empty, excluded, localVars>>

Publish(h) ==
    /\ written[h] # Never
    /\ mtime' = [mtime EXCEPT ![h] = written[h]]
    /\ empty' = IF h \in emptyTemp THEN empty \cup {h} ELSE empty \ {h}
    /\ written' = [written EXCEPT ![h] = Never]
    /\ emptyTemp' = emptyTemp \ {h}
    /\ UNCHANGED <<now, excluded, localVars>>

FailUpload(h) ==
    /\ written[h] # Never
    /\ written' = [written EXCEPT ![h] = Never]
    /\ emptyTemp' = emptyTemp \ {h}
    /\ UNCHANGED <<now, mtime, empty, excluded, localVars>>

\* Mutant: the time of the exclusion is taken a second late.
NextSecond == now + 1
ExcludedAt == now

\* INSERT OR REPLACE: excluding a host again renews excluded_at.
AddExcludedHost(h) ==
    /\ excluded' = [excluded EXCEPT ![h] = ExcludedAt]
    /\ UNCHANGED <<hostVars, localVars>>

Unexclude(h) ==
    /\ excluded[h] # Never
    /\ excluded' = [excluded EXCEPT ![h] = Never]
    /\ UNCHANGED <<hostVars, localVars>>

-----------------------------------------------------------------------------
(* buildMetrics. *)

Goto(s, stage) == pc' = [pc EXCEPT ![s] = stage]

\* The handler returns, with an answer or an error; its variables are gone.
Return(s) ==
    /\ Goto(s, "idle")
    /\ names' = [names EXCEPT ![s] = {}]
    /\ entries' = [entries EXCEPT ![s] = {}]
    /\ hasDB' = [hasDB EXCEPT ![s] = FALSE]
    /\ seen' = [seen EXCEPT ![s] = Nobody]
    /\ label' = [label EXCEPT ![s] = NoLabels]
    /\ silent' = [silent EXCEPT ![s] = {}]
    /\ UNCHANGED <<hostVars, excluded, host, fileTime>>

\* ListNonEmptyFiles reads the directory (an error there answers 500 and changes
\* nothing) ...
ListNames(s) ==
    /\ pc[s] = "idle"
    /\ names' = [names EXCEPT ![s] = {h \in Host : mtime[h] # Never}]
    /\ Goto(s, "stat")
    /\ UNCHANGED <<hostVars, excluded, entries, hasDB, seen, host, fileTime, label, silent>>

\* ... and then looks at the size of one file after the other.
ListRecords(s, h) ==
    /\ pc[s] = "stat"
    /\ h \in names[s] \ empty
    /\ names' = [names EXCEPT ![s] = @ \ {h}]
    /\ entries' = [entries EXCEPT ![s] = @ \cup {h}]
    /\ UNCHANGED <<hostVars, excluded, pc, hasDB, seen, host, fileTime, label, silent>>

\* The file is empty, or fs.Stat fails: the host is not listed, and nobody is told.
LeaveOut(s, h) ==
    /\ pc[s] = "stat"
    /\ h \in names[s]
    /\ names' = [names EXCEPT ![s] = @ \ {h}]
    /\ UNCHANGED <<hostVars, excluded, pc, entries, hasDB, seen, host, fileTime, label, silent>>

Listed(s) ==
    /\ pc[s] = "stat"
    /\ names[s] = {}
    /\ Goto(s, "open")
    /\ UNCHANGED <<hostVars, excluded, names, entries, hasDB, seen, host, fileTime, label, silent>>

\* openMetricsDB gives nil on any error.
OpenDB(s, ok) ==
    /\ pc[s] = "open"
    /\ hasDB' = [hasDB EXCEPT ![s] = ok]
    /\ Goto(s, "load")
    /\ UNCHANGED <<hostVars, excluded, names, entries, seen, host, fileTime, label, silent>>

IsSilent(h) == excluded[h] # Never /\ mtime[h] <= excluded[h]

LoadExcluded(s) ==
    /\ pc[s] = "load"
    /\ seen' = [seen EXCEPT ![s] = IF hasDB[s] THEN excluded ELSE Nobody]
    /\ silent' = [silent EXCEPT ![s] = {h \in Host : IsSilent(h)}]
    /\ Goto(s, "next")
    /\ UNCHANGED <<hostVars, excluded, names, entries, hasDB, host, fileTime, label>>

\* LoadExcludedHosts fails: the scrape is answered 500.
LoadFails(s) ==
    /\ pc[s] = "load"
    /\ hasDB[s]
    /\ Return(s)

StatRecords(s, h) ==
    /\ pc[s] = "next"
    /\ h \in entries[s]
    /\ entries' = [entries EXCEPT ![s] = @ \ {h}]
    /\ host' = [host EXCEPT ![s] = h]
    /\ fileTime' = [fileTime EXCEPT ![s] = mtime[h]]
    /\ Goto(s, "resolve")
    /\ UNCHANGED <<hostVars, excluded, names, hasDB, seen, label, silent>>

\* recordsMtime fails: the host gets no line.
SkipHost(s, h) ==
    /\ pc[s] = "next"
    /\ h \in entries[s]
    /\ entries' = [entries EXCEPT ![s] = @ \ {h}]
    /\ UNCHANGED <<hostVars, excluded, names, pc, hasDB, seen, host, fileTime, label, silent>>

\* writeHostMetric, and on to the next entry.
WriteLabel(s, l) ==
    /\ label' = [label EXCEPT ![s][host[s]] = l]
    /\ fileTime' = [fileTime EXCEPT ![s] = Never]
    /\ Goto(s, "next")
    /\ UNCHANGED <<hostVars, names, entries, hasDB, seen, host, silent>>

\* Mutant: a host counts as back only after a grace period.
LongAfter(t, at) == t > at + 1
Newer(t, at) == t > at

\* Mutant: the exclusion is only ignored, never removed.
KeepExcluded(h) == UNCHANGED excluded
\* DELETE FROM excluded_host WHERE host = ?
RemoveExcludedHost(h) == excluded' = [excluded EXCEPT ![h] = Never]

NotExcluded(s) ==
    /\ pc[s] = "resolve"
    /\ seen[s][host[s]] = Never
    /\ WriteLabel(s, "false")
    /\ UNCHANGED excluded

Lift(s) ==
    /\ pc[s] = "resolve"
    /\ seen[s][host[s]] # Never
    /\ Newer(fileTime[s], seen[s][host[s]])
    /\ RemoveExcludedHost(host[s])
    /\ WriteLabel(s, "false")

\* The error of RemoveExcludedHost is ignored.
LiftFails(s) ==
    /\ pc[s] = "resolve"
    /\ seen[s][host[s]] # Never
    /\ Newer(fileTime[s], seen[s][host[s]])
    /\ WriteLabel(s, "false")
    /\ UNCHANGED excluded

StillExcluded(s) ==
    /\ pc[s] = "resolve"
    /\ seen[s][host[s]] # Never
    /\ ~Newer(fileTime[s], seen[s][host[s]])
    /\ WriteLabel(s, "true")
    /\ UNCHANGED excluded

Answer(s) ==
    /\ pc[s] = "next"
    /\ entries[s] = {}
    /\ Return(s)

ScrapeStep(s) ==
    \/ ListNames(s) \/ Listed(s)
    \/ \E h \in Host : ListRecords(s, h) \/ LeaveOut(s, h)
    \/ \E ok \in BOOLEAN : OpenDB(s, ok)
    \/ LoadExcluded(s) \/ LoadFails(s)
    \/ \E h \in Host : StatRecords(s, h) \/ SkipHost(s, h)
    \/ NotExcluded(s) \/ Lift(s) \/ LiftFails(s) \/ StillExcluded(s)
    \/ Answer(s)

Next ==
    \/ Tick
    \/ \E h \in Host : \/ WriteTemp(h) \/ Publish(h) \/ FailUpload(h)
                       \/ AddExcludedHost(h) \/ Unexclude(h)
    \/ \E s \in Scrape : ScrapeStep(s)

Spec == Init /\ [][Next]_vars

\* Prometheus scrapes again and again, and no error is permanent: of its scrapes
\* that get as far as a step with a host, some get past it.  Nothing is asked of
\* other scrapes.
FairSpec ==
    /\ Spec
    /\ WF_vars(ScrapeStep(Regular))
    /\ \A h \in Host :
          /\ SF_vars(ListRecords(Regular, h))
          /\ SF_vars(h \in entries[Regular] /\ OpenDB(Regular, TRUE))
          /\ SF_vars(h \in entries[Regular] /\ hasDB[Regular] /\ LoadExcluded(Regular))
          /\ SF_vars(hasDB[Regular] /\ StatRecords(Regular, h))
          /\ SF_vars(host[Regular] = h /\ Lift(Regular))

-----------------------------------------------------------------------------
(* Properties. *)

\* Every variable keeps its type; no time lies after the clock.
TypeOK ==
    /\ now \in Time \ {Never}
    /\ written \in [Host -> 0 .. now]
    /\ mtime \in [Host -> 0 .. now]
    /\ emptyTemp \subseteq Host
    /\ empty \subseteq Host
    /\ excluded \in [Host -> 0 .. now]
    /\ pc \in [Scrape -> Stages]
    /\ names \in [Scrape -> SUBSET Host]
    /\ entries \in [Scrape -> SUBSET Host]
    /\ hasDB \in [Scrape -> BOOLEAN]
    /\ seen \in [Scrape -> [Host -> 0 .. now]]
    /\ host \in [Scrape -> Host]
    /\ fileTime \in [Scrape -> 0 .. now]
    /\ label \in [Scrape -> [Host -> Labels]]
    /\ silent \in [Scrape -> SUBSET Host]

\* An alert is suppressed only with reason: when a scrape labels a host as
\* excluded, then at the moment it loaded the exclusions that host was excluded
\* and its records file was not newer, although the file is looked at later
\* and uploads, the operator and other scrapes go on meanwhile.
HiddenOnlyIfSilent ==
    \A s \in Scrape, h \in Host : label[s][h] = "true" => h \in silent[s]

\* Of an empty records file the listing takes no notice, however new it is.
BackAgain(h) == excluded[h] # Never /\ mtime[h] > excluded[h] /\ h \notin empty

\* README.md, Auto-unexclude: the exclusion of a host whose records file has
\* become newer, and is not empty, goes away without manual intervention, though
\* each scrape may overlook the file or fail, and ignores the error of its DELETE.
FreedEventually == \A h \in Host : BackAgain(h) ~> ~BackAgain(h)

-----------------------------------------------------------------------------
(* What the documentation says that the code does not do. *)

\* README.md, Auto-unexclude: a scrape removes an exclusion because the records
\* file has become newer than its excluded_at.
LiftedOnlyIfNewer ==
    [][\A s \in Scrape : pc[s] = "resolve" /\ pc'[s] # "resolve" =>
          \A h \in Host : excluded[h] # Never /\ excluded'[h] = Never
                => mtime[h] > excluded[h]]_vars
=============================================================================
