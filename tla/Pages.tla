------------------------------- MODULE Pages -------------------------------
(***************************************************************************)
(* GET / and GET /report (internal/daemon/daemon.go): pages computed from  *)
(* the stats directory by Aggregate (internal/goprecords/aggregate.go),     *)
(* which lists the directory, reads the class files and then opens every    *)
(* listed file twice, while clients upload.  GET / keeps its last page in  *)
(* htmlCache for ttl; requests run concurrently and share the cache.        *)
(*                                                                          *)
(* A records file is its version, which stands for its content and for its *)
(* modification time; files are never removed, and may be empty.  Of the    *)
(* cache lock only the atomicity of get and set matters.                    *)
(***************************************************************************)
EXTENDS Naturals

CONSTANTS
    Host,
    Req,        \* requests in progress at once
    TTL,        \* rootReportCacheTTL, in ticks of the clock
    MaxTime,    \* bound of the clock
    MaxVersion  \* bound: uploads of each host's records file

ASSUME BoundAssumption == TTL \in Nat /\ MaxTime \in Nat /\ MaxVersion \in Nat

Time == 0 .. MaxTime
Version == 0 .. MaxVersion   \* 0: no file yet
Stages == {"idle", "lookup", "list", "stat", "kernel", "records", "store", "send"}
\* What a page says of a host: the version that its date is of, the one its kernel is
\* of, and the one whose records it shows.  A host with updated = 0 is not on the page:
\* it shows the records of an empty version, or none.
Line == [updated : Version, kernel : Version, records : Version]
Blank == [updated |-> 0, kernel |-> 0, records |-> 0]
Pages == [Host -> Line]
EmptyPage == [h \in Host |-> Blank]

VARIABLES
    now,      \* the clock
    file,     \* the version of each records file
    empty,    \* the hosts whose records file is empty
    past,     \* history: the files when the clock came to each time
    filled,   \* htmlCache: body # nil
    body,     \* htmlCache: the page
    expires,  \* htmlCache: until when it is served
    lost,     \* history: the hosts whose Stat failed when that page was made
    pc,       \* the next step of each request
    cached,   \* GET / rather than GET /report
    current,  \* now() when GET / began, or the clock when GET /report did
    todo,     \* the files it has not looked at, or read, yet
    host,     \* the host whose records it reads next
    page,     \* the page it builds or serves
    missed    \* history: the hosts whose Stat failed when that was made

cacheVars == <<filled, body, expires, lost>>
localVars == <<pc, cached, current, todo, host, page, missed>>
vars == <<now, file, empty, past, cacheVars, localVars>>

NoFiles == [h \in Host |-> 0]

Init ==
    /\ now = 0
    /\ file = NoFiles
    /\ empty = {}
    /\ past = [t \in Time |-> NoFiles]
    /\ filled = FALSE
    /\ body = EmptyPage
    /\ expires = 0
    /\ lost = {}
    /\ pc = [r \in Req |-> "idle"]
    /\ cached \in [Req -> BOOLEAN]
    /\ current = [r \in Req |-> 0]
    /\ todo = [r \in Req |-> {}]
    /\ host \in [Req -> Host]
    /\ page = [r \in Req |-> EmptyPage]
    /\ missed = [r \in Req |-> {}]

-----------------------------------------------------------------------------
Tick ==
    /\ now < MaxTime
    /\ now' = now + 1
    /\ past' = [past EXCEPT ![now + 1] = file]
    /\ UNCHANGED <<file, empty, cacheVars, localVars>>

Upload(h) ==
    /\ file[h] < MaxVersion
    /\ file' = [file EXCEPT ![h] = @ + 1]
    /\ \/ empty' = empty \cup {h}
       \/ empty' = empty \ {h}
    /\ UNCHANGED <<now, past, cacheVars, localVars>>

Goto(r, stage) == pc' = [pc EXCEPT ![r] = stage]

\* The handler returns, with a page or with an error.
Return(r) ==
    /\ Goto(r, "idle")
    /\ current' = [current EXCEPT ![r] = 0]
    /\ todo' = [todo EXCEPT ![r] = {}]
    /\ page' = [page EXCEPT ![r] = EmptyPage]
    /\ missed' = [missed EXCEPT ![r] = {}]
    /\ UNCHANGED <<now, file, empty, past, cached, host>>

\* GET / reads the clock before it looks into the cache.
GetRoot(r) ==
    /\ pc[r] = "idle"
    /\ Goto(r, "lookup")
    /\ cached' = [cached EXCEPT ![r] = TRUE]
    /\ current' = [current EXCEPT ![r] = now]
    /\ UNCHANGED <<now, file, empty, past, cacheVars, todo, host, page, missed>>

GetReport(r) ==
    /\ pc[r] = "idle"
    /\ Goto(r, "list")
    /\ cached' = [cached EXCEPT ![r] = FALSE]
    /\ current' = [current EXCEPT ![r] = now]
    /\ UNCHANGED <<now, file, empty, past, cacheVars, todo, host, page, missed>>

Valid(t) == filled /\ t <= expires

\* htmlCache.get copies the page.
Hit(r) ==
    /\ pc[r] = "lookup"
    /\ Valid(current[r])
    /\ page' = [page EXCEPT ![r] = body]
    /\ missed' = [missed EXCEPT ![r] = lost]
    /\ Goto(r, "send")
    /\ UNCHANGED <<now, file, empty, past, cacheVars, cached, current, todo, host>>

Miss(r) ==
    /\ pc[r] = "lookup"
    /\ ~Valid(current[r])
    /\ Goto(r, "list")
    /\ UNCHANGED <<now, file, empty, past, cacheVars, cached, current, todo, host, page, missed>>

-----------------------------------------------------------------------------
(* Aggregate and WriteReports. *)

\* ListNonEmptyFilesFS reads the directory ...
ListFiles(r) ==
    /\ pc[r] = "list"
    /\ todo' = [todo EXCEPT ![r] = {h \in Host : file[h] # 0}]
    /\ Goto(r, "stat")
    /\ UNCHANGED <<now, file, empty, past, cacheVars, cached, current, host, page, missed>>

\* ... and then looks at one file after the other: LastUpdated is the time it finds.
StatFile(r, h) ==
    /\ pc[r] = "stat"
    /\ h \in todo[r] \ empty
    /\ todo' = [todo EXCEPT ![r] = @ \ {h}]
    /\ page' = [page EXCEPT ![r][h].updated = file[h]]
    /\ UNCHANGED <<now, file, empty, past, cacheVars, pc, cached, current, host, missed>>

\* The file is empty: the host is not listed.
LeaveOut(r, h) ==
    /\ pc[r] = "stat"
    /\ h \in todo[r] \cap empty
    /\ todo' = [todo EXCEPT ![r] = @ \ {h}]
    /\ page' = [page EXCEPT ![r][h].records = file[h]]
    /\ UNCHANGED <<now, file, empty, past, cacheVars, pc, cached, current, host, missed>>

\* fs.Stat fails: the host is not listed either, and nobody is told.
StatFails(r, h) ==
    /\ pc[r] = "stat"
    /\ h \in todo[r]
    /\ todo' = [todo EXCEPT ![r] = @ \ {h}]
    /\ missed' = [missed EXCEPT ![r] = @ \cup {h}]
    /\ UNCHANGED <<now, file, empty, past, cacheVars, pc, cached, current, host, page>>

\* The class files are read here, too.
Listed(r) ==
    /\ pc[r] = "stat"
    /\ todo[r] = {}
    /\ todo' = [todo EXCEPT ![r] = {h \in Host : page[r][h].updated # 0}]
    /\ Goto(r, "kernel")
    /\ UNCHANGED <<now, file, empty, past, cacheVars, cached, current, host, page, missed>>

\* lastKernelFromFile opens the file of the next host ...
ReadKernel(r, h) ==
    /\ pc[r] = "kernel"
    /\ h \in todo[r]
    /\ todo' = [todo EXCEPT ![r] = @ \ {h}]
    /\ host' = [host EXCEPT ![r] = h]
    /\ page' = [page EXCEPT ![r][h].kernel = file[h]]
    /\ Goto(r, "records")
    /\ UNCHANGED <<now, file, empty, past, cacheVars, cached, current, missed>>

\* Mutant: the records are not read again.
FromListing(r) == page[r][host[r]].updated
FromFile(r) == file[host[r]]

\* ... and processRecordsFile opens it again.
ReadRecords(r) ==
    /\ pc[r] = "records"
    /\ page' = [page EXCEPT ![r][host[r]].records = FromFile(r)]
    /\ Goto(r, "kernel")
    /\ UNCHANGED <<now, file, empty, past, cacheVars, cached, current, todo, host, missed>>

Rendered(r) ==
    /\ pc[r] = "kernel"
    /\ todo[r] = {}
    /\ Goto(r, IF cached[r] THEN "store" ELSE "send")
    /\ UNCHANGED <<now, file, empty, past, cacheVars, cached, current, todo, host, page, missed>>

\* A file cannot be read, or the client has gone (r.Context()).
RenderFails(r) ==
    /\ pc[r] \in {"list", "stat", "kernel", "records"}
    /\ Return(r)
    /\ UNCHANGED cacheVars

\* Mutant: the ttl is added twice.
ExpiryTwice(r) == current[r] + TTL + TTL
\* Mutant: the lifetime of a page starts when it is rendered.
ExpiryFromNow(r) == now + TTL
Expiry(r) == current[r] + TTL

\* htmlCache.set: whoever is last replaces the page and its expiry.
Store(r) ==
    /\ pc[r] = "store"
    /\ filled' = TRUE
    /\ body' = page[r]
    /\ expires' = Expiry(r)
    /\ lost' = missed[r]
    /\ Goto(r, "send")
    /\ UNCHANGED <<now, file, empty, past, cached, current, todo, host, page, missed>>

Send(r) ==
    /\ pc[r] = "send"
    /\ Return(r)
    /\ UNCHANGED cacheVars

Handle(r) ==
    \/ Hit(r) \/ Miss(r)
    \/ ListFiles(r) \/ Listed(r)
    \/ \E h \in Host : StatFile(r, h) \/ LeaveOut(r, h) \/ StatFails(r, h)
    \/ (\E h \in Host : ReadKernel(r, h)) \/ ReadRecords(r)
    \/ Rendered(r) \/ RenderFails(r) \/ Store(r) \/ Send(r)

Next ==
    \/ Tick
    \/ \E h \in Host : Upload(h)
    \/ \E r \in Req : GetRoot(r) \/ GetReport(r) \/ Handle(r)

Spec == Init /\ [][Next]_vars

-----------------------------------------------------------------------------
(* Properties. *)

\* Every variable keeps its type; a page is never cached beyond its ttl.
TypeOK ==
    /\ now \in Time
    /\ file \in [Host -> Version]
    /\ empty \subseteq Host
    /\ past \in [Time -> [Host -> Version]]
    /\ filled \in BOOLEAN
    /\ body \in Pages
    /\ expires \in 0 .. now + TTL
    /\ lost \subseteq Host
    /\ pc \in [Req -> Stages]
    /\ cached \in [Req -> BOOLEAN]
    /\ current \in [Req -> 0 .. now]
    /\ todo \in [Req -> SUBSET Host]
    /\ host \in [Req -> Host]
    /\ page \in [Req -> Pages]
    /\ missed \in [Req -> SUBSET Host]

\* rootReportCacheTTL: of every host whose Stat did not fail when it was made, a page
\* shows every upload that was there ttl before its request began (GET /report:
\* when its request began), however long it took to render and whichever of several
\* overlapping renderings was stored last.
Shows(p, gone, files) == \A h \in Host \ gone : files[h] <= p[h].records

FreshEnough ==
    \A r \in Req : pc[r] = "send" =>
        IF cached[r] THEN current[r] >= TTL => Shows(page[r], missed[r], past[current[r] - TTL])
                     ELSE Shows(page[r], missed[r], past[current[r]])

\* A page never claims that a host was updated later than the records it
\* shows, nor a newer kernel, although each is read at a moment of its own.
NeverPostdated ==
    \A r \in Req : pc[r] = "send" =>
        \A h \in Host : /\ page[r][h].updated <= page[r][h].kernel
                        /\ page[r][h].kernel <= page[r][h].records
=============================================================================
