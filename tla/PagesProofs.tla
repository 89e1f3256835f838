----------------------------- MODULE PagesProofs -----------------------------
(***************************************************************************)
(* The safety properties of Pages, for every set of hosts and requests and *)
(* every lifetime of the cache.  A page is fresh enough because the time in *)
(* its expiry was read before the directory: the invariant says of a cached *)
(* page that it shows all that was there ttl before it expires.            *)
(***************************************************************************)
EXTENDS Pages, TLAPS

\* Files only get newer, and the history records that.
HistoryInv ==
    /\ \A t \in Time, h \in Host : past[t][h] <= file[h]
    /\ \A t, u \in 0 .. now : t <= u => \A h \in Host : past[t][h] <= past[u][h]

InOrder(p) ==
    \A h \in Host : p[h].updated <= p[h].kernel /\ p[h].kernel <= p[h].records

CacheInv ==
    filled => TTL <= expires /\ Shows(body, lost, past[expires - TTL]) /\ InOrder(body)

\* The hosts a request has finished, and how far it is with the other listed ones.
Finished(r) == {h \in Host : h \notin todo[r] /\ ~(pc[r] = "records" /\ host[r] = h)}

\* The hosts that will not be read: they have no file, an empty one, or their Stat failed.
LookedAt(r, h) == h \notin todo[r] /\ page[r][h].updated = 0

\* Nothing of h that was there when the request began is missing.
Accounted(r, h) == h \in missed[r] \/ past[current[r]][h] <= page[r][h].records

\* What a request knows of the page it builds, stores or sends.
Good(r) ==
    /\ pc[r] \in {"idle", "lookup", "list"} => page[r] = EmptyPage
    /\ pc[r] = "stat" =>
          \A h \in Host : /\ page[r][h].updated <= file[h] /\ page[r][h].kernel = 0
                          /\ LookedAt(r, h) => Accounted(r, h)
    /\ pc[r] \in {"kernel", "records"} =>
          /\ \A h \in Host : page[r][h].updated <= file[h]
          /\ \A h \in Finished(r) : /\ page[r][h].updated <= page[r][h].kernel
                                    /\ page[r][h].kernel <= page[r][h].records
                                    /\ Accounted(r, h)
    /\ pc[r] = "records" => /\ page[r][host[r]].updated <= page[r][host[r]].kernel
                            /\ page[r][host[r]].kernel <= file[host[r]]
    /\ pc[r] \in {"lookup", "store"} => cached[r]
    /\ pc[r] = "store" => Shows(page[r], missed[r], past[current[r]])
    /\ pc[r] \in {"store", "send"} => InOrder(page[r])
    /\ pc[r] = "send" =>
          IF cached[r] THEN current[r] >= TTL => Shows(page[r], missed[r], past[current[r] - TTL])
                       ELSE Shows(page[r], missed[r], past[current[r]])

IInv == TypeOK /\ HistoryInv /\ CacheInv /\ \A r \in Req : Good(r)

USE BoundAssumption DEF Time, Version, Stages, NoFiles, Goto

-----------------------------------------------------------------------------
(* Lines and pages. *)

\* A line of which one part is read is a line, with its other parts as before.
LEMMA LineParts ==
    ASSUME NEW l \in Line, NEW v \in Version
    PROVE  /\ l.updated \in Nat /\ l.kernel \in Nat /\ l.records \in Nat
           /\ [l EXCEPT !.updated = v] \in Line
           /\ [l EXCEPT !.kernel = v] \in Line
           /\ [l EXCEPT !.records = v] \in Line
  BY DEF Line

\* A page with another line for one host is a page.
LEMMA PageParts ==
    ASSUME NEW p \in Pages, NEW h \in Host, NEW l \in Line
    PROVE  [p EXCEPT ![h] = l] \in Pages
  BY DEF Pages

\* The page that shows no host is a page.
LEMMA EmptyIsPage == Blank \in Line /\ EmptyPage \in Pages
  BY DEF Blank, Line, EmptyPage, Pages

\* The parts of a page are numbers.
LEMMA PageNumbers ==
    ASSUME NEW p \in Pages, NEW h \in Host
    PROVE  p[h] \in Line /\ p[h].updated \in Nat /\ p[h].kernel \in Nat /\ p[h].records \in Nat
<1>1. p[h] \in Line
  BY DEF Pages
<1> QED BY <1>1 DEF Line

-----------------------------------------------------------------------------
(* Types. *)

\* No file, no page and no request at the start.
LEMMA InitIInv == Init => IInv
<1> SUFFICES ASSUME Init PROVE IInv
  OBVIOUS
<1>1. TypeOK
  <2>1. now \in Time /\ expires \in 0 .. now + TTL /\ 0 \in 0 .. now
    BY DEF Init
  <2>2. body \in Pages /\ page \in [Req -> Pages]
    BY EmptyIsPage DEF Init
  <2>3. file \in [Host -> Version] /\ past \in [Time -> [Host -> Version]]
    BY DEF Init
  <2>4. current \in [Req -> 0 .. now]
    BY <2>1 DEF Init
  <2>5. /\ pc \in [Req -> Stages] /\ todo \in [Req -> SUBSET Host]
        /\ missed \in [Req -> SUBSET Host]
    BY DEF Init
  <2> QED BY <2>1, <2>2, <2>3, <2>4, <2>5 DEF Init, TypeOK
<1>2. HistoryInv
  BY DEF HistoryInv, Init
<1>3. CacheInv /\ \A r \in Req : Good(r)
  BY DEF CacheInv, Good, Init
<1> QED BY <1>1, <1>2, <1>3 DEF IInv

\* No step of a request, an upload or the clock breaks a type.
LEMMA TypeStep == TypeOK /\ [Next]_vars => TypeOK'
<1> SUFFICES ASSUME TypeOK, [Next]_vars PROVE TypeOK'
  OBVIOUS
<1> USE DEF cacheVars, localVars
<1>0. CASE UNCHANGED vars
  BY <1>0 DEF TypeOK, vars
<1>1. CASE Tick
  <2>1. now' \in Time /\ 0 .. now \subseteq 0 .. now' /\ 0 .. now + TTL \subseteq 0 .. now' + TTL
    BY <1>1 DEF Tick, TypeOK
  <2>2. past' \in [Time -> [Host -> Version]]
    BY <1>1 DEF Tick, TypeOK
  <2>3. current' \in [Req -> 0 .. now']
    BY <1>1, <2>1 DEF Tick, TypeOK
  <2>4. expires' \in 0 .. now' + TTL
    BY <1>1, <2>1 DEF Tick, TypeOK
  <2> QED BY <1>1, <2>1, <2>2, <2>3, <2>4 DEF Tick, TypeOK
<1>2. ASSUME NEW h \in Host, Upload(h) PROVE TypeOK'
  <2>1. file' \in [Host -> Version]
    BY <1>2 DEF Upload, TypeOK
  <2> QED BY <1>2, <2>1 DEF Upload, TypeOK
<1>3. ASSUME NEW r \in Req, GetRoot(r) \/ GetReport(r) PROVE TypeOK'
  <2>1. now \in 0 .. now
    BY DEF TypeOK
  <2>2. current' \in [Req -> 0 .. now']
    BY <1>3, <2>1 DEF GetRoot, GetReport, TypeOK
  <2>3. pc' \in [Req -> Stages] /\ cached' \in [Req -> BOOLEAN]
    BY <1>3 DEF GetRoot, GetReport, TypeOK
  <2> QED BY <1>3, <2>2, <2>3 DEF GetRoot, GetReport, TypeOK
<1>4. ASSUME NEW r \in Req, Hit(r) \/ Miss(r) PROVE TypeOK'
  BY <1>4 DEF Hit, Miss, TypeOK
<1>5. ASSUME NEW r \in Req, ListFiles(r) \/ Listed(r) PROVE TypeOK'
  <2>1. pc' \in [Req -> Stages]
    BY <1>5 DEF ListFiles, Listed, TypeOK
  <2>2. PICK S \in SUBSET Host : todo' = [todo EXCEPT ![r] = S]
    <3>1. CASE ListFiles(r)
      BY <3>1 DEF ListFiles
    <3>2. CASE Listed(r)
      BY <3>2 DEF Listed
    <3> QED BY <1>5, <3>1, <3>2
  <2>3. todo' \in [Req -> SUBSET Host]
    BY <2>2 DEF TypeOK
  <2> QED BY <1>5, <2>1, <2>3 DEF ListFiles, Listed, TypeOK
<1>6. ASSUME NEW r \in Req, NEW h \in Host, ReadKernel(r, h) PROVE TypeOK'
  <2> DEFINE l == [page[r][h] EXCEPT !.kernel = file[h]]
  <2>1. l \in Line
    <3>1. page[r][h] \in Line /\ file[h] \in Version
      BY PageNumbers DEF TypeOK
    <3> QED BY <3>1, LineParts
  <2>2. page' = [page EXCEPT ![r] = [page[r] EXCEPT ![h] = l]]
    BY <1>6 DEF ReadKernel
  <2> HIDE DEF l
  <2>3. page' \in [Req -> Pages]
    BY <2>1, <2>2, PageParts DEF TypeOK
  <2>4. pc' \in [Req -> Stages] /\ todo' \in [Req -> SUBSET Host] /\ host' \in [Req -> Host]
    BY <1>6 DEF ReadKernel, TypeOK
  <2> QED BY <1>6, <2>3, <2>4 DEF ReadKernel, TypeOK
<1>7. ASSUME NEW r \in Req, ReadRecords(r) PROVE TypeOK'
  <2> DEFINE l == [page[r][host[r]] EXCEPT !.records = file[host[r]]]
  <2>1. l \in Line
    <3>1. page[r][host[r]] \in Line /\ file[host[r]] \in Version
      BY PageNumbers DEF TypeOK
    <3> QED BY <3>1, LineParts
  <2>2. page' = [page EXCEPT ![r] = [page[r] EXCEPT ![host[r]] = l]]
    BY <1>7 DEF ReadRecords, FromFile
  <2> HIDE DEF l
  <2>3. page' \in [Req -> Pages]
    BY <2>1, <2>2, PageParts DEF TypeOK
  <2>4. pc' \in [Req -> Stages]
    BY <1>7 DEF ReadRecords, TypeOK
  <2> QED BY <1>7, <2>3, <2>4 DEF ReadRecords, TypeOK
<1>8. ASSUME NEW r \in Req, Rendered(r) PROVE TypeOK'
  BY <1>8 DEF Rendered, TypeOK
<1>9. ASSUME NEW r \in Req, RenderFails(r) \/ Send(r) PROVE TypeOK'
  <2>1. page' = [page EXCEPT ![r] = EmptyPage]
    BY <1>9 DEF RenderFails, Send, Return
  <2>2. page' \in [Req -> Pages]
    BY <2>1, EmptyIsPage DEF TypeOK
  <2>3. 0 \in 0 .. now
    BY DEF TypeOK
  <2>4. current' \in [Req -> 0 .. now]
    BY <1>9, <2>3 DEF RenderFails, Send, Return, TypeOK
  <2>5. /\ pc' \in [Req -> Stages] /\ todo' \in [Req -> SUBSET Host]
        /\ missed' \in [Req -> SUBSET Host]
    BY <1>9 DEF RenderFails, Send, Return, TypeOK
  <2> QED BY <1>9, <2>2, <2>4, <2>5 DEF RenderFails, Send, Return, TypeOK
<1>10. ASSUME NEW r \in Req, Store(r) PROVE TypeOK'
  <2>1. current[r] \in 0 .. now /\ now \in Nat
    BY DEF TypeOK
  <2>2. expires' \in 0 .. now + TTL
    BY <1>10, <2>1 DEF Store, Expiry
  <2>3. body' \in Pages /\ pc' \in [Req -> Stages] /\ lost' \subseteq Host
    BY <1>10 DEF Store, TypeOK
  <2> QED BY <1>10, <2>2, <2>3 DEF Store, TypeOK
<1>11. ASSUME NEW r \in Req, NEW h \in Host, StatFile(r, h) \/ LeaveOut(r, h) PROVE TypeOK'
  <2>1. PICK l : l \in {[page[r][h] EXCEPT !.updated = file[h]],
                         [page[r][h] EXCEPT !.records = file[h]]}
                 /\ page' = [page EXCEPT ![r] = [page[r] EXCEPT ![h] = l]]
    BY <1>11 DEF StatFile, LeaveOut
  <2>2. l \in Line
    <3>1. page[r][h] \in Line /\ file[h] \in Version
      BY PageNumbers DEF TypeOK
    <3> QED BY <2>1, <3>1, LineParts
  <2>3. page' \in [Req -> Pages]
    BY <2>1, <2>2, PageParts DEF TypeOK
  <2>4. todo' \in [Req -> SUBSET Host]
    <3>1. todo' = [todo EXCEPT ![r] = todo[r] \ {h}] /\ todo[r] \ {h} \in SUBSET Host
      BY <1>11 DEF StatFile, LeaveOut, TypeOK
    <3> QED BY <3>1 DEF TypeOK
  <2> QED BY <1>11, <2>3, <2>4 DEF StatFile, LeaveOut, TypeOK
<1>12. ASSUME NEW r \in Req, NEW h \in Host, StatFails(r, h) PROVE TypeOK'
  <2>1. /\ todo' = [todo EXCEPT ![r] = todo[r] \ {h}] /\ todo[r] \ {h} \in SUBSET Host
        /\ missed' = [missed EXCEPT ![r] = missed[r] \cup {h}]
        /\ missed[r] \cup {h} \in SUBSET Host
    BY <1>12 DEF StatFails, TypeOK
  <2>2. todo' \in [Req -> SUBSET Host] /\ missed' \in [Req -> SUBSET Host]
    BY <2>1 DEF TypeOK
  <2> QED BY <1>12, <2>2 DEF StatFails, TypeOK
<1> QED
  BY <1>0, <1>1, <1>2, <1>3, <1>4, <1>5, <1>6, <1>7, <1>8, <1>9, <1>10,
     <1>11, <1>12 DEF Next, Handle

\* Every variable keeps its type, whatever the requests and uploads do.
THEOREM TypeCorrect == Spec => []TypeOK
<1>1. Init => TypeOK
  BY InitIInv DEF IInv
<1> QED BY <1>1, TypeStep, PTL DEF Spec

-----------------------------------------------------------------------------
(* Files get newer, and the history of them is never rewritten. *)

\* A step keeps the past as it was, and no file gets older.
LEMMA Growth ==
    ASSUME TypeOK, [Next]_vars
    PROVE  /\ \A h \in Host : file[h] \in Nat /\ file'[h] \in Nat /\ file[h] <= file'[h]
           /\ \A t \in 0 .. now : past'[t] = past[t]
           /\ now \in Nat /\ 0 .. now \subseteq Time
<1>1. \A h \in Host : file[h] \in Nat
  BY DEF TypeOK
<1>2. now \in Nat /\ 0 .. now \subseteq Time
  BY DEF TypeOK
<1>3. CASE Tick
  <2>1. file' = file /\ past' = [past EXCEPT ![now + 1] = file]
    BY <1>3 DEF Tick
  <2> QED BY <1>1, <1>2, <2>1 DEF TypeOK
<1>4. ASSUME NEW h \in Host, Upload(h)
      PROVE  past' = past /\ \A g \in Host : file'[g] \in Nat /\ file[g] <= file'[g]
  BY <1>1, <1>4 DEF Upload, TypeOK
<1>5. ASSUME NEW r \in Req, GetRoot(r) \/ GetReport(r) \/ Handle(r)
      PROVE  file' = file /\ past' = past
  BY <1>5 DEF GetRoot, GetReport, Handle, Hit, Miss, ListFiles, StatFile, LeaveOut, StatFails,
              Listed, ReadKernel, ReadRecords, Rendered, RenderFails, Return, Store, Send
<1>6. CASE UNCHANGED vars
  BY <1>1, <1>2, <1>6 DEF vars
<1> QED
  BY <1>1, <1>2, <1>3, <1>4, <1>5, <1>6 DEF Next

\* The moments of the past that the invariant speaks of are in the past.
LEMMA Moments ==
    ASSUME TypeOK, NEW r \in Req
    PROVE  /\ current[r] \in 0 .. now
           /\ current[r] >= TTL => current[r] - TTL \in 0 .. now
           /\ TTL <= expires => expires - TTL \in 0 .. now
           /\ \A t \in 0 .. now, h \in Host : past[t][h] \in Nat
<1>1. now \in Nat /\ 0 .. now \subseteq Time /\ expires \in 0 .. now + TTL
  BY DEF TypeOK
<1>2. current[r] \in 0 .. now
  BY DEF TypeOK
<1>3. \A t \in 0 .. now, h \in Host : past[t][h] \in Nat
  BY <1>1 DEF TypeOK
<1> QED BY <1>1, <1>2, <1>3

\* Files only get newer, and what they were at each time says so.
LEMMA HistoryStep == TypeOK /\ HistoryInv /\ [Next]_vars => HistoryInv'
<1> SUFFICES ASSUME TypeOK, HistoryInv, [Next]_vars PROVE HistoryInv'
  OBVIOUS
<1>1. \A t \in Time, h \in Host : past[t][h] \in Nat
  BY DEF TypeOK
<1>2. CASE Tick
  <2>1. now' = now + 1 /\ now' \in Time /\ file' = file /\ now \in Nat
    BY <1>2 DEF Tick, TypeOK
  <2>2. past' = [past EXCEPT ![now + 1] = file]
    BY <1>2 DEF Tick
  <2>3. past'[now'] = file /\ \A t \in Time : t # now' => past'[t] = past[t]
    BY <2>1, <2>2 DEF TypeOK
  <2>4. \A h \in Host : file[h] \in Nat
    BY DEF TypeOK
  <2>5. \A t \in Time, h \in Host : past'[t][h] <= file'[h]
    BY <2>1, <2>3, <2>4 DEF HistoryInv
  <2>6. ASSUME NEW t \in 0 .. now', NEW u \in 0 .. now', t <= u, NEW h \in Host
        PROVE  past'[t][h] <= past'[u][h]
    <3>1. CASE u = now'
      BY <2>1, <2>3, <2>5, <3>1
    <3>2. CASE u # now'
      <4>1. t \in 0 .. now /\ u \in 0 .. now /\ t # now'
        BY <2>1, <2>6, <3>2
      <4>2. past'[t] = past[t] /\ past'[u] = past[u]
        BY <2>1, <2>3, <3>2, <4>1
      <4> QED BY <2>6, <4>1, <4>2 DEF HistoryInv
    <3> QED BY <3>1, <3>2
  <2> QED BY <2>5, <2>6 DEF HistoryInv
<1>3. ASSUME now' = now, past' = past PROVE HistoryInv'
  BY <1>1, <1>3, Growth DEF HistoryInv
<1>4. ASSUME NEW r \in Req, GetRoot(r) \/ GetReport(r) \/ Handle(r) PROVE now' = now /\ past' = past
  BY <1>4 DEF GetRoot, GetReport, Handle, Hit, Miss, ListFiles, StatFile, LeaveOut, StatFails,
              Listed, ReadKernel, ReadRecords, Rendered, RenderFails, Return, Store, Send
<1>5. Tick \/ (now' = now /\ past' = past)
  BY <1>4 DEF Next, vars, Upload
<1> QED BY <1>2, <1>3, <1>5

-----------------------------------------------------------------------------
(* What a request knows of its page. *)

\* A request that has not moved knows what it knew: files have only got newer.
LEMMA Unmoved ==
    ASSUME TypeOK, [Next]_vars, NEW r \in Req, Good(r),
           pc'[r] = pc[r], cached'[r] = cached[r], current'[r] = current[r],
           todo'[r] = todo[r], host'[r] = host[r], page'[r] = page[r],
           missed'[r] = missed[r]
    PROVE  Good(r)'
<1>1. Finished(r)' = Finished(r)
  BY DEF Finished
<1>2. past'[current[r]] = past[current[r]]
  BY Growth, Moments
<1>3. current[r] >= TTL => past'[current[r] - TTL] = past[current[r] - TTL]
  BY Growth, Moments
<1>4. \A h \in Host : page[r][h].updated \in Nat /\ page[r][h].kernel \in Nat
  BY PageNumbers DEF TypeOK
<1>5. host[r] \in Host
  BY DEF TypeOK
<1>6. pc[r] \in {"kernel", "records"} =>
          /\ \A h \in Host : page[r][h].updated <= file'[h]
          /\ \A h \in Finished(r) : /\ page[r][h].updated <= page[r][h].kernel
                                    /\ page[r][h].kernel <= page[r][h].records
                                    /\ Accounted(r, h)
  BY <1>4, Growth DEF Good
<1>7. pc[r] = "records" => page[r][host[r]].kernel <= file'[host[r]]
  BY <1>4, <1>5, Growth DEF Good
<1>8. pc[r] = "stat" =>
          \A h \in Host : /\ page[r][h].updated <= file'[h] /\ page[r][h].kernel = 0
                          /\ LookedAt(r, h) => Accounted(r, h)
  BY <1>4, Growth DEF Good
<1>9. \A h \in Host : LookedAt(r, h)' = LookedAt(r, h) /\ Accounted(r, h)' = Accounted(r, h)
  BY <1>2 DEF LookedAt, Accounted
<1>10. \A h \in Finished(r) : h \in Host
  BY DEF Finished
<1> QED
  BY <1>1, <1>2, <1>3, <1>6, <1>7, <1>8, <1>9, <1>10 DEF Good, Shows, InOrder

\* Whatever the request itself does, what it knows is true afterwards.
LEMMA OwnStep ==
    ASSUME IInv, [Next]_vars, NEW r \in Req, GetRoot(r) \/ GetReport(r) \/ Handle(r)
    PROVE  Good(r)'
<1>0. TypeOK /\ HistoryInv /\ CacheInv /\ Good(r)
  BY DEF IInv
<1>1. CASE GetRoot(r) \/ GetReport(r) \/ Miss(r) \/ RenderFails(r) \/ Send(r)
  <2>1. pc'[r] \in {"idle", "lookup", "list"}
    BY <1>0, <1>1 DEF GetRoot, GetReport, Miss, RenderFails, Send, Return, TypeOK
  <2>2. pc'[r] = "lookup" => cached'[r]
    BY <1>0, <1>1 DEF GetRoot, GetReport, Miss, RenderFails, Send, Return, TypeOK
  <2>3. page'[r] = EmptyPage
    BY <1>0, <1>1 DEF GetRoot, GetReport, Miss, RenderFails, Send, Return, TypeOK, Good
  <2> QED BY <2>1, <2>2, <2>3 DEF Good
<1>2. CASE Hit(r)
  <2>1. /\ pc[r] = "lookup" /\ pc'[r] = "send" /\ page'[r] = body /\ missed'[r] = lost
        /\ current' = current /\ cached' = cached /\ past' = past
    BY <1>0, <1>2 DEF Hit, TypeOK
  <2>2. cached[r] /\ filled /\ current[r] <= expires
    BY <1>0, <1>2, <2>1 DEF Hit, Valid, Good
  <2>3. TTL <= expires /\ Shows(body, lost, past[expires - TTL]) /\ InOrder(body)
    BY <1>0, <2>2 DEF CacheInv
  <2>4. ASSUME current[r] >= TTL PROVE Shows(body, lost, past[current[r] - TTL])
    <3>1. current[r] \in Nat /\ expires \in Nat
      BY <1>0 DEF TypeOK
    <3>2. /\ current[r] - TTL \in 0 .. now /\ expires - TTL \in 0 .. now
          /\ current[r] - TTL <= expires - TTL
      BY <1>0, <2>2, <2>3, <2>4, <3>1, Moments
    <3>3. \A h \in Host : past[current[r] - TTL][h] <= past[expires - TTL][h]
      BY <1>0, <3>2 DEF HistoryInv
    <3>4. \A h \in Host : /\ past[current[r] - TTL][h] \in Nat /\ past[expires - TTL][h] \in Nat
                          /\ body[h].records \in Nat
      BY <1>0, <3>2, Moments, PageNumbers DEF TypeOK
    <3> QED BY <2>3, <3>3, <3>4 DEF Shows
  <2> QED BY <2>1, <2>2, <2>3, <2>4 DEF Good
<1>3. CASE ListFiles(r)
  <2>1. /\ pc[r] = "list" /\ pc'[r] = "stat" /\ todo'[r] = {h \in Host : file[h] # 0}
        /\ page' = page /\ missed' = missed
        /\ current' = current /\ past' = past /\ file' = file
    BY <1>0, <1>3 DEF ListFiles, TypeOK
  <2>2. \A h \in Host : page[r][h] = Blank
    BY <1>0, <2>1 DEF Good, EmptyPage
  <2>3. \A h \in Host : file[h] \in Nat /\ past[current[r]][h] <= file[h]
    BY <1>0, Moments DEF HistoryInv, TypeOK
  <2>4. \A h \in Host : LookedAt(r, h)' => Accounted(r, h)'
    BY <2>1, <2>2, <2>3 DEF LookedAt, Accounted, Blank
  <2>5. \A h \in Host : page'[r][h].updated <= file'[h] /\ page'[r][h].kernel = 0
    BY <2>1, <2>2, <2>3 DEF Blank
  <2> QED BY <2>1, <2>4, <2>5 DEF Good
<1>4. ASSUME NEW h \in Host, ReadKernel(r, h) PROVE Good(r)'
  <2> DEFINE l == [page[r][h] EXCEPT !.kernel = file[h]]
  <2>1. /\ pc[r] = "kernel" /\ pc'[r] = "records" /\ h \in todo[r]
        /\ todo'[r] = todo[r] \ {h} /\ host'[r] = h
        /\ page'[r] = [page[r] EXCEPT ![h] = l] /\ missed' = missed
        /\ current' = current /\ past' = past /\ file' = file
    BY <1>0, <1>4 DEF ReadKernel, TypeOK
  <2>2. page[r] \in Pages
    BY <1>0 DEF TypeOK
  <2>3. l.updated = page[r][h].updated /\ l.kernel = file[h]
    BY <2>2, PageNumbers DEF Line
  <2> HIDE DEF l
  <2>4. page'[r][h] = l /\ \A g \in Host : g # h => page'[r][g] = page[r][g]
    BY <2>1, <2>2 DEF Pages
  <2>5. \A g \in Host : page[r][g].updated <= file[g]
    BY <1>0, <2>1 DEF Good
  <2>6. \A g \in Host : page'[r][g].updated <= file'[g]
    BY <2>1, <2>3, <2>4, <2>5
  <2>7. Finished(r)' \subseteq Finished(r) /\ h \notin Finished(r)'
    BY <2>1 DEF Finished
  <2>8. \A g \in Finished(r)' : g \in Host /\ page'[r][g] = page[r][g]
    BY <2>4, <2>7 DEF Finished
  <2>9. \A g \in Finished(r)' : /\ page'[r][g].updated <= page'[r][g].kernel
                                /\ page'[r][g].kernel <= page'[r][g].records
                                /\ Accounted(r, g)'
    BY <1>0, <2>1, <2>7, <2>8 DEF Good, Accounted
  <2>10. page'[r][h].updated <= page'[r][h].kernel /\ page'[r][h].kernel <= file'[h]
    <3>1. file[h] \in Nat
      BY <1>0 DEF TypeOK
    <3> QED BY <2>1, <2>3, <2>4, <2>5, <3>1
  <2> QED BY <2>1, <2>6, <2>9, <2>10 DEF Good
<1>5. CASE ReadRecords(r)
  <2> DEFINE h == host[r]
             l == [page[r][h] EXCEPT !.records = file[h]]
  <2>1. /\ pc[r] = "records" /\ pc'[r] = "kernel"
        /\ todo' = todo /\ page'[r] = [page[r] EXCEPT ![h] = l] /\ missed' = missed
        /\ current' = current /\ past' = past /\ file' = file
    BY <1>0, <1>5 DEF ReadRecords, FromFile, TypeOK
  <2>2. page[r] \in Pages /\ h \in Host
    BY <1>0 DEF TypeOK
  <2>3. l.updated = page[r][h].updated /\ l.kernel = page[r][h].kernel /\ l.records = file[h]
    BY <2>2, PageNumbers DEF Line
  <2>4. Finished(r)' \subseteq Finished(r) \cup {h}
    BY <2>1 DEF Finished
  <2>5. /\ page[r][h].updated <= page[r][h].kernel /\ page[r][h].kernel <= file[h]
        /\ \A g \in Host : page[r][g].updated <= file[g]
    BY <1>0, <2>1 DEF Good
  <2>6. past[current[r]][h] <= file[h]
    BY <1>0, <2>2, Moments DEF HistoryInv, TypeOK
  <2> HIDE DEF l, h
  <2>7. page'[r][h] = l /\ \A g \in Host : g # h => page'[r][g] = page[r][g]
    BY <2>1, <2>2 DEF Pages
  <2>8. \A g \in Host : page'[r][g].updated <= file'[g]
    BY <2>1, <2>3, <2>5, <2>7
  <2>9. \A g \in Finished(r)' : /\ page'[r][g].updated <= page'[r][g].kernel
                                /\ page'[r][g].kernel <= page'[r][g].records
                                /\ Accounted(r, g)'
    <3> SUFFICES ASSUME NEW g \in Finished(r)'
                 PROVE  /\ page'[r][g].updated <= page'[r][g].kernel
                        /\ page'[r][g].kernel <= page'[r][g].records
                        /\ Accounted(r, g)'
      OBVIOUS
    <3>1. CASE g = h
      BY <2>1, <2>3, <2>5, <2>6, <2>7, <3>1 DEF Accounted
    <3>2. CASE g # h
      <4>1. g \in Finished(r) /\ g \in Host
        BY <2>4, <3>2 DEF Finished
      <4>2. page'[r][g] = page[r][g]
        BY <2>7, <3>2, <4>1
      <4> QED BY <1>0, <2>1, <4>1, <4>2 DEF Good, Accounted
    <3> QED BY <3>1, <3>2
  <2> QED BY <2>1, <2>8, <2>9 DEF Good
<1>6. CASE Rendered(r)
  <2>1. /\ pc[r] = "kernel" /\ todo[r] = {} /\ page' = page /\ missed' = missed
        /\ pc'[r] = IF cached[r] THEN "store" ELSE "send"
        /\ cached' = cached /\ current' = current /\ past' = past
    BY <1>0, <1>6 DEF Rendered, TypeOK
  <2>2. Finished(r) = Host
    BY <2>1 DEF Finished
  <2>3. InOrder(page[r]) /\ Shows(page[r], missed[r], past[current[r]])
    BY <1>0, <2>1, <2>2 DEF Good, InOrder, Shows, Accounted
  <2> QED BY <2>1, <2>3 DEF Good
<1>7. CASE Store(r)
  <2>1. /\ pc[r] = "store" /\ pc'[r] = "send" /\ page' = page /\ missed' = missed
        /\ cached' = cached /\ current' = current /\ past' = past
    BY <1>0, <1>7 DEF Store, TypeOK
  <2>2. cached[r] /\ Shows(page[r], missed[r], past[current[r]]) /\ InOrder(page[r])
    BY <1>0, <2>1 DEF Good
  <2>3. ASSUME current[r] >= TTL PROVE Shows(page[r], missed[r], past[current[r] - TTL])
    <3>1. /\ current[r] \in 0 .. now /\ current[r] - TTL \in 0 .. now
          /\ current[r] - TTL <= current[r]
      BY <1>0, <2>3, Moments
    <3>2. \A h \in Host : past[current[r] - TTL][h] <= past[current[r]][h]
      BY <1>0, <3>1 DEF HistoryInv
    <3>3. \A h \in Host : /\ past[current[r] - TTL][h] \in Nat /\ past[current[r]][h] \in Nat
                          /\ page[r][h].records \in Nat
      BY <1>0, <3>1, Moments, PageNumbers DEF TypeOK
    <3> QED BY <2>2, <3>2, <3>3 DEF Shows
  <2> QED BY <2>1, <2>2, <2>3 DEF Good
<1>8. ASSUME NEW h \in Host, StatFile(r, h) \/ LeaveOut(r, h) PROVE Good(r)'
  <2>1. PICK l : /\ \/ l = [page[r][h] EXCEPT !.updated = file[h]]
                    \/ l = [page[r][h] EXCEPT !.records = file[h]]
                 /\ page'[r] = [page[r] EXCEPT ![h] = l]
    BY <1>0, <1>8 DEF StatFile, LeaveOut, TypeOK
  <2>2. /\ pc[r] = "stat" /\ pc' = pc /\ todo'[r] = todo[r] \ {h} /\ missed' = missed
        /\ current' = current /\ past' = past /\ file' = file
    BY <1>0, <1>8 DEF StatFile, LeaveOut, TypeOK
  <2>3. page[r] \in Pages
    BY <1>0 DEF TypeOK
  <2>4. \A g \in Host : page[r][g].updated <= file[g] /\ page[r][g].kernel = 0
    BY <1>0, <2>2 DEF Good
  <2>5. page[r][h] \in Line /\ page[r][h].records \in Nat /\ file[h] \in Nat
    BY <1>0, <2>3, PageNumbers DEF TypeOK
  <2>6. /\ l.updated <= file[h] /\ l.kernel = 0
        /\ l.updated = file[h] \/ l.records = file[h]
        /\ l.records \in Nat
    BY <2>1, <2>4, <2>5 DEF Line
  <2>7. page'[r][h] = l /\ \A g \in Host : g # h => page'[r][g] = page[r][g]
    BY <2>1, <2>3 DEF Pages
  <2>8. past[current[r]][h] \in Nat /\ past[current[r]][h] <= file[h]
    BY <1>0, Moments DEF HistoryInv, TypeOK
  <2>9. ASSUME NEW g \in Host
        PROVE  /\ page'[r][g].updated <= file'[g] /\ page'[r][g].kernel = 0
               /\ LookedAt(r, g)' => Accounted(r, g)'
    <3>1. CASE g = h
      BY <2>2, <2>5, <2>6, <2>7, <2>8, <3>1 DEF LookedAt, Accounted
    <3>2. CASE g # h
      <4>1. page'[r][g] = page[r][g] /\ (LookedAt(r, g) => Accounted(r, g))
        BY <1>0, <2>2, <2>7, <3>2 DEF Good
      <4> QED BY <2>2, <2>4, <3>2, <4>1 DEF LookedAt, Accounted
    <3> QED BY <3>1, <3>2
  <2> QED BY <2>2, <2>9 DEF Good
<1>9. ASSUME NEW h \in Host, StatFails(r, h) PROVE Good(r)'
  <2>1. /\ pc[r] = "stat" /\ pc' = pc /\ todo'[r] = todo[r] \ {h}
        /\ missed'[r] = missed[r] \cup {h} /\ page' = page
        /\ current' = current /\ past' = past /\ file' = file
    BY <1>0, <1>9 DEF StatFails, TypeOK
  <2>2. \A g \in Host : LookedAt(r, g)' => Accounted(r, g)'
    BY <1>0, <2>1 DEF Good, LookedAt, Accounted
  <2> QED BY <1>0, <2>1, <2>2 DEF Good
<1>10. CASE Listed(r)
  <2>1. /\ pc[r] = "stat" /\ pc'[r] = "kernel" /\ todo[r] = {}
        /\ todo'[r] = {h \in Host : page[r][h].updated # 0}
        /\ page' = page /\ missed' = missed
        /\ current' = current /\ past' = past /\ file' = file
    BY <1>0, <1>10 DEF Listed, TypeOK
  <2>2. \A h \in Finished(r)' : h \in Host /\ page[r][h].updated = 0
    BY <2>1 DEF Finished
  <2>3. \A h \in Finished(r)' : Accounted(r, h)'
    BY <1>0, <2>1, <2>2 DEF Good, LookedAt, Accounted
  <2>4. \A h \in Finished(r)' : /\ page'[r][h].updated <= page'[r][h].kernel
                                /\ page'[r][h].kernel <= page'[r][h].records
    <3>1. \A h \in Host : page[r][h].kernel = 0 /\ page[r][h].records \in Nat
      BY <1>0, <2>1, PageNumbers DEF Good, TypeOK
    <3> QED BY <2>1, <2>2, <3>1
  <2>5. \A h \in Host : page'[r][h].updated <= file'[h]
    BY <1>0, <2>1 DEF Good
  <2> QED BY <2>1, <2>3, <2>4, <2>5 DEF Good
<1> QED
  BY <1>1, <1>2, <1>3, <1>4, <1>5, <1>6, <1>7, <1>8, <1>9, <1>10 DEF Handle

\* Nobody else touches what a request has read.
LEMMA OthersStep ==
    ASSUME IInv, [Next]_vars, NEW r \in Req, ~(GetRoot(r) \/ GetReport(r) \/ Handle(r))
    PROVE  Good(r)'
<1>0. TypeOK /\ Good(r)
  BY DEF IInv
<1>1. CASE UNCHANGED localVars
  BY <1>0, <1>1, Unmoved DEF localVars
<1>2. ASSUME NEW q \in Req, GetRoot(q) \/ GetReport(q) \/ Handle(q) PROVE Good(r)'
  <2>1. q # r
    BY <1>2
  <2>2. /\ pc'[r] = pc[r] /\ cached'[r] = cached[r] /\ current'[r] = current[r]
        /\ todo'[r] = todo[r] /\ host'[r] = host[r] /\ page'[r] = page[r]
        /\ missed'[r] = missed[r]
    BY <1>0, <1>2, <2>1
       DEF TypeOK, GetRoot, GetReport, Handle, Hit, Miss, ListFiles, StatFile, LeaveOut, StatFails,
           Listed, ReadKernel, ReadRecords, Rendered, RenderFails, Return, Store, Send
  <2> QED BY <1>0, <2>2, Unmoved
<1>3. UNCHANGED localVars \/ \E q \in Req : GetRoot(q) \/ GetReport(q) \/ Handle(q)
  BY DEF Next, vars, Tick, Upload
<1> QED BY <1>1, <1>2, <1>3

\* The cached page shows all that was there ttl before it expires.
LEMMA CacheStep == IInv /\ [Next]_vars => CacheInv'
<1> SUFFICES ASSUME IInv, [Next]_vars PROVE CacheInv'
  OBVIOUS
<1>0. TypeOK /\ CacheInv
  BY DEF IInv
<1>1. CASE UNCHANGED cacheVars
  <2>1. filled' = filled /\ body' = body /\ expires' = expires /\ lost' = lost
    BY <1>1 DEF cacheVars
  <2>2. TTL <= expires => past'[expires - TTL] = past[expires - TTL]
    <3>1. now \in Nat /\ expires \in 0 .. now + TTL
      BY <1>0 DEF TypeOK
    <3>2. TTL <= expires => expires - TTL \in 0 .. now
      BY <3>1
    <3> QED BY <1>0, <3>2, Growth
  <2> QED BY <1>0, <2>1, <2>2 DEF CacheInv
<1>2. ASSUME NEW r \in Req, Store(r) PROVE CacheInv'
  <2>1. /\ body' = page[r] /\ lost' = missed[r] /\ expires' = current[r] + TTL
        /\ past' = past /\ pc[r] = "store"
    BY <1>2 DEF Store, Expiry
  <2>2. Shows(page[r], missed[r], past[current[r]]) /\ InOrder(page[r])
    BY <2>1 DEF IInv, Good
  <2>3. current[r] \in Nat
    BY <1>0 DEF TypeOK
  <2>4. TTL <= expires' /\ expires' - TTL = current[r]
    BY <2>1, <2>3
  <2> QED BY <2>1, <2>2, <2>4 DEF CacheInv
<1>3. UNCHANGED cacheVars \/ \E r \in Req : Store(r)
  BY DEF Next, vars, Tick, Upload, GetRoot, GetReport, Handle, Hit, Miss,
         ListFiles, StatFile, LeaveOut, StatFails, Listed, ReadKernel, ReadRecords, Rendered,
         RenderFails, Return, Send
<1> QED BY <1>1, <1>2, <1>3

-----------------------------------------------------------------------------
(* The properties. *)

\* The invariant holds in every state of every behaviour.
THEOREM Invariance == Spec => []IInv
<1>1. IInv /\ [Next]_vars => IInv'
  <2> SUFFICES ASSUME IInv, [Next]_vars PROVE IInv'
    OBVIOUS
  <2>1. TypeOK' /\ HistoryInv'
    BY TypeStep, HistoryStep DEF IInv
  <2>2. CacheInv'
    BY CacheStep
  <2>3. \A r \in Req : Good(r)'
    BY OwnStep, OthersStep
  <2> QED BY <2>1, <2>2, <2>3 DEF IInv
<1> QED BY InitIInv, <1>1, PTL DEF Spec

\* However many requests render at once and store in whatever order, none is answered
\* with a page that misses an upload older than the lifetime of the cache, except of a
\* host whose Stat failed when that page was made.
THEOREM FreshPages == Spec => []FreshEnough
<1>1. IInv => FreshEnough
  BY DEF IInv, Good, FreshEnough
<1> QED BY Invariance, <1>1, PTL

\* No page dates a host later than the records it shows of it, although the
\* date, the kernel and the records are read at three moments.
THEOREM PagesInOrder == Spec => []NeverPostdated
<1>1. IInv => NeverPostdated
  BY DEF IInv, Good, InOrder, NeverPostdated
<1> QED BY Invariance, <1>1, PTL
=============================================================================
