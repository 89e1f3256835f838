-------------------------- MODULE ExclusionProofs --------------------------
(***************************************************************************)
(* The safety properties of Exclusion, for every set of hosts and scrapes  *)
(* and every clock.  That a hidden host was silent is not inductive: it    *)
(* needs that the modification time of a records file never goes back, and *)
(* so that a file which is not newer than the exclusion when the scrape     *)
(* looks at it was not newer when the exclusions were loaded.               *)
(***************************************************************************)
EXTENDS Exclusion, TLAPS

\* A temp that waits to be published was written after the current file.
TimesInv == \A h \in Host : written[h] # Never => mtime[h] <= written[h]

\* What a scrape knows.  A host whose file is still not newer than the exclusion
\* it has loaded was silent at the load; the same of the time it has read; no
\* metric is written before the load; and a host is hidden only if silent.
Known(s) ==
    /\ \A h \in Host : seen[s][h] # Never /\ mtime[h] <= seen[s][h] => h \in silent[s]
    /\ /\ pc[s] = "resolve"
       /\ seen[s][host[s]] # Never
       /\ fileTime[s] <= seen[s][host[s]]
       => host[s] \in silent[s]
    /\ pc[s] \in {"idle", "stat", "open", "load"} => label[s] = NoLabels
    /\ \A h \in Host : label[s][h] = "true" => h \in silent[s]

IInv == TypeOK /\ TimesInv /\ \A s \in Scrape : Known(s)

USE DEF Time, Never, Stages, Labels, Nobody, NoLabels, Goto, ExcludedAt, Newer, IsSilent,
        RemoveExcludedHost, hostVars, localVars

\* Nothing is uploaded, excluded or loaded at the start.
LEMMA InitIInv == Init => IInv
<1> SUFFICES ASSUME Init PROVE IInv
  OBVIOUS
<1> USE TimeAssumption DEF Init
<1>1. TypeOK
  <2>1. 1 \in Time \ {Never}
    OBVIOUS
  <2> QED BY <2>1 DEF TypeOK
<1>2. TimesInv /\ \A s \in Scrape : Known(s)
  BY DEF TimesInv, Known
<1> QED BY <1>1, <1>2 DEF IInv

\* Times are only read from the clock, so none lies after it.
LEMMA TypeStep == TypeOK /\ [Next]_vars => TypeOK'
<1> SUFFICES ASSUME TypeOK, [Next]_vars PROVE TypeOK'
  OBVIOUS
<1> USE TimeAssumption
<1>0. CASE UNCHANGED vars
  BY <1>0 DEF TypeOK, vars
<1>1. CASE Tick
  <2>1. now' \in Time \ {Never} /\ 0 .. now \subseteq 0 .. now'
    BY <1>1 DEF Tick, TypeOK
  <2>2. \A S, x : x \in [S -> 0 .. now] => x \in [S -> 0 .. now']
    BY <2>1
  <2>3. /\ written' \in [Host -> 0 .. now']
        /\ mtime' \in [Host -> 0 .. now']
        /\ excluded' \in [Host -> 0 .. now']
        /\ fileTime' \in [Scrape -> 0 .. now']
    BY <1>1, <2>2 DEF Tick, TypeOK
  <2>4. seen' \in [Scrape -> [Host -> 0 .. now']]
    BY <1>1, <2>2 DEF Tick, TypeOK
  <2> QED BY <1>1, <2>1, <2>3, <2>4 DEF Tick, TypeOK
<1>2. ASSUME NEW h \in Host, WriteTemp(h) PROVE TypeOK'
  BY <1>2 DEF WriteTemp, TypeOK
<1>3. ASSUME NEW h \in Host, Publish(h) PROVE TypeOK'
  BY <1>3 DEF Publish, TypeOK
<1>4. ASSUME NEW h \in Host, FailUpload(h) PROVE TypeOK'
  BY <1>4 DEF FailUpload, TypeOK
<1>5. ASSUME NEW h \in Host, AddExcludedHost(h) PROVE TypeOK'
  BY <1>5 DEF AddExcludedHost, TypeOK
<1>6. ASSUME NEW h \in Host, Unexclude(h) PROVE TypeOK'
  BY <1>6 DEF Unexclude, TypeOK
<1>7. ASSUME NEW s \in Scrape, NEW h \in Host, ListRecords(s, h) \/ LeaveOut(s, h)
      PROVE  TypeOK'
  <2>1. names' \in [Scrape -> SUBSET Host]
    <3>1. names' = [names EXCEPT ![s] = names[s] \ {h}] /\ names[s] \ {h} \in SUBSET Host
      BY <1>7 DEF ListRecords, LeaveOut, TypeOK
    <3> QED BY <3>1 DEF TypeOK
  <2>2. entries' \in [Scrape -> SUBSET Host]
    <3>1. /\ entries' \in {entries, [entries EXCEPT ![s] = entries[s] \cup {h}]}
          /\ entries[s] \cup {h} \in SUBSET Host
      BY <1>7 DEF ListRecords, LeaveOut, TypeOK
    <3> QED BY <3>1 DEF TypeOK
  <2> QED BY <1>7, <2>1, <2>2 DEF ListRecords, LeaveOut, TypeOK
<1>8. ASSUME NEW s \in Scrape, NEW ok \in BOOLEAN, OpenDB(s, ok) PROVE TypeOK'
  BY <1>8 DEF OpenDB, TypeOK
<1>9. ASSUME NEW s \in Scrape, LoadExcluded(s) PROVE TypeOK'
  BY <1>9 DEF LoadExcluded, TypeOK
<1>10. ASSUME NEW s \in Scrape, LoadFails(s) \/ Answer(s) PROVE TypeOK'
  <2>1. Nobody \in [Host -> 0 .. now]
    BY DEF TypeOK
  <2>2. NoLabels \in [Host -> Labels]
    OBVIOUS
  <2> HIDE DEF Nobody, NoLabels
  <2>3. seen' \in [Scrape -> [Host -> 0 .. now]] /\ label' \in [Scrape -> [Host -> Labels]]
    <3>1. seen' = [seen EXCEPT ![s] = Nobody] /\ label' = [label EXCEPT ![s] = NoLabels]
      BY <1>10 DEF LoadFails, Answer, Return
    <3> QED BY <2>1, <2>2, <3>1 DEF TypeOK
  <2> QED BY <1>10, <2>3 DEF LoadFails, Answer, Return, TypeOK
<1>11. ASSUME NEW s \in Scrape, NEW h \in Host, StatRecords(s, h) PROVE TypeOK'
  BY <1>11 DEF StatRecords, TypeOK
<1>12. ASSUME NEW s \in Scrape, NEW h \in Host, SkipHost(s, h) PROVE TypeOK'
  BY <1>12 DEF SkipHost, TypeOK
<1>13. ASSUME NEW s \in Scrape, NEW l \in Labels, WriteLabel(s, l),
              excluded' \in [Host -> 0 .. now]
       PROVE  TypeOK'
  BY <1>13 DEF WriteLabel, TypeOK
<1>14. ASSUME NEW s \in Scrape, NotExcluded(s) \/ LiftFails(s) \/ StillExcluded(s)
       PROVE  TypeOK'
  BY <1>13, <1>14 DEF NotExcluded, LiftFails, StillExcluded, TypeOK
<1>15. ASSUME NEW s \in Scrape, Lift(s) PROVE TypeOK'
  <2>1. excluded' \in [Host -> 0 .. now]
    BY <1>15 DEF Lift, TypeOK
  <2> QED BY <1>13, <1>15, <2>1 DEF Lift
<1>16. ASSUME NEW s \in Scrape, ListNames(s) \/ Listed(s) PROVE TypeOK'
  <2>1. names' \in [Scrape -> SUBSET Host] /\ pc' \in [Scrape -> Stages]
    <3>1. {h \in Host : mtime[h] # Never} \in SUBSET Host
      OBVIOUS
    <3>2. \/ names' = names
          \/ names' = [names EXCEPT ![s] = {h \in Host : mtime[h] # Never}]
      BY <1>16 DEF ListNames, Listed
    <3>3. names' \in [Scrape -> SUBSET Host]
      BY <3>1, <3>2 DEF TypeOK
    <3> QED BY <1>16, <3>3 DEF ListNames, Listed, TypeOK
  <2> QED BY <1>16, <2>1 DEF ListNames, Listed, TypeOK
<1> QED
  BY <1>0, <1>1, <1>2, <1>3, <1>4, <1>5, <1>6, <1>7, <1>8, <1>9, <1>10, <1>11, <1>12,
     <1>14, <1>15, <1>16 DEF Next, ScrapeStep

\* A temp is written now and takes its time along when it is renamed, and the
\* file it replaces is older.
LEMMA TimesStep == TypeOK /\ TimesInv /\ [Next]_vars => TimesInv' /\ \A h \in Host : mtime[h] <= mtime'[h]
<1> SUFFICES ASSUME TypeOK, TimesInv, [Next]_vars
             PROVE  TimesInv' /\ \A h \in Host : mtime[h] <= mtime'[h]
  OBVIOUS
<1>1. \A h \in Host : written[h] \in Nat /\ mtime[h] \in Nat /\ mtime[h] <= now
  BY DEF TypeOK
<1>2. CASE UNCHANGED <<written, mtime>>
  BY <1>1, <1>2 DEF TimesInv
<1>3. ASSUME NEW h \in Host, WriteTemp(h) \/ Publish(h) \/ FailUpload(h)
      PROVE  TimesInv' /\ \A g \in Host : mtime[g] <= mtime'[g]
  <2>1. CASE WriteTemp(h)
    BY <1>1, <2>1 DEF WriteTemp, TimesInv, TypeOK
  <2>2. CASE Publish(h)
    <3>1. mtime' = [mtime EXCEPT ![h] = written[h]] /\ written' = [written EXCEPT ![h] = Never]
      BY <2>2 DEF Publish
    <3>2. mtime[h] <= written[h]
      BY <2>2 DEF Publish, TimesInv
    <3> QED BY <1>1, <3>1, <3>2 DEF TimesInv, TypeOK
  <2>3. CASE FailUpload(h)
    BY <1>1, <2>3 DEF FailUpload, TimesInv, TypeOK
  <2> QED BY <1>3, <2>1, <2>2, <2>3
<1>4. UNCHANGED <<written, mtime>> \/ \E h \in Host : WriteTemp(h) \/ Publish(h) \/ FailUpload(h)
  BY DEF Next, vars, Tick, AddExcludedHost, Unexclude, ScrapeStep, ListNames, ListRecords, LeaveOut, Listed,
         OpenDB, LoadExcluded, LoadFails, Answer, Return, StatRecords, SkipHost, WriteLabel,
         NotExcluded, Lift, LiftFails, StillExcluded
<1> QED BY <1>2, <1>3, <1>4

\* A scrape that does not move keeps what it knows, whatever goes on around it:
\* modification times only grow.
LEMMA StillKnown ==
    ASSUME IInv, NEW s \in Scrape, \A h \in Host : mtime[h] <= mtime'[h], TypeOK',
           UNCHANGED <<pc[s], seen[s], host[s], fileTime[s], label[s], silent[s]>>
    PROVE  Known(s)'
<1>1. \A h \in Host : /\ mtime[h] \in Nat /\ mtime'[h] \in Nat
                       /\ seen[s][h] \in Nat
  BY DEF IInv, TypeOK
<1>2. ASSUME NEW h \in Host, seen'[s][h] # Never, mtime'[h] <= seen'[s][h]
      PROVE  h \in silent'[s]
  BY <1>1, <1>2 DEF IInv, Known
<1> QED BY <1>2 DEF IInv, Known

\* A step of one scrape leaves the local variables of the others alone.
LEMMA OneScrape ==
    ASSUME TypeOK, NEW s \in Scrape, ScrapeStep(s), NEW t \in Scrape, t # s
    PROVE  UNCHANGED <<pc[t], seen[t], host[t], fileTime[t], label[t], silent[t]>>
<1> USE DEF TypeOK
<1>1. CASE ListNames(s) \/ Listed(s) \/ (\E ok \in BOOLEAN : OpenDB(s, ok)) \/ LoadExcluded(s)
  BY <1>1 DEF ListNames, Listed, OpenDB, LoadExcluded
<1>2. CASE LoadFails(s) \/ Answer(s)
  BY <1>2 DEF LoadFails, Answer, Return
<1>3. CASE \E h \in Host : \/ ListRecords(s, h) \/ LeaveOut(s, h)
                           \/ StatRecords(s, h) \/ SkipHost(s, h)
  BY <1>3 DEF ListRecords, LeaveOut, StatRecords, SkipHost
<1>4. CASE NotExcluded(s) \/ Lift(s) \/ LiftFails(s) \/ StillExcluded(s)
  BY <1>4 DEF NotExcluded, Lift, LiftFails, StillExcluded, WriteLabel
<1> QED BY <1>1, <1>2, <1>3, <1>4 DEF ScrapeStep

\* The step of a scrape keeps what it knows itself.
LEMMA ScrapeKnows ==
    ASSUME IInv, NEW s \in Scrape, ScrapeStep(s)
    PROVE  Known(s)'
<1> USE DEF IInv, TypeOK
<1>1. CASE ListNames(s) \/ Listed(s) \/ \E h \in Host : ListRecords(s, h) \/ LeaveOut(s, h)
  <2>1. /\ pc'[s] \in {"stat", "open"} /\ pc[s] \in {"idle", "stat"}
        /\ UNCHANGED <<mtime, seen, label, silent>>
    BY <1>1 DEF ListNames, Listed, ListRecords, LeaveOut
  <2> QED BY <2>1 DEF Known
<1>2. ASSUME NEW ok \in BOOLEAN, OpenDB(s, ok) PROVE Known(s)'
  BY <1>2 DEF OpenDB, Known
<1>3. CASE LoadExcluded(s)
  <2>1. label'[s] = NoLabels /\ pc'[s] = "next"
    BY <1>3 DEF LoadExcluded, Known
  <2>2. ASSUME NEW h \in Host, seen'[s][h] # Never, mtime'[h] <= seen'[s][h]
        PROVE  h \in silent'[s]
    BY <1>3, <2>2 DEF LoadExcluded
  <2> QED BY <2>1, <2>2 DEF Known
<1>4. CASE LoadFails(s) \/ Answer(s)
  <2>1. /\ pc'[s] = "idle"
        /\ seen'[s] = Nobody
        /\ label'[s] = NoLabels
    BY <1>4 DEF LoadFails, Answer, Return
  <2> QED BY <2>1 DEF Known
<1>5. ASSUME NEW h \in Host, StatRecords(s, h) PROVE Known(s)'
  <2>1. /\ pc[s] = "next" /\ pc'[s] = "resolve"
        /\ host'[s] = h /\ fileTime'[s] = mtime[h]
        /\ UNCHANGED <<mtime, seen, silent, label>>
    BY <1>5 DEF StatRecords
  <2> QED BY <2>1 DEF Known
<1>6. ASSUME NEW h \in Host, SkipHost(s, h) PROVE Known(s)'
  BY <1>6 DEF SkipHost, Known
<1>7. ASSUME NEW l \in Labels, pc[s] = "resolve", WriteLabel(s, l), UNCHANGED mtime,
             l = "true" => host[s] \in silent[s]
      PROVE  Known(s)'
  <2>1. /\ pc'[s] = "next"
        /\ label'[s] = [label[s] EXCEPT ![host[s]] = l]
        /\ UNCHANGED <<seen, silent, host>>
    BY <1>7 DEF WriteLabel
  <2> QED BY <1>7, <2>1 DEF Known
<1>8. CASE NotExcluded(s) \/ Lift(s) \/ LiftFails(s)
  BY <1>7, <1>8 DEF NotExcluded, Lift, LiftFails, WriteLabel
<1>9. CASE StillExcluded(s)
  <2>1. fileTime[s] <= seen[s][host[s]]
    BY <1>9 DEF StillExcluded
  <2>2. host[s] \in silent[s]
    BY <1>9, <2>1 DEF StillExcluded, Known
  <2>3. UNCHANGED mtime
    BY <1>9 DEF StillExcluded, WriteLabel
  <2> QED BY <1>7, <1>9, <2>2, <2>3 DEF StillExcluded
<1> QED BY <1>1, <1>2, <1>3, <1>4, <1>5, <1>6, <1>8, <1>9 DEF ScrapeStep

\* Every step of uploads, operator and scrapes keeps the invariant.
LEMMA StepIInv == IInv /\ [Next]_vars => IInv'
<1> SUFFICES ASSUME IInv, [Next]_vars PROVE IInv'
  OBVIOUS
<1>1. TypeOK' /\ TimesInv' /\ \A h \in Host : mtime[h] <= mtime'[h]
  BY TypeStep, TimesStep DEF IInv
<1>2. ASSUME NEW s \in Scrape, ScrapeStep(s), NEW t \in Scrape PROVE Known(t)'
  <2>1. CASE t = s
    BY <1>2, <2>1, ScrapeKnows
  <2>2. CASE t # s
    BY <1>1, <1>2, <2>2, OneScrape, StillKnown DEF IInv
  <2> QED BY <2>1, <2>2
<1>3. ASSUME UNCHANGED localVars, NEW t \in Scrape PROVE Known(t)'
  <2>1. UNCHANGED <<pc[t], seen[t], host[t], fileTime[t], label[t], silent[t]>>
    BY <1>3
  <2> QED BY <1>1, <2>1, StillKnown
<1>4. UNCHANGED localVars \/ \E s \in Scrape : ScrapeStep(s)
  BY DEF Next, vars, Tick, WriteTemp, Publish, FailUpload, AddExcludedHost, Unexclude
<1>5. \A t \in Scrape : Known(t)'
  <2> SUFFICES ASSUME NEW t \in Scrape PROVE Known(t)'
    OBVIOUS
  <2>1. CASE UNCHANGED localVars
    BY <1>3, <2>1
  <2>2. CASE \E s \in Scrape : ScrapeStep(s)
    BY <1>2, <2>2
  <2> QED BY <1>4, <2>1, <2>2
<1> QED BY <1>1, <1>5 DEF IInv

\* The inductive invariant of scrapes: times and what a scrape knows.
THEOREM Invariance == Spec => []IInv
  BY InitIInv, StepIInv, PTL DEF Spec

\* Every variable keeps its type, and no time in files, database or scrapes
\* lies after the clock.
THEOREM TimesCorrect == Spec => []TypeOK
<1>1. IInv => TypeOK
  BY DEF IInv
<1> QED BY <1>1, Invariance, PTL

\* buildMetrics labels a host as excluded only if it was excluded and silent
\* when the scrape loaded the exclusions.
THEOREM HiddenWithReason == Spec => []HiddenOnlyIfSilent
<1>1. IInv => HiddenOnlyIfSilent
  BY DEF IInv, Known, HiddenOnlyIfSilent
<1> QED BY <1>1, Invariance, PTL

-----------------------------------------------------------------------------
(* The one thing that makes a scrape lift the wrong exclusion. *)

\* Nobody sets or renews an exclusion while a scrape works with those it has loaded.
NoneSetMeanwhile(s) ==
    pc[s] \in {"next", "resolve"} =>
        \A h \in Host : excluded'[h] \in {excluded[h], Never}

Undisturbed == [][\A s \in Scrape : NoneSetMeanwhile(s)]_vars

\* Then an exclusion that a scrape has loaded is still the same, or lifted; and the
\* file it looks at has not become older since.
Current(s) ==
    /\ pc[s] \in {"next", "resolve"} =>
          \A h \in Host : seen[s][h] # Never => excluded[h] \in {seen[s][h], Never}
    /\ pc[s] = "resolve" => fileTime[s] <= mtime[host[s]]

\* Each step keeps what undisturbed scrapes rely on.
LEMMA CurrentStep ==
    ASSUME IInv, [Next]_vars, TypeOK', NEW s \in Scrape, Current(s),
           NoneSetMeanwhile(s) \/ UNCHANGED vars
    PROVE  Current(s)'
<1> USE DEF TypeOK
<1>0. TypeOK /\ \A h \in Host : mtime[h] <= mtime'[h]
  BY TimesStep DEF IInv
<1>1. ASSUME UNCHANGED <<pc[s], seen[s], host[s], fileTime[s]>>
      PROVE  Current(s)'
  <2>1. ASSUME NEW h \in Host, pc[s] \in {"next", "resolve"}, seen[s][h] # Never
        PROVE  excluded'[h] \in {seen[s][h], Never}
    <3>1. excluded'[h] \in {excluded[h], Never}
      BY <1>0, <2>1 DEF NoneSetMeanwhile, vars
    <3> QED BY <2>1, <3>1 DEF Current
  <2>2. ASSUME pc[s] = "resolve" PROVE fileTime[s] <= mtime'[host[s]]
    <3>1. /\ fileTime[s] <= mtime[host[s]] /\ mtime[host[s]] <= mtime'[host[s]]
          /\ fileTime[s] \in Nat /\ mtime[host[s]] \in Nat /\ mtime'[host[s]] \in Nat
      BY <1>0, <2>2 DEF Current
    <3> QED BY <3>1
  <2> QED BY <1>1, <2>1, <2>2 DEF Current
<1>2. CASE ScrapeStep(s)
  <2>1. CASE \/ ListNames(s) \/ Listed(s) \/ \E h \in Host : ListRecords(s, h) \/ LeaveOut(s, h)
             \/ (\E ok \in BOOLEAN : OpenDB(s, ok)) \/ LoadFails(s) \/ Answer(s)
    <3>1. pc'[s] \in {"idle", "stat", "open", "load"}
      BY <1>0, <2>1 DEF ListNames, Listed, ListRecords, LeaveOut, OpenDB, LoadFails, Answer, Return
    <3> QED BY <3>1 DEF Current
  <2>2. CASE LoadExcluded(s)
    <3>1. pc'[s] = "next" /\ seen'[s] \in {excluded, Nobody} /\ excluded' = excluded
      BY <1>0, <2>2 DEF LoadExcluded
    <3> QED BY <1>0, <3>1 DEF Current
  <2>3. ASSUME NEW h \in Host, StatRecords(s, h) PROVE Current(s)'
    <3>1. /\ pc[s] = "next" /\ pc'[s] = "resolve"
          /\ fileTime'[s] = mtime[h] /\ host'[s] = h /\ mtime[h] \in Nat
          /\ UNCHANGED <<mtime, seen, excluded>>
      BY <1>0, <2>3 DEF StatRecords
    <3> QED BY <3>1 DEF Current
  <2>4. CASE \E h \in Host : SkipHost(s, h)
    <3>1. UNCHANGED <<pc[s], seen[s], host[s], fileTime[s]>>
      BY <2>4 DEF SkipHost
    <3> QED BY <1>1, <3>1
  <2>5. CASE NotExcluded(s) \/ Lift(s) \/ LiftFails(s) \/ StillExcluded(s)
    <3>1. pc[s] = "resolve" /\ pc'[s] = "next" /\ UNCHANGED seen
      BY <1>0, <2>5 DEF NotExcluded, Lift, LiftFails, StillExcluded, WriteLabel
    <3>2. \A h \in Host : excluded'[h] \in {excluded[h], Never}
      BY <1>0, <3>1 DEF NoneSetMeanwhile, vars
    <3> QED BY <3>1, <3>2 DEF Current
  <2> QED BY <1>2, <2>1, <2>2, <2>3, <2>4, <2>5 DEF ScrapeStep
<1>3. ASSUME NEW t \in Scrape, ScrapeStep(t), t # s PROVE Current(s)'
  BY <1>0, <1>1, <1>3, OneScrape
<1>4. CASE UNCHANGED localVars
  BY <1>1, <1>4
<1>5. UNCHANGED localVars \/ \E t \in Scrape : ScrapeStep(t)
  BY DEF Next, vars, Tick, WriteTemp, Publish, FailUpload, AddExcludedHost, Unexclude
<1> QED BY <1>2, <1>3, <1>4, <1>5

\* resolveExcluded deletes an exclusion it has loaded: if none is set or renewed
\* while a scrape is at work, a scrape lifts an exclusion only because the records
\* file has become newer, however many scrapes, uploads and removals there are.
THEOREM LiftedWithReason == Spec /\ Undisturbed => LiftedOnlyIfNewer
<1> DEFINE Inv == \A s \in Scrape : Current(s)
           Quiet == \A s \in Scrape : NoneSetMeanwhile(s)
           Lifts == \A s \in Scrape : pc[s] = "resolve" /\ pc'[s] # "resolve" =>
                       \A h \in Host : excluded[h] # Never /\ excluded'[h] = Never
                             => mtime[h] > excluded[h]
<1>1. Init => Inv
  BY DEF Init, Current
<1>2. IInv /\ IInv' /\ Inv /\ [Next]_vars /\ [Quiet]_vars => Inv'
  BY CurrentStep DEF IInv
<1>3. IInv /\ Inv /\ [Next]_vars => [Lifts]_vars
  <2> SUFFICES ASSUME IInv, Inv, [Next]_vars,
                      NEW s \in Scrape, pc[s] = "resolve", pc'[s] # "resolve",
                      NEW h \in Host, excluded[h] # Never, excluded'[h] = Never
               PROVE  mtime[h] > excluded[h]
    OBVIOUS
  <2>1. TypeOK /\ Current(s)
    BY DEF IInv
  <2>2. Lift(s)
    <3>1. PICK t \in Scrape : ScrapeStep(t)
      BY DEF Next, vars, Tick, WriteTemp, Publish, FailUpload, AddExcludedHost, Unexclude
    <3>2. t = s
      BY <2>1, <3>1, OneScrape
    <3> QED BY <2>1, <3>1, <3>2 DEF ScrapeStep, ListNames, ListRecords, LeaveOut, Listed,
            OpenDB, LoadExcluded, LoadFails, StatRecords, SkipHost, NotExcluded, LiftFails, StillExcluded, Answer, Return
  <2>3. h = host[s]
    BY <2>1, <2>2 DEF Lift, TypeOK
  <2>4. /\ seen[s][h] # Never /\ fileTime[s] > seen[s][h] /\ fileTime[s] <= mtime[h]
        /\ excluded[h] = seen[s][h]
    BY <2>1, <2>2, <2>3 DEF Lift, Current
  <2>5. seen[s][h] \in Nat /\ fileTime[s] \in Nat /\ mtime[h] \in Nat
    BY <2>1 DEF TypeOK
  <2> QED BY <2>4, <2>5
<1> QED BY <1>1, <1>2, <1>3, Invariance, PTL DEF Spec, Undisturbed, LiftedOnlyIfNewer
=============================================================================
