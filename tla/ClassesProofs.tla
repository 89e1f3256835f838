--------------------------- MODULE ClassesProofs ---------------------------
(***************************************************************************)
(* The safety properties of Classes and its implementation of               *)
(* ClassRegister, for any hosts, classes and number of commands.            *)
(***************************************************************************)
EXTENDS Classes, TLAPS

\* What the stage of a command says of its job and of its open file.
StageInv ==
    \A p \in Proc :
        /\ pc[p] = "idle" <=> job[p] = None
        /\ pc[p] = "write" <=> fd[p] # None
        /\ pc[p] \in {"open", "write", "rename", "unlink"} => job[p].dir
        /\ pc[p] = "db" => job[p].db
        /\ job[p] # None => job[p].dir \/ job[p].db

\* Without an overlap one command at a time has the temp, which holds its class
\* from its write to its rename.
OwnTemp(h) ==
    /\ \A p, q \in UsingTemp(h) : p = q
    /\ \A p \in On(h) : /\ pc[p] = "write" => fd[p] = "temp" /\ temp[h] # None
                        /\ pc[p] = "rename" => temp[h] = job[p].class
    /\ target[h] # Blank

OwnTempInv == \A h \in Host \ overlapped : OwnTemp(h)

\* With overlaps and without deaths or failures: a temp is there because a command will still
\* rename or remove it; a file is blank because one will still write to it.
Pending(h) ==
    /\ temp[h] # None => UsingTemp(h) # {}
    /\ temp[h] = Blank => \E p \in On(h) : fd[p] = "temp"
    /\ target[h] = Blank => \E p \in On(h) : fd[p] = "target"

PendingInv == \A h \in Host \ broken : Pending(h)

\* A command that nothing has disturbed has its class where it has come to store
\* it, and what an import has read for its host is no other class.
Undisturbed(p) ==
    LET h == job[p].host
        c == job[p].class
    IN  /\ \A q \in On(h) : q # p => ~Running(q)
        /\ pc[p] = "write" => fd[p] = "temp" /\ temp[h] # None
        /\ pc[p] = "rename" => temp[h] = c
        /\ pc[p] \in {"db", "ok"} /\ job[p].dir => target[h] = c
        /\ pc[p] = "ok" /\ job[p].dir /\ job[p].db => table[h] = c /\ loaded[h] \in {None, c}

AloneInv == \A p \in alone : job[p] # None => Undisturbed(p)

TypeInv == TypeOK /\ StageInv
IInv == TypeInv /\ OwnTempInv /\ PendingInv /\ AloneInv

USE DEF Content, Places, Stages, ImportStages, Nothing, fileVars, importVars, pastVars

\* An import touches nothing of a command or of its files, and the table only when
\* it commits.
LEMMA ImportLeaves ==
    ASSUME Import
    PROVE  /\ UNCHANGED <<fileVars, pc, job, pastVars>>
           /\ table' = table \/ ImportCommits
  BY DEF Import, ImportLists, ImportReads, ImportStores, ImportCommits, ImportFails, ImportEnds

LEMMA InitIInv == Init => IInv
<1> SUFFICES ASSUME Init PROVE IInv
  OBVIOUS
<1> USE NoneAssumption DEF Init
<1>1. TypeInv
  BY DEF TypeInv, TypeOK, StageInv
<1>2. \A h \in Host : On(h) = {} /\ UsingTemp(h) = {}
  BY DEF On, UsingTemp
<1>3. OwnTempInv /\ PendingInv /\ AloneInv
  BY <1>2 DEF OwnTempInv, OwnTemp, PendingInv, Pending, AloneInv
<1> QED BY <1>1, <1>3 DEF IInv

\* Every step keeps the types, and the jobs and open files fit the stages.
LEMMA TypeStep == TypeInv /\ [Next]_vars => TypeInv'
<1> SUFFICES ASSUME TypeOK, StageInv, [Next]_vars PROVE TypeOK' /\ StageInv'
  BY DEF TypeInv
<1> USE NoneAssumption, JobAssumption
<1>0. CASE UNCHANGED vars
  BY <1>0 DEF TypeOK, StageInv, vars
<1>1. ASSUME NEW p \in Proc, Begin(p) PROVE TypeOK' /\ StageInv'
  <2>1. PICK j \in Job :
          /\ j.dir \/ j.db
          /\ job' = [job EXCEPT ![p] = j]
          /\ pc' = [pc EXCEPT ![p] = IF j.dir THEN "open" ELSE "db"]
          /\ alone' = (alone \ (On(j.host) \cup {p})) \cup
                      (IF \E q \in On(j.host) \ {p} : Running(q) THEN {} ELSE {p})
    BY <1>1 DEF Begin
  <2>2. TypeOK'
    BY <1>1, <2>1 DEF Begin, TypeOK
  <2>3. pc[p] # "write" /\ fd[p] = None
    BY <1>1 DEF Begin, Running, StageInv
  <2>4. j # None /\ j.dir \in BOOLEAN /\ j.db \in BOOLEAN
    BY DEF Job
  <2>5. StageInv'
    BY <1>1, <2>1, <2>3, <2>4 DEF Begin, StageInv, TypeOK
  <2> QED BY <2>2, <2>5
<1>2. ASSUME NEW p \in Proc, OpenTemp(p) PROVE TypeOK' /\ StageInv'
  <2>1. job[p] \in Job
    BY <1>2 DEF OpenTemp, StageInv, TypeOK
  <2>2. job[p].host \in Host
    BY <2>1 DEF Job
  <2>3. TypeOK'
    BY <1>2, <2>2 DEF OpenTemp, Goto, TypeOK
  <2>4. StageInv'
    BY <1>2 DEF OpenTemp, Goto, TypeOK, StageInv
  <2> QED BY <2>3, <2>4
<1>3. ASSUME NEW p \in Proc, OpenFails(p) PROVE TypeOK' /\ StageInv'
  BY <1>3 DEF OpenFails, Exit, TypeOK, StageInv
<1>4. ASSUME NEW p \in Proc, Write(p) \/ WriteFails(p) PROVE TypeOK' /\ StageInv'
  <2>1. job[p] \in Job /\ pc[p] = "write"
    BY <1>4 DEF Write, WriteFails, StageInv, TypeOK
  <2>2. job[p].host \in Host /\ job[p].class \in Class
    BY <2>1 DEF Job
  <2>3. /\ target' \in [Host -> Content \cup {None}]
        /\ temp' \in [Host -> Content \cup {None}]
        /\ fd' = [fd EXCEPT ![p] = None]
    BY <1>4, <2>2 DEF Write, WriteFails, Put, Word, TypeOK
  <2>4. Write(p) \/ Exit(p)
    BY <1>4 DEF WriteFails, OnWriteError
  <2>5. TypeOK'
    BY <1>4, <2>1, <2>2, <2>3, <2>4 DEF Write, WriteFails, Goto, Exit, TypeOK
  <2>6. StageInv'
    BY <1>4, <2>1, <2>3, <2>4 DEF Write, Goto, Exit, TypeOK, StageInv
  <2> QED BY <2>5, <2>6
<1>5. ASSUME NEW p \in Proc, Rename(p) \/ Unlink(p) PROVE TypeOK' /\ StageInv'
  <2>1. job[p] \in Job /\ pc[p] \in {"rename", "unlink"}
    BY <1>5 DEF Rename, Unlink, UnlinkFails, StageInv, TypeOK
  <2>2. job[p].host \in Host
    BY <2>1 DEF Job
  <2>3. fd' \in {Published(job[p].host), Lost(job[p].host, "temp")}
    BY <1>5 DEF Rename, Unlink
  <2>5. /\ fd' \in [Proc -> Places \cup {None}]
        /\ \A q \in Proc : fd'[q] = None <=> fd[q] = None
    BY <2>3 DEF Published, Lost, TypeOK
  <2>6. TypeOK'
    BY <1>5, <2>2, <2>5 DEF Rename, Unlink, UnlinkFails, Goto, Exit, TypeOK
  <2>7. StageInv'
    BY <1>5, <2>1, <2>5 DEF Rename, Unlink, UnlinkFails, Goto, Exit, TypeOK, StageInv
  <2> QED BY <2>6, <2>7
<1>6. ASSUME NEW p \in Proc, RenameFails(p) PROVE TypeOK' /\ StageInv'
  BY <1>6 DEF RenameFails, OnRenameError, Goto, TypeOK, StageInv
<1>7. ASSUME NEW p \in Proc, SetHostClass(p) PROVE TypeOK' /\ StageInv'
  <2>1. job[p] \in Job
    BY <1>7 DEF SetHostClass, StageInv, TypeOK
  <2>2. job[p].host \in Host /\ job[p].class \in Class
    BY <2>1 DEF Job
  <2>3. TypeOK'
    BY <1>7, <2>2 DEF SetHostClass, Goto, TypeOK
  <2>4. StageInv'
    BY <1>7 DEF SetHostClass, Goto, TypeOK, StageInv
  <2> QED BY <2>3, <2>4
<1>8. ASSUME NEW p \in Proc, SetHostClassFails(p) PROVE TypeOK' /\ StageInv'
  BY <1>8 DEF SetHostClassFails, OnDbError, Exit, TypeOK, StageInv
<1>9. ASSUME NEW p \in Proc, Kill(p) \/ UnlinkFails(p) PROVE TypeOK' /\ StageInv'
  <2>1. job[p] \in Job
    BY <1>9 DEF Kill, UnlinkFails, Running, StageInv, TypeOK
  <2>2. job[p].host \in Host
    BY <2>1 DEF Job
  <2>3. TypeOK'
    BY <1>9, <2>2 DEF Kill, UnlinkFails, Exit, TypeOK
  <2>4. StageInv'
    BY <1>9 DEF Kill, UnlinkFails, Exit, TypeOK, StageInv
  <2> QED BY <2>3, <2>4
<1>10. ASSUME NEW h \in Host, NEW c \in Class, Upload(h, c) PROVE TypeOK' /\ StageInv'
  <2>1. /\ fd' \in [Proc -> Places \cup {None}]
        /\ \A q \in Proc : fd'[q] = None <=> fd[q] = None
    BY <1>10 DEF Upload, Lost, TypeOK
  <2> QED BY <1>10, <2>1 DEF Upload, TypeOK, StageInv
<1>11. ASSUME Import PROVE TypeOK' /\ StageInv'
  <2>1. UNCHANGED <<fileVars, pc, job, pastVars>>
    BY <1>11, ImportLeaves
  <2>2. \A h \in Host : ValueOf(h) \in Class \cup {None}
    BY DEF ValueOf, TypeOK
  <2>3. /\ import' \in ImportStages /\ unread' \subseteq Host /\ locked' \in BOOLEAN
        /\ loaded' \in [Host -> Class \cup {None}] /\ table' \in [Host -> Class \cup {None}]
    <3>1. CASE ImportLists \/ ImportStores
      BY <3>1 DEF ImportLists, ImportStores, TypeOK
    <3>2. ASSUME NEW h \in Host, ImportReads(h)
          PROVE  /\ import' = import /\ unread' \subseteq Host /\ locked' = locked
                 /\ loaded' \in [Host -> Class \cup {None}] /\ table' = table
      <4>1. PICK c \in {ValueOf(h), None} : loaded' = [loaded EXCEPT ![h] = c]
        BY <3>2 DEF ImportReads
      <4>2. c \in Class \cup {None}
        BY <2>2
      <4> QED BY <3>2, <4>1, <4>2 DEF ImportReads, TypeOK
    <3>3. CASE ImportCommits \/ ImportFails
      BY <3>3 DEF ImportCommits, ImportFails, ImportEnds, TypeOK
    <3> QED BY <1>11, <3>1, <3>2, <3>3 DEF Import, TypeOK
  <2> QED BY <2>1, <2>3 DEF TypeOK, StageInv
<1> QED BY <1>0, <1>1, <1>2, <1>3, <1>4, <1>5, <1>6, <1>7, <1>8, <1>9, <1>10, <1>11
        DEF Next, Command

\* The job of a running command is on a host and for a class.
LEMMA JobOf == ASSUME TypeInv, NEW p \in Proc, job[p] # None
               PROVE  job[p].host \in Host /\ job[p].class \in Class /\ p \in On(job[p].host)
  BY DEF TypeInv, TypeOK, Job, On

\* A step that gives nobody the temp of h, and leaves it to its user, if any.
LEMMA OwnTempKept ==
    ASSUME NEW h \in Host, OwnTemp(h), temp'[h] = temp[h], target'[h] # Blank,
           \A q \in On(h)' : pc'[q] \in {"write", "rename", "unlink"} =>
               /\ q \in UsingTemp(h)
               /\ job'[q] = job[q]
               /\ pc'[q] \in {"write", "rename"} => pc'[q] = pc[q] /\ fd'[q] = fd[q]
    PROVE  OwnTemp(h)'
  BY DEF OwnTemp, UsingTemp

\* A step that takes the temp of h from its user.
LEMMA OwnTempFreed ==
    ASSUME NEW h \in Host, OwnTemp(h), NEW p \in UsingTemp(h),
           p \notin UsingTemp(h)', UsingTemp(h)' \subseteq UsingTemp(h), target'[h] # Blank
    PROVE  OwnTemp(h)'
  BY DEF OwnTemp, UsingTemp

\* Without an overlap the temp has one user, and what is published is whole.
LEMMA OwnTempStep == TypeInv /\ OwnTempInv /\ [Next]_vars => OwnTempInv'
<1> SUFFICES ASSUME TypeInv, OwnTempInv, [Next]_vars,
                    NEW h \in Host, h \notin overlapped'
             PROVE  OwnTemp(h)'
  BY DEF OwnTempInv
<1> USE NoneAssumption, JobAssumption
<1>0. OwnTemp(h) /\ overlapped \subseteq overlapped'
  BY ImportLeaves
     DEF OwnTempInv, Next, Command, vars, Begin, OpenTemp, OpenFails, Write, WriteFails,
         Rename, RenameFails, Unlink, UnlinkFails, SetHostClass, SetHostClassFails, Kill, Upload
<1>1. target[h] # Blank
  BY <1>0 DEF OwnTemp
<1>2. CASE UNCHANGED vars
  BY <1>0, <1>2 DEF OwnTemp, UsingTemp, On, vars
<1>3. ASSUME NEW p \in Proc,
             Begin(p) \/ OpenFails(p) \/ RenameFails(p) \/ SetHostClass(p)
                      \/ SetHostClassFails(p)
      PROVE  OwnTemp(h)'
  <2>1. temp' = temp /\ target' = target /\ fd' = fd
    BY <1>3 DEF Begin, OpenFails, RenameFails, SetHostClass, SetHostClassFails
  <2>2. /\ \A q \in Proc \ {p} : pc'[q] = pc[q] /\ job'[q] = job[q]
        /\ pc'[p] \in {"idle", "open", "db", "ok", "unlink"}
        /\ pc'[p] = "unlink" => pc[p] = "rename" /\ job' = job
    BY <1>3 DEF Begin, OpenFails, RenameFails, SetHostClass, SetHostClassFails,
                OnRenameError, OnDbError, Goto, Exit, TypeInv, TypeOK
  <2>3. \A q \in On(h)' : pc'[q] \in {"write", "rename", "unlink"} =>
               /\ q \in UsingTemp(h)
               /\ job'[q] = job[q]
               /\ pc'[q] \in {"write", "rename"} => pc'[q] = pc[q] /\ fd'[q] = fd[q]
    BY <2>1, <2>2 DEF On, UsingTemp
  <2> QED BY <1>0, <1>1, <2>1, <2>3, OwnTempKept
<1>4. ASSUME NEW p \in Proc, OpenTemp(p) PROVE OwnTemp(h)'
  <2>1. /\ job[p] # None
        /\ job' = job /\ target' = target
        /\ temp' = [temp EXCEPT ![job[p].host] = Blank]
        /\ fd' = [fd EXCEPT ![p] = "temp"]
        /\ pc' = [pc EXCEPT ![p] = "write"]
    BY <1>4 DEF OpenTemp, Goto, TypeInv, StageInv
  <2>2. On(h)' = On(h)
    BY <2>1 DEF On
  <2>3. CASE job[p].host = h
    <3>1. UsingTemp(h) = {}
      BY <1>4, <2>3 DEF OpenTemp
    <3>2. UsingTemp(h)' = {p}
      BY <2>1, <2>2, <2>3, <3>1, JobOf DEF UsingTemp, TypeInv, TypeOK
    <3> QED BY <1>0, <2>1, <2>2, <2>3, <3>1, <3>2 DEF OwnTemp, UsingTemp, TypeInv, TypeOK
  <2>4. CASE job[p].host # h
    <3>1. p \notin On(h)
      BY <2>4 DEF On
    <3> QED BY <1>0, <2>1, <2>2, <2>4, <3>1, JobOf DEF OwnTemp, UsingTemp, TypeInv, TypeOK
  <2> QED BY <2>3, <2>4
<1>5. ASSUME NEW p \in Proc, Write(p) \/ WriteFails(p) \/ Rename(p) \/ Unlink(p)
         \/ UnlinkFails(p) \/ Kill(p)
      PROVE  OwnTemp(h)'
  <2>1. job[p] # None /\ job[p].host \in Host /\ job[p].class \in Class
    BY <1>5, JobOf DEF Write, WriteFails, Rename, Unlink, UnlinkFails, Kill, Running, TypeInv,
        StageInv
  <2>2. /\ \A q \in Proc \ {p} : pc'[q] = pc[q] /\ job'[q] = job[q]
        /\ job'[p] \in {job[p], None}
    BY <1>5 DEF Write, WriteFails, Rename, Unlink, UnlinkFails, Kill, OnWriteError, Goto,
        Exit, TypeInv, TypeOK
  <2>3. CASE job[p].host # h
    <3>1. p \notin On(h) /\ p \notin On(h)'
      BY <2>2, <2>3 DEF On
    <3>2. temp'[h] = temp[h] /\ target'[h] = target[h]
      BY <1>5, <2>1, <2>3 DEF Write, WriteFails, Rename, Unlink, UnlinkFails, Kill, Put,
          TypeInv, TypeOK
    <3>3. \A q \in On(h) : fd'[q] = fd[q]
      BY <1>5, <2>1, <2>3, <3>1 DEF Write, WriteFails, Rename, Unlink, UnlinkFails, Kill, Put,
          Published, Lost, On, TypeInv, TypeOK
    <3>4. \A q \in On(h)' : q \in On(h) /\ pc'[q] = pc[q] /\ job'[q] = job[q]
      BY <2>2, <3>1 DEF On
    <3> QED BY <1>0, <1>1, <3>2, <3>3, <3>4, OwnTempKept DEF UsingTemp
  <2>4. CASE job[p].host = h
    <3>1. p \in On(h)
      BY <2>1, <2>4 DEF On
    <3>2. UsingTemp(h)' \subseteq UsingTemp(h) \cup {p}
      BY <2>2 DEF UsingTemp, On
    <3>3. CASE Write(p)
      <4>1. /\ pc[p] = "write" /\ fd[p] = "temp"
            /\ UsingTemp(h) = {p}
        BY <1>0, <3>1, <3>3 DEF Write, OwnTemp, UsingTemp
      <4>2. /\ target' = target
            /\ temp'[h] = job[p].class
            /\ pc' = [pc EXCEPT ![p] = "rename"]
            /\ job' = job
        BY <2>4, <3>3, <4>1 DEF Write, Put, Word, Goto, TypeInv, TypeOK
      <4>3. UsingTemp(h)' = {p} /\ On(h)' = On(h)
        BY <3>1, <3>2, <4>1, <4>2 DEF UsingTemp, On, TypeInv, TypeOK
      <4>4. \A q \in On(h) : pc'[q] \in {"write", "rename"} => q = p
        BY <4>3 DEF UsingTemp
      <4> QED BY <1>1, <4>2, <4>3, <4>4 DEF OwnTemp, UsingTemp, TypeInv, TypeOK
    <3>4. CASE WriteFails(p) \/ Rename(p) \/ Unlink(p) \/ UnlinkFails(p)
      <4>1. pc[p] \in {"write", "rename", "unlink"} /\ p \in UsingTemp(h)
        BY <3>1, <3>4 DEF WriteFails, Rename, Unlink, UnlinkFails, UsingTemp
      <4>2. pc'[p] \in {"idle", "db", "ok"}
        BY <3>4 DEF WriteFails, Rename, Unlink, UnlinkFails, OnWriteError, Goto, Exit,
            TypeInv, TypeOK
      <4>3. p \notin UsingTemp(h)' /\ UsingTemp(h)' \subseteq UsingTemp(h)
        BY <3>2, <4>1, <4>2 DEF UsingTemp
      <4>4. pc[p] = "write" => fd[p] = "temp"
        BY <1>0, <3>1 DEF OwnTemp
      <4>5. pc[p] = "rename" => temp[h] = job[p].class
        BY <1>0, <3>1 DEF OwnTemp
      <4>6. target'[h] # Blank
        BY <1>1, <2>1, <2>4, <3>4, <4>4, <4>5 DEF WriteFails, Rename, Unlink, UnlinkFails,
            Put, TypeInv, TypeOK
      <4> QED BY <1>0, <4>1, <4>3, <4>6, OwnTempFreed
    <3>5. CASE Kill(p)
      <4>1. p \notin On(h)' /\ target' = target /\ temp' = temp
        BY <3>5 DEF Kill, Exit, On, TypeInv, TypeOK
      <4>2. \A q \in On(h)' : q \in On(h) /\ pc'[q] = pc[q] /\ job'[q] = job[q] /\ fd'[q] = fd[q]
        BY <2>2, <3>5, <4>1 DEF Kill, On, TypeInv, TypeOK
      <4> QED BY <1>0, <1>1, <4>1, <4>2, OwnTempKept DEF UsingTemp
    <3> QED BY <1>5, <3>3, <3>4, <3>5
  <2> QED BY <2>3, <2>4
<1>6. ASSUME NEW g \in Host, NEW c \in Class, Upload(g, c) PROVE OwnTemp(h)'
  <2>1. temp' = temp /\ pc' = pc /\ job' = job /\ target'[h] # Blank
    BY <1>1, <1>6 DEF Upload, TypeInv, TypeOK
  <2>2. On(h)' = On(h)
    BY <2>1 DEF On
  <2>3. \A q \in On(h) : fd[q] # "target" => fd'[q] = fd[q]
    BY <1>6 DEF Upload, Lost, On
  <2>4. \A q \in On(h) : fd'[q] = fd[q]
    BY <1>0, <2>3 DEF OwnTemp, On, TypeInv, StageInv
  <2> QED BY <1>0, <2>1, <2>2, <2>4, OwnTempKept DEF UsingTemp
<1>7. CASE Import
  BY <1>0, <1>7, ImportLeaves DEF OwnTemp, UsingTemp, On
<1> QED BY <1>2, <1>3, <1>4, <1>5, <1>6, <1>7 DEF Next, Command

\* A step that leaves the files of h, and to who uses them what they have.
LEMMA PendingKept ==
    ASSUME NEW h \in Host, Pending(h), temp'[h] = temp[h], target'[h] \in {target[h]} \cup Class,
           UsingTemp(h) \subseteq UsingTemp(h)',
           \A q \in On(h) : fd[q] = "temp" => q \in On(h)' /\ fd'[q] = fd[q],
           target'[h] = Blank =>
               \A q \in On(h) : fd[q] = "target" => q \in On(h)' /\ fd'[q] = fd[q]
    PROVE  Pending(h)'
  BY NoneAssumption DEF Pending

\* Without deaths, failed writes and failed removes there is somebody to complete or to
\* remove a temp.
LEMMA PendingStep == TypeInv /\ PendingInv /\ [Next]_vars => PendingInv'
<1> SUFFICES ASSUME TypeInv, PendingInv, [Next]_vars,
                    NEW h \in Host, h \notin broken'
             PROVE  Pending(h)'
  BY DEF PendingInv
<1> USE NoneAssumption, JobAssumption
<1>0. Pending(h)
  BY ImportLeaves
     DEF PendingInv, Next, Command, vars, Begin, OpenTemp, OpenFails, Write, WriteFails,
         Rename, RenameFails, Unlink, UnlinkFails, SetHostClass, SetHostClassFails, Kill, Upload
<1>1. \A q \in Proc : fd[q] # None => pc[q] = "write"
  BY DEF TypeInv, StageInv
<1>2. CASE UNCHANGED vars
  BY <1>0, <1>2 DEF Pending, UsingTemp, On, vars
<1>3. ASSUME NEW p \in Proc,
             Begin(p) \/ OpenFails(p) \/ RenameFails(p) \/ SetHostClass(p)
                      \/ SetHostClassFails(p)
      PROVE  Pending(h)'
  <2>1. temp' = temp /\ target' = target /\ fd' = fd
    BY <1>3 DEF Begin, OpenFails, RenameFails, SetHostClass, SetHostClassFails
  <2>2. /\ \A q \in Proc \ {p} : pc'[q] = pc[q] /\ job'[q] = job[q]
        /\ pc[p] # "write"
        /\ p \in UsingTemp(h) => p \in UsingTemp(h)'
    BY <1>3 DEF Begin, OpenFails, RenameFails, SetHostClass, SetHostClassFails, Running,
                OnRenameError, OnDbError, Goto, Exit, UsingTemp, On, TypeInv, TypeOK
  <2>3. /\ UsingTemp(h) \subseteq UsingTemp(h)'
        /\ \A q \in On(h) : fd[q] # None => q \in On(h)'
    BY <1>1, <2>2 DEF On, UsingTemp
  <2> QED BY <1>0, <2>1, <2>3, PendingKept
<1>4. ASSUME NEW p \in Proc,
             OpenTemp(p) \/ Write(p) \/ WriteFails(p) \/ Rename(p) \/ Unlink(p)
                      \/ UnlinkFails(p) \/ Kill(p)
      PROVE  Pending(h)'
  <2>1. job[p] # None /\ job[p].host \in Host /\ job[p].class \in Class
    BY <1>4, JobOf DEF OpenTemp, Write, WriteFails, Rename, Unlink, UnlinkFails, Kill,
        Running, TypeInv, StageInv
  <2>2. /\ \A q \in Proc \ {p} : pc'[q] = pc[q] /\ job'[q] = job[q]
        /\ job'[p] \in {job[p], None}
    BY <1>4 DEF OpenTemp, Write, WriteFails, Rename, Unlink, UnlinkFails, Kill, OnWriteError,
        Goto, Exit, TypeInv, TypeOK
  <2>3. CASE job[p].host # h
    <3>1. p \notin On(h) /\ p \notin On(h)'
      BY <2>2, <2>3 DEF On
    <3>2. temp'[h] = temp[h] /\ target'[h] = target[h]
      BY <1>4, <2>1, <2>3 DEF OpenTemp, Write, WriteFails, Rename, Unlink, UnlinkFails, Kill,
          Put, TypeInv, TypeOK
    <3>3. \A q \in On(h) : fd'[q] = fd[q]
      BY <1>4, <2>1, <2>3, <3>1 DEF OpenTemp, Write, WriteFails, Rename, Unlink, UnlinkFails,
          Kill, Put, Published, Lost, On, TypeInv, TypeOK
    <3>4. On(h)' = On(h) /\ UsingTemp(h)' = UsingTemp(h)
      BY <2>2, <3>1 DEF On, UsingTemp
    <3> QED BY <1>0, <3>2, <3>3, <3>4, PendingKept
  <2>4. CASE job[p].host = h
    <3>1. p \in On(h) /\ ~WriteFails(p) /\ ~UnlinkFails(p) /\ ~Kill(p)
      BY <2>1, <2>4 DEF On, WriteFails, UnlinkFails, Kill
    <3>2. CASE OpenTemp(p)
      <4>1. /\ job' = job /\ target' = target /\ fd[p] = None
            /\ fd' = [fd EXCEPT ![p] = "temp"]
            /\ pc' = [pc EXCEPT ![p] = "write"]
        BY <1>1, <3>2 DEF OpenTemp, Goto
      <4>2. On(h)' = On(h) /\ p \in UsingTemp(h)' /\ fd'[p] = "temp"
        BY <3>1, <4>1 DEF On, UsingTemp, TypeInv, TypeOK
      <4>3. \A q \in On(h) : fd[q] = "target" => fd'[q] = "target"
        BY <4>1 DEF On, TypeInv, TypeOK
      <4> QED BY <1>0, <3>1, <4>1, <4>2, <4>3 DEF Pending
    <3>3. CASE Write(p)
      <4>1. /\ job' = job
            /\ fd' = [fd EXCEPT ![p] = None]
            /\ pc' = [pc EXCEPT ![p] = "rename"]
        BY <3>3 DEF Write, Put, Goto
      <4>2. On(h)' = On(h) /\ p \in UsingTemp(h)'
        BY <3>1, <4>1 DEF On, UsingTemp, TypeInv, TypeOK
      <4>3. temp'[h] = Blank => fd[p] # "temp" /\ temp[h] = Blank
        BY <2>1, <2>4, <3>3 DEF Write, Put, Word, TypeInv, TypeOK
      <4>4. target'[h] = Blank => fd[p] # "target" /\ target[h] = Blank
        BY <2>1, <2>4, <3>3 DEF Write, Put, Word, TypeInv, TypeOK
      <4>5. \A q \in On(h) : q # p => fd'[q] = fd[q]
        BY <4>1 DEF On, TypeInv, TypeOK
      <4> QED BY <1>0, <4>2, <4>3, <4>4, <4>5 DEF Pending
    <3>4. CASE Rename(p)
      <4>1. job' = job /\ temp'[h] = None /\ target'[h] = temp[h] /\ fd' = Published(h)
        BY <2>4, <3>4 DEF Rename, Goto, TypeInv, TypeOK
      <4>2. On(h)' = On(h)
        BY <4>1 DEF On
      <4>3. \A q \in On(h) : fd[q] = "temp" => fd'[q] = "target"
        BY <4>1 DEF On, Published
      <4> QED BY <1>0, <4>1, <4>2, <4>3 DEF Pending
    <3>5. CASE Unlink(p)
      <4>1. /\ temp'[h] = None /\ target' = target
            /\ fd' = Lost(h, "temp")
            /\ fd[p] = None
        BY <1>1, <2>4, <3>5 DEF Unlink, UnlinkFails, TypeInv, TypeOK
      <4>2. \A q \in On(h) : fd[q] = "target" => q \in On(h)' /\ fd'[q] = "target"
        BY <2>2, <4>1 DEF On, Lost
      <4> QED BY <1>0, <4>1, <4>2 DEF Pending
    <3> QED BY <1>4, <3>1, <3>2, <3>3, <3>4, <3>5
  <2> QED BY <2>3, <2>4
<1>5. ASSUME NEW g \in Host, NEW c \in Class, Upload(g, c) PROVE Pending(h)'
  <2>1. temp' = temp /\ pc' = pc /\ job' = job
    BY <1>5 DEF Upload
  <2>2. On(h)' = On(h) /\ UsingTemp(h)' = UsingTemp(h)
    BY <2>1 DEF On, UsingTemp
  <2>3. target'[h] = IF h = g THEN c ELSE target[h]
    BY <1>5 DEF Upload, TypeInv, TypeOK
  <2>4. \A q \in On(h) : fd[q] = "temp" \/ h # g => fd'[q] = fd[q]
    BY <1>5 DEF Upload, Lost, On
  <2> QED BY <1>0, <2>1, <2>2, <2>3, <2>4, PendingKept
<1>6. CASE Import
  BY <1>0, <1>6, ImportLeaves DEF Pending, UsingTemp, On
<1> QED BY <1>2, <1>3, <1>4, <1>5, <1>6 DEF Next, Command

\* A step of others that leaves alone the host of a.
LEMMA UndisturbedKept ==
    ASSUME NEW a \in Proc, Undisturbed(a), NEW h, h = job[a].host,
           job'[a] = job[a], pc'[a] = pc[a], fd'[a] = fd[a],
           temp'[h] = temp[h], target'[h] = target[h], table'[h] = table[h],
           loaded' = loaded,
           \A q \in On(h)' : q = a \/ (q \in On(h) /\ pc'[q] = pc[q])
    PROVE  Undisturbed(a)'
  BY DEF Undisturbed, Running

\* A command that nothing disturbs finds what it has stored so far.
LEMMA AloneStep == TypeInv /\ AloneInv /\ [Next]_vars => AloneInv'
<1> SUFFICES ASSUME TypeInv, AloneInv, [Next]_vars,
                    NEW a \in alone', job'[a] # None
             PROVE  Undisturbed(a)'
  BY DEF AloneInv
<1> USE NoneAssumption, JobAssumption
<1>0. a \in Proc
  BY TypeStep DEF TypeInv, TypeOK
<1> DEFINE h == job[a].host
<1>1. CASE UNCHANGED vars
  BY <1>1 DEF AloneInv, Undisturbed, Running, On, vars
<1>2. ASSUME NEW p \in Proc, Begin(p) PROVE Undisturbed(a)'
  <2>1. PICK j \in Job :
          /\ j.dir \/ j.db
          /\ job' = [job EXCEPT ![p] = j]
          /\ pc' = [pc EXCEPT ![p] = IF j.dir THEN "open" ELSE "db"]
          /\ alone' = (alone \ (On(j.host) \cup {p})) \cup
                      (IF \E q \in On(j.host) \ {p} : Running(q) THEN {} ELSE {p})
    BY <1>2 DEF Begin
  <2>2. \A q \in Proc \ {p} : job'[q] = job[q] /\ pc'[q] = pc[q]
    BY <2>1 DEF TypeInv, TypeOK
  <2>3. CASE a = p
    <3>1. job'[a] = j /\ pc'[a] = IF j.dir THEN "open" ELSE "db"
      BY <2>1, <2>3 DEF TypeInv, TypeOK
    <3>2. \A q \in On(j.host)' : q # a => q \in On(j.host) /\ pc'[q] = pc[q]
      BY <2>2, <2>3 DEF On
    <3>3. \A q \in On(j.host) : q # a => ~Running(q)
      BY <2>1, <2>3
    <3>4. \A q \in On(j.host)' : q # a => ~Running(q)'
      BY <3>2, <3>3 DEF Running
    <3> QED BY <3>1, <3>4 DEF Undisturbed
  <2>4. CASE a # p
    <3>1. a \in alone /\ a \notin On(j.host) /\ job[a] # None
      BY <1>0, <2>1, <2>2, <2>4
    <3>2. h # j.host /\ Undisturbed(a)
      BY <1>0, <3>1 DEF On, AloneInv
    <3>3. p \notin On(h)' /\ h' = h
      BY <1>0, <2>1, <2>2, <2>4, <3>2 DEF On, TypeInv, TypeOK
    <3>4. \A q \in On(h)' : q \in On(h) /\ pc'[q] = pc[q]
      BY <2>2, <3>3 DEF On
    <3> QED BY <1>0, <1>2, <2>2, <2>4, <3>2, <3>4, UndisturbedKept DEF Begin
  <2> QED BY <2>3, <2>4
<1>3. ASSUME NEW p \in Proc, p # a,
             \/ OpenTemp(p) \/ OpenFails(p) \/ Write(p) \/ WriteFails(p) \/ Rename(p)
             \/ RenameFails(p) \/ Unlink(p) \/ UnlinkFails(p) \/ SetHostClass(p)
             \/ SetHostClassFails(p) \/ Kill(p)
      PROVE  Undisturbed(a)'
  <2>1. /\ a \in alone
        /\ job[p] # None /\ job[p].host \in Host /\ Running(p) /\ p \in On(job[p].host)
        /\ loaded' = loaded
    BY <1>3, JobOf DEF OpenTemp, OpenFails, Write, WriteFails, Rename, RenameFails, Unlink,
        UnlinkFails, SetHostClass, SetHostClassFails, Kill, Running, TypeInv, StageInv
  <2>2. /\ \A q \in Proc \ {p} : pc'[q] = pc[q] /\ job'[q] = job[q]
        /\ job'[p] \in {job[p], None}
    BY <1>3 DEF OpenTemp, OpenFails, Write, WriteFails, Rename, RenameFails, Unlink,
        UnlinkFails, SetHostClass, SetHostClassFails, Kill, OnWriteError, OnRenameError,
        OnDbError, Goto, Exit, TypeInv, TypeOK
  <2>3. job[a] # None /\ Undisturbed(a) /\ a \in On(h) /\ h \in Host
    BY <1>0, <1>3, <2>1, <2>2, JobOf DEF AloneInv
  <2>4. job[p].host # h
    BY <1>3, <2>1, <2>3 DEF Undisturbed
  <2>5. p \notin On(h)' /\ h' = h
    BY <1>0, <1>3, <2>2, <2>4 DEF On
  <2>6. \A q \in On(h)' : q \in On(h) /\ pc'[q] = pc[q]
    BY <2>2, <2>5 DEF On
  <2>7. a \notin On(job[p].host)
    BY <2>4 DEF On
  <2>8. fd'[a] = fd[a]
    BY <1>0, <1>3, <2>7 DEF OpenTemp, OpenFails, Write, WriteFails, Rename, RenameFails,
        Unlink, UnlinkFails, SetHostClass, SetHostClassFails, Kill, Put, Published, Lost,
        TypeInv, TypeOK
  <2>9. temp'[h] = temp[h] /\ target'[h] = target[h] /\ table'[h] = table[h]
    BY <1>3, <2>1, <2>3, <2>4 DEF OpenTemp, OpenFails, Write, WriteFails, Rename, RenameFails,
        Unlink, UnlinkFails, SetHostClass, SetHostClassFails, Kill, Put, TypeInv, TypeOK
  <2> HIDE DEF h
  <2> QED BY <1>0, <1>3, <2>1, <2>2, <2>3, <2>6, <2>8, <2>9, UndisturbedKept DEF h
<1>4. CASE \/ OpenTemp(a) \/ OpenFails(a) \/ Write(a) \/ WriteFails(a) \/ Rename(a)
           \/ RenameFails(a) \/ Unlink(a) \/ UnlinkFails(a) \/ SetHostClass(a)
           \/ SetHostClassFails(a) \/ Kill(a)
  <2>1. /\ OpenTemp(a) \/ Write(a) \/ Rename(a) \/ RenameFails(a) \/ SetHostClass(a)
        /\ job' = job
    BY <1>0, <1>4 DEF OpenTemp, OpenFails, Write, WriteFails, Rename, RenameFails, Unlink,
        UnlinkFails, SetHostClass, SetHostClassFails, Kill, OnWriteError, OnRenameError,
        OnDbError, Goto, Exit, TypeInv, TypeOK
  <2>2. a \in alone /\ Undisturbed(a)
    BY <2>1 DEF AloneInv, OpenTemp, Write, Rename, RenameFails, SetHostClass
  <2>3. h \in Host /\ job[a].class \in Class
    BY <1>0, <2>1, JobOf
  <2>4. \A q \in Proc \ {a} : pc'[q] = pc[q]
    BY <2>1 DEF OpenTemp, Write, Rename, RenameFails, SetHostClass, OnRenameError, Goto,
                TypeInv, TypeOK
  <2>5. \A q \in On(h)' : q # a => ~Running(q)'
    BY <2>1, <2>2, <2>4 DEF Undisturbed, Running, On
  <2>6. CASE OpenTemp(a)
    <3>1. pc'[a] = "write" /\ fd'[a] = "temp" /\ temp'[h] = Blank
      BY <1>0, <2>3, <2>6 DEF OpenTemp, Goto, TypeInv, TypeOK
    <3> QED BY <2>1, <2>5, <3>1 DEF Undisturbed
  <2>7. CASE Write(a)
    <3>1. pc'[a] = "rename" /\ temp'[h] = job[a].class
      BY <1>0, <2>2, <2>3, <2>7 DEF Write, Put, Word, Goto, Undisturbed, TypeInv, TypeOK
    <3> QED BY <2>1, <2>5, <3>1 DEF Undisturbed
  <2>8. CASE Rename(a)
    <3>1. target'[h] = job[a].class /\ pc'[a] = IF job[a].db THEN "db" ELSE "ok"
      BY <1>0, <2>2, <2>3, <2>8 DEF Rename, Goto, Undisturbed, TypeInv, TypeOK
    <3> QED BY <2>1, <2>5, <3>1 DEF Undisturbed
  <2>9. CASE RenameFails(a)
    <3>1. pc'[a] = "unlink"
      BY <1>0, <2>9 DEF RenameFails, OnRenameError, Goto, TypeInv, TypeOK
    <3> QED BY <2>1, <2>5, <3>1 DEF Undisturbed
  <2>10. CASE SetHostClass(a)
    <3>1. /\ pc[a] = "db" /\ pc'[a] = "ok" /\ table'[h] = job[a].class
          /\ target' = target /\ loaded' = loaded
      BY <1>0, <2>3, <2>10 DEF SetHostClass, Goto, TypeInv, TypeOK
    <3>2. loaded[h] \in {None, job[a].class}
      BY <2>10 DEF SetHostClass, Locked, Outdated
    <3> QED BY <2>1, <2>2, <2>5, <3>1, <3>2 DEF Undisturbed
  <2> QED BY <2>1, <2>6, <2>7, <2>8, <2>9, <2>10
<1>5. ASSUME NEW g \in Host, NEW c \in Class, Upload(g, c) PROVE Undisturbed(a)'
  <2>1. a \in alone /\ a \notin On(g) /\ pc' = pc /\ job' = job /\ temp' = temp /\ table' = table
    BY <1>5 DEF Upload
  <2>2. Undisturbed(a) /\ h \in Host /\ h # g
    BY <1>0, <2>1, JobOf DEF AloneInv, On
  <2>3. target'[h] = target[h]
    BY <1>5, <2>2 DEF Upload, TypeInv, TypeOK
  <2>4. fd'[a] = fd[a] /\ On(h)' = On(h) /\ loaded' = loaded
    BY <1>0, <1>5, <2>1 DEF Upload, Lost, On
  <2> QED BY <1>0, <2>1, <2>2, <2>3, <2>4, UndisturbedKept
<1>6. CASE Import
  <2>1. a \in alone /\ pc' = pc /\ job' = job /\ target' = target /\ temp' = temp /\ fd' = fd
    BY <1>6, ImportLeaves
  <2>2. Undisturbed(a) /\ h \in Host /\ job[a].class \in Class /\ On(h)' = On(h)
    BY <1>0, <2>1, JobOf DEF AloneInv, On
  <2>3. \A q \in On(h) : q # a => ~Running(q)'
    BY <2>1, <2>2 DEF Undisturbed, On, Running
  <2>4. ASSUME pc[a] = "ok", job[a].dir, job[a].db
        PROVE  table'[h] = job[a].class /\ loaded'[h] \in {None, job[a].class}
    <3>1. /\ ValueOf(h) = job[a].class /\ table[h] = job[a].class
          /\ loaded[h] \in {None, job[a].class}
      BY <2>2, <2>4 DEF Undisturbed, ValueOf
    <3>2. CASE ImportLists \/ ImportStores
      BY <3>1, <3>2 DEF ImportLists, ImportStores
    <3>3. ASSUME NEW g \in Host, ImportReads(g)
          PROVE  table'[h] = job[a].class /\ loaded'[h] \in {None, job[a].class}
      BY <2>2, <3>1, <3>3 DEF ImportReads, TypeInv, TypeOK
    <3>4. CASE ImportCommits
      BY <2>2, <3>1, <3>4 DEF ImportCommits, ImportEnds
    <3>5. CASE ImportFails
      BY <2>2, <3>1, <3>5 DEF ImportFails, ImportEnds
    <3> QED BY <1>6, <3>2, <3>3, <3>4, <3>5 DEF Import
  <2> QED BY <2>1, <2>2, <2>3, <2>4 DEF Undisturbed
<1> QED BY <1>0, <1>1, <1>2, <1>3, <1>4, <1>5, <1>6 DEF Next, Command

LEMMA Invariance == Spec => []IInv
<1>1. IInv /\ [Next]_vars => IInv'
  BY TypeStep, OwnTempStep, PendingStep, AloneStep DEF IInv
<1> QED BY InitIInv, <1>1, PTL DEF Spec

\* Every variable keeps its type, whatever commands, uploads and imports do.
THEOREM TypeCorrect == Spec => []TypeOK
<1>1. IInv => TypeOK
  BY DEF IInv, TypeInv
<1> QED BY Invariance, <1>1, PTL

\* Without an overlap HOST.class is never blank and nobody writes to it.
THEOREM ReadersAlwaysSeeAClass == Spec => []ReadersSeeAClass
<1>1. IInv => ReadersSeeAClass
  BY NoneAssumption DEF IInv, TypeInv, TypeOK, StageInv, OwnTempInv, OwnTemp, ReadersSeeAClass,
      On
<1> QED BY Invariance, <1>1, PTL

\* Without deaths, failed writes and failed removes the last of the commands leaves no
\* temp behind.
THEOREM LastCommandTidiesUp == Spec => []OrderAfterOverlap
<1>1. ASSUME IInv, NEW h \in Host \ broken, \A p \in On(h) : ~Running(p)
      PROVE  temp[h] = None /\ target[h] # Blank
  <2>1. Pending(h)
    BY <1>1 DEF IInv, PendingInv
  <2>2. UsingTemp(h) = {}
    BY <1>1 DEF UsingTemp, Running
  <2>3. \A p \in On(h) : fd[p] = None
    BY <1>1 DEF Running, On, IInv, TypeInv, StageInv
  <2> QED BY <2>1, <2>2, <2>3, NoneAssumption DEF Pending
<1>2. IInv => OrderAfterOverlap
  BY <1>1 DEF OrderAfterOverlap
<1> QED BY Invariance, <1>2, PTL

\* Success means that the class is in the directory and in the database, and no
\* import undoes that but one that read the class files earlier and without the lock.
THEOREM SuccessMeansBoth == Spec => []StoredInBoth
<1>1. ASSUME IInv, NEW p \in alone, pc[p] = "ok", job[p].dir, job[p].db
      PROVE  ValueOf(job[p].host) = job[p].class /\ table[job[p].host] = job[p].class
  <2>1. p \in Proc /\ job[p] # None
    BY <1>1 DEF IInv, TypeInv, TypeOK, StageInv
  <2>2. Undisturbed(p) /\ job[p].class \in Class
    BY <1>1, <2>1, JobOf DEF IInv, AloneInv
  <2> QED BY <1>1, <2>2, NoneAssumption DEF Undisturbed, ValueOf
<1>2. IInv => StoredInBoth
  BY <1>1 DEF StoredInBoth
<1> QED BY Invariance, <1>2, PTL


-----------------------------------------------------------------------------
(* Each host is a ClassRegister. *)

Calls(h) == [p \in Proc |-> CallOf(h, p)]

\* What of a command determines how ClassRegister sees it.
LEMMA CallKept ==
    ASSUME NEW h, NEW p, NEW q \in Proc, q # p,
           \A r \in Proc \ {p} : job'[r] = job[r] /\ pc'[r] = pc[r]
    PROVE  CallOf(h, q)' = CallOf(h, q)
  BY DEF CallOf, StateOf, On

LEMMA CallsChanged ==
    ASSUME NEW h, NEW p \in Proc,
           \A r \in Proc \ {p} : job'[r] = job[r] /\ pc'[r] = pc[r]
    PROVE  Calls(h)' = [Calls(h) EXCEPT ![p] = CallOf(h, p)']
<1>1. \A q \in Proc \ {p} : CallOf(h, q)' = CallOf(h, q)
  BY CallKept
<1> QED BY <1>1 DEF Calls

\* The call of a command on h.
LEMMA CallRecord ==
    ASSUME TypeInv, NEW h \in Host, NEW p \in On(h)
    PROVE  /\ CallOf(h, p) = [state |-> StateOf(p), class |-> job[p].class, dir |-> job[p].dir,
                              db |-> job[p].db]
           /\ CallOf(h, p) # None
<1>1. job[p] \in Job /\ StateOf(p) \in {"asked", "stored", "ok"}
  BY DEF TypeInv, TypeOK, On, StateOf
<1>2. [state |-> StateOf(p), class |-> job[p].class, dir |-> job[p].dir, db |-> job[p].db] \in Outcome
  BY <1>1 DEF Outcome, Job
<1> QED BY <1>2, OutcomeAssumption DEF CallOf

LEMMA NewState ==
    ASSUME NEW r, NEW s, NEW t, NEW c, NEW d, NEW b,
           r = [state |-> s, class |-> c, dir |-> d, db |-> b]
    PROVE  [r EXCEPT !.state = t] = [state |-> t, class |-> c, dir |-> d, db |-> b]
  OBVIOUS

\* A step that a host does not see.
LEMMA Stutter ==
    ASSUME NEW h, ValueOf(h)' = ValueOf(h), table'[h] = table[h],
           \A q \in Proc : CallOf(h, q)' = CallOf(h, q)
    PROVE  UNCHANGED Register(h)!vars
  BY DEF Register!vars

LEMMA BeginStep ==
    ASSUME IInv, NEW h \in Host, NEW p \in Proc, Begin(p)
    PROVE  Register(h)!Ask(p) \/ Register(h)!Leave(p)
<1> USE NoneAssumption, JobAssumption
<1>1. PICK j \in Job :
          /\ j.dir \/ j.db
          /\ job' = [job EXCEPT ![p] = j]
          /\ pc' = [pc EXCEPT ![p] = IF j.dir THEN "open" ELSE "db"]
  BY DEF Begin
<1>2. \A r \in Proc \ {p} : job'[r] = job[r] /\ pc'[r] = pc[r]
  BY <1>1 DEF IInv, TypeInv, TypeOK
<1>3. Calls(h)' = [Calls(h) EXCEPT ![p] = CallOf(h, p)']
  BY <1>2, CallsChanged
<1>4. ValueOf(h)' = ValueOf(h) /\ table' = table
  BY DEF Begin, ValueOf
<1>5. ~Register(h)!Active(p)
  BY DEF Begin, Running, Register!Active, CallOf, StateOf, On, IInv, TypeInv, TypeOK, StageInv
<1>6. job'[p] = j /\ pc'[p] = IF j.dir THEN "open" ELSE "db"
  BY <1>1 DEF IInv, TypeInv, TypeOK
<1>7. CASE j.host = h
  <2> DEFINE c == [state |-> "asked", class |-> j.class, dir |-> j.dir, db |-> j.db]
  <2>1. CallOf(h, p)' = c
    BY <1>1, <1>6, <1>7 DEF CallOf, StateOf, On
  <2>2. c \in Register(h)!Call /\ c.state = "asked" /\ (c.dir \/ c.db)
    BY <1>1 DEF Register!Call, Register!States, Job
  <2> HIDE DEF c
  <2> QED BY <1>3, <1>4, <1>5, <2>1, <2>2 DEF Register!Ask, Calls
<1>8. CASE j.host # h
  <2>1. CallOf(h, p)' = None
    BY <1>6, <1>8 DEF CallOf, On
  <2> QED BY <1>3, <1>4, <1>5, <2>1 DEF Register!Leave, Calls
<1> QED BY <1>7, <1>8

\* The steps that end with an error.
LEMMA FailStep ==
    ASSUME IInv, NEW h \in Host, NEW p \in Proc, Running(p), Exit(p), job[p].host = h,
           ValueOf(h)' = ValueOf(h), table' = table
    PROVE  Register(h)!Fail(p)
<1> USE NoneAssumption, JobAssumption
<1>1. \A r \in Proc \ {p} : job'[r] = job[r] /\ pc'[r] = pc[r]
  BY DEF Exit, IInv, TypeInv, TypeOK
<1>2. Calls(h)' = [Calls(h) EXCEPT ![p] = CallOf(h, p)']
  BY <1>1, CallsChanged
<1>3. CallOf(h, p)' = None
  BY DEF Exit, CallOf, On, IInv, TypeInv, TypeOK
<1>4. p \in On(h) /\ StateOf(p) \in {"asked", "stored"}
  BY DEF Running, On, StateOf, IInv, TypeInv, StageInv
<1>5. CallOf(h, p) # None /\ CallOf(h, p).state = StateOf(p)
  BY <1>4, CallRecord DEF IInv
<1>6. Register(h)!Active(p)
  BY <1>4, <1>5 DEF Register!Active
<1> QED BY <1>2, <1>3, <1>6 DEF Register!Fail, Calls

\* Every step of a command, on a host that has seen no overlap.
LEMMA CommandStep ==
    ASSUME IInv, NEW h \in Host, h \notin overlapped', NEW p \in Proc, Command(p)
    PROVE  Register(h)!Next \/ UNCHANGED Register(h)!vars
<1> USE NoneAssumption, JobAssumption
<1>1. CASE Begin(p)
  BY <1>1, BeginStep DEF Register!Next
<1>2. CASE ~Begin(p) /\ job[p].host # h
  <2>1. job[p] # None /\ job[p].host \in Host
    BY <1>2, JobOf DEF Command, OpenTemp, OpenFails, Write, WriteFails, Rename, RenameFails,
        Unlink, UnlinkFails, SetHostClass, SetHostClassFails, Kill, Running, IInv, TypeInv,
        StageInv
  <2>2. /\ \A r \in Proc \ {p} : job'[r] = job[r] /\ pc'[r] = pc[r]
        /\ job'[p] \in {job[p], None}
    BY <1>2 DEF Command, OpenTemp, OpenFails, Write, WriteFails, Rename, RenameFails, Unlink,
        UnlinkFails, SetHostClass, SetHostClassFails, Kill, OnWriteError, OnRenameError,
        OnDbError, Goto, Exit, IInv, TypeInv, TypeOK
  <2>3. target'[h] = target[h] /\ table'[h] = table[h]
    BY <1>2, <2>1 DEF Command, OpenTemp, OpenFails, Write, WriteFails, Rename, RenameFails,
        Unlink, UnlinkFails, SetHostClass, SetHostClassFails, Kill, Put, IInv, TypeInv, TypeOK
  <2>4. CallOf(h, p) = None /\ CallOf(h, p)' = None
    BY <1>2, <2>2 DEF CallOf, On
  <2>5. \A q \in Proc \ {p} : CallOf(h, q)' = CallOf(h, q)
    BY <2>2, CallKept
  <2> QED BY <2>3, <2>4, <2>5, Stutter DEF ValueOf
<1>3. CASE ~Begin(p) /\ job[p].host = h
  <2>1. job[p] # None /\ job[p].class \in Class /\ p \in On(h)
    BY <1>3, JobOf DEF Command, OpenTemp, OpenFails, Write, WriteFails, Rename, RenameFails,
        Unlink, UnlinkFails, SetHostClass, SetHostClassFails, Kill, Running, IInv, TypeInv,
        StageInv
  <2>2. OwnTemp(h)
    BY <1>3 DEF Command, OpenTemp, OpenFails, Write, WriteFails, Rename, RenameFails, Unlink,
        UnlinkFails, SetHostClass, SetHostClassFails, Kill, IInv, OwnTempInv, IInv, TypeInv,
        TypeOK
  <2>3. CASE OpenTemp(p) \/ Write(p) \/ RenameFails(p)
    <3>1. job' = job /\ target' = target /\ table' = table
      BY <2>1, <2>2, <2>3 DEF OpenTemp, Write, RenameFails, Put, OwnTemp, OnRenameError, Goto
    <3>2. /\ pc[p] \notin {"ok", "db"} /\ pc'[p] \notin {"ok", "db"}
          /\ \A r \in Proc \ {p} : pc'[r] = pc[r]
      BY <2>3 DEF OpenTemp, Write, RenameFails, OnRenameError, Goto, IInv, TypeInv, TypeOK
    <3>3. \A q \in Proc : CallOf(h, q)' = CallOf(h, q)
      BY <3>1, <3>2 DEF CallOf, StateOf, On
    <3> QED BY <3>1, <3>3, Stutter DEF ValueOf
  <2>4. CASE OpenFails(p) \/ WriteFails(p) \/ Unlink(p) \/ UnlinkFails(p)
           \/ SetHostClassFails(p) \/ Kill(p)
    <3>1. Running(p) /\ Exit(p)
      BY <2>4 DEF OpenFails, WriteFails, Unlink, UnlinkFails, SetHostClassFails, Kill,
          Running, OnWriteError, OnDbError
    <3>2. ValueOf(h)' = ValueOf(h) /\ table' = table
      BY <2>1, <2>2, <2>4 DEF OpenFails, WriteFails, Unlink, UnlinkFails, SetHostClassFails,
          Kill, Put, OwnTemp, ValueOf
    <3> QED BY <1>3, <3>1, <3>2, FailStep DEF Register!Next
  <2>5. CASE Rename(p)
    <3>1. /\ temp[h] = job[p].class /\ target'[h] = job[p].class /\ table' = table
          /\ job' = job /\ pc' = [pc EXCEPT ![p] = IF job[p].db THEN "db" ELSE "ok"]
          /\ pc[p] = "rename" /\ job[p].dir
      BY <1>3, <2>1, <2>2, <2>5 DEF Rename, Goto, OwnTemp, IInv, TypeInv, TypeOK, StageInv
    <3>2. Calls(h)' = [Calls(h) EXCEPT ![p] = CallOf(h, p)']
      BY <3>1, CallsChanged DEF IInv, TypeInv, TypeOK
    <3>3. CallOf(h, p) = [state |-> "asked", class |-> job[p].class, dir |-> job[p].dir,
                          db |-> job[p].db]
      BY <2>1, <3>1 DEF CallOf, StateOf
    <3> DEFINE state == IF job[p].db THEN "stored" ELSE "ok"
    <3>4. CallOf(h, p)' = [state |-> state, class |-> job[p].class, dir |-> job[p].dir,
                           db |-> job[p].db]
      BY <2>1, <3>1 DEF CallOf, StateOf, On, IInv, TypeInv, TypeOK
    <3>5. [CallOf(h, p) EXCEPT !.state = state] = CallOf(h, p)'
      <4> HIDE DEF state
      <4> QED BY <3>3, <3>4, NewState
    <3>6. CallOf(h, p) # None
      BY <2>1, CallRecord DEF IInv
    <3>7. ValueOf(h)' = job[p].class
      BY <2>1, <3>1 DEF ValueOf
    <3>8. Calls(h)' = [Calls(h) EXCEPT ![p].state = IF Calls(h)[p].db THEN "stored" ELSE "ok"]
      <4>1. Calls(h)[p] = CallOf(h, p) /\ Calls(h)[p].db = job[p].db
        BY <3>3 DEF Calls
      <4> QED BY <3>2, <3>5, <4>1
    <3>9. Register(h)!Store(p)
      BY <3>1, <3>3, <3>6, <3>8, <3>7 DEF Register!Store, Calls
    <3> QED BY <3>9 DEF Register!Next
  <2>6. CASE SetHostClass(p)
    <3>1. /\ target' = target /\ table'[h] = job[p].class
          /\ job' = job /\ pc' = [pc EXCEPT ![p] = "ok"]
          /\ pc[p] = "db" /\ job[p].db
      BY <1>3, <2>1, <2>6 DEF SetHostClass, Goto, IInv, TypeInv, TypeOK, StageInv
    <3>2. Calls(h)' = [Calls(h) EXCEPT ![p] = CallOf(h, p)']
      BY <3>1, CallsChanged DEF IInv, TypeInv, TypeOK
    <3>3. CallOf(h, p) = [state |-> IF job[p].dir THEN "stored" ELSE "asked",
                          class |-> job[p].class, dir |-> job[p].dir, db |-> job[p].db]
      BY <2>1, <3>1 DEF CallOf, StateOf
    <3>4. CallOf(h, p)' = [state |-> "ok", class |-> job[p].class, dir |-> job[p].dir,
                           db |-> job[p].db]
      BY <2>1, <3>1 DEF CallOf, StateOf, On, IInv, TypeInv, TypeOK
    <3>5. [CallOf(h, p) EXCEPT !.state = "ok"] = CallOf(h, p)'
      BY <3>3, <3>4, NewState
    <3>6. CallOf(h, p) # None
      BY <2>1, CallRecord DEF IInv
    <3>7. Register(h)!Active(p)
      BY <2>1, <3>3, <3>6 DEF Register!Active
    <3>8. Calls(h)' = [Calls(h) EXCEPT ![p].state = "ok"]
      <4>1. Calls(h)[p] = CallOf(h, p)
        BY DEF Calls
      <4> QED BY <3>2, <3>5, <4>1
    <3>9. Register(h)!Enter(p)
      BY <3>1, <3>3, <3>8, <3>7 DEF Register!Enter, Calls, ValueOf
    <3> QED BY <3>9 DEF Register!Next
  <2> QED BY <1>3, <2>3, <2>4, <2>5, <2>6 DEF Command
<1> QED BY <1>1, <1>2, <1>3

\* goprecords classify sets the class of a host atomically in the directory, then
\* in the database, and reports what it did, unless two commands had its temp.
THEOREM ClassifyImplementsRegister == Spec => AtomicUnlessOverlapped
<1>1. ASSUME IInv, Next, NEW h \in Host \ overlapped'
      PROVE  Register(h)!Next \/ UNCHANGED Register(h)!vars
  <2> USE NoneAssumption
  <2>1. CASE \E p \in Proc : Command(p)
    BY <1>1, <2>1, CommandStep
  <2>2. ASSUME NEW g \in Host, NEW c \in Class, Upload(g, c)
        PROVE  Register(h)!Next \/ UNCHANGED Register(h)!vars
    <3>1. \A q \in Proc : CallOf(h, q)' = CallOf(h, q)
      BY <2>2 DEF Upload, CallOf, StateOf, On
    <3>2. table' = table /\ target'[h] = IF g = h THEN c ELSE target[h]
      BY <1>1, <2>2 DEF Upload, IInv, TypeInv, TypeOK
    <3>3. CASE g = h
      BY <3>1, <3>2, <3>3 DEF ValueOf, Register!Next, Register!Put
    <3>4. CASE g # h
      BY <3>1, <3>2, <3>4, Stutter DEF ValueOf
    <3> QED BY <3>3, <3>4
  <2>3. CASE Import
    <3>1. \A q \in Proc : CallOf(h, q)' = CallOf(h, q)
      BY <2>3, ImportLeaves DEF CallOf, StateOf, On
    <3>2. ValueOf(h)' = ValueOf(h)
      BY <2>3, ImportLeaves DEF ValueOf
    <3>3. table'[h] = table[h] \/ table'[h] \in Class
      BY <1>1, <2>3, ImportLeaves DEF ImportCommits, IInv, TypeInv, TypeOK
    <3>4. CASE table'[h] = table[h]
      BY <3>1, <3>2, <3>4, Stutter
    <3>5. CASE table'[h] \in Class
      BY <3>1, <3>2, <3>5 DEF Register!Next, Register!Mirror
    <3> QED BY <3>3, <3>4, <3>5
  <2> QED BY <1>1, <2>1, <2>2, <2>3 DEF Next
<1>2. IInv /\ [Next]_vars
        => [\A h \in Host \ overlapped' : Register(h)!Next \/ UNCHANGED Register(h)!vars]_vars
  BY <1>1
<1> QED BY Invariance, <1>2, PTL DEF Spec, AtomicUnlessOverlapped
=============================================================================
