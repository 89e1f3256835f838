------------------------------- MODULE Classes -------------------------------
(***************************************************************************)
(* Host classification: goprecords classify (internal/cli/cmd_classify.go,  *)
(* internal/hostclass) on the stats directory, on the database or on both,  *)
(* while uploads of kind class replace HOST.class, reports and list-classes *)
(* read it, and an import mirrors it into the database.                     *)
(*                                                                          *)
(* hostclass.WriteFile writes HOST.class.tmp, always under that name, and   *)
(* renames it.  Two commands for one host therefore share the temporary     *)
(* file: one may rename the file that the other has open, or remove it.     *)
(* Of an open file the model says under which name it is found by now.      *)
(* What a file holds is the class that readClassFile makes of it, or Blank  *)
(* if there is no valid line: the words end in a newline, so that one        *)
(* written over another is still the first line.                            *)
(***************************************************************************)
CONSTANTS
    Host,
    Class,   \* classifications
    Proc,    \* classify commands that may run at once
    Blank,   \* the content of a file without a valid line
    None     \* no file, no row

\* -stats-dir, -db or both.
Job == [host : Host, class : Class, dir : BOOLEAN, db : BOOLEAN]
ASSUME JobAssumption == None \notin Job

\* How a user sees a command (see ClassRegister).
Outcome == [state : {"asked", "stored", "ok"}, class : Class, dir : BOOLEAN, db : BOOLEAN]
ASSUME OutcomeAssumption == None \notin Outcome

Content == Class \cup {Blank}
Places == {"temp", "target", "old"}
ASSUME NoneAssumption ==
    /\ None \notin Host \cup Content \cup Places
    /\ Blank \notin Class

Stages == {"idle", "open", "write", "rename", "unlink", "db", "ok"}
ImportStages == {"idle", "reading", "storing"}

VARIABLES
    target,  \* what HOST.class says
    temp,    \* what HOST.class.tmp says
    table,   \* table host_class of the database
    pc,      \* the next step of each command; "ok" once it has reported success
    job,     \* what it was asked to do, or None
    fd,      \* where the file is that os.WriteFile has open: HOST.class.tmp,
             \* HOST.class, or "old" if it has no name any more
    import,  \* how far an import is with its classes
    unread,  \* the hosts whose class file it has found and not read yet
    loaded,  \* the classes that it has read
    locked,  \* it holds the write lock
    overlapped, \* history: the hosts whose temp two commands had at once
    broken,     \* history: the hosts for which a command died, could not write, or
                \* could not remove
    alone       \* history: the commands with no other change of their host since

fileVars == <<target, temp, fd>>
importVars == <<import, unread, loaded, locked>>
pastVars == <<overlapped, broken, alone>>
vars == <<fileVars, table, pc, job, importVars, pastVars>>

Nothing == [h \in Host |-> None]

Init ==
    /\ target = Nothing
    /\ temp = Nothing
    /\ table = Nothing
    /\ pc = [p \in Proc |-> "idle"]
    /\ job = [p \in Proc |-> None]
    /\ fd = [p \in Proc |-> None]
    /\ import = "idle"
    /\ unread = {}
    /\ loaded = Nothing
    /\ locked = FALSE
    /\ overlapped = {}
    /\ broken = {}
    /\ alone = {}

-----------------------------------------------------------------------------
(* Helpers. *)

Goto(p, stage) == /\ pc' = [pc EXCEPT ![p] = stage]
                  /\ UNCHANGED job

\* The process ends with an error, or is killed.
Exit(p) == /\ pc' = [pc EXCEPT ![p] = "idle"]
           /\ job' = [job EXCEPT ![p] = None]

Running(p) == pc[p] \in {"open", "write", "rename", "unlink", "db"}
On(h) == {p \in Proc : job[p] # None /\ job[p].host = h}
\* The commands between the opening of the temp of h and their last use of it.
UsingTemp(h) == {p \in On(h) : pc[p] \in {"write", "rename", "unlink"}}

\* readClassFile on HOST.class: a file without a valid line is ignored.
ValueOf(h) == IF target[h] = Blank THEN None ELSE target[h]

\* The open files of h when the file of a name has lost it, to another or to none,
Lost(h, name) == [p \in Proc |-> IF p \in On(h) /\ fd[p] = name THEN "old" ELSE fd[p]]

\* and when HOST.class.tmp has become HOST.class.
Published(h) ==
    [p \in Proc |-> IF p \in On(h) /\ fd[p] = "temp" THEN "target" ELSE Lost(h, "target")[p]]

\* Mutant: the arguments of WriteFile are swapped.
WordSwapped(p) == job[p].host
Word(p) == job[p].class

\* Mutant: the error of os.WriteFile is ignored.
RenameAnyway(p) == Goto(p, "rename")
OnWriteError(p) == Exit(p)

\* Mutant: no os.Remove when the rename fails.
LeaveTemp(p) == Exit(p)
OnRenameError(p) == Goto(p, "unlink")

\* Mutant: the error of storeHostClass is ignored.
SucceedAnyway(p) == Goto(p, "ok")
OnDbError(p) == Exit(p)

\* What is written to the file that p has open ends up where that file is now.
Put(p, content) ==
    /\ target' = IF fd[p] = "target" THEN [target EXCEPT ![job[p].host] = content] ELSE target
    /\ temp' = IF fd[p] = "temp" THEN [temp EXCEPT ![job[p].host] = content] ELSE temp
    /\ fd' = [fd EXCEPT ![p] = None]

\* Mutant: the class files are read outside of the transaction.
NeverLocked == FALSE
Locked == locked

\* An import without the lock has read another class for the host of p, and will
\* store it when p has stored its own.
Outdated(p) == ~locked /\ loaded[job[p].host] \notin {None, job[p].class}

-----------------------------------------------------------------------------
(* runClassify. *)

Begin(p) ==
    /\ ~Running(p)
    /\ \E j \in Job :
          /\ j.dir \/ j.db
          /\ job' = [job EXCEPT ![p] = j]
          /\ pc' = [pc EXCEPT ![p] = IF j.dir THEN "open" ELSE "db"]
          /\ alone' = (alone \ (On(j.host) \cup {p})) \cup
                      (IF \E q \in On(j.host) \ {p} : Running(q) THEN {} ELSE {p})
    /\ UNCHANGED <<fileVars, table, importVars, overlapped, broken>>

\* os.WriteFile: open with O_CREATE and O_TRUNC ...
OpenTemp(p) ==
    /\ pc[p] = "open"
    /\ temp' = [temp EXCEPT ![job[p].host] = Blank]
    /\ fd' = [fd EXCEPT ![p] = "temp"]
    /\ overlapped' = overlapped \cup {h \in {job[p].host} : UsingTemp(h) # {}}
    /\ Goto(p, "write")
    /\ UNCHANGED <<target, table, importVars, broken, alone>>

OpenFails(p) ==
    /\ pc[p] = "open"
    /\ Exit(p)
    /\ UNCHANGED <<fileVars, table, importVars, pastVars>>

\* ... write, and close.
Write(p) ==
    /\ pc[p] = "write"
    /\ Put(p, Word(p))
    /\ Goto(p, "rename")
    /\ UNCHANGED <<table, importVars, pastVars>>

\* A full disk: nothing is written, a part of the word, or all of it.  The temp
\* stays.
WriteFails(p) ==
    /\ pc[p] = "write"
    /\ \/ Put(p, Blank) \/ Put(p, Word(p))
       \/ fd' = [fd EXCEPT ![p] = None] /\ UNCHANGED <<target, temp>>
    /\ OnWriteError(p)
    /\ broken' = broken \cup {job[p].host}
    /\ UNCHANGED <<table, importVars, overlapped, alone>>

\* os.Rename moves whatever has the name of the temp by now.
Rename(p) ==
    /\ pc[p] = "rename"
    /\ LET h == job[p].host IN
       /\ temp[h] # None
       /\ target' = [target EXCEPT ![h] = temp[h]]
       /\ temp' = [temp EXCEPT ![h] = None]
       /\ fd' = Published(h)
    /\ Goto(p, IF job[p].db THEN "db" ELSE "ok")
    /\ UNCHANGED <<table, importVars, pastVars>>

\* The name is gone, or the directory cannot be written.
RenameFails(p) ==
    /\ pc[p] = "rename"
    /\ OnRenameError(p)
    /\ UNCHANGED <<fileVars, table, importVars, pastVars>>

\* os.Remove(tmp), whoever has made a file of that name since, ...
Unlink(p) ==
    /\ pc[p] = "unlink"
    /\ temp' = [temp EXCEPT ![job[p].host] = None]
    /\ fd' = Lost(job[p].host, "temp")
    /\ Exit(p)
    /\ UNCHANGED <<target, table, importVars, pastVars>>

\* ... whose error is ignored: the temp stays.
UnlinkFails(p) ==
    /\ pc[p] = "unlink"
    /\ Exit(p)
    /\ broken' = broken \cup {job[p].host}
    /\ UNCHANGED <<fileVars, table, importVars, overlapped, alone>>

\* storeHostClass: one statement; SQLite refuses it while an import writes.
SetHostClass(p) ==
    /\ pc[p] = "db"
    /\ ~Locked
    /\ table' = [table EXCEPT ![job[p].host] = job[p].class]
    /\ Goto(p, "ok")
    /\ alone' = IF Outdated(p) THEN alone \ {p} ELSE alone
    /\ UNCHANGED <<fileVars, importVars, overlapped, broken>>

SetHostClassFails(p) ==
    /\ pc[p] = "db"
    /\ OnDbError(p)
    /\ UNCHANGED <<fileVars, table, importVars, pastVars>>

\* The command is killed.
Kill(p) ==
    /\ Running(p)
    /\ Exit(p)
    /\ fd' = [fd EXCEPT ![p] = None]
    /\ broken' = broken \cup {job[p].host}
    /\ UNCHANGED <<target, temp, table, importVars, overlapped, alone>>

-----------------------------------------------------------------------------
(* Everybody else. *)

\* PUT /upload/HOST/class, through a temp of its own (see Uploads!AtomicEffect).
Upload(h, c) ==
    /\ target' = [target EXCEPT ![h] = c]
    /\ fd' = Lost(h, "target")
    /\ alone' = alone \ On(h)
    /\ UNCHANGED <<temp, table, pc, job, importVars, overlapped, broken>>

\* importHostClasses: LoadFS lists the directory ...  An import that has found a
\* records file has inserted rows by now, and so holds the write lock (see Import);
\* one that has not holds nothing.
ImportLists ==
    /\ import = "idle"
    /\ import' = "reading"
    /\ unread' = {h \in Host : target[h] # None}
    /\ locked' \in BOOLEAN
    /\ UNCHANGED <<fileVars, table, pc, job, loaded, pastVars>>

\* ... and opens the class files one after the other; one that cannot be opened is
\* skipped.
ImportReads(h) ==
    /\ import = "reading"
    /\ h \in unread
    /\ unread' = unread \ {h}
    /\ \E c \in {ValueOf(h), None} : loaded' = [loaded EXCEPT ![h] = c]
    /\ UNCHANGED <<fileVars, table, pc, job, import, locked, pastVars>>

\* The first INSERT takes the lock, if the import does not have it.
ImportStores ==
    /\ import = "reading"
    /\ unread = {}
    /\ import' = "storing"
    /\ locked' = (locked \/ loaded # Nothing)
    /\ UNCHANGED <<fileVars, table, pc, job, unread, loaded, pastVars>>

ImportEnds ==
    /\ import' = "idle"
    /\ unread' = {}
    /\ loaded' = Nothing
    /\ locked' = FALSE
    /\ UNCHANGED <<fileVars, pc, job, pastVars>>

\* A host without a class keeps what the table has.
ImportCommits ==
    /\ import = "storing"
    /\ table' = [h \in Host |-> IF loaded[h] = None THEN table[h] ELSE loaded[h]]
    /\ ImportEnds

ImportFails ==
    /\ import # "idle"
    /\ ImportEnds
    /\ UNCHANGED table

Import ==
    \/ ImportLists \/ (\E h \in Host : ImportReads(h))
    \/ ImportStores \/ ImportCommits \/ ImportFails

Command(p) ==
    \/ Begin(p) \/ OpenTemp(p) \/ OpenFails(p) \/ Write(p) \/ WriteFails(p)
    \/ Rename(p) \/ RenameFails(p) \/ Unlink(p) \/ UnlinkFails(p)
    \/ SetHostClass(p) \/ SetHostClassFails(p) \/ Kill(p)

Next ==
    \/ \E p \in Proc : Command(p)
    \/ \E h \in Host, c \in Class : Upload(h, c)
    \/ Import

Spec == Init /\ [][Next]_vars

-----------------------------------------------------------------------------
(* Properties. *)

\* Every variable keeps its type.
TypeOK ==
    /\ target \in [Host -> Content \cup {None}]
    /\ temp \in [Host -> Content \cup {None}]
    /\ fd \in [Proc -> Places \cup {None}]
    /\ table \in [Host -> Class \cup {None}]
    /\ pc \in [Proc -> Stages]
    /\ job \in [Proc -> Job \cup {None}]
    /\ import \in ImportStages
    /\ unread \subseteq Host
    /\ locked \in BOOLEAN
    /\ loaded \in [Host -> Class \cup {None}]
    /\ overlapped \subseteq Host
    /\ broken \subseteq Host
    /\ alone \subseteq Proc

\* hostclass.WriteFile replaces the file by renaming: as long as no two commands
\* used the temp of a host at once, whoever opens HOST.class finds a class in it,
\* and nobody writes to a file that has been published and that a report may be
\* reading; also when commands failed or died in the middle and left a temp
\* that the next one takes over.
ReadersSeeAClass ==
    \A h \in Host \ overlapped :
        /\ target[h] # Blank
        /\ \A p \in On(h) : fd[p] \in {"temp", None}

\* Even commands that did share the temp leave things in order if none of
\* them died, could not write, or could not remove the temp after a rename that
\* failed: once the last of them is through, no temp is left over, and HOST.class
\* is no blank file.
OrderAfterOverlap ==
    \A h \in Host \ broken :
        (\A p \in On(h) : ~Running(p)) => temp[h] = None /\ target[h] # Blank

\* A command given -stats-dir and -db that reports success has stored its class
\* in both, and no import undoes that, whenever it runs: until the host is
\* classified again the directory and the database say the same.  The exception is
\* an import that holds no lock while it reads the class files, because it has found
\* no records file, and that has read HOST.class before the command replaced it: it
\* gives the database the old class back (see alone and Outdated).
StoredInBoth ==
    \A p \in alone : pc[p] = "ok" /\ job[p].dir /\ job[p].db =>
        /\ ValueOf(job[p].host) = job[p].class
        /\ table[job[p].host] = job[p].class

\* The commands as their users see them, host by host (module ClassRegister).
StateOf(p) ==
    IF pc[p] = "ok" THEN "ok"
    ELSE IF pc[p] = "db" /\ job[p].dir THEN "stored"
    ELSE "asked"

CallOf(h, p) ==
    IF p \in On(h)
    THEN [state |-> StateOf(p), class |-> job[p].class, dir |-> job[p].dir, db |-> job[p].db]
    ELSE None

Register(h) == INSTANCE ClassRegister WITH
    value <- ValueOf(h), entry <- table[h], call <- [p \in Proc |-> CallOf(h, p)]

\* "WriteFile stores the classification of host in dir, replacing any previous
\* one" (hostclass.go): each command takes effect in the directory at one
\* instant, then in the database, and what it reports is what it did, unless
\* two commands used the temp of the host at once.
AtomicUnlessOverlapped ==
    [][\A h \in Host \ overlapped' : Register(h)!Next \/ UNCHANGED Register(h)!vars]_vars
=============================================================================
