------------------------------- MODULE Import -------------------------------
(***************************************************************************)
(* goprecords import (internal/storage/db.go, internal/cli/cmd_import.go):  *)
(* the records and class files of a stats directory are mirrored into a    *)
(* SQLite database, while clients upload new files and an operator runs     *)
(* goprecords classify on the directory or on the database.                 *)
(* The two DELETEs of an import commit at once, each on its own; only the   *)
(* INSERTs share a transaction.  A records file is its version: the number  *)
(* of uploads so far, which stands for its content and for its              *)
(* modification time.  The rows of one file are one block in the table.     *)
(* Every host's file name has no dot (HostFromFileName keeps it apart) and  *)
(* every version of a file has at least one valid line.                     *)
(***************************************************************************)
EXTENDS Naturals, Sequences

CONSTANTS
    Host,
    Class,      \* classifications
    Importer,   \* import processes that may run at once
    MaxVersion, \* bound: uploads of each host's records file
    MaxFaults,  \* bound: errors and crashes of imports
    None

ASSUME VersionAssumption == MaxVersion \in Nat \ {0} /\ MaxFaults \in Nat
ASSUME NoneAssumption == None \notin Host \cup Class \cup Importer

Version == 1 .. MaxVersion
Absent == 0   \* no file, no row
Stages == {"idle", "records", "meta", "list", "stat", "file", "hostmeta",
           "class", "classes", "commit"}

\* The stages at which an import may hold the write lock.
Working == {"file", "hostmeta", "class", "classes", "commit"}

VARIABLES
    file,      \* the version of HOST.records, or Absent
    classFile, \* what HOST.class says, or None
    record,    \* table record: the blocks of rows of each host
    hostMeta,  \* table host_meta: last_updated of each host, or Absent
    hostClass, \* table host_class
    writer,    \* the process whose transaction holds the write lock, or None
    pc,        \* the next step of each import
    listing,   \* the modification times it listed
    todo,      \* the files it has not looked at, or opened, yet
    current,   \* the host whose rows it has inserted last
    rows,      \* its transaction: the versions inserted into record ...
    dated,     \* ... the hosts inserted into host_meta ...
    classes,   \* ... and the classes it read and inserts into host_class
    faults,
    imported   \* history: the hosts listed by the last import that committed

dirVars == <<file, classFile>>
dbVars == <<record, hostMeta, hostClass, imported>>
txVars == <<rows, dated, classes>>
vars == <<dirVars, dbVars, writer, pc, listing, todo, current, txVars, faults>>

Nothing == [h \in Host |-> Absent]
NoClasses == [h \in Host |-> None]

Init ==
    /\ file = Nothing
    /\ classFile = NoClasses
    /\ record = [h \in Host |-> <<>>]
    /\ hostMeta = Nothing
    /\ hostClass = NoClasses
    /\ imported = {}
    /\ writer = None
    /\ pc = [i \in Importer |-> "idle"]
    /\ listing = [i \in Importer |-> Nothing]
    /\ todo = [i \in Importer |-> {}]
    /\ current = [i \in Importer |-> None]
    /\ rows = [i \in Importer |-> Nothing]
    /\ dated = [i \in Importer |-> {}]
    /\ classes = [i \in Importer |-> NoClasses]
    /\ faults = 0

-----------------------------------------------------------------------------
(* What goes on around an import. *)

Upload(h) ==
    /\ file[h] < MaxVersion
    /\ file' = [file EXCEPT ![h] = @ + 1]
    /\ UNCHANGED <<classFile, dbVars, writer, pc, listing, todo, current, txVars, faults>>

\* An upload of kind class, or goprecords classify -stats-dir.
ClassifyFile(h, c) ==
    /\ classFile' = [classFile EXCEPT ![h] = c]
    /\ UNCHANGED <<file, dbVars, writer, pc, listing, todo, current, txVars, faults>>

\* goprecords classify -db; it fails with SQLITE_BUSY while an import writes.
SetHostClass(h, c) ==
    /\ writer = None
    /\ hostClass' = [hostClass EXCEPT ![h] = c]
    /\ UNCHANGED <<dirVars, record, hostMeta, imported, writer, pc, listing,
                   todo, current, txVars, faults>>

-----------------------------------------------------------------------------
(* ImportFromFS. *)

Goto(i, stage) == pc' = [pc EXCEPT ![i] = stage]

\* SQLite lets one process write; there is no busy timeout.
CanWrite(i) == writer \in {None, i}

\* Mutant: no deferred Rollback; the transaction outlives the function.
KeepLock(i) == writer
ReleaseLock(i) == IF writer = i THEN None ELSE writer

\* The variables of the process are gone, and its transaction is over.
Exit(i) ==
    /\ Goto(i, "idle")
    /\ listing' = [listing EXCEPT ![i] = Nothing]
    /\ todo' = [todo EXCEPT ![i] = {}]
    /\ current' = [current EXCEPT ![i] = None]
    /\ rows' = [rows EXCEPT ![i] = Nothing]
    /\ dated' = [dated EXCEPT ![i] = {}]
    /\ classes' = [classes EXCEPT ![i] = NoClasses]
    /\ writer' = ReleaseLock(i)

\* runImport: an import starts by emptying the tables.
Start(i) ==
    /\ pc[i] = "idle"
    /\ Goto(i, "records")
    /\ UNCHANGED <<dirVars, dbVars, writer, listing, todo, current, txVars, faults>>

\* Mutant: the old rows are not deleted.
KeepRecords == record
NoRecords == [h \in Host |-> <<>>]

ResetRecords(i) ==
    /\ pc[i] = "records"
    /\ CanWrite(i)
    /\ record' = NoRecords
    /\ Goto(i, "meta")
    /\ UNCHANGED <<dirVars, hostMeta, hostClass, imported, writer, listing,
                   todo, current, txVars, faults>>

\* Mutant: host_meta is not emptied.
KeepHostMeta == hostMeta
NoHostMeta == Nothing

ResetHostMeta(i) ==
    /\ pc[i] = "meta"
    /\ CanWrite(i)
    /\ hostMeta' = NoHostMeta
    /\ Goto(i, "list")
    /\ UNCHANGED <<dirVars, record, hostClass, imported, writer, listing,
                   todo, current, txVars, faults>>

\* ListNonEmptyFilesFS reads the directory ...
ListFiles(i) ==
    /\ pc[i] = "list"
    /\ todo' = [todo EXCEPT ![i] = {h \in Host : file[h] # Absent}]
    /\ Goto(i, "stat")
    /\ UNCHANGED <<dirVars, dbVars, writer, listing, current, txVars, faults>>

\* ... and then asks for the modification time of one file after the other.
StatFile(i, h) ==
    /\ pc[i] = "stat"
    /\ h \in todo[i]
    /\ listing' = [listing EXCEPT ![i][h] = file[h]]
    /\ todo' = [todo EXCEPT ![i] = @ \ {h}]
    /\ UNCHANGED <<dirVars, dbVars, writer, pc, current, txVars, faults>>

\* fs.Stat fails: the file is not imported, and the import goes on.
StatFails(i, h) ==
    /\ pc[i] = "stat"
    /\ h \in todo[i]
    /\ faults < MaxFaults
    /\ faults' = faults + 1
    /\ todo' = [todo EXCEPT ![i] = @ \ {h}]
    /\ UNCHANGED <<dirVars, dbVars, writer, pc, listing, current, txVars>>

\* BeginTx takes no lock.
BeginTx(i) ==
    /\ pc[i] = "stat"
    /\ todo[i] = {}
    /\ todo' = [todo EXCEPT ![i] = {h \in Host : listing[i][h] # Absent}]
    /\ Goto(i, "file")
    /\ UNCHANGED <<dirVars, dbVars, writer, listing, current, txVars, faults>>

\* The file is opened here: what it holds may be newer than the listing.
\* The first INSERT of the transaction takes the write lock.
ImportFile(i, h) ==
    /\ pc[i] = "file"
    /\ h \in todo[i]
    /\ CanWrite(i)
    /\ todo' = [todo EXCEPT ![i] = @ \ {h}]
    /\ current' = [current EXCEPT ![i] = h]
    /\ rows' = [rows EXCEPT ![i][h] = file[h]]
    /\ writer' = i
    /\ Goto(i, "hostmeta")
    /\ UNCHANGED <<dirVars, dbVars, listing, dated, classes, faults>>

\* host is the primary key of host_meta: a second row is an error (see Fail).
AddHostMeta(i) ==
    /\ pc[i] = "hostmeta"
    /\ hostMeta[current[i]] = Absent
    /\ dated' = [dated EXCEPT ![i] = @ \cup {current[i]}]
    /\ Goto(i, "file")
    /\ UNCHANGED <<dirVars, dbVars, writer, listing, todo, current, rows, classes, faults>>

\* hostclass.LoadFS reads the directory ...
ListClasses(i) ==
    /\ pc[i] = "file"
    /\ todo[i] = {}
    /\ todo' = [todo EXCEPT ![i] = {h \in Host : classFile[h] # None}]
    /\ Goto(i, "class")
    /\ UNCHANGED <<dirVars, dbVars, writer, listing, current, txVars, faults>>

\* ... and then opens one class file after the other.
ReadClass(i, h) ==
    /\ pc[i] = "class"
    /\ h \in todo[i]
    /\ classes' = [classes EXCEPT ![i][h] = classFile[h]]
    /\ todo' = [todo EXCEPT ![i] = @ \ {h}]
    /\ UNCHANGED <<dirVars, dbVars, writer, pc, listing, current, rows, dated, faults>>

\* It cannot be opened, or has no valid line: the host is left out.
SkipClass(i, h) ==
    /\ pc[i] = "class"
    /\ h \in todo[i]
    /\ todo' = [todo EXCEPT ![i] = @ \ {h}]
    /\ UNCHANGED <<dirVars, dbVars, writer, pc, listing, current, txVars, faults>>

ClassesRead(i) ==
    /\ pc[i] = "class"
    /\ todo[i] = {}
    /\ Goto(i, "classes")
    /\ UNCHANGED <<dirVars, dbVars, writer, listing, todo, current, txVars, faults>>

InsertClasses(i) ==
    /\ pc[i] = "classes"
    /\ \/ classes[i] = NoClasses /\ UNCHANGED writer
       \/ classes[i] # NoClasses /\ CanWrite(i) /\ writer' = i
    /\ Goto(i, "commit")
    /\ UNCHANGED <<dirVars, dbVars, listing, todo, current, txVars, faults>>

\* The inserts of the transaction, on top of what is in the table by now.
Inserted(i, h) ==
    IF rows[i][h] = Absent THEN record[h] ELSE Append(record[h], rows[i][h])

\* Mutant: last_updated is read when the row is written, not with the listing.
TimeNow(i, h) == file[h]
TimeListed(i, h) == listing[i][h]

\* Mutant: host_class is emptied first, like the other tables.
ClassOfFile(i, h) == classes[i][h]
ClassKept(i, h) == IF classes[i][h] = None THEN hostClass[h] ELSE classes[i][h]

Commit(i) ==
    /\ pc[i] = "commit"
    /\ record' = [h \in Host |-> Inserted(i, h)]
    /\ hostMeta' = [h \in Host |-> IF h \in dated[i] THEN TimeListed(i, h) ELSE hostMeta[h]]
    /\ hostClass' = [h \in Host |-> ClassKept(i, h)]
    /\ imported' = {h \in Host : listing[i][h] # Absent}
    /\ Exit(i)
    /\ UNCHANGED <<dirVars, faults>>

\* Mutant: no transaction; what was inserted stays.
KeepRows(i) == record' = [h \in Host |-> Inserted(i, h)]
Rollback(i) == UNCHANGED record

\* A statement that must fail: the write lock is taken or the key is there.
Refused(i) ==
    \/ pc[i] \in {"records", "meta"} /\ ~CanWrite(i)
    \/ pc[i] = "file" /\ todo[i] # {} /\ ~CanWrite(i)
    \/ pc[i] = "classes" /\ classes[i] # NoClasses /\ ~CanWrite(i)
    \/ pc[i] = "hostmeta" /\ hostMeta[current[i]] # Absent

\* An error return at any step, or the end of the process: SQLite rolls back.
Fail(i) ==
    /\ pc[i] # "idle"
    /\ \/ Refused(i) /\ UNCHANGED faults
       \/ faults < MaxFaults /\ faults' = faults + 1
    /\ Rollback(i)
    /\ Exit(i)
    /\ UNCHANGED <<dirVars, hostMeta, hostClass, imported>>

ImportStep(i) ==
    \/ Start(i) \/ ResetRecords(i) \/ ResetHostMeta(i)
    \/ ListFiles(i) \/ BeginTx(i) \/ \E h \in Host : StatFile(i, h) \/ StatFails(i, h)
    \/ (\E h \in Host : ImportFile(i, h)) \/ AddHostMeta(i)
    \/ ListClasses(i) \/ ClassesRead(i) \/ \E h \in Host : ReadClass(i, h) \/ SkipClass(i, h)
    \/ InsertClasses(i) \/ Commit(i)
    \/ Fail(i)

Next ==
    \/ \E h \in Host : Upload(h)
    \/ \E h \in Host, c \in Class : ClassifyFile(h, c) \/ SetHostClass(h, c)
    \/ \E i \in Importer : ImportStep(i)

Spec == Init /\ [][Next]_vars

\* A process runs until it exits, and the import is started again and again.
FairSpec == Spec /\ \A i \in Importer : WF_vars(ImportStep(i))

-----------------------------------------------------------------------------
(* Properties. *)

\* Every variable keeps its type, and only a process in the middle of its
\* transaction holds the write lock.
TypeOK ==
    /\ file \in [Host -> Version \cup {Absent}]
    /\ classFile \in [Host -> Class \cup {None}]
    /\ record \in [Host -> Seq(Version)]
    /\ hostMeta \in [Host -> Version \cup {Absent}]
    /\ hostClass \in [Host -> Class \cup {None}]
    /\ imported \subseteq Host
    /\ writer \in {i \in Importer : pc[i] \in Working} \cup {None}
    /\ pc \in [Importer -> Stages]
    /\ listing \in [Importer -> [Host -> Version \cup {Absent}]]
    /\ todo \in [Importer -> SUBSET Host]
    /\ current \in [Importer -> Host \cup {None}]
    /\ rows \in [Importer -> [Host -> Version \cup {Absent}]]
    /\ dated \in [Importer -> SUBSET Host]
    /\ classes \in [Importer -> [Host -> Class \cup {None}]]
    /\ faults \in 0 .. MaxFaults

\* README.md, Usage: an import replaces existing data.  However often imports
\* are repeated and wherever they failed before, no boot is counted twice.
OneBlock == \A h \in Host : Len(record[h]) <= 1

\* ImportFromFS, its transaction: the table of records is empty, or it has the
\* rows of every file the last import listed; never those of a part of them.
AllOrNothing ==
    LET present == {h \in Host : record[h] # <<>>}
    IN  present = {} \/ present = imported

\* Rows never appear without a time, and never with one later than the
\* upload they come from, although files are opened after they were listed.
RowsDated ==
    \A h \in Host : record[h] # <<>> =>
        /\ hostMeta[h] # Absent
        /\ \A k \in DOMAIN record[h] : hostMeta[h] <= record[h][k]

\* README.md, Host classification: a host classified only in the database
\* keeps its class across imports, finished or failed.
DatabaseClassesSurvive ==
    [][\A i \in Importer : pc[i] # pc'[i] =>
          \A h \in Host : classFile[h] = None => hostClass'[h] = hostClass[h]]_vars

Mirrored ==
    \A h \in Host : /\ record[h] = IF file[h] = Absent THEN <<>> ELSE <<file[h]>>
                    /\ hostMeta[h] = file[h]

\* README.md, Usage: import is repeatable.  Whatever state a failed import left
\* behind, running it again makes the tables mirror the files in the end.
Repaired == []<>Mirrored

\* The database as an import shows it to its readers (module Mirror).
StageOf(i) ==
    CASE pc[i] \in {"stat", "file", "hostmeta"} -> "looking"
      [] pc[i] \in {"class", "classes", "commit"} -> "finding"
      [] OTHER -> "idle"
DueOf(i) == IF pc[i] \in {"stat", "class"} THEN todo[i] ELSE {}

Mirror(i) == INSTANCE Mirror WITH
    stage <- StageOf(i), due <- DueOf(i), listed <- listing[i], found <- classes[i]

\* ImportFromDir, "replacing existing rows": between the DELETEs and the commit the
\* tables are empty.  Then they show, all at once, the time of each file that was
\* there when the directory was read, unless its Stat failed, and the rows of one
\* version that it has had since that time, and nothing else; a failed import shows
\* nothing.
ReplacedAtOnce ==
    /\ \A i \in Importer : Mirror(i)!Init
    /\ [][\A i \in Importer : Mirror(i)!Next \/ UNCHANGED Mirror(i)!vars]_vars
=============================================================================
