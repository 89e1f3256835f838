------------------------------- MODULE Mirror -------------------------------
(***************************************************************************)
(* What goprecords import promises whoever reads its database, without      *)
(* statements, locks or errors: first the tables of records and times are   *)
(* emptied; then the files that are in the directory are looked at for      *)
(* their times, each at an instant of its own, and after them the class     *)
(* files; and at one more instant all of it appears in the database, or it  *)
(* never does.  A file that cannot be looked at is missed, and nobody is    *)
(* told.                                                                    *)
(***************************************************************************)
EXTENDS Naturals

CONSTANTS
    Host,
    Class,      \* classifications
    MaxVersion, \* versions of a records file
    None

Absent == 0

VARIABLES
    file,      \* the version of each host's records file, or Absent
    classFile, \* the class of each host's class file, or None
    record,    \* the versions whose rows are in the database, host by host
    hostMeta,  \* the times of its hosts
    hostClass, \* their classes
    stage,     \* how far the import in progress is
    due,       \* the files in the directory that it has still to look at
    listed,    \* the times of those it has looked at
    found      \* and the classes

dirVars == <<file, classFile>>
dbVars == <<record, hostMeta, hostClass>>
importVars == <<stage, due, listed, found>>
vars == <<dirVars, dbVars, importVars>>

NoTimes == [h \in Host |-> Absent]
NoRecords == [h \in Host |-> <<>>]
NoClasses == [h \in Host |-> None]

Idle == stage = "idle" /\ due = {} /\ listed = NoTimes /\ found = NoClasses

Init ==
    /\ file = NoTimes
    /\ classFile = NoClasses
    /\ record = NoRecords
    /\ hostMeta = NoTimes
    /\ hostClass = NoClasses
    /\ Idle

\* A new version of a records file, and the classes an operator sets.
Upload(h) ==
    /\ file[h] < MaxVersion
    /\ file' = [file EXCEPT ![h] = @ + 1]
    /\ UNCHANGED <<classFile, dbVars, importVars>>

ClassifyFile(h, c) ==
    /\ classFile' = [classFile EXCEPT ![h] = c]
    /\ UNCHANGED <<file, dbVars, importVars>>

SetHostClass(h, c) ==
    /\ hostClass' = [hostClass EXCEPT ![h] = c]
    /\ UNCHANGED <<dirVars, record, hostMeta, importVars>>

\* Rows go before their times, and both before anything is read.
EmptyRecords ==
    /\ stage = "idle"
    /\ record' = NoRecords
    /\ UNCHANGED <<dirVars, hostMeta, hostClass, importVars>>

EmptyHostMeta ==
    /\ stage = "idle"
    /\ record = NoRecords
    /\ hostMeta' = NoTimes
    /\ UNCHANGED <<dirVars, record, hostClass, importVars>>

\* The directory is read for its records files; then each is looked at, or missed.
List ==
    /\ stage = "idle"
    /\ record = NoRecords /\ hostMeta = NoTimes
    /\ due' = {h \in Host : file[h] # Absent}
    /\ stage' = "looking"
    /\ UNCHANGED <<dirVars, dbVars, listed, found>>

Look(h) ==
    /\ stage = "looking"
    /\ h \in due
    /\ listed' = [listed EXCEPT ![h] = file[h]]
    /\ due' = due \ {h}
    /\ UNCHANGED <<dirVars, dbVars, stage, found>>

\* The same for its class files.
ListClasses ==
    /\ stage = "looking"
    /\ due = {}
    /\ due' = {h \in Host : classFile[h] # None}
    /\ stage' = "finding"
    /\ UNCHANGED <<dirVars, dbVars, listed, found>>

FindClass(h) ==
    /\ stage = "finding"
    /\ h \in due
    /\ found' = [found EXCEPT ![h] = classFile[h]]
    /\ due' = due \ {h}
    /\ UNCHANGED <<dirVars, dbVars, stage, listed>>

Miss(h) ==
    /\ h \in due
    /\ due' = due \ {h}
    /\ UNCHANGED <<dirVars, dbVars, stage, listed, found>>

\* Every file that was looked at has the rows of one of its versions since, and its
\* time of then; a host has the class of its file, or else the class it had.
Install ==
    /\ stage = "finding"
    /\ due = {}
    /\ \E version \in [Host -> 0 .. MaxVersion] :
          /\ \A h \in Host : listed[h] <= version[h] /\ version[h] <= file[h]
          /\ record' = [h \in Host |-> IF listed[h] = Absent THEN <<>> ELSE <<version[h]>>]
    /\ hostMeta' = listed
    /\ hostClass' = [h \in Host |-> IF found[h] = None THEN hostClass[h] ELSE found[h]]
    /\ Idle'
    /\ UNCHANGED dirVars

\* An error, or the end of the process: what is empty stays empty.
GiveUp == Idle' /\ UNCHANGED <<dirVars, dbVars>>

Next ==
    \/ \E h \in Host : Upload(h)
    \/ \E h \in Host, c \in Class : ClassifyFile(h, c) \/ SetHostClass(h, c)
    \/ EmptyRecords \/ EmptyHostMeta
    \/ List \/ ListClasses \/ \E h \in Host : Look(h) \/ FindClass(h) \/ Miss(h)
    \/ Install \/ GiveUp

Spec == Init /\ [][Next]_vars
=============================================================================
