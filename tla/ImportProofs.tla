---------------------------- MODULE ImportProofs ----------------------------
(***************************************************************************)
(* The safety properties of Import, for every set of hosts and classes and  *)
(* every bound.  Types and transactions are right for any number of imports *)
(* at once; that the tables are right needs that imports do not overlap     *)
(* (Single), because an import empties them outside its transaction.        *)
(***************************************************************************)
EXTENDS Import, TLAPS

Single == \A i, j \in Importer : i = j

Listed(i) == {h \in Host : listing[i][h] # Absent}
Read(i) == {h \in Host : rows[i][h] # Absent}

\* A transaction holds the rows and times of the files listed and read so far;
\* the rows are not older than the listing.
Tx(i) ==
    /\ pc[i] \notin Working => rows[i] = Nothing /\ dated[i] = {}
    /\ pc[i] \notin Working \cup {"stat"} => listing[i] = Nothing
    /\ \A h \in Host : listing[i][h] <= file[h]
    /\ \A h \in Read(i) : listing[i][h] <= rows[i][h]
    /\ pc[i] \in {"file", "hostmeta"} =>
          Read(i) = Listed(i) \ todo[i] /\ todo[i] \subseteq Listed(i)
    /\ pc[i] \in {"class", "classes", "commit"} => Read(i) = Listed(i)
    /\ pc[i] \in Working \ {"hostmeta"} => dated[i] = Read(i)
    /\ pc[i] = "hostmeta" => current[i] \in Read(i) /\ dated[i] = Read(i) \ {current[i]}

TxInv == \A i \in Importer : Tx(i)

\* The tables stay empty from the DELETEs to the commit.
EmptyInv ==
    \A i \in Importer :
        /\ pc[i] \in Working \cup {"meta", "list", "stat"} => record = NoRecords
        /\ pc[i] \in Working \cup {"list", "stat"} => hostMeta = NoHostMeta

TypePart == TypeOK /\ TxInv
Tables == OneBlock /\ AllOrNothing /\ RowsDated
IInv == TypePart /\ EmptyInv /\ Tables

USE DEF Version, Absent, Stages, Working, Nothing, NoClasses, Goto, CanWrite, ReleaseLock,
        NoRecords, NoHostMeta, ClassKept, TimeListed, Rollback, dirVars, dbVars, txVars

\* Nothing is uploaded, stored or running at the start.
LEMMA InitIInv == Init => IInv
<1> SUFFICES ASSUME Init PROVE IInv
  OBVIOUS
<1> USE VersionAssumption DEF Init
<1>1. TypeOK
  BY DEF TypeOK
<1>2. \A i \in Importer : Read(i) = {}
  BY DEF Read
<1>4. TxInv /\ EmptyInv
  BY <1>2 DEF TxInv, Tx, EmptyInv
<1>3. Tables
  BY DEF Tables, OneBlock, AllOrNothing, RowsDated
<1> QED BY <1>1, <1>3, <1>4 DEF IInv, TypePart

\* The steps of an import before its last are those of Exit only.
LEMMA ExitTypes ==
    ASSUME TypeOK, NEW i \in Importer, Exit(i)
    PROVE  /\ pc' \in [Importer -> Stages]
           /\ writer' \in {j \in Importer : pc'[j] \in Working} \cup {None}
           /\ listing' \in [Importer -> [Host -> Version \cup {Absent}]]
           /\ todo' \in [Importer -> SUBSET Host]
           /\ current' \in [Importer -> Host \cup {None}]
           /\ rows' \in [Importer -> [Host -> Version \cup {Absent}]]
           /\ dated' \in [Importer -> SUBSET Host]
           /\ classes' \in [Importer -> [Host -> Class \cup {None}]]
<1> DEFINE N == Nothing
           C == NoClasses
<1>1. N \in [Host -> Version \cup {Absent}] /\ C \in [Host -> Class \cup {None}]
  OBVIOUS
<1>2. /\ listing' = [listing EXCEPT ![i] = N]
      /\ rows' = [rows EXCEPT ![i] = N]
      /\ classes' = [classes EXCEPT ![i] = C]
  BY DEF Exit
<1> HIDE DEF N, C
<1>3. /\ listing' \in [Importer -> [Host -> Version \cup {Absent}]]
      /\ rows' \in [Importer -> [Host -> Version \cup {Absent}]]
      /\ classes' \in [Importer -> [Host -> Class \cup {None}]]
  BY <1>1, <1>2 DEF TypeOK
<1>4. /\ pc' \in [Importer -> Stages]
      /\ writer' \in {j \in Importer : pc'[j] \in Working} \cup {None}
      /\ todo' \in [Importer -> SUBSET Host]
      /\ current' \in [Importer -> Host \cup {None}]
      /\ dated' \in [Importer -> SUBSET Host]
  BY NoneAssumption DEF Exit, TypeOK
<1> QED BY <1>3, <1>4

\* No step breaks a type, however many imports overlap.
LEMMA TypeStep == TypePart /\ [Next]_vars => TypeOK'
<1> SUFFICES ASSUME TypeOK, TxInv, [Next]_vars PROVE TypeOK'
  BY DEF TypePart
<1> USE VersionAssumption, NoneAssumption
<1>0. CASE UNCHANGED vars
  BY <1>0 DEF TypeOK, vars
<1>1. ASSUME NEW h \in Host, Upload(h) PROVE TypeOK'
  <2>1. file' \in [Host -> Version \cup {Absent}]
    BY <1>1 DEF Upload, TypeOK
  <2> QED BY <1>1, <2>1 DEF Upload, TypeOK
<1>2. ASSUME NEW h \in Host, NEW c \in Class, ClassifyFile(h, c) \/ SetHostClass(h, c)
      PROVE  TypeOK'
  <2>0. classFile \in [Host -> Class \cup {None}] /\ hostClass \in [Host -> Class \cup {None}]
    BY DEF TypeOK
  <2>1. classFile' \in [Host -> Class \cup {None}]
    <3>1. classFile' = [classFile EXCEPT ![h] = c] \/ classFile' = classFile
      BY <1>2 DEF ClassifyFile, SetHostClass
    <3> QED BY <2>0, <3>1
  <2>2. hostClass' \in [Host -> Class \cup {None}]
    <3>1. hostClass' = [hostClass EXCEPT ![h] = c] \/ hostClass' = hostClass
      BY <1>2 DEF ClassifyFile, SetHostClass
    <3> QED BY <2>0, <3>1
  <2> QED BY <1>2, <2>1, <2>2 DEF ClassifyFile, SetHostClass, TypeOK
<1>3. ASSUME NEW i \in Importer, Start(i) PROVE TypeOK'
  BY <1>3 DEF Start, TypeOK
<1>4. ASSUME NEW i \in Importer, ResetRecords(i) PROVE TypeOK'
  BY <1>4 DEF ResetRecords, TypeOK
<1>5. ASSUME NEW i \in Importer, ResetHostMeta(i) PROVE TypeOK'
  BY <1>5 DEF ResetHostMeta, TypeOK
<1>6. ASSUME NEW i \in Importer, ListFiles(i) PROVE TypeOK'
  <2>1. {h \in Host : file[h] # Absent} \in SUBSET Host
    OBVIOUS
  <2>2. todo' \in [Importer -> SUBSET Host]
    BY <1>6, <2>1 DEF ListFiles, TypeOK
  <2> QED BY <1>6, <2>2 DEF ListFiles, TypeOK
<1>7. ASSUME NEW i \in Importer, NEW h \in Host, ImportFile(i, h) PROVE TypeOK'
  <2>1. rows' \in [Importer -> [Host -> Version \cup {Absent}]]
    BY <1>7 DEF ImportFile, TypeOK
  <2> QED BY <1>7, <2>1 DEF ImportFile, TypeOK
<1>8. ASSUME NEW i \in Importer, AddHostMeta(i) PROVE TypeOK'
  <2>1. current[i] \in Host
    BY <1>8 DEF AddHostMeta, TxInv, Tx, Read
  <2> QED BY <1>8, <2>1 DEF AddHostMeta, TypeOK
<1>9. ASSUME NEW i \in Importer, NEW h \in Host, ReadClass(i, h) PROVE TypeOK'
  <2>1. classes' \in [Importer -> [Host -> Class \cup {None}]]
    BY <1>9 DEF ReadClass, TypeOK
  <2>2. todo' \in [Importer -> SUBSET Host]
    BY <1>9 DEF ReadClass, TypeOK
  <2> QED BY <1>9, <2>1, <2>2 DEF ReadClass, TypeOK
<1>10. ASSUME NEW i \in Importer, InsertClasses(i) PROVE TypeOK'
  BY <1>10 DEF InsertClasses, TypeOK
<1>11. ASSUME NEW i \in Importer, Commit(i) PROVE TypeOK'
  <2>1. /\ record' = [h \in Host |-> Inserted(i, h)]
        /\ hostMeta' = [h \in Host |-> IF h \in dated[i] THEN listing[i][h] ELSE hostMeta[h]]
        /\ hostClass' = [h \in Host |-> IF classes[i][h] = None THEN hostClass[h]
                                       ELSE classes[i][h]]
        /\ imported' \subseteq Host
        /\ UNCHANGED <<file, classFile, faults>>
        /\ Exit(i)
    BY <1>11 DEF Commit
  <2>2. ASSUME NEW h \in Host PROVE Inserted(i, h) \in Seq(Version)
    <3>1. record[h] \in Seq(Version) /\ rows[i][h] \in Version \cup {Absent}
      BY DEF TypeOK
    <3>2. rows[i][h] # Absent => Append(record[h], rows[i][h]) \in Seq(Version)
      BY <3>1
    <3> QED BY <3>1, <3>2 DEF Inserted
  <2>3. record' \in [Host -> Seq(Version)]
    BY <2>1, <2>2
  <2>4. /\ hostMeta' \in [Host -> Version \cup {Absent}]
        /\ hostClass' \in [Host -> Class \cup {None}]
    BY <2>1 DEF TypeOK
  <2> QED BY <2>1, <2>3, <2>4, ExitTypes DEF TypeOK
<1>12. ASSUME NEW i \in Importer, Fail(i) PROVE TypeOK'
  <2>1. faults' \in 0 .. MaxFaults
    BY <1>12 DEF Fail, TypeOK
  <2>2. Exit(i) /\ UNCHANGED <<file, classFile, record, hostMeta, hostClass, imported>>
    BY <1>12 DEF Fail
  <2> QED BY <2>1, <2>2, ExitTypes DEF TypeOK
<1>13. ASSUME NEW i \in Importer, NEW h \in Host, StatFile(i, h) PROVE TypeOK'
  <2>1. listing' \in [Importer -> [Host -> Version \cup {Absent}]]
    BY <1>13 DEF StatFile, TypeOK
  <2>2. todo' \in [Importer -> SUBSET Host]
    BY <1>13 DEF StatFile, TypeOK
  <2> QED BY <1>13, <2>1, <2>2 DEF StatFile, TypeOK
<1>14. ASSUME NEW i \in Importer, NEW h \in Host, StatFails(i, h) \/ SkipClass(i, h)
       PROVE  TypeOK'
  <2>1. todo' \in [Importer -> SUBSET Host]
    <3>1. todo' = [todo EXCEPT ![i] = todo[i] \ {h}] /\ todo[i] \ {h} \in SUBSET Host
      BY <1>14 DEF StatFails, SkipClass, TypeOK
    <3> QED BY <3>1 DEF TypeOK
  <2>2. faults' \in 0 .. MaxFaults
    BY <1>14 DEF StatFails, SkipClass, TypeOK
  <2> QED BY <1>14, <2>1, <2>2 DEF StatFails, SkipClass, TypeOK
<1>15. ASSUME NEW i \in Importer, BeginTx(i) \/ ListClasses(i) \/ ClassesRead(i) PROVE TypeOK'
  <2> DEFINE L == {h \in Host : listing[i][h] # Absent}
             C == {h \in Host : classFile[h] # None}
  <2>1. L \in SUBSET Host /\ C \in SUBSET Host
    OBVIOUS
  <2>2. todo' = todo \/ todo' = [todo EXCEPT ![i] = L] \/ todo' = [todo EXCEPT ![i] = C]
    BY <1>15 DEF BeginTx, ListClasses, ClassesRead
  <2> HIDE DEF L, C
  <2>3. todo' \in [Importer -> SUBSET Host]
    BY <2>1, <2>2 DEF TypeOK
  <2>4. pc' \in [Importer -> Stages] /\ writer' = writer
    BY <1>15 DEF BeginTx, ListClasses, ClassesRead, TypeOK
  <2>5. writer' \in {j \in Importer : pc'[j] \in Working} \cup {None}
    BY <1>15, <2>4 DEF BeginTx, ListClasses, ClassesRead, TypeOK
  <2> QED BY <1>15, <2>3, <2>4, <2>5 DEF BeginTx, ListClasses, ClassesRead, TypeOK
<1> QED
  BY <1>0, <1>1, <1>2, <1>3, <1>4, <1>5, <1>6, <1>7, <1>8, <1>9, <1>10, <1>11, <1>12,
     <1>13, <1>14, <1>15 DEF Next, ImportStep

\* An import that does not move keeps its transaction: files only get newer.
LEMMA TxKept ==
    ASSUME TypePart, NEW i \in Importer, TypeOK', \A h \in Host : file[h] <= file'[h],
           UNCHANGED <<pc[i], listing[i], todo[i], current[i], rows[i], dated[i]>>
    PROVE  Tx(i)'
<1>1. Tx(i)
  BY DEF TypePart, TxInv
<1>2. Read(i)' = Read(i) /\ Listed(i)' = Listed(i)
  BY DEF Read, Listed
<1>3. ASSUME NEW h \in Host, listing[i][h] <= file[h] PROVE listing'[i][h] <= file'[h]
  <2>1. listing[i][h] \in Nat /\ file[h] \in Nat /\ file'[h] \in Nat
    BY DEF TypePart, TypeOK
  <2> QED BY <1>3, <2>1
<1> QED BY <1>1, <1>2, <1>3 DEF Tx

\* A step of one import leaves the local variables of the others alone.
LEMMA OneImport ==
    ASSUME TypeOK, NEW i \in Importer, ImportStep(i), NEW j \in Importer, j # i
    PROVE  UNCHANGED <<pc[j], listing[j], todo[j], current[j], rows[j], dated[j]>>
<1> USE DEF TypeOK
<1>1. CASE Start(i) \/ ResetRecords(i) \/ ResetHostMeta(i) \/ ListFiles(i)
  BY <1>1 DEF Start, ResetRecords, ResetHostMeta, ListFiles
<1>2. CASE \E h \in Host : ImportFile(i, h)
  BY <1>2 DEF ImportFile
<1>3. CASE AddHostMeta(i) \/ BeginTx(i) \/ ListClasses(i) \/ ClassesRead(i) \/ InsertClasses(i)
  BY <1>3 DEF AddHostMeta, BeginTx, ListClasses, ClassesRead, InsertClasses
<1>4. CASE Commit(i) \/ Fail(i)
  BY <1>4 DEF Commit, Fail, Exit
<1>5. CASE \E h \in Host : \/ StatFile(i, h) \/ StatFails(i, h)
                           \/ ReadClass(i, h) \/ SkipClass(i, h)
  BY <1>5 DEF StatFile, StatFails, ReadClass, SkipClass
<1> QED BY <1>1, <1>2, <1>3, <1>4, <1>5 DEF ImportStep

\* The step of an import extends its transaction by what it reads, or ends it.
LEMMA TxMoves ==
    ASSUME TypePart, NEW i \in Importer, ImportStep(i)
    PROVE  Tx(i)'
<1>0. TypeOK /\ Tx(i)
  BY DEF TypePart, TxInv
<1> USE <1>0 DEF TypeOK
<1>1. CASE Start(i) \/ ResetRecords(i) \/ ResetHostMeta(i)
  <2>1. /\ pc[i] \in {"idle", "records", "meta"} /\ pc'[i] \in {"records", "meta", "list"}
        /\ UNCHANGED <<file, listing, rows, dated>>
    BY <1>1 DEF Start, ResetRecords, ResetHostMeta
  <2>2. Read(i)' = Read(i)
    BY <2>1 DEF Read
  <2> QED BY <2>1, <2>2 DEF Tx
<1>3. CASE ListFiles(i)
  <2>1. /\ pc[i] = "list" /\ pc'[i] = "stat"
        /\ UNCHANGED <<file, listing, rows, dated>>
    BY <1>3 DEF ListFiles
  <2>2. Read(i)' = Read(i)
    BY <2>1 DEF Read
  <2> QED BY <2>1, <2>2 DEF Tx
<1>4. ASSUME NEW h \in Host, ImportFile(i, h) PROVE Tx(i)'
  <2>1. /\ pc[i] = "file" /\ pc'[i] = "hostmeta"
        /\ h \in todo[i] /\ todo'[i] = todo[i] \ {h}
        /\ current'[i] = h
        /\ rows'[i] = [rows[i] EXCEPT ![h] = file[h]]
        /\ UNCHANGED <<file, listing, dated>>
    BY <1>4 DEF ImportFile
  <2>2. listing[i][h] # Absent /\ listing[i][h] <= file[h] /\ h \notin Read(i)
    BY <2>1 DEF Tx, Listed
  <2>3. file[h] # Absent
    <3>1. listing[i][h] \in Nat /\ file[h] \in Nat
      OBVIOUS
    <3> QED BY <2>2, <3>1
  <2>4. Read(i)' = Read(i) \cup {h} /\ Listed(i)' = Listed(i)
    BY <2>1, <2>3 DEF Read, Listed
  <2>5. \A g \in Read(i)' : listing'[i][g] <= rows'[i][g]
    BY <2>1, <2>2, <2>4 DEF Tx, Read
  <2>6. Read(i)' = Listed(i)' \ todo'[i] /\ todo'[i] \subseteq Listed(i)'
    BY <2>1, <2>4 DEF Tx
  <2>7. dated'[i] = Read(i)' \ {h}
    BY <2>1, <2>2, <2>4 DEF Tx
  <2> QED BY <2>1, <2>4, <2>5, <2>6, <2>7 DEF Tx
<1>5. CASE AddHostMeta(i)
  <2>1. /\ pc[i] = "hostmeta" /\ pc'[i] = "file"
        /\ dated'[i] = dated[i] \cup {current[i]}
        /\ UNCHANGED <<file, listing, todo, rows>>
    BY <1>5 DEF AddHostMeta
  <2>2. Read(i)' = Read(i) /\ Listed(i)' = Listed(i)
    BY <2>1 DEF Read, Listed
  <2> QED BY <2>1, <2>2 DEF Tx
<1>6. CASE ListClasses(i) \/ ClassesRead(i) \/ InsertClasses(i)
  <2>1. /\ \/ pc[i] = "file" /\ pc'[i] = "class" /\ todo[i] = {}
           \/ pc[i] = "class" /\ pc'[i] = "classes"
           \/ pc[i] = "classes" /\ pc'[i] = "commit"
        /\ UNCHANGED <<file, listing, rows, dated>>
    BY <1>6 DEF ListClasses, ClassesRead, InsertClasses
  <2>2. Read(i)' = Read(i) /\ Listed(i)' = Listed(i)
    BY <2>1 DEF Read, Listed
  <2>3. Read(i) = Listed(i) /\ dated[i] = Read(i)
    <3>1. CASE pc[i] = "file" /\ todo[i] = {}
      BY <3>1 DEF Tx
    <3>2. CASE pc[i] \in {"class", "classes"}
      BY <3>2 DEF Tx
    <3> QED BY <2>1, <3>1, <3>2
  <2>4. pc'[i] \in {"class", "classes", "commit"}
    BY <2>1
  <2>5. /\ \A h \in Host : listing'[i][h] <= file'[h]
        /\ \A h \in Read(i)' : listing'[i][h] <= rows'[i][h]
    BY <2>1, <2>2 DEF Tx
  <2> QED BY <2>1, <2>2, <2>3, <2>4, <2>5 DEF Tx
<1>7. CASE Commit(i) \/ Fail(i)
  <2>1. /\ pc'[i] = "idle" /\ listing'[i] = Nothing /\ rows'[i] = Nothing /\ dated'[i] = {}
        /\ UNCHANGED file
    BY <1>7 DEF Commit, Fail, Exit
  <2>2. Read(i)' = {} /\ \A h \in Host : file[h] \in Nat
    BY <2>1 DEF Read
  <2> QED BY <2>1, <2>2 DEF Tx
<1>8. ASSUME NEW h \in Host, StatFile(i, h) PROVE Tx(i)'
  <2>1. /\ pc[i] = "stat" /\ pc'[i] = "stat"
        /\ listing'[i] = [listing[i] EXCEPT ![h] = file[h]]
        /\ UNCHANGED <<file, rows, dated>>
    BY <1>8 DEF StatFile
  <2>2. Read(i)' = {} /\ rows[i] = Nothing /\ dated[i] = {}
    BY <2>1 DEF Read, Tx
  <2>3. ASSUME NEW g \in Host PROVE listing'[i][g] <= file'[g]
    <3>1. file[g] \in Nat
      OBVIOUS
    <3> QED BY <2>1, <3>1 DEF Tx
  <2> QED BY <2>1, <2>2, <2>3 DEF Tx
<1>9. CASE \E h \in Host : StatFails(i, h) \/ ReadClass(i, h) \/ SkipClass(i, h)
  <2>1. /\ pc[i] \in {"stat", "class"} /\ pc'[i] = pc[i]
        /\ UNCHANGED <<file, listing, rows, dated>>
    BY <1>9 DEF StatFails, ReadClass, SkipClass
  <2>2. Read(i)' = Read(i) /\ Listed(i)' = Listed(i)
    BY <2>1 DEF Read, Listed
  <2> QED BY <2>1, <2>2 DEF Tx
<1>10. CASE BeginTx(i)
  <2>1. /\ pc[i] = "stat" /\ pc'[i] = "file" /\ todo'[i] = Listed(i)
        /\ UNCHANGED <<file, listing, rows, dated>>
    BY <1>10 DEF BeginTx, Listed
  <2>2. Read(i)' = {} /\ rows[i] = Nothing /\ dated[i] = {} /\ Listed(i)' = Listed(i)
    BY <2>1 DEF Read, Tx, Listed
  <2> QED BY <2>1, <2>2 DEF Tx
<1> QED BY <1>1, <1>3, <1>4, <1>5, <1>6, <1>7, <1>8, <1>9, <1>10 DEF ImportStep

\* Types and transactions are inductive, however many imports overlap.
LEMMA TypePartStep == TypePart /\ [Next]_vars => TypePart'
<1> SUFFICES ASSUME TypePart, [Next]_vars PROVE TypePart'
  OBVIOUS
<1>1. TypeOK'
  BY TypeStep
<1>2. \A h \in Host : file[h] <= file'[h]
  <2>1. \A h \in Host : file[h] \in Nat
    BY DEF TypePart, TypeOK
  <2>2. CASE UNCHANGED file
    BY <2>1, <2>2
  <2>3. ASSUME NEW h \in Host, Upload(h) PROVE \A g \in Host : file[g] <= file'[g]
    BY <2>1, <2>3 DEF Upload, TypePart, TypeOK
  <2>4. UNCHANGED file \/ \E h \in Host : Upload(h)
    BY DEF Next, vars, ClassifyFile, SetHostClass, ImportStep, Start, ResetRecords,
           ResetHostMeta, ListFiles, StatFile, StatFails, BeginTx, ImportFile, AddHostMeta,
           ListClasses, ReadClass, SkipClass, ClassesRead, InsertClasses, Commit, Fail
  <2> QED BY <2>2, <2>3, <2>4
<1>3. ASSUME NEW i \in Importer, ImportStep(i), NEW j \in Importer PROVE Tx(j)'
  <2>1. CASE j = i
    BY <1>3, <2>1, TxMoves
  <2>2. CASE j # i
    BY <1>1, <1>2, <1>3, <2>2, OneImport, TxKept DEF TypePart
  <2> QED BY <2>1, <2>2
<1>4. ASSUME UNCHANGED <<pc, listing, todo, current, rows, dated>>, NEW j \in Importer
      PROVE  Tx(j)'
  <2>1. UNCHANGED <<pc[j], listing[j], todo[j], current[j], rows[j], dated[j]>>
    BY <1>4
  <2> QED BY <1>1, <1>2, <2>1, TxKept
<1>5. UNCHANGED <<pc, listing, todo, current, rows, dated>> \/ \E i \in Importer : ImportStep(i)
  BY DEF Next, vars, Upload, ClassifyFile, SetHostClass
<1>6. TxInv'
  <2> SUFFICES ASSUME NEW j \in Importer PROVE Tx(j)'
    BY DEF TxInv
  <2>1. CASE \E i \in Importer : ImportStep(i)
    BY <1>3, <2>1
  <2>2. CASE UNCHANGED <<pc, listing, todo, current, rows, dated>>
    BY <1>4, <2>2
  <2> QED BY <1>5, <2>1, <2>2
<1> QED BY <1>1, <1>6 DEF TypePart

-----------------------------------------------------------------------------
(* The tables, when imports do not overlap. *)

\* Between the DELETEs and the commit nobody inserts anything.
LEMMA EmptyStep == Single /\ IInv /\ [Next]_vars => EmptyInv'
<1> SUFFICES ASSUME Single, TypeOK, EmptyInv, [Next]_vars,
                    NEW j \in Importer
             PROVE  /\ pc'[j] \in Working \cup {"meta", "list", "stat"} => record' = NoRecords
                    /\ pc'[j] \in Working \cup {"list", "stat"} => hostMeta' = NoHostMeta
  BY DEF IInv, TypePart, EmptyInv
<1> USE DEF EmptyInv, TypeOK
<1>1. CASE UNCHANGED <<pc, record, hostMeta>>
  BY <1>1
<1>2. ASSUME NEW i \in Importer, ImportStep(i) PROVE EmptyInv'
  <2>1. \A k \in Importer : k = i
    BY DEF Single
  <2>2. CASE Start(i)
    BY <2>1, <2>2 DEF Start
  <2>3. CASE ResetRecords(i)
    BY <2>1, <2>3 DEF ResetRecords
  <2>4. CASE ResetHostMeta(i)
    BY <2>1, <2>4 DEF ResetHostMeta
  <2>5. CASE ListFiles(i) \/ BeginTx(i) \/ \E h \in Host : StatFile(i, h) \/ StatFails(i, h)
    BY <2>1, <2>5 DEF ListFiles, BeginTx, StatFile, StatFails
  <2>6. CASE \E h \in Host : ImportFile(i, h)
    BY <2>1, <2>6 DEF ImportFile
  <2>7. CASE \/ AddHostMeta(i) \/ ListClasses(i) \/ ClassesRead(i) \/ InsertClasses(i)
             \/ \E h \in Host : ReadClass(i, h) \/ SkipClass(i, h)
    BY <2>1, <2>7
       DEF AddHostMeta, ListClasses, ClassesRead, InsertClasses, ReadClass, SkipClass
  <2>8. CASE Commit(i) \/ Fail(i)
    <3>1. pc'[i] = "idle"
      BY <2>8 DEF Commit, Fail, Exit
    <3> QED BY <2>1, <3>1
  <2> QED BY <1>2, <2>2, <2>3, <2>4, <2>5, <2>6, <2>7, <2>8 DEF ImportStep
<1>3. UNCHANGED <<pc, record, hostMeta>> \/ \E i \in Importer : ImportStep(i)
  BY DEF Next, vars, Upload, ClassifyFile, SetHostClass
<1> QED BY <1>1, <1>2, <1>3

\* The commit fills the empty tables with one block and one time for each file
\* that was listed.
LEMMA CommitFills ==
    ASSUME TypePart, NEW i \in Importer, Commit(i), record = NoRecords
    PROVE  Tables'
<1>1. /\ TypeOK /\ Tx(i)
      /\ pc[i] = "commit"
      /\ record' = [h \in Host |-> Inserted(i, h)]
      /\ hostMeta' = [h \in Host |-> IF h \in dated[i] THEN listing[i][h] ELSE hostMeta[h]]
      /\ imported' = Listed(i)
  BY DEF TypePart, TxInv, Commit, Listed
<1>2. Read(i) = Listed(i) /\ dated[i] = Listed(i)
  BY <1>1 DEF Tx
<1>3. ASSUME NEW h \in Host
      PROVE  record'[h] = IF h \in Listed(i) THEN <<rows[i][h]>> ELSE <<>>
  <2>1. record[h] = <<>>
    OBVIOUS
  <2>2. CASE h \in Listed(i)
    <3>1. rows[i][h] # Absent
      BY <1>2, <2>2 DEF Read
    <3> QED BY <1>1, <2>1, <2>2, <3>1 DEF Inserted
  <2>3. CASE h \notin Listed(i)
    <3>1. rows[i][h] = Absent
      BY <1>2, <2>3 DEF Read
    <3> QED BY <1>1, <2>1, <2>3, <3>1 DEF Inserted
  <2> QED BY <2>2, <2>3
<1>4. OneBlock'
  <2> SUFFICES ASSUME NEW h \in Host PROVE Len(record'[h]) <= 1
    BY DEF OneBlock
  <2>1. CASE h \in Listed(i)
    <3>1. record'[h] = <<rows[i][h]>>
      BY <1>3, <2>1
    <3> QED BY <3>1
  <2>2. CASE h \notin Listed(i)
    <3>1. record'[h] = <<>>
      BY <1>3, <2>2
    <3> QED BY <3>1
  <2> QED BY <2>1, <2>2
<1>5. AllOrNothing'
  <2>1. ASSUME NEW h \in Host PROVE record'[h] # <<>> <=> h \in Listed(i)
    <3>1. <<rows[i][h]>> # <<>>
      OBVIOUS
    <3> QED BY <1>3, <3>1
  <2>2. {h \in Host : record'[h] # <<>>} = Listed(i)
    BY <2>1 DEF Listed
  <2> QED BY <1>1, <2>2 DEF AllOrNothing
<1>6. RowsDated'
  <2> SUFFICES ASSUME NEW h \in Host, record'[h] # <<>>
               PROVE  /\ hostMeta'[h] # Absent
                      /\ \A k \in DOMAIN record'[h] : hostMeta'[h] <= record'[h][k]
    BY DEF RowsDated
  <2>1. h \in Listed(i) /\ record'[h] = <<rows[i][h]>>
    BY <1>3
  <2>2. hostMeta'[h] = listing[i][h]
    BY <1>1, <1>2, <2>1
  <2>3. listing[i][h] # Absent /\ listing[i][h] <= rows[i][h]
    BY <1>1, <1>2, <2>1 DEF Tx, Listed
  <2> QED BY <2>1, <2>2, <2>3
<1> QED BY <1>4, <1>5, <1>6 DEF Tables

\* Empty tables and unchanged tables are in order.
LEMMA TablesStep == Single /\ IInv /\ [Next]_vars => Tables'
<1> SUFFICES ASSUME Single, IInv, [Next]_vars PROVE Tables'
  OBVIOUS
<1>1. CASE UNCHANGED <<record, hostMeta, imported>>
  BY <1>1 DEF IInv, Tables, OneBlock, AllOrNothing, RowsDated
<1>2. CASE record' = NoRecords
  BY <1>2 DEF Tables, OneBlock, AllOrNothing, RowsDated
<1>3. ASSUME NEW i \in Importer, ResetHostMeta(i) PROVE record' = NoRecords
  BY <1>3 DEF ResetHostMeta, IInv, EmptyInv
<1>4. ASSUME NEW i \in Importer, Commit(i) PROVE Tables'
  <2>1. record = NoRecords
    BY <1>4 DEF Commit, IInv, EmptyInv
  <2> QED BY <1>4, <2>1, CommitFills DEF IInv
<1>5. \/ UNCHANGED <<record, hostMeta, imported>> \/ record' = NoRecords
      \/ \E i \in Importer : ResetHostMeta(i) \/ Commit(i)
  BY DEF Next, vars, Upload, ClassifyFile, SetHostClass, ImportStep, Start, ResetRecords,
         ListFiles, StatFile, StatFails, BeginTx, ImportFile, AddHostMeta, ListClasses,
         ReadClass, SkipClass, ClassesRead, InsertClasses, Fail
<1> QED BY <1>1, <1>2, <1>3, <1>4, <1>5

\* IInv is inductive when imports do not overlap.
LEMMA StepIInv == Single /\ IInv /\ [Next]_vars => IInv'
  BY TypePartStep, EmptyStep, TablesStep DEF IInv

-----------------------------------------------------------------------------
\* Every variable of any number of overlapping imports keeps its type, and only
\* a process in its transaction holds the write lock.
THEOREM TypeCorrect == Spec => []TypeOK
<1>1. Init => TypePart
  BY InitIInv DEF IInv
<1>2. TypePart /\ [Next]_vars => TypePart'
  BY TypePartStep
<1>3. TypePart => TypeOK
  BY DEF TypePart
<1> QED BY <1>1, <1>2, <1>3, PTL DEF Spec

\* The inductive invariant of imports that do not overlap: transactions, empty
\* tables until the commit, and tables in order.
THEOREM Invariance == ASSUME Single PROVE Spec => []IInv
<1>1. Init => IInv
  BY InitIInv
<1>2. IInv /\ [Next]_vars => IInv'
  BY StepIInv
<1> QED BY <1>1, <1>2, PTL DEF Spec

\* ImportFromFS replaces rows: however often it runs and wherever it fails, no
\* file is in the table twice, as long as imports do not overlap.
THEOREM NothingTwice == ASSUME Single PROVE Spec => []OneBlock
<1>1. IInv => OneBlock
  BY DEF IInv, Tables
<1> QED BY <1>1, Invariance, PTL

\* The records of a part of the listed files are never in the table.
THEOREM NothingHalf == ASSUME Single PROVE Spec => []AllOrNothing
<1>1. IInv => AllOrNothing
  BY DEF IInv, Tables
<1> QED BY <1>1, Invariance, PTL

\* Rows have a time, and none after the upload they come from.
THEOREM NothingPostdated == ASSUME Single PROVE Spec => []RowsDated
<1>1. IInv => RowsDated
  BY DEF IInv, Tables
<1> QED BY <1>1, Invariance, PTL

-----------------------------------------------------------------------------
(* Classes set in the database, for any number of overlapping imports. *)

\* What an import has read of the class files is of files that are there.
ClassInv == \A i \in Importer, h \in Host : classes[i][h] # None => classFile[h] # None

\* Class files are replaced and never removed, and only ReadClass reads them.
LEMMA ClassStep == TypeOK /\ ClassInv /\ [Next]_vars => ClassInv'
<1> SUFFICES ASSUME TypeOK, ClassInv, [Next]_vars PROVE ClassInv'
  OBVIOUS
<1> USE NoneAssumption DEF ClassInv
<1>0. /\ classFile \in [Host -> Class \cup {None}]
      /\ classes \in [Importer -> [Host -> Class \cup {None}]]
  BY DEF TypeOK
<1>1. CASE UNCHANGED <<classes, classFile>>
  BY <1>1
<1>2. ASSUME NEW h \in Host, NEW c \in Class, ClassifyFile(h, c) PROVE ClassInv'
  BY <1>0, <1>2 DEF ClassifyFile
<1>3. ASSUME NEW i \in Importer, NEW g \in Host, ReadClass(i, g) PROVE ClassInv'
  <2>1. /\ classes' = [classes EXCEPT ![i] = [classes[i] EXCEPT ![g] = classFile[g]]]
        /\ classFile' = classFile
    BY <1>3 DEF ReadClass
  <2> QED BY <1>0, <2>1
<1>4. ASSUME NEW i \in Importer, Commit(i) \/ Fail(i) PROVE ClassInv'
  <2>1. classes' = [classes EXCEPT ![i] = NoClasses] /\ classFile' = classFile
    BY <1>4 DEF Commit, Fail, Exit
  <2>2. ASSUME NEW j \in Importer, NEW h \in Host, classes'[j][h] # None
        PROVE  classFile'[h] # None
    <3>1. CASE j = i
      <4>1. classes'[j] = NoClasses
        BY <1>0, <2>1, <3>1
      <4> QED BY <2>2, <4>1
    <3>2. CASE j # i
      BY <1>0, <2>1, <2>2, <3>2
    <3> QED BY <3>1, <3>2
  <2> QED BY <2>2
<1>5. \/ UNCHANGED <<classes, classFile>>
      \/ \E h \in Host, c \in Class : ClassifyFile(h, c)
      \/ \E i \in Importer : (\E h \in Host : ReadClass(i, h)) \/ Commit(i) \/ Fail(i)
  BY DEF Next, vars, Upload, SetHostClass, ImportStep, Start, ResetRecords, ResetHostMeta,
         ListFiles, StatFile, StatFails, BeginTx, ImportFile, AddHostMeta, ListClasses,
         SkipClass, ClassesRead, InsertClasses
<1> QED BY <1>1, <1>2, <1>3, <1>4, <1>5

\* importHostClasses: hosts without a class file keep what the table holds.
THEOREM ClassesSurvive == Spec => DatabaseClassesSurvive
<1>1. Init => ClassInv
  BY DEF Init, ClassInv
<1>2. TypeOK /\ ClassInv /\ [Next]_vars =>
        [\A i \in Importer : pc[i] # pc'[i] =>
            \A h \in Host : classFile[h] = None => hostClass'[h] = hostClass[h]]_vars
  <2> SUFFICES ASSUME TypeOK, ClassInv, [Next]_vars, NEW i \in Importer, pc[i] # pc'[i],
                      NEW h \in Host, classFile[h] = None
               PROVE  hostClass'[h] = hostClass[h]
    OBVIOUS
  <2>1. PICK j \in Importer : ImportStep(j)
    BY DEF Next, vars, Upload, ClassifyFile, SetHostClass
  <2>2. CASE Commit(j)
    BY <2>2 DEF Commit, ClassInv, TypeOK
  <2>3. CASE ~Commit(j)
    BY <2>1, <2>3 DEF ImportStep, Start, ResetRecords, ResetHostMeta, ListFiles, StatFile,
       StatFails, BeginTx, ImportFile, AddHostMeta, ListClasses, ReadClass, SkipClass,
       ClassesRead, InsertClasses, Fail
  <2> QED BY <2>2, <2>3
<1>3. TypeOK /\ ClassInv /\ [Next]_vars => ClassInv'
  BY ClassStep
<1> QED BY <1>1, <1>2, <1>3, TypeCorrect, PTL DEF Spec, DatabaseClassesSurvive

-----------------------------------------------------------------------------
(* An import that nobody overlaps is a Mirror. *)

\* A process has classes only while it is at work on them, and it has read no version
\* of a file that was not there.
LocalInv ==
    \A i \in Importer :
        /\ pc[i] \notin {"class", "classes", "commit"} => classes[i] = NoClasses
        /\ \A h \in Host : rows[i][h] <= file[h]

\* Files get newer versions only, and no process meddles with another's variables.
LEMMA LocalStep == TypePart /\ LocalInv /\ [Next]_vars => LocalInv'
<1> SUFFICES ASSUME TypePart, LocalInv, [Next]_vars, NEW j \in Importer
             PROVE  /\ pc'[j] \notin {"class", "classes", "commit"} => classes'[j] = NoClasses
                    /\ \A h \in Host : rows'[j][h] <= file'[h]
  BY DEF LocalInv
<1>0. /\ pc \in [Importer -> Stages]
      /\ file \in [Host -> Nat]
      /\ rows \in [Importer -> [Host -> Nat]]
      /\ classes \in [Importer -> [Host -> Class \cup {None}]]
  BY VersionAssumption DEF TypePart, TypeOK
<1>1. /\ pc[j] \notin {"class", "classes", "commit"} => classes[j] = NoClasses
      /\ \A h \in Host : rows[j][h] <= file[h]
  BY DEF LocalInv
<1>2. CASE UNCHANGED <<pc, classes, rows, file>>
  BY <1>1, <1>2
<1>3. ASSUME NEW h \in Host, Upload(h) PROVE LocalInv'
  BY <1>0, <1>3 DEF Upload, LocalInv
<1>4. ASSUME NEW i \in Importer, ListFiles(i) \/ BeginTx(i) PROVE LocalInv'
  BY <1>0, <1>4 DEF ListFiles, BeginTx, LocalInv
<1>5. ASSUME NEW i \in Importer, NEW h \in Host, ImportFile(i, h) PROVE LocalInv'
  BY <1>0, <1>5 DEF ImportFile, LocalInv
<1>6. ASSUME NEW i \in Importer, AddHostMeta(i) PROVE LocalInv'
  BY <1>0, <1>6 DEF AddHostMeta, LocalInv
<1>7. ASSUME NEW i \in Importer, NEW h \in Host, ReadClass(i, h) PROVE LocalInv'
  BY <1>0, <1>7 DEF ReadClass, LocalInv
<1>8. ASSUME NEW i \in Importer, ListClasses(i) \/ ClassesRead(i) \/ InsertClasses(i)
      PROVE  LocalInv'
  BY <1>0, <1>8 DEF ListClasses, ClassesRead, InsertClasses, LocalInv
<1>9. ASSUME NEW i \in Importer, Start(i) \/ ResetRecords(i) \/ ResetHostMeta(i)
      PROVE  LocalInv'
  BY <1>0, <1>9 DEF Start, ResetRecords, ResetHostMeta, LocalInv
<1>10. ASSUME NEW i \in Importer, Commit(i) \/ Fail(i) PROVE LocalInv'
  <2>1. /\ UNCHANGED file
        /\ classes'[i] = NoClasses /\ rows'[i] = Nothing
    BY <1>0, <1>10 DEF Commit, Fail, Exit
  <2>2. \A k \in Importer \ {i} : UNCHANGED <<pc[k], classes[k], rows[k]>>
    BY <1>0, <1>10 DEF Commit, Fail, Exit
  <2>3. \A h \in Host : rows'[i][h] <= file'[h]
    BY <1>0, <2>1
  <2> QED BY <2>1, <2>2, <2>3 DEF LocalInv
<1>11. ASSUME NEW i \in Importer,
              \E h \in Host : StatFile(i, h) \/ StatFails(i, h) \/ SkipClass(i, h)
       PROVE  UNCHANGED <<pc, classes, rows, file>>
  BY <1>11 DEF StatFile, StatFails, SkipClass
<1>12. \/ UNCHANGED <<pc, classes, rows, file>>
       \/ \E h \in Host : Upload(h)
       \/ \E i \in Importer : ImportStep(i)
  BY DEF Next, vars, ClassifyFile, SetHostClass
<1> QED BY <1>1, <1>2, <1>3, <1>4, <1>5, <1>6, <1>7, <1>8, <1>9, <1>10, <1>11, <1>12
        DEF LocalInv, ImportStep

\* What each step of the import is to the readers of its database.
LEMMA MirrorStep ==
    ASSUME Single, IInv, LocalInv, NEW i \in Importer, ImportStep(i)
    PROVE  Mirror(i)!Next \/ UNCHANGED Mirror(i)!vars
<1> USE DEF Mirror!vars, Mirror!dirVars, Mirror!dbVars, Mirror!importVars, Mirror!NoTimes,
            Mirror!NoRecords, Mirror!NoClasses, Mirror!Absent, StageOf, DueOf
<1>0. TypeOK /\ Tx(i) /\ pc[i] \in Stages
  BY DEF IInv, TypePart, TxInv, TypeOK
<1>1. CASE Start(i)
  <2>1. /\ StageOf(i)' = StageOf(i) /\ DueOf(i)' = DueOf(i)
        /\ UNCHANGED <<file, classFile, record, hostMeta, hostClass, listing, classes>>
    BY <1>0, <1>1 DEF Start, TypeOK
  <2> QED BY <2>1
<1>2. CASE ResetRecords(i)
  <2>1. /\ StageOf(i)' = "idle" /\ StageOf(i) = "idle" /\ record' = NoRecords
        /\ DueOf(i)' = DueOf(i)
        /\ UNCHANGED <<file, classFile, hostMeta, hostClass, listing, classes>>
    BY <1>0, <1>2 DEF ResetRecords, TypeOK
  <2> QED BY <2>1 DEF Mirror!Next, Mirror!EmptyRecords
<1>3. CASE ResetHostMeta(i)
  <2>1. /\ StageOf(i)' = "idle" /\ StageOf(i) = "idle" /\ hostMeta' = NoHostMeta
        /\ DueOf(i)' = DueOf(i)
        /\ UNCHANGED <<file, classFile, record, hostClass, listing, classes>>
    BY <1>0, <1>3 DEF ResetHostMeta, TypeOK
  <2>2. record = NoRecords
    BY <1>3 DEF ResetHostMeta, IInv, EmptyInv
  <2> QED BY <2>1, <2>2 DEF Mirror!Next, Mirror!EmptyHostMeta
<1>4. CASE ListFiles(i)
  <2>1. /\ StageOf(i)' = "looking" /\ StageOf(i) = "idle"
        /\ DueOf(i)' = {h \in Host : file[h] # Absent}
        /\ UNCHANGED <<file, classFile, record, hostMeta, hostClass, listing, classes>>
    BY <1>0, <1>4 DEF ListFiles, TypeOK
  <2>2. record = NoRecords /\ hostMeta = NoHostMeta
    BY <1>4 DEF ListFiles, IInv, EmptyInv
  <2> QED BY <2>1, <2>2 DEF Mirror!Next, Mirror!List
<1>5. ASSUME NEW h \in Host, StatFile(i, h) PROVE Mirror(i)!Look(h)
  <2>1. /\ StageOf(i)' = "looking" /\ StageOf(i) = "looking"
        /\ h \in DueOf(i) /\ DueOf(i)' = DueOf(i) \ {h}
        /\ listing'[i] = [listing[i] EXCEPT ![h] = file[h]]
        /\ UNCHANGED <<file, classFile, record, hostMeta, hostClass, classes>>
    BY <1>0, <1>5 DEF StatFile, TypeOK
  <2> QED BY <2>1 DEF Mirror!Look
<1>6. ASSUME NEW h \in Host, StatFails(i, h) \/ SkipClass(i, h) PROVE Mirror(i)!Miss(h)
  <2>1. /\ StageOf(i)' = StageOf(i)
        /\ h \in DueOf(i) /\ DueOf(i)' = DueOf(i) \ {h}
        /\ UNCHANGED <<file, classFile, record, hostMeta, hostClass, listing, classes>>
    BY <1>0, <1>6 DEF StatFails, SkipClass, TypeOK
  <2> QED BY <2>1 DEF Mirror!Miss
<1>7. CASE \/ BeginTx(i) \/ (\E h \in Host : ImportFile(i, h)) \/ AddHostMeta(i)
           \/ ClassesRead(i) \/ InsertClasses(i)
  <2>1. /\ StageOf(i)' = StageOf(i) /\ DueOf(i)' = {} /\ DueOf(i) = {}
        /\ UNCHANGED <<file, classFile, record, hostMeta, hostClass, listing, classes>>
    BY <1>0, <1>7 DEF BeginTx, ImportFile, AddHostMeta, ClassesRead, InsertClasses, TypeOK
  <2> QED BY <2>1
<1>11. CASE ListClasses(i)
  <2>1. /\ StageOf(i)' = "finding" /\ StageOf(i) = "looking"
        /\ DueOf(i) = {} /\ DueOf(i)' = {h \in Host : classFile[h] # None}
        /\ UNCHANGED <<file, classFile, record, hostMeta, hostClass, listing, classes>>
    BY <1>0, <1>11 DEF ListClasses, TypeOK
  <2> QED BY <2>1 DEF Mirror!Next, Mirror!ListClasses
<1>12. ASSUME NEW h \in Host, ReadClass(i, h) PROVE Mirror(i)!FindClass(h)
  <2>1. /\ StageOf(i)' = "finding" /\ StageOf(i) = "finding"
        /\ h \in DueOf(i) /\ DueOf(i)' = DueOf(i) \ {h}
        /\ classes'[i] = [classes[i] EXCEPT ![h] = classFile[h]]
        /\ UNCHANGED <<file, classFile, record, hostMeta, hostClass, listing>>
    BY <1>0, <1>12 DEF ReadClass, TypeOK
  <2> QED BY <2>1 DEF Mirror!FindClass
<1>8. ASSUME Commit(i) \/ Fail(i) PROVE Mirror(i)!Idle' /\ UNCHANGED <<file, classFile>>
  <2>1. /\ pc'[i] = "idle" /\ listing'[i] = Nothing /\ classes'[i] = NoClasses
        /\ UNCHANGED <<file, classFile>>
    BY <1>0, <1>8 DEF Commit, Fail, Exit, TypeOK
  <2>2. DueOf(i)' = {}
    BY <2>1
  <2> QED BY <2>1, <2>2 DEF Mirror!Idle
<1>9. CASE Fail(i)
  <2>1. UNCHANGED <<record, hostMeta, hostClass>>
    BY <1>9 DEF Fail
  <2> QED BY <1>8, <1>9, <2>1 DEF Mirror!Next, Mirror!GiveUp
<1>10. CASE Commit(i)
  <2>1. /\ pc[i] = "commit" /\ record = NoRecords /\ hostMeta = NoHostMeta
        /\ record' = [h \in Host |-> Inserted(i, h)]
        /\ hostMeta' = [h \in Host |-> IF h \in dated[i] THEN listing[i][h] ELSE hostMeta[h]]
        /\ hostClass' = [h \in Host |-> IF classes[i][h] = None THEN hostClass[h]
                                                               ELSE classes[i][h]]
    BY <1>10 DEF Commit, IInv, EmptyInv
  <2>2. /\ listing[i] \in [Host -> Nat] /\ rows[i] \in [Host -> 0 .. MaxVersion]
        /\ file \in [Host -> Nat]
    BY <1>0, VersionAssumption DEF TypeOK
  <2>3. \A h \in Host : /\ (rows[i][h] = Absent <=> listing[i][h] = Absent)
                        /\ (h \in dated[i] <=> listing[i][h] # Absent)
    BY <1>0, <2>1 DEF Tx, Read, Listed
  <2>4. ASSUME NEW h \in Host PROVE listing[i][h] <= rows[i][h] /\ rows[i][h] <= file[h]
    <3>1. rows[i][h] <= file[h]
      BY DEF LocalInv
    <3>2. CASE listing[i][h] = Absent
      BY <2>2, <2>3, <3>1, <3>2
    <3>3. CASE listing[i][h] # Absent
      BY <1>0, <2>3, <3>1, <3>3 DEF Tx, Read
    <3> QED BY <3>2, <3>3
  <2>5. record' = [h \in Host |-> IF listing[i][h] = Absent THEN <<>> ELSE <<rows[i][h]>>]
    <3>1. ASSUME NEW h \in Host
          PROVE  Inserted(i, h) = IF listing[i][h] = Absent THEN <<>> ELSE <<rows[i][h]>>
      <4>1. record[h] = <<>> /\ Append(<<>>, rows[i][h]) = <<rows[i][h]>>
        BY <2>1
      <4> QED BY <2>3, <4>1 DEF Inserted
    <3> QED BY <2>1, <3>1
  <2>6. hostMeta' = listing[i]
    <3>1. \A h \in Host : hostMeta'[h] = listing[i][h]
      BY <2>1, <2>3
    <3> QED BY <2>1, <2>2, <3>1
  <2>7. StageOf(i) = "finding" /\ DueOf(i) = {}
    BY <2>1
  <2>8. Mirror(i)!Install
    <3>1. \E version \in [Host -> 0 .. MaxVersion] :
             /\ \A h \in Host : listing[i][h] <= version[h] /\ version[h] <= file[h]
             /\ record' = [h \in Host |-> IF listing[i][h] = Absent THEN <<>>
                                                                   ELSE <<version[h]>>]
      BY <2>2, <2>4, <2>5
    <3> QED BY <1>8, <1>10, <2>1, <2>6, <2>7, <3>1 DEF Mirror!Install
  <2> QED BY <2>8 DEF Mirror!Next
<1>13. ASSUME NEW h \in Host, Mirror(i)!Look(h) \/ Mirror(i)!FindClass(h) \/ Mirror(i)!Miss(h)
       PROVE  Mirror(i)!Next
  BY <1>13 DEF Mirror!Next
<1> QED BY <1>1, <1>2, <1>3, <1>4, <1>5, <1>6, <1>7, <1>9, <1>10, <1>11, <1>12, <1>13
        DEF ImportStep

\* ImportFromFS replaces rows: as long as imports do not overlap, all that a reader of
\* the database can see of one, whatever its files do meanwhile and wherever it fails,
\* is that the tables are emptied and then filled at one instant.
THEOREM ImportIsMirror == ASSUME Single PROVE Spec => ReplacedAtOnce
<1>1. Init => IInv /\ LocalInv /\ \A i \in Importer : Mirror(i)!Init
  <2> SUFFICES ASSUME Init PROVE LocalInv /\ \A i \in Importer : Mirror(i)!Init
    BY InitIInv
  <2>1. LocalInv
    BY DEF Init, LocalInv
  <2>2. \A i \in Importer : Mirror(i)!Init
    BY DEF Init, Mirror!Init, Mirror!Idle, Mirror!NoTimes, Mirror!NoRecords,
           Mirror!NoClasses, Mirror!Absent, StageOf, DueOf
  <2> QED BY <2>1, <2>2
<1>2. IInv /\ LocalInv /\ [Next]_vars => LocalInv'
  BY LocalStep DEF IInv
<1>3. IInv /\ LocalInv /\ [Next]_vars
        => [\A i \in Importer : Mirror(i)!Next \/ UNCHANGED Mirror(i)!vars]_vars
  <2> SUFFICES ASSUME IInv, LocalInv, [Next]_vars, NEW i \in Importer
               PROVE  Mirror(i)!Next \/ UNCHANGED Mirror(i)!vars
    OBVIOUS
  <2>1. CASE UNCHANGED vars
    BY <2>1 DEF vars, Mirror!vars, Mirror!dirVars, Mirror!dbVars, Mirror!importVars, StageOf, DueOf
  <2>2. ASSUME NEW h \in Host, Upload(h) PROVE Mirror(i)!Upload(h)
    BY <2>2 DEF Upload, Mirror!Upload, Mirror!dbVars, Mirror!importVars, StageOf, DueOf
  <2>3. ASSUME NEW h \in Host, NEW c \in Class, ClassifyFile(h, c)
        PROVE  Mirror(i)!ClassifyFile(h, c)
    BY <2>3 DEF ClassifyFile, Mirror!ClassifyFile, Mirror!dbVars, Mirror!importVars, StageOf, DueOf
  <2>4. ASSUME NEW h \in Host, NEW c \in Class, SetHostClass(h, c)
        PROVE  Mirror(i)!SetHostClass(h, c)
    BY <2>4 DEF SetHostClass, Mirror!SetHostClass, Mirror!dirVars, Mirror!importVars, StageOf, DueOf
  <2>5. ASSUME NEW j \in Importer, ImportStep(j)
        PROVE  Mirror(i)!Next \/ UNCHANGED Mirror(i)!vars
    <3>1. i = j
      BY DEF Single
    <3> QED BY <2>5, <3>1, MirrorStep
  <2> QED BY <2>1, <2>2, <2>3, <2>4, <2>5 DEF Next, Mirror!Next
<1>4. Spec => [](IInv /\ LocalInv)
  BY <1>1, <1>2, Invariance, PTL DEF Spec
<1> QED BY <1>1, <1>3, <1>4, PTL DEF Spec, ReplacedAtOnce
=============================================================================
