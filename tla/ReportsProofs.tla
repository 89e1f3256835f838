----------------------------- MODULE ReportsProofs -----------------------------
(***************************************************************************)
(* What is proved about Reports, for any files, lines, clock and limit: the *)
(* types of all variables, tables included; that the figures of all four    *)
(* maps are those of their records, from files and from the database, and   *)
(* what follows of gaps and of the two sources; that a table shows the top   *)
(* entries; and that -all gives every table once.                           *)
(***************************************************************************)
EXTENDS Reports, FiniteSetTheorems, TLAPS

Requests == [source : Sources, category : Categories, metric : Metrics]

\* What has been done by which stage; lines belong to hosts that were opened, the
\* database has the hosts of its rows, and in the end all rows that it can hold.
StageInv ==
    /\ pc = "files" => \A h \in Host : loaded[h] = {}
    /\ pc \notin {"keys", "rows", "done"} => keys = <<>>
    /\ pc \notin {"rows", "done"} => ranking = <<>> /\ table = <<>>
    /\ IsFiniteSet(DOMAIN keys)
    /\ pc \in {"keys", "rows", "done"} /\ request.category # "Host" =>
          request.metric \notin HostMetrics
    /\ pc = "files" /\ at # None => at \in present["files"]
    /\ \A h \in Host \ present["files"] : lines[h] = <<>>
    /\ present["db"] = {h \in Host : loaded[h] # {}}
    /\ fits /\ pc \notin {"files", "db", "failed"} =>
          \A h \in Host : loaded[h] = DOMAIN lines[h]

\* The lines a source has added, by host and index, and the seconds of some of them.
LinesOf(s) == [c \in Counted(s) |-> Line(c)]
SecondsIn(R, ls) == UNION {{c} \X Covers(ls[c]) : c \in R}

\* a are the figures of the lines ls[c], c \in R; unlike FiguresRight this says what
\* the first boot is of no lines.
Right(a, R, ls) ==
    /\ IsFiniteSet(R) /\ IsFiniteSet(SecondsIn(R, ls))
    /\ a.boots = Cardinality(R)
    /\ a.uptime = Cardinality(SecondsIn(R, ls)) % Word
    /\ a.last = 0 \/ \E c \in R : a.last = End(ls[c])
    /\ \A c \in R : End(ls[c]) <= a.last
    /\ R = {} => a.first = 0
    /\ R # {} /\ (\A c \in R : ls[c].boot # 0) =>
          /\ \E c \in R : a.first = ls[c].boot
          /\ \A c \in R : a.first <= ls[c].boot

\* Of a host also the newest boot is known, and the kernel is that of such a boot.
KernelRight(a, R, ls) ==
    /\ R = {} => a.newest = 0 /\ a.kernel = None
    /\ R # {} => \E c \in R : a.kernel = ls[c].os /\ a.newest = ls[c].boot
    /\ \A c \in R : ls[c].boot <= a.newest

EntryRight(r, n) ==
    /\ Right(Map(r)[n], RecordsOf(r, n), LinesOf(r.source))
    /\ r.category = "Host" => KernelRight(Map(r)[n], RecordsOf(r, n), LinesOf(r.source))
FigureInv == \A r \in Requests : \A n \in DOMAIN Map(r) : EntryRight(r, n)

IInv == TypeOK /\ StageInv /\ FigureInv

-----------------------------------------------------------------------------
(* Arithmetic of the code. *)

\* What is left of a number in a word.
LEMMA WordNumber == \A n \in Nat : n % Word \in Number
  BY NumberAssumption DEF Number

\* Numbers are natural numbers, and 0 is one; they do not wrap.
LEMMA NumberNat == Number \subseteq Nat /\ 0 \in Number /\ \A n \in Number : n % Word = n
  BY NumberAssumption DEF Number

\* Quotient and remainder.
LEMMA Divide ==
    \A n \in Nat : n = Word * (n \div Word) + (n % Word) /\ n \div Word \in Nat
  BY NumberAssumption

\* A word or more is not less than a word.
LEMMA Times == \A d \in Int : d >= 1 => Word * d >= Word
<1> SUFFICES ASSUME NEW d \in Int, d >= 1 PROVE Word * d >= Word
  OBVIOUS
<1>1. d - 1 \in Nat
  OBVIOUS
<1>2. Word * (d - 1) >= 0
  BY <1>1, NumberAssumption
<1>3. Word * d = Word * (d - 1) + Word
  BY NumberAssumption
<1> QED BY <1>2, <1>3, NumberAssumption

\* Only one remainder is left.
LEMMA ModUnique ==
    ASSUME NEW q \in Nat, NEW m \in Number
    PROVE  (Word * q + m) % Word = m
<1> DEFINE n == Word * q + m
           p == n \div Word
           k == n % Word
<1>1. Word * q \in Nat /\ n \in Nat /\ m \in Nat
  BY NumberAssumption, NumberNat
<1>2. n = Word * p + k /\ p \in Nat /\ k \in Number
  BY <1>1, Divide, WordNumber
<1> HIDE DEF p, k
<1>3. Word * (p - q) = m - k /\ Word * (q - p) = k - m
  BY <1>1, <1>2, NumberAssumption DEF Number
<1>4. ~(p - q >= 1) /\ ~(q - p >= 1)
  BY <1>2, <1>3, Times, NumberAssumption DEF Number
<1>5. p = q
  BY <1>2, <1>4
<1>6. k = m
  BY <1>1, <1>2, <1>3, <1>5, NumberAssumption DEF Number
<1> QED BY <1>6 DEF k

\* It does not matter when a sum wraps.
LEMMA ModAdd ==
    ASSUME NEW x \in Nat, NEW u \in Nat
    PROVE  ((x % Word) + u) % Word = (x + u) % Word
<1> DEFINE q == x \div Word
           r == x % Word
           d == (r + u) \div Word
           m == (r + u) % Word
<1>1. x = Word * q + r /\ q \in Nat /\ r \in Nat
  BY Divide, WordNumber, NumberNat
<1> HIDE DEF q, r
<1>2. r + u = Word * d + m /\ d \in Nat /\ m \in Number
  BY <1>1, Divide, WordNumber
<1> HIDE DEF d, m
<1>3. x + u = Word * (q + d) + m
  BY <1>1, <1>2, NumberAssumption, NumberNat
<1>4. (x + u) % Word = m
  BY <1>1, <1>2, <1>3, ModUnique
<1> QED BY <1>4 DEF m, r

\* The quotient grows with the dividend, by no more than what is added gives.
LEMMA DivBonus ==
    ASSUME NEW U \in Nat \ {0}, NEW x \in Nat, NEW b \in Nat
    PROVE  /\ (x + b) \div U <= x \div U + (b + U - 1) \div U
           /\ x \div U <= (x + b) \div U
  OBVIOUS

\* A valid line.
LEMMA LineTypes ==
    ASSUME NEW l \in Lines
    PROVE  l.uptime \in Number /\ l.boot \in Number /\ l.os \in Kernel /\ End(l) \in Number
<1>1. l.uptime \in Number /\ l.boot \in Number /\ l.os \in Kernel
  BY LineAssumption DEF Number
<1>2. l.uptime + l.boot \in Nat
  BY <1>1, NumberAssumption DEF Number
<1> QED BY <1>1, <1>2, WordNumber DEF End

\* AddRecord field by field.
LEMMA AddFields ==
    ASSUME NEW a, NEW l, a \in Figures \/ a \in HostFigures
    PROVE  LET b == AddRecord(a, l) IN
           /\ b.uptime = (a.uptime + l.uptime) % Word
           /\ b.first = FirstBoot(a.first, l.boot)
           /\ b.last = IF End(l) > a.last THEN End(l) ELSE a.last
           /\ b.boots = a.boots + 1
           /\ a \in HostFigures => b.kernel = a.kernel /\ b.newest = a.newest
<1> DEFINE u == (a.uptime + l.uptime) % Word
           f == FirstBoot(a.first, l.boot)
           e == IF End(l) > a.last THEN End(l) ELSE a.last
           n == a.boots + 1
<1>1. AddRecord(a, l) = [a EXCEPT !.uptime = u, !.boots = n, !.first = f, !.last = e]
  BY DEF AddRecord
<1> HIDE DEF u, f, e, n
<1>2. /\ AddRecord(a, l).uptime = u /\ AddRecord(a, l).boots = n
      /\ AddRecord(a, l).first = f /\ AddRecord(a, l).last = e
      /\ a \in HostFigures =>
            AddRecord(a, l).kernel = a.kernel /\ AddRecord(a, l).newest = a.newest
  BY <1>1 DEF Figures, HostFigures
<1> QED BY <1>2 DEF u, f, e, n

\* New values of their types leave an aggregate in its type.
LEMMA FigureTypes ==
    ASSUME NEW u \in Number, NEW n \in Nat, NEW f \in Number, NEW e \in Number
    PROVE  /\ \A a \in Figures :
                 [a EXCEPT !.uptime = u, !.boots = n, !.first = f, !.last = e] \in Figures
           /\ \A a \in HostFigures :
                 [a EXCEPT !.uptime = u, !.boots = n, !.first = f, !.last = e] \in HostFigures
  BY DEF Figures, HostFigures

\* AddRecord and the last kernel keep the numbers in their words.
LEMMA AddTypes ==
    ASSUME NEW l \in Lines
    PROVE  /\ \A a \in Figures : AddRecord(a, l) \in Figures
           /\ \A a \in HostFigures : AddRecord(a, l) \in HostFigures
           /\ \A a \in HostFigures : LastKernel(AddRecord(a, l), l) \in HostFigures
<1>1. l.uptime \in Number /\ l.boot \in Number /\ l.os \in Kernel /\ End(l) \in Number
  BY LineTypes
<1>2. ASSUME NEW a, a \in Figures \/ a \in HostFigures
      PROVE  /\ (a.uptime + l.uptime) % Word \in Number
             /\ a.boots + 1 \in Nat
             /\ FirstBoot(a.first, l.boot) \in Number
             /\ (IF End(l) > a.last THEN End(l) ELSE a.last) \in Number
  <2>1. /\ a.uptime \in Number /\ a.first \in Number /\ a.last \in Number
        /\ a.boots \in Nat
    BY <1>2 DEF Figures, HostFigures
  <2>2. a.uptime \in Nat /\ l.uptime \in Nat
    BY <1>1, <2>1, NumberNat
  <2>3. a.uptime + l.uptime \in Nat
    BY <2>2
  <2> QED BY <1>1, <2>1, <2>3, WordNumber DEF FirstBoot
<1>3. ASSUME NEW a \in Figures PROVE AddRecord(a, l) \in Figures
  BY <1>2, FigureTypes DEF AddRecord
<1>4. ASSUME NEW a \in HostFigures PROVE AddRecord(a, l) \in HostFigures
  BY <1>2, FigureTypes DEF AddRecord
<1>5. ASSUME NEW a \in HostFigures PROVE LastKernel(a, l) \in HostFigures
  BY <1>1 DEF LastKernel, HostFigures
<1> QED BY <1>3, <1>4, <1>5

\* A line is added to each of the four maps.
LEMMA AddLineTypes ==
    ASSUME NEW g \in Maps, NEW h \in Host, NEW l \in Lines
    PROVE  AddLine(g, h, l) \in Maps
<1>1. l.os \in Kernel /\ NameOf[l.os] \in Names /\ MajorOf[l.os] \in Majors
  BY LineTypes DEF Names, Majors
<1>2. /\ g.host \in [Host -> HostFigures] /\ g.kernel \in [Kernel -> Figures]
      /\ g.name \in [Names -> Figures] /\ g.major \in [Majors -> Figures]
  BY DEF Maps
<1>3. [g.host EXCEPT ![h] = LastKernel(AddRecord(@, l), l)] \in [Host -> HostFigures]
  BY <1>2, AddTypes
<1>4. /\ AddTo(g.kernel, l.os, l) \in [Kernel -> Figures]
      /\ AddTo(g.name, NameOf[l.os], l) \in [Names -> Figures]
      /\ AddTo(g.major, MajorOf[l.os], l) \in [Majors -> Figures]
  BY <1>1, <1>2, AddTypes DEF AddTo
<1> QED BY <1>3, <1>4 DEF AddLine, Maps

\* The map of a category, and where a line goes in it.
MapIn(g, category) ==
    CASE category = "Host" -> g.host
      [] category = "Kernel" -> g.kernel
      [] category = "KernelName" -> g.name
      [] category = "KernelMajor" -> g.major
KeyOf(category, h, l) ==
    CASE category = "Host" -> h
      [] category = "Kernel" -> l.os
      [] category = "KernelName" -> NameOf[l.os]
      [] category = "KernelMajor" -> MajorOf[l.os]

\* These are the maps and the keys of reports.
LEMMA MapKey ==
    /\ \A r : Map(r) = MapIn(agg[r.source], r.category)
    /\ \A r, c : EntryOf(r, c) = KeyOf(r.category, c[1], Line(c))
  BY DEF Map, MapIn, EntryOf, KeyOf

\* What the maps hold.
LEMMA MapTypes ==
    ASSUME NEW g \in Maps, NEW x \in Categories
    PROVE  /\ DOMAIN MapIn(g, x) = CASE x = "Host" -> Host [] x = "Kernel" -> Kernel
                                     [] x = "KernelName" -> Names [] x = "KernelMajor" -> Majors
           /\ \A n \in DOMAIN MapIn(g, x) :
                 IF x = "Host" THEN MapIn(g, x)[n] \in HostFigures ELSE MapIn(g, x)[n] \in Figures
  BY DEF MapIn, Maps, Categories

\* Only the line's entry changes in a map.
LEMMA AddLineMap ==
    ASSUME NEW g \in Maps, NEW h \in Host, NEW l \in Lines, NEW x \in Categories,
           NEW n \in DOMAIN MapIn(g, x)
    PROVE  MapIn(AddLine(g, h, l), x)[n] =
              IF n # KeyOf(x, h, l) THEN MapIn(g, x)[n]
              ELSE IF x = "Host" THEN LastKernel(AddRecord(MapIn(g, x)[n], l), l)
              ELSE AddRecord(MapIn(g, x)[n], l)
<1>1. /\ g.host \in [Host -> HostFigures] /\ g.kernel \in [Kernel -> Figures]
      /\ g.name \in [Names -> Figures] /\ g.major \in [Majors -> Figures]
  BY DEF Maps
<1>2. /\ AddLine(g, h, l).host = [g.host EXCEPT ![h] = LastKernel(AddRecord(@, l), l)]
      /\ AddLine(g, h, l).kernel = AddTo(g.kernel, l.os, l)
      /\ AddLine(g, h, l).name = AddTo(g.name, NameOf[l.os], l)
      /\ AddLine(g, h, l).major = AddTo(g.major, MajorOf[l.os], l)
  BY DEF AddLine, Maps
<1>3. CASE x = "Host"
  BY <1>1, <1>2, <1>3 DEF MapIn, KeyOf
<1>4. CASE x = "Kernel"
  BY <1>1, <1>2, <1>4 DEF MapIn, KeyOf, AddTo
<1>5. CASE x = "KernelName"
  BY <1>1, <1>2, <1>5 DEF MapIn, KeyOf, AddTo
<1>6. CASE x = "KernelMajor"
  BY <1>1, <1>2, <1>6 DEF MapIn, KeyOf, AddTo
<1> QED BY <1>3, <1>4, <1>5, <1>6 DEF Categories

-----------------------------------------------------------------------------
(* The figures of an entry when a line is added. *)

\* m positions are m.
LEMMA Positions ==
    ASSUME NEW m \in Nat
    PROVE  IsFiniteSet(1 .. m) /\ Cardinality(1 .. m) = m
<1>1. IsFiniteSet(1 .. m) /\ Cardinality(1 .. m) = IF 1 > m THEN 0 ELSE m - 1 + 1
  BY FS_Interval
<1> QED BY <1>1

\* A line covers as many seconds as it is long.
LEMMA CoversSize ==
    ASSUME NEW l \in Lines
    PROVE  IsFiniteSet(Covers(l)) /\ Cardinality(Covers(l)) = l.uptime
<1>1. l.uptime \in Nat /\ l.boot \in Nat
  BY LineTypes, NumberNat
<1> DEFINE b == l.boot
           e == l.boot + l.uptime - 1
<1>2. b \in Int /\ e \in Int /\ (IF b > e THEN 0 ELSE e - b + 1) = l.uptime
  BY <1>1
<1>3. Covers(l) = b .. e
  BY DEF Covers
<1> HIDE DEF b, e
<1> QED BY <1>2, <1>3, FS_Interval

\* The seconds of one more line come to the seconds there are.
LEMMA SecondsStep ==
    ASSUME NEW R, NEW ls, NEW c, c \notin R, IsFiniteSet(SecondsIn(R, ls)), ls[c] \in Lines
    PROVE  /\ IsFiniteSet(SecondsIn(R \cup {c}, ls))
           /\ Cardinality(SecondsIn(R \cup {c}, ls)) =
                 Cardinality(SecondsIn(R, ls)) + ls[c].uptime
<1> DEFINE S == SecondsIn(R, ls)
           C == Covers(ls[c])
           T == {c} \X C
<1>1. IsFiniteSet(C) /\ Cardinality(C) = ls[c].uptime /\ ls[c].uptime \in Nat
  BY CoversSize, LineTypes, NumberNat
<1>2. SecondsIn(R \cup {c}, ls) = S \cup T
  BY DEF SecondsIn
<1>3. S \cap T = {}
  BY DEF SecondsIn
<1> HIDE DEF S, C
<1>4. IsFiniteSet(T) /\ Cardinality(T) = ls[c].uptime
  <2>1. IsFiniteSet({c}) /\ Cardinality({c}) = 1
    BY FS_Singleton
  <2>2. IsFiniteSet(T) /\ Cardinality(T) = 1 * Cardinality(C)
    BY <1>1, <2>1, FS_Product
  <2> QED BY <1>1, <2>2
<1> HIDE DEF T
<1>5. Cardinality(S \cap T) = 0
  BY <1>3, FS_EmptySet
<1>6. Cardinality(S) \in Nat
  BY FS_CardinalityType DEF S
<1>7. IsFiniteSet(S \cup T) /\ Cardinality(S \cup T) = Cardinality(S) + ls[c].uptime
  <2>1. IsFiniteSet(S)
    BY DEF S
  <2>2. /\ IsFiniteSet(S \cup T)
        /\ Cardinality(S \cup T) = Cardinality(S) + Cardinality(T) - Cardinality(S \cap T)
    BY <1>4, <2>1, FS_Union
  <2> QED BY <1>1, <1>4, <1>5, <1>6, <2>2
<1> QED BY <1>2, <1>7 DEF S

\* Nothing is recorded of no lines.
LEMMA RightEmpty ==
    \A ls : /\ Right(NewAggregate, {}, ls)
            /\ Right(NewHostAggregate, {}, ls) /\ KernelRight(NewHostAggregate, {}, ls)
<1> SUFFICES ASSUME NEW ls
             PROVE  /\ Right(NewAggregate, {}, ls)
                    /\ Right(NewHostAggregate, {}, ls) /\ KernelRight(NewHostAggregate, {}, ls)
  OBVIOUS
<1>1. SecondsIn({}, ls) = {}
  BY DEF SecondsIn
<1>2. IsFiniteSet({}) /\ Cardinality({}) = 0 /\ 0 % Word = 0
  BY FS_EmptySet, NumberNat
<1> QED BY <1>1, <1>2 DEF Right, KernelRight, NewAggregate, NewHostAggregate

\* The lines of an entry are what counts, not those of others or those to come.
LEMMA RightSame ==
    ASSUME NEW a, NEW R, NEW ls, NEW ms, \A c \in R : ms[c] = ls[c]
    PROVE  /\ SecondsIn(R, ms) = SecondsIn(R, ls)
           /\ Right(a, R, ls) => Right(a, R, ms)
           /\ KernelRight(a, R, ls) => KernelRight(a, R, ms)
<1>1. SecondsIn(R, ms) = SecondsIn(R, ls)
  BY DEF SecondsIn
<1>2. Right(a, R, ls) => Right(a, R, ms)
  BY <1>1 DEF Right
<1>3. KernelRight(a, R, ls) => KernelRight(a, R, ms)
  BY DEF KernelRight
<1> QED BY <1>1, <1>2, <1>3

\* The last kernel is none of the figures of Right.
LEMMA RightKernel ==
    ASSUME NEW a \in HostFigures, NEW l, NEW R, NEW ls, Right(a, R, ls)
    PROVE  Right(LastKernel(a, l), R, ls)
<1> DEFINE b == LastKernel(a, l)
<1>1. b.boots = a.boots /\ b.uptime = a.uptime /\ b.last = a.last /\ b.first = a.first
  BY DEF LastKernel, HostFigures
<1> HIDE DEF b
<1>2. Right(b, R, ls)
  BY <1>1 DEF Right
<1> QED BY <1>2 DEF b

\* AddRecord keeps the figures right.
LEMMA RightStep ==
    ASSUME NEW a, a \in Figures \/ a \in HostFigures, NEW R, NEW c, NEW ls, c \notin R,
           \A d \in R \cup {c} : ls[d] \in Lines, Right(a, R, ls)
    PROVE  Right(AddRecord(a, ls[c]), R \cup {c}, ls)
<1> DEFINE l == ls[c]
           T == R \cup {c}
           b == AddRecord(a, l)
<1>1. /\ b.boots = a.boots + 1
      /\ b.uptime = (a.uptime + l.uptime) % Word
      /\ b.first = FirstBoot(a.first, l.boot)
      /\ b.last = IF End(l) > a.last THEN End(l) ELSE a.last
  BY AddFields
<1>2. \A d \in T : ls[d].boot \in Nat /\ End(ls[d]) \in Nat /\ ls[d].uptime \in Nat
  BY LineTypes, NumberNat
<1>3. a.first \in Nat /\ a.last \in Nat /\ a.boots \in Nat
  BY NumberNat DEF Figures, HostFigures
<1> HIDE DEF b, l
<1>4. IsFiniteSet(T) /\ b.boots = Cardinality(T)
  BY <1>1, FS_AddElement DEF Right
<1>5. IsFiniteSet(SecondsIn(T, ls)) /\ b.uptime = Cardinality(SecondsIn(T, ls)) % Word
  <2> DEFINE n == Cardinality(SecondsIn(R, ls))
  <2>1. n \in Nat
    BY FS_CardinalityType DEF Right
  <2>2. IsFiniteSet(SecondsIn(T, ls)) /\ Cardinality(SecondsIn(T, ls)) = n + l.uptime
    BY SecondsStep DEF Right, l
  <2>3. a.uptime = n % Word /\ l.uptime \in Nat
    BY <1>2 DEF Right, l
  <2> HIDE DEF n
  <2>4. ((n % Word) + l.uptime) % Word = (n + l.uptime) % Word
    BY <2>1, <2>3, ModAdd
  <2> QED BY <1>1, <2>2, <2>3, <2>4
<1>6. (b.last = 0 \/ \E d \in T : b.last = End(ls[d])) /\ \A d \in T : End(ls[d]) <= b.last
  <2>1. \A d \in R : End(ls[d]) <= a.last
    BY DEF Right
  <2>2. \A d \in T : End(ls[d]) <= b.last
    BY <1>1, <1>2, <1>3, <2>1 DEF l
  <2>3. b.last = 0 \/ \E d \in T : b.last = End(ls[d])
    BY <1>1, <1>2, <1>3 DEF Right, l
  <2> QED BY <2>2, <2>3
<1>7. ASSUME \A d \in T : ls[d].boot # 0
      PROVE  /\ \E d \in T : b.first = ls[d].boot
             /\ \A d \in T : b.first <= ls[d].boot
  <2>1. CASE R = {}
    <3>1. b.first = l.boot
      BY <1>1, <2>1 DEF Right, FirstBoot
    <3> QED BY <1>2, <2>1, <3>1 DEF l
  <2>2. CASE R # {}
    <3>1. /\ \E d \in R : a.first = ls[d].boot
          /\ \A d \in R : a.first <= ls[d].boot
      BY <1>7, <2>2 DEF Right
    <3>2. a.first # 0
      BY <1>7, <3>1
    <3>3. b.first = IF l.boot < a.first THEN l.boot ELSE a.first
      BY <1>1, <3>2 DEF FirstBoot
    <3> QED BY <1>2, <1>3, <3>1, <3>3 DEF l
  <2> QED BY <2>1, <2>2
<1> QED BY <1>4, <1>5, <1>6, <1>7 DEF Right, b, l

\* The kernel of a new line takes over if its boot is the newest.
LEMMA KernelStep ==
    ASSUME NEW a \in HostFigures, NEW R, NEW c, NEW ls,
           \A d \in R \cup {c} : ls[d] \in Lines, KernelRight(a, R, ls)
    PROVE  KernelRight(LastKernel(AddRecord(a, ls[c]), ls[c]), R \cup {c}, ls)
<1> DEFINE l == ls[c]
           T == R \cup {c}
           b == LastKernel(AddRecord(a, l), l)
<1>1. /\ b.newest = IF l.boot >= a.newest THEN l.boot ELSE a.newest
      /\ b.kernel = IF l.boot >= a.newest THEN l.os ELSE a.kernel
  <2>1. AddRecord(a, l) \in HostFigures
    BY AddTypes
  <2> QED BY <2>1, AddFields DEF LastKernel, HostFigures
<1>2. \A d \in T : ls[d].boot \in Nat
  BY LineTypes, NumberNat
<1>3. a.newest \in Nat
  BY NumberNat DEF HostFigures
<1> HIDE DEF b, l
<1>4. \A d \in R : ls[d].boot <= a.newest
  BY DEF KernelRight
<1>5. \A d \in T : ls[d].boot <= b.newest
  BY <1>1, <1>2, <1>3, <1>4 DEF l
<1>6. \E d \in T : b.kernel = ls[d].os /\ b.newest = ls[d].boot
  <2>1. CASE l.boot >= a.newest
    BY <1>1, <2>1 DEF l
  <2>2. CASE ~(l.boot >= a.newest)
    <3>1. R # {}
      BY <1>2, <2>2 DEF KernelRight, l
    <3> QED BY <1>1, <2>2, <3>1 DEF KernelRight
  <2> QED BY <2>1, <2>2
<1> QED BY <1>5, <1>6 DEF KernelRight, b, l

-----------------------------------------------------------------------------
(* What a table shows. *)

\* The keys of a map have aggregates, with a kernel only those of hosts.
LEMMA EntryTypes ==
    ASSUME TypeOK, NEW r \in Requests, NEW n \in Entries(r)
    PROVE  /\ n \in Host \cup Kernel \cup Names \cup Majors
           /\ r.category = "Host" => n \in Host
           /\ Map(r)[n] \in Figures \cup HostFigures
<1>1. agg[r.source] \in Maps /\ present[r.source] \subseteq Host
  BY DEF TypeOK, Requests
<1>2. CASE r.category = "Host"
  BY <1>1, <1>2 DEF Entries, Map, Maps
<1>3. CASE r.category = "Kernel"
  BY <1>1, <1>3 DEF Entries, Map, Maps
<1>4. CASE r.category = "KernelName"
  BY <1>1, <1>4 DEF Entries, Map, Maps
<1>5. CASE r.category = "KernelMajor"
  BY <1>1, <1>5 DEF Entries, Map, Maps
<1> QED BY <1>2, <1>3, <1>4, <1>5 DEF Requests, Categories

\* The divisions of the score give natural numbers.
LEMMA DivTypes == \A n, d \in Nat : d # 0 => n \div d \in Nat
  OBVIOUS

\* Whatever is ranked or shown is a natural number.
LEMMA ValueTypes ==
    ASSUME TypeOK, NEW r \in Requests, NEW n \in Entries(r), NEW t \in Nat,
           r.category # "Host" => r.metric \notin HostMetrics
    PROVE  Value(r, n, t) \in Nat
<1> DEFINE a == Map(r)[n]
<1>1. /\ a.uptime \in Nat /\ a.first \in Nat /\ a.last \in Nat /\ a.boots \in Nat
  <2>1. a \in Figures \cup HostFigures
    BY EntryTypes
  <2> QED BY <2>1, NumberNat DEF Figures, HostFigures
<1> HIDE DEF a
<1>2. Lifespan(a) \in Nat
  BY <1>1 DEF Lifespan
<1>3. Downtime(a) \in Nat
  BY <1>1, <1>2 DEF Downtime
<1>4. ScoreUnit \in Nat /\ 2 * ScoreUnit \in Nat /\ ScoreUnit # 0 /\ 2 * ScoreUnit # 0
  BY NumberAssumption
<1>5. MetaScore(a, t) \in Nat
  <2> DEFINE points == Points(a) + (IF IsActive(a, t) THEN Month ELSE 0)
  <2>1. a.boots * Day \in Nat
    BY <1>1, NumberAssumption
  <2>2. points \in Nat
    BY <1>1, <2>1, NumberAssumption DEF Points
  <2>3. points % Word \in Nat
    BY <2>2, WordNumber, NumberNat
  <2> HIDE DEF points
  <2>4. (points % Word) \div ScoreUnit \in Nat
    BY <1>4, <2>3, DivTypes
  <2> QED BY <2>4 DEF points, MetaScore
<1>6. HostScore(a, t) \in Nat
  <2>1. Downtime(a) \div (2 * ScoreUnit) \in Nat
    BY <1>3, <1>4, DivTypes
  <2> QED BY <1>5, <2>1 DEF HostScore
<1>7. r.metric = "LastUpdated" => Updated[n] \in Nat
  BY EntryTypes, LineAssumption DEF HostMetrics
<1> QED BY <1>1, <1>2, <1>3, <1>5, <1>6, <1>7 DEF Value, a, Requests, Metrics, HostMetrics

-----------------------------------------------------------------------------
(* The invariant. *)

\* Nothing is read, ranked or shown yet.
LEMMA InitRight == Init => IInv
<1> SUFFICES ASSUME Init PROVE IInv
  OBVIOUS
<1>1. NewAggregate \in Figures /\ NewHostAggregate \in HostFigures
  BY NumberNat DEF NewAggregate, NewHostAggregate, Figures, HostFigures
<1>2. agg \in [Sources -> Maps]
  <2>1. Empty \in Maps
    BY <1>1 DEF Empty, Maps
  <2> QED BY <2>1 DEF Init
<1>3. keys = <<>> /\ DOMAIN keys = {} /\ ranking = <<>> /\ table = <<>>
  BY DEF Init
<1>4. now \in Start .. Stop
  BY NumberAssumption DEF Init
<1>5. TypeOK
  <2>1. keys \in [DOMAIN keys -> Nat] /\ DOMAIN keys \subseteq Entries(request)
    BY <1>3
  <2>2. ranking \in Seq(DOMAIN keys) /\ table \in Seq(Row)
    BY <1>3
  <2>3. Len(table) <= Len(ranking) /\ Len(table) <= Limit
    BY <1>3, NumberAssumption
  <2> QED BY <1>2, <1>4, <2>1, <2>2, <2>3
          DEF Init, TypeOK, Sources, Categories, Metrics
<1>6. StageInv
  BY <1>3, FS_EmptySet DEF Init, StageInv, Sources
<1>7. FigureInv
  <2> SUFFICES ASSUME NEW r \in Requests, NEW n \in DOMAIN Map(r) PROVE EntryRight(r, n)
    BY DEF FigureInv
  <2>1. Counted(r.source) = {}
    BY DEF Init, Added, Counted
  <2>2. RecordsOf(r, n) = {}
    BY <2>1 DEF RecordsOf
  <2>3. agg[r.source] = Empty
    BY DEF Init, Requests
  <2>4. r.category = "Host" => Map(r)[n] = NewHostAggregate
    BY <2>3 DEF Map, Empty
  <2>5. r.category # "Host" => Map(r)[n] = NewAggregate
    BY <2>3 DEF Map, Empty, Requests, Categories
  <2> QED BY <2>2, <2>4, <2>5, RightEmpty DEF EntryRight
<1> QED BY <1>5, <1>6, <1>7 DEF IInv

\* The steps that only read the records leave tables alone, and the other way round.
TableTypes ==
    /\ request \in Requests
    /\ keys \in [DOMAIN keys -> Nat]
    /\ DOMAIN keys \subseteq Entries(request)
    /\ ranking \in Seq(DOMAIN keys)
    /\ table \in Seq(Row)
    /\ Len(table) <= Len(ranking) /\ Len(table) <= Limit
    /\ tables.kernels \in BOOLEAN /\ tables.custom \in Orders \cup {<<>>}

ReadTypes ==
    /\ listed \subseteq File
    /\ lines \in [Host -> Seq(Lines)]
    /\ fits \in BOOLEAN
    /\ loaded \in [Host -> SUBSET Nat]
    /\ \A h \in Host : loaded[h] \subseteq DOMAIN lines[h]
    /\ present \in [Sources -> SUBSET Host]
    /\ agg \in [Sources -> Maps]
    /\ at \in Host \cup {None}

\* While records are read no key has been taken.
LEMMA TablesRest ==
    ASSUME IInv, UNCHANGED tableVars, pc \in {"files", "db"}
    PROVE  TableTypes'
<1>1. keys = <<>> /\ DOMAIN keys' = {}
  BY DEF IInv, StageInv, tableVars, oneVars
<1>2. DOMAIN keys' \subseteq Entries(request)'
  BY <1>1
<1> QED BY <1>2 DEF IInv, TypeOK, TableTypes, tableVars, oneVars, Requests

\* Once the aggregates are made the entries of a map stay.
LEMMA EntriesRest == UNCHANGED <<readVars, request>> => Entries(request)' = Entries(request)
  BY DEF Entries, Map, readVars

\* Tables are made of what has been read, and change none of it.
LEMMA ReadRest == ReadTypes /\ UNCHANGED readVars => ReadTypes'
  BY DEF ReadTypes, readVars

ReadStep ==
    \/ \E f \in File : OpenFile(f)
    \/ \E l \in Lines : ReadLine(l)
    \/ FilesRead
    \/ \E h \in Host : \E k \in DOMAIN lines[h] : LoadRow(h, k)
    \/ RowsLoaded

\* The new aggregate of a host that is opened.
LEMMA NewTypes == NewHostAggregate \in HostFigures
  BY NumberNat DEF NewHostAggregate, HostFigures

\* Reading keeps lines, rows and the four maps in their types.
LEMMA ReadTypeStep ==
    ASSUME IInv, ReadStep
    PROVE  ReadTypes'
<1> USE DEF ReadTypes
<1>0. ReadTypes
  BY DEF IInv, TypeOK
<1>1. ASSUME NEW f \in File, OpenFile(f) PROVE ReadTypes'
  <2> DEFINE h == HostOf[f]
  <2>1. h \in Host
    BY LineAssumption
  <2>2. CASE UNCHANGED <<present, agg, at>>
    BY <1>0, <1>1, <2>2 DEF OpenFile
  <2>3. CASE /\ at' = h
             /\ present' = [present EXCEPT !["files"] = @ \cup {h}]
             /\ agg' = [agg EXCEPT !["files"].host[h] = NewHostAggregate]
    <3>1. [agg["files"] EXCEPT !.host[h] = NewHostAggregate] \in Maps
      BY <1>0, <2>1, NewTypes DEF Maps, Sources
    <3>2. agg' \in [Sources -> Maps]
      BY <1>0, <2>3, <3>1
    <3>3. present' \in [Sources -> SUBSET Host]
      BY <1>0, <2>1, <2>3
    <3> QED BY <1>0, <1>1, <2>1, <2>3, <3>2, <3>3 DEF OpenFile
  <2> QED BY <1>1, <2>2, <2>3 DEF OpenFile
<1>2. ASSUME NEW l \in Lines, ReadLine(l) PROVE ReadTypes'
  <2>1. at \in Host
    BY <1>0, <1>2 DEF ReadLine
  <2>2. AddLine(agg["files"], at, l) \in Maps
    BY <1>0, <2>1, AddLineTypes DEF Sources
  <2>3. agg' \in [Sources -> Maps]
    BY <1>0, <1>2, <2>2 DEF ReadLine
  <2>4. Append(lines[at], l) \in Seq(Lines)
    BY <1>0, <2>1
  <2>5. lines' \in [Host -> Seq(Lines)]
    BY <1>0, <1>2, <2>4 DEF ReadLine
  <2>6. \A h \in Host : loaded'[h] \subseteq DOMAIN lines'[h]
    BY <1>2 DEF ReadLine, IInv, StageInv
  <2> QED BY <1>0, <1>2, <2>3, <2>5, <2>6 DEF ReadLine
<1>3. ASSUME NEW h \in Host, NEW k \in DOMAIN lines[h], LoadRow(h, k) PROVE ReadTypes'
  <2>1. lines[h][k] \in Lines /\ k \in Nat
    BY <1>0
  <2>2. AddLine(agg["db"], h, lines[h][k]) \in Maps
    BY <1>0, <2>1, AddLineTypes DEF Sources
  <2>3. agg' \in [Sources -> Maps]
    BY <1>0, <1>3, <2>2 DEF LoadRow
  <2>4. loaded' \in [Host -> SUBSET Nat] /\ \A i \in Host : loaded'[i] \subseteq DOMAIN lines[i]
    BY <1>0, <1>3, <2>1 DEF LoadRow
  <2>5. present' \in [Sources -> SUBSET Host]
    BY <1>0, <1>3 DEF LoadRow
  <2> QED BY <1>0, <1>3, <2>3, <2>4, <2>5 DEF LoadRow
<1>4. CASE FilesRead \/ RowsLoaded
  BY <1>0, <1>4 DEF FilesRead, RowsLoaded
<1> QED BY <1>1, <1>2, <1>3, <1>4 DEF ReadStep

\* Reading goes through its stages, and only opened hosts get lines.
LEMMA ReadStageStep ==
    ASSUME IInv, ReadStep
    PROVE  StageInv'
<1> USE DEF IInv, TypeOK, StageInv, tableVars, oneVars
<1>1. ASSUME NEW f \in File, OpenFile(f) PROVE StageInv'
  <2>1. HostOf[f] \in Host /\ None \notin Host
    BY LineAssumption
  <2> QED BY <1>1, <2>1 DEF OpenFile, Sources
<1>2. ASSUME NEW l \in Lines, ReadLine(l) PROVE StageInv'
  BY <1>2 DEF ReadLine
<1>3. ASSUME NEW h \in Host, NEW k \in DOMAIN lines[h], LoadRow(h, k) PROVE StageInv'
  <2>1. present'["db"] = {i \in Host : loaded'[i] # {}}
    <3>1. loaded'[h] # {} /\ \A i \in Host : i # h => loaded'[i] = loaded[i]
      BY <1>3 DEF LoadRow
    <3>2. present'["db"] = {i \in Host : loaded[i] # {}} \cup {h}
      BY <1>3 DEF LoadRow, Sources
    <3> QED BY <3>1, <3>2
  <2> QED BY <1>3, <2>1 DEF LoadRow, Sources
<1>4. CASE FilesRead
  BY <1>4 DEF FilesRead
<1>5. CASE RowsLoaded
  <2>1. \A h \in Host : loaded[h] = DOMAIN lines[h]
    BY <1>5 DEF RowsLoaded, Unread
  <2> QED BY <1>5, <2>1 DEF RowsLoaded
<1> QED BY <1>1, <1>2, <1>3, <1>4, <1>5 DEF ReadStep

\* The keys of the maps are always the same.
LEMMA MapKeys ==
    ASSUME IInv, NEW r \in Requests, agg' \in [Sources -> Maps]
    PROVE  /\ DOMAIN Map(r)' = DOMAIN Map(r)
           /\ agg[r.source] \in Maps /\ agg'[r.source] \in Maps
           /\ Map(r)' = MapIn(agg'[r.source], r.category)
<1>1. /\ r.source \in Sources /\ r.category \in Categories
      /\ agg[r.source] \in Maps /\ agg'[r.source] \in Maps
  BY DEF IInv, TypeOK, Requests
<1>2. Map(r) = MapIn(agg[r.source], r.category) /\ Map(r)' = MapIn(agg'[r.source], r.category)
  BY DEF Map, MapIn
<1> QED BY <1>1, <1>2, MapTypes

\* The lines that a source has added are lines.
LEMMA CountedLines ==
    ASSUME IInv, NEW s \in Sources, NEW c \in Counted(s)
    PROVE  Line(c) \in Lines /\ c = <<c[1], c[2]>> /\ c[1] \in Host /\ c[2] \in Added(s, c[1])
<1>1. PICK h \in Host : c \in {h} \X Added(s, h)
  BY DEF Counted
<1>2. lines[h] \in Seq(Lines) /\ Added(s, h) \subseteq DOMAIN lines[h]
  BY DEF IInv, TypeOK, Added
<1> QED BY <1>1, <1>2 DEF Line

\* The figures stay right where neither aggregate nor lines change.
LEMMA FigureFrame ==
    ASSUME FigureInv, NEW r \in Requests, NEW n \in DOMAIN Map(r), Map(r)'[n] = Map(r)[n],
           Counted(r.source)' = Counted(r.source),
           \A c \in Counted(r.source) : Line(c)' = Line(c)
    PROVE  EntryRight(r, n)'
<1> DEFINE C == Counted(r.source)
           R == RecordsOf(r, n)
<1>1. \A c \in C : EntryOf(r, c)' = EntryOf(r, c)
  BY DEF EntryOf
<1>2. R \subseteq C /\ RecordsOf(r, n)' = R
  BY <1>1 DEF RecordsOf
<1>3. LinesOf(r.source)' = LinesOf(r.source)
  BY DEF LinesOf
<1>4. EntryRight(r, n)
  BY DEF FigureInv
<1> QED BY <1>2, <1>3, <1>4 DEF EntryRight

\* A line that a source adds goes to its entry in each map, and to no other.
LEMMA AddOne ==
    ASSUME IInv, NEW r \in Requests, NEW n \in DOMAIN Map(r),
           NEW h \in Host, NEW k, NEW l \in Lines, agg' \in [Sources -> Maps],
           <<h, k>> \notin Counted(r.source), Line(<<h, k>>)' = l,
           Counted(r.source)' = Counted(r.source) \cup {<<h, k>>},
           \A c \in Counted(r.source) : Line(c)' = Line(c),
           agg'[r.source] = AddLine(agg[r.source], h, l)
    PROVE  EntryRight(r, n)'
<1> DEFINE s == r.source
           x == r.category
           c == <<h, k>>
           C == Counted(s)
           R == RecordsOf(r, n)
           ls == LinesOf(s)
           ms == LinesOf(s)'
           a == Map(r)[n]
<1>0. s \in Sources /\ x \in Categories
  BY DEF Requests
<1>1. /\ Map(r)' = MapIn(AddLine(agg[s], h, l), x) /\ agg[s] \in Maps
      /\ Map(r) = MapIn(agg[s], x)
  BY MapKeys, MapKey
<1>2. /\ R \subseteq C /\ c \notin R
      /\ \A d \in C : EntryOf(r, d)' = EntryOf(r, d)
      /\ EntryOf(r, c)' = KeyOf(x, h, l)
  BY DEF RecordsOf, EntryOf, KeyOf
<1>3. RecordsOf(r, n)' = IF n = KeyOf(x, h, l) THEN R \cup {c} ELSE R
  BY <1>2 DEF RecordsOf
<1>4. /\ \A d \in C : ms[d] = ls[d] /\ ls[d] \in Lines
      /\ ms[c] = l
  BY <1>0, CountedLines DEF LinesOf
<1>5. Right(a, R, ms) /\ (x = "Host" => KernelRight(a, R, ms))
  <2>1. Right(a, R, ls) /\ (x = "Host" => KernelRight(a, R, ls))
    BY DEF IInv, FigureInv, EntryRight
  <2>2. \A d \in R : ms[d] = ls[d]
    BY <1>2, <1>4
  <2> HIDE DEF R, ms, ls, a
  <2> QED BY <2>1, <2>2, RightSame
<1>6. x = "Host" => a \in HostFigures
  BY <1>0, <1>1, MapTypes
<1>7. x # "Host" => a \in Figures
  BY <1>0, <1>1, MapTypes
<1>8. \A d \in R \cup {c} : ms[d] \in Lines
  BY <1>2, <1>4
<1>9. Map(r)'[n] = IF n # KeyOf(x, h, l) THEN a
                   ELSE IF x = "Host" THEN LastKernel(AddRecord(a, l), l) ELSE AddRecord(a, l)
  BY <1>0, <1>1, AddLineMap
<1> HIDE DEF R, ms, ls, a, c
<1>10. CASE n # KeyOf(x, h, l)
  BY <1>3, <1>5, <1>9, <1>10 DEF EntryRight, ms
<1>11. CASE n = KeyOf(x, h, l)
  <2>1. Right(AddRecord(a, l), R \cup {c}, ms)
    BY <1>2, <1>4, <1>5, <1>6, <1>7, <1>8, RightStep
  <2>2. x = "Host" => /\ Right(LastKernel(AddRecord(a, l), l), R \cup {c}, ms)
                      /\ KernelRight(LastKernel(AddRecord(a, l), l), R \cup {c}, ms)
    <3> SUFFICES ASSUME x = "Host"
                 PROVE  /\ Right(LastKernel(AddRecord(a, l), l), R \cup {c}, ms)
                        /\ KernelRight(LastKernel(AddRecord(a, l), l), R \cup {c}, ms)
      OBVIOUS
    <3>1. AddRecord(a, l) \in HostFigures
      BY <1>6, AddTypes
    <3>2. Right(LastKernel(AddRecord(a, l), l), R \cup {c}, ms)
      BY <2>1, <3>1, RightKernel
    <3>3. KernelRight(LastKernel(AddRecord(a, ms[c]), ms[c]), R \cup {c}, ms)
      BY <1>5, <1>6, <1>8, KernelStep
    <3> QED BY <1>4, <3>2, <3>3
  <2> QED BY <1>3, <1>9, <1>11, <2>1, <2>2 DEF EntryRight, ms
<1> QED BY <1>10, <1>11

\* Each line that is read, and each row, is added to the figures of its entries.
LEMMA ReadFigureStep ==
    ASSUME IInv, ReadStep
    PROVE  FigureInv'
<1> USE DEF IInv
<1>0. /\ agg \in [Sources -> Maps] /\ lines \in [Host -> Seq(Lines)]
      /\ loaded \in [Host -> SUBSET Nat] /\ \A h \in Host : loaded[h] \subseteq DOMAIN lines[h]
      /\ agg' \in [Sources -> Maps]
  BY ReadTypeStep DEF TypeOK, ReadTypes
<1> SUFFICES ASSUME NEW r \in Requests, NEW n \in DOMAIN Map(r)
             PROVE  EntryRight(r, n)'
  BY <1>0, MapKeys DEF FigureInv
<1> DEFINE s == r.source
<1>1. s \in Sources /\ r.category \in Categories /\ (s = "files" \/ s = "db")
  BY DEF Requests, Sources
<1>2. \A q : Map(q) = MapIn(agg[q.source], q.category)
  BY MapKey
<1>3. Map(r)' = MapIn(agg'[s], r.category) /\ agg[s] \in Maps
  BY <1>0, MapKeys
<1>4. ASSUME UNCHANGED <<lines, loaded>>
      PROVE  Counted(s)' = Counted(s) /\ \A c \in Counted(s) : Line(c)' = Line(c)
  <2>1. \A h \in Host : Added(s, h)' = Added(s, h)
    BY <1>4 DEF Added
  <2> QED BY <1>4, <2>1 DEF Counted, Line
<1>5. ASSUME NEW f \in File, OpenFile(f) PROVE EntryRight(r, n)'
  <2> DEFINE h == HostOf[f]
  <2>1. h \in Host /\ UNCHANGED <<lines, loaded>>
    BY <1>5, LineAssumption DEF OpenFile
  <2>2. CASE UNCHANGED agg
    BY <1>2, <1>3, <1>4, <2>1, <2>2, FigureFrame
  <2>3. CASE /\ ~Duplicate(h)
             /\ agg' = [agg EXCEPT !["files"].host[h] = NewHostAggregate]
    <3>1. CASE s = "files" /\ r.category = "Host" /\ n = h
      <4>1. lines[h] = <<>>
        BY <2>1, <2>3 DEF StageInv, Duplicate
      <4>2. Added("files", h)' = {}
        BY <2>1, <4>1 DEF Added
      <4>3. RecordsOf(r, n)' = {}
        BY <3>1, <4>2 DEF RecordsOf, Counted, EntryOf
      <4>4. Map(r)'[n] = NewHostAggregate
        BY <1>0, <1>1, <1>3, <2>1, <2>3, <3>1 DEF MapIn, Maps
      <4> QED BY <4>3, <4>4, RightEmpty DEF EntryRight
    <3>2. CASE ~(s = "files" /\ r.category = "Host" /\ n = h)
      <4>1. Map(r)'[n] = Map(r)[n]
        <5>1. CASE s = "db"
          BY <1>0, <1>2, <1>3, <2>3, <5>1 DEF Sources
        <5>2. CASE s = "files"
          <6>1. agg'["files"] = [agg["files"] EXCEPT !.host[h] = NewHostAggregate]
            BY <1>0, <2>3, <5>2 DEF Sources
          <6> QED BY <1>1, <1>2, <1>3, <2>1, <3>2, <5>2, <6>1 DEF MapIn, Maps, Categories
        <5> QED BY <1>1, <5>1, <5>2
      <4> QED BY <1>4, <2>1, <4>1, FigureFrame
    <3> QED BY <3>1, <3>2
  <2> QED BY <1>5, <2>2, <2>3 DEF OpenFile
<1>6. ASSUME NEW l \in Lines, ReadLine(l) PROVE EntryRight(r, n)'
  <2>1. at \in Host /\ UNCHANGED loaded /\ \A i \in Host : loaded[i] = {}
    BY <1>6 DEF ReadLine, TypeOK, StageInv
  <2>2. PICK h \in Host : h = at
    BY <2>1
  <2>3. lines' = [lines EXCEPT ![h] = Append(@, l)]
    BY <1>6, <2>2 DEF ReadLine
  <2>4. agg' = [agg EXCEPT !["files"] = AddLine(@, h, l)]
    BY <1>6, <2>2 DEF ReadLine
  <2>5. CASE s = "files"
    <3>1. lines[h] \in Seq(Lines) /\ lines'[h] = Append(lines[h], l)
      BY <1>0, <2>3
    <3>2. PICK k \in Nat : k = Len(lines[h]) + 1
      BY <3>1
    <3>3. /\ k \notin DOMAIN lines[h] /\ DOMAIN lines'[h] = DOMAIN lines[h] \cup {k}
          /\ lines'[h][k] = l /\ \A j \in DOMAIN lines[h] : lines'[h][j] = lines[h][j]
      BY <3>1, <3>2
    <3>4. \A i \in Host : i # h => lines'[i] = lines[i]
      BY <1>0, <2>3
    <3>5. \A i \in Host : Added(s, i) = DOMAIN lines[i] /\ Added(s, i)' = DOMAIN lines'[i]
      BY <2>5 DEF Added
    <3>6. <<h, k>> \notin Counted(s) /\ Counted(s)' = Counted(s) \cup {<<h, k>>}
      BY <3>3, <3>4, <3>5 DEF Counted
    <3>7. Line(<<h, k>>)' = l
      BY <3>3 DEF Line
    <3>8. \A c \in Counted(s) : Line(c)' = Line(c)
      BY <3>3, <3>4, <3>5 DEF Counted, Line
    <3>9. agg'[s] = AddLine(agg[s], h, l)
      BY <1>0, <2>4, <2>5 DEF Sources
    <3> QED BY <1>0, <3>6, <3>7, <3>8, <3>9, AddOne
  <2>6. CASE s = "db"
    <3>1. Counted(s)' = Counted(s) /\ Counted(s) = {}
      BY <2>1, <2>6 DEF Counted, Added
    <3>2. Map(r)'[n] = Map(r)[n]
      BY <1>0, <1>2, <1>3, <2>4, <2>6
    <3> QED BY <3>1, <3>2, FigureFrame
  <2> QED BY <1>1, <2>5, <2>6
<1>7. ASSUME NEW h \in Host, NEW k \in DOMAIN lines[h], LoadRow(h, k) PROVE EntryRight(r, n)'
  <2> DEFINE l == lines[h][k]
  <2>1. l \in Lines
    BY <1>0
  <2>2. UNCHANGED lines /\ loaded' = [loaded EXCEPT ![h] = @ \cup {k}] /\ k \notin loaded[h]
    BY <1>7 DEF LoadRow, Unread
  <2>3. agg' = [agg EXCEPT !["db"] = AddLine(@, h, l)]
    BY <1>7 DEF LoadRow
  <2>4. CASE s = "db"
    <3>1. \A i \in Host : Added(s, i) = loaded[i] /\ Added(s, i)' = loaded'[i]
      BY <2>4 DEF Added
    <3>2. <<h, k>> \notin Counted(s) /\ Counted(s)' = Counted(s) \cup {<<h, k>>}
      BY <1>0, <2>2, <3>1 DEF Counted
    <3>3. Line(<<h, k>>)' = l /\ \A c \in Counted(s) : Line(c)' = Line(c)
      BY <2>2 DEF Line
    <3>4. agg'[s] = AddLine(agg[s], h, l)
      BY <1>0, <2>3, <2>4 DEF Sources
    <3> QED BY <1>0, <2>1, <3>2, <3>3, <3>4, AddOne
  <2>5. CASE s = "files"
    <3>1. Counted(s)' = Counted(s) /\ \A c \in Counted(s) : Line(c)' = Line(c)
      BY <2>2, <2>5 DEF Counted, Added, Line
    <3>2. Map(r)'[n] = Map(r)[n]
      BY <1>0, <1>2, <1>3, <2>3, <2>5
    <3> QED BY <3>1, <3>2, FigureFrame
  <2> QED BY <1>1, <2>4, <2>5
<1>8. CASE FilesRead \/ RowsLoaded
  <2>1. UNCHANGED <<agg, lines, loaded>>
    BY <1>8 DEF FilesRead, RowsLoaded
  <2> QED BY <1>2, <1>3, <1>4, <2>1, FigureFrame
<1> QED BY <1>5, <1>6, <1>7, <1>8 DEF ReadStep

-----------------------------------------------------------------------------
(* The steps that make tables. *)

TableStep ==
    \/ \E r \in Requests : Begin(r)
    \/ \E n \in Host \cup Kernel \cup Names \cup Majors : TakeKey(n)
    \/ Sort \/ AddRow \/ Rendered \/ Tick
    \/ \E o \in Orders, k \in BOOLEAN : BeginAll(o, k)

\* Ranking, rendering and ordering change no figure.
\* Ranking, rendering and ordering change no figure.
LEMMA FigureRest == FigureInv /\ UNCHANGED readVars => FigureInv'
<1> SUFFICES ASSUME FigureInv, UNCHANGED readVars PROVE FigureInv'
  OBVIOUS
<1>1. UNCHANGED <<agg, lines, loaded>>
  BY DEF readVars
<1>2. \A r : Map(r)' = Map(r)
  BY <1>1 DEF Map
<1>3. \A s : Counted(s)' = Counted(s)
  BY <1>1 DEF Counted, Added
<1>4. \A c : Line(c)' = Line(c)
  BY <1>1 DEF Line
<1>5. ASSUME NEW r \in Requests, NEW n \in DOMAIN Map(r)' PROVE EntryRight(r, n)'
  BY <1>2, <1>3, <1>4, <1>5, FigureFrame
<1> QED BY <1>5 DEF FigureInv

\* No figure is read again.
LEMMA TableStepReads == TableStep => UNCHANGED readVars
  BY DEF TableStep, Begin, TakeKey, Sort, AddRow, Rendered, Tick, BeginAll

\* The keys that have been taken are numbers of entries.
LEMMA TakeKeyTypes ==
    ASSUME IInv, NEW n, TakeKey(n)
    PROVE  TableTypes' /\ IsFiniteSet(DOMAIN keys')
<1> DEFINE D == DOMAIN keys \cup {n}
<1> USE DEF IInv, TypeOK, StageInv
<1>1. /\ request \in Requests /\ n \in Entries(request) /\ now \in Nat
      /\ request.category # "Host" => request.metric \notin HostMetrics
  BY NumberAssumption DEF TakeKey, Requests
<1>2. Value(request, n, now) \in Nat
  BY <1>1, ValueTypes
<1>3. keys' = [m \in D |-> IF m = n THEN Value(request, n, now) ELSE keys[m]]
  BY DEF TakeKey
<1>4. DOMAIN keys' = D /\ keys' \in [D -> Nat]
  <2>1. \A m \in D : (IF m = n THEN Value(request, n, now) ELSE keys[m]) \in Nat
    BY <1>2
  <2> HIDE DEF D
  <2> QED BY <1>3, <2>1
<1>5. Entries(request)' = Entries(request)
  BY EntriesRest DEF TakeKey
<1>6. IsFiniteSet(D)
  BY FS_AddElement
<1>7. UNCHANGED <<request, ranking, table, tables>> /\ ranking = <<>>
  BY DEF TakeKey
<1>8. ranking' \in Seq(DOMAIN keys')
  BY <1>7
<1> QED BY <1>1, <1>4, <1>5, <1>6, <1>7, <1>8 DEF TableTypes

\* A function on the first n numbers is a sequence, seen with other elements, too.
LEMMA SequenceOf ==
    ASSUME NEW S, NEW n \in Nat, NEW s \in [1 .. n -> S]
    PROVE  s \in Seq(S) /\ Len(s) = n
  OBVIOUS

\* A sorting of finitely many entries is a sequence of them.
LEMMA SortTypes ==
    ASSUME IInv, Sort
    PROVE  TableTypes'
<1> USE DEF IInv, TypeOK, StageInv
<1>1. PICK s \in Bijection(1 .. Cardinality(DOMAIN keys), DOMAIN keys) : ranking' = s
  BY DEF Sort
<1>2. Cardinality(DOMAIN keys) \in Nat
  BY FS_CardinalityType
<1>3. s \in [1 .. Cardinality(DOMAIN keys) -> DOMAIN keys]
  BY <1>1 DEF Bijection, Injection, Surjection
<1>4. s \in Seq(DOMAIN keys)
  BY <1>2, <1>3, SequenceOf
<1>5. UNCHANGED <<request, keys, table, tables>> /\ table = <<>>
  BY DEF Sort
<1>6. Entries(request)' = Entries(request)
  BY EntriesRest DEF Sort
<1>7. Len(table') <= Len(ranking') /\ Len(table') <= Limit
  BY <1>1, <1>4, <1>5, NumberAssumption
<1>8. ranking' \in Seq(DOMAIN keys')
  BY <1>1, <1>4, <1>5
<1> QED BY <1>5, <1>6, <1>7, <1>8 DEF TableTypes, Requests

\* A row shows an entry of the ranking, and there is room for it.
LEMMA AddRowTypes ==
    ASSUME IInv, AddRow
    PROVE  TableTypes'
<1> USE DEF IInv, TypeOK, StageInv
<1> DEFINE n == ranking[Len(table) + 1]
           row == [name |-> n, marker |-> Marker(request, n, now), value |-> Value(request, n, now)]
<1>1. /\ Len(table) \in Nat /\ Len(ranking) \in Nat /\ Limit \in Nat
      /\ Len(table) < Len(ranking) /\ Len(table) < Limit
  BY NumberAssumption DEF AddRow, MoreRows
<1>2. n \in Entries(request)
  BY <1>1
<1>3. /\ request \in Requests /\ now \in Nat
      /\ request.category # "Host" => request.metric \notin HostMetrics
  BY NumberAssumption DEF AddRow, Requests
<1>4. n \in Host \cup Kernel \cup Names \cup Majors /\ Value(request, n, now) \in Nat
  BY <1>2, <1>3, EntryTypes, ValueTypes
<1>5. Marker(request, n, now) \in {"*", "+", " "}
  BY DEF Marker
<1>6. row \in Row
  BY <1>4, <1>5 DEF Row
<1>7. table' = Append(table, row)
  BY DEF AddRow
<1> HIDE DEF row
<1>8. table' \in Seq(Row) /\ Len(table') = Len(table) + 1
  BY <1>6, <1>7
<1>9. UNCHANGED <<request, keys, ranking, tables>>
  BY DEF AddRow
<1>10. Entries(request)' = Entries(request)
  BY EntriesRest DEF AddRow
<1>11. Len(table') <= Len(ranking') /\ Len(table') <= Limit
  BY <1>1, <1>8, <1>9
<1>12. ranking' \in Seq(DOMAIN keys') /\ keys' \in [DOMAIN keys' -> Nat]
  BY <1>9
<1>13. DOMAIN keys' \subseteq Entries(request)'
  BY <1>9, <1>10
<1> QED BY <1>3, <1>8, <1>9, <1>11, <1>12, <1>13 DEF TableTypes

\* A new request, before any key is taken.
LEMMA BeginTypes ==
    ASSUME IInv, NEW r \in Requests, Begin(r)
    PROVE  TableTypes'
<1>1. keys' = <<>> /\ DOMAIN keys' = {} /\ request' = r
  BY DEF IInv, StageInv, Begin
<1> QED BY <1>1 DEF IInv, TypeOK, TableTypes, Begin

\* The other steps change no table but the list of tables.
LEMMA OtherTableTypes ==
    ASSUME IInv, UNCHANGED <<readVars, oneVars>>,
           tables'.kernels \in BOOLEAN, tables'.custom \in Orders \cup {<<>>}
    PROVE  TableTypes'
<1>1. Entries(request)' = Entries(request)
  BY EntriesRest DEF oneVars
<1> QED BY <1>1 DEF IInv, TypeOK, TableTypes, oneVars, Requests

\* Making tables keeps them in their types.
LEMMA TableTypeStep ==
    ASSUME IInv, TableStep
    PROVE  TableTypes'
<1>1. CASE Rendered \/ Tick \/ \E o \in Orders, k \in BOOLEAN : BeginAll(o, k)
  <2>1. UNCHANGED <<readVars, oneVars>>
    BY <1>1 DEF Rendered, Tick, BeginAll, tableVars
  <2>2. tables'.kernels \in BOOLEAN /\ tables'.custom \in Orders \cup {<<>>}
    <3>1. tables.kernels \in BOOLEAN /\ tables.custom \in Orders \cup {<<>>}
      BY DEF IInv, TypeOK
    <3>2. CASE UNCHANGED tables
      BY <3>1, <3>2
    <3>3. ASSUME NEW o \in Orders, NEW k \in BOOLEAN, NEW l,
                 tables' = [kernels |-> k, custom |-> o, pairs |-> l]
          PROVE  tables'.kernels \in BOOLEAN /\ tables'.custom \in Orders \cup {<<>>}
      BY <3>3
    <3>4. CASE Rendered \/ Tick
      BY <3>2, <3>4 DEF Rendered, Tick, tableVars
    <3>5. ASSUME NEW o \in Orders, NEW k \in BOOLEAN, BeginAll(o, k)
          PROVE  tables'.kernels \in BOOLEAN /\ tables'.custom \in Orders \cup {<<>>}
      BY <3>2, <3>3, <3>5 DEF BeginAll
    <3> QED BY <1>1, <3>4, <3>5
  <2> QED BY <2>1, <2>2, OtherTableTypes
<1> QED BY <1>1, BeginTypes, TakeKeyTypes, SortTypes, AddRowTypes DEF TableStep

\* Making tables goes through its stages.
LEMMA TableStageStep ==
    ASSUME IInv, TableStep
    PROVE  StageInv'
<1> USE DEF IInv, TypeOK, StageInv, tableVars, oneVars, readVars
<1>1. ASSUME NEW r \in Requests, Begin(r) PROVE StageInv'
  BY <1>1 DEF Begin
<1>2. ASSUME NEW n, TakeKey(n) PROVE StageInv'
  <2>1. IsFiniteSet(DOMAIN keys')
    BY <1>2, TakeKeyTypes
  <2> QED BY <1>2, <2>1 DEF TakeKey
<1>3. CASE Sort \/ AddRow \/ Rendered \/ Tick
  BY <1>3 DEF Sort, AddRow, Rendered, Tick
<1>4. ASSUME NEW o \in Orders, NEW k \in BOOLEAN, BeginAll(o, k) PROVE StageInv'
  BY <1>4 DEF BeginAll
<1> QED BY <1>1, <1>2, <1>3, <1>4 DEF TableStep
-----------------------------------------------------------------------------
(* The theorems. *)

\* The clock stays in its bounds, the program at one of its places.
LEMMA PlaceStep ==
    ASSUME IInv, ReadStep \/ TableStep
    PROVE  /\ pc' \in {"files", "db", "ready", "keys", "rows", "done", "all", "failed"}
           /\ now' \in Start .. Stop
<1>0. /\ pc \in {"files", "db", "ready", "keys", "rows", "done", "all", "failed"}
      /\ now \in Start .. Stop
  BY DEF IInv, TypeOK
<1>1. CASE ReadStep
  BY <1>0, <1>1 DEF ReadStep, OpenFile, ReadLine, FilesRead, LoadRow, RowsLoaded
<1>2. CASE Tick
  BY <1>0, <1>2, NumberAssumption DEF Tick
<1>3. CASE TableStep /\ ~Tick
  BY <1>0, <1>3 DEF TableStep, Begin, TakeKey, Sort, AddRow, Rendered, BeginAll
<1> QED BY <1>1, <1>2, <1>3

\* TypeOK by its parts.
LEMMA TypeParts ==
    TypeOK <=> /\ ReadTypes /\ TableTypes
               /\ pc \in {"files", "db", "ready", "keys", "rows", "done", "all", "failed"}
               /\ now \in Start .. Stop
  BY DEF TypeOK, ReadTypes, TableTypes, Requests

\* Reading happens in its own stages and touches no table.
LEMMA ReadStepTables == ReadStep => pc \in {"files", "db"} /\ UNCHANGED tableVars
  BY DEF ReadStep, OpenFile, ReadLine, FilesRead, LoadRow, RowsLoaded

\* Every step keeps the invariant.
LEMMA Step == IInv /\ [Next]_vars => IInv'
<1> SUFFICES ASSUME IInv, [Next]_vars PROVE IInv'
  OBVIOUS
<1>1. CASE ReadStep
  <2>1. TableTypes'
    BY <1>1, ReadStepTables, TablesRest
  <2>2. TypeOK'
    BY <1>1, <2>1, ReadTypeStep, PlaceStep DEF TypeOK, ReadTypes, TableTypes, Requests
  <2>3. StageInv' /\ FigureInv'
    BY <1>1, ReadStageStep, ReadFigureStep
  <2> QED BY <2>2, <2>3 DEF IInv
<1>2. CASE TableStep
  <2>1. UNCHANGED readVars
    BY <1>2, TableStepReads
  <2>2. ReadTypes' /\ FigureInv'
    BY <2>1, ReadRest, FigureRest, TypeParts DEF IInv
  <2>3. TypeOK'
    BY <1>2, <2>2, TableTypeStep, PlaceStep DEF TypeOK, ReadTypes, TableTypes, Requests
  <2>4. StageInv'
    BY <1>2, TableStageStep
  <2> QED BY <2>2, <2>3, <2>4 DEF IInv
<1>3. CASE UNCHANGED vars
  <2>1. UNCHANGED readVars /\ UNCHANGED tableVars /\ UNCHANGED <<pc, now, request>>
    BY <1>3 DEF vars, tableVars, oneVars
  <2>2. UNCHANGED <<listed, lines, fits, loaded, present, agg, at, pc, now,
                    request, keys, ranking, table, tables>>
    BY <2>1 DEF readVars, tableVars, oneVars
  <2>3. Entries(request)' = Entries(request)
    BY <2>1, EntriesRest
  <2>4. TypeOK'
    BY <2>2, <2>3 DEF IInv, TypeOK
  <2>5. FigureInv'
    BY <2>1, FigureRest DEF IInv
  <2>6. StageInv'
    BY <2>2 DEF IInv, StageInv
  <2> QED BY <2>4, <2>5, <2>6 DEF IInv
<1>4. Next => ReadStep \/ TableStep
  BY DEF Next, ReadStep, TableStep, Requests
<1> QED BY <1>1, <1>2, <1>3, <1>4

\* The invariant holds throughout.
LEMMA Invariant == Spec => []IInv
  BY InitRight, Step, PTL DEF Spec

\* Reading, ranking and rendering keep every variable in its type, whatever the
\* files hold: no number leaves its word, ranked are entries of the map they are
\* Reading, ranking and rendering keep every variable in its type, whatever the
\* files hold: no number leaves its word, ranked are entries of the map they are
\* taken from, and a table has at most as many rows as the limit.
THEOREM TypeCorrect == Spec => []TypeOK
<1>1. IInv => TypeOK
  BY DEF IInv
<1> QED BY <1>1, Invariant, PTL

\* What LinesOf gives of the records of an entry is their lines.
LEMMA RecordLines ==
    ASSUME NEW r, NEW n
    PROVE  /\ \A c \in RecordsOf(r, n) : LinesOf(r.source)[c] = Line(c)
           /\ SecondsIn(RecordsOf(r, n), LinesOf(r.source)) = Seconds(RecordsOf(r, n))
<1>1. \A c \in RecordsOf(r, n) : LinesOf(r.source)[c] = Line(c)
  BY DEF RecordsOf, LinesOf
<1> QED BY <1>1 DEF SecondsIn, Seconds

\* Every figure of every map is that of its records.
LEMMA RightIsRight == IInv => \A r \in Requests : FiguresFor(r) /\ CountsFor(r)
<1> SUFFICES ASSUME IInv, NEW r \in Requests PROVE FiguresFor(r) /\ CountsFor(r)
  OBVIOUS
<1>1. ASSUME NEW n \in DOMAIN Map(r)
      PROVE  LET a == Map(r)[n]
                 records == RecordsOf(r, n)
             IN  /\ a.boots = Cardinality(records)
                 /\ a.uptime = Cardinality(Seconds(records)) % Word
                 /\ a.last \in {End(Line(c)) : c \in records} \cup {0}
                 /\ \A c \in records : End(Line(c)) <= a.last
                 /\ records # {} /\ (\A c \in records : Line(c).boot # 0) =>
                       /\ a.first \in {Line(c).boot : c \in records}
                       /\ \A c \in records : a.first <= Line(c).boot
                 /\ records # {} /\ r.category = "Host" => \E c \in records :
                       /\ Line(c).os = a.kernel
                       /\ \A d \in records : Line(d).boot <= Line(c).boot
  <2> DEFINE a == Map(r)[n]
             R == RecordsOf(r, n)
             ls == LinesOf(r.source)
  <2>1. Right(a, R, ls) /\ (r.category = "Host" => KernelRight(a, R, ls))
    BY DEF IInv, FigureInv, EntryRight
  <2>2. (\A c \in R : ls[c] = Line(c)) /\ SecondsIn(R, ls) = Seconds(R)
    BY RecordLines
  <2> HIDE DEF a, R, ls
  <2>3. a.boots = Cardinality(R) /\ a.uptime = Cardinality(Seconds(R)) % Word
    BY <2>1, <2>2 DEF Right
  <2>4. a.last \in {End(Line(c)) : c \in R} \cup {0} /\ \A c \in R : End(Line(c)) <= a.last
    BY <2>1, <2>2 DEF Right
  <2>5. R # {} /\ (\A c \in R : Line(c).boot # 0) =>
           a.first \in {Line(c).boot : c \in R} /\ \A c \in R : a.first <= Line(c).boot
    BY <2>1, <2>2 DEF Right
  <2>6. R # {} /\ r.category = "Host" =>
           \E c \in R : Line(c).os = a.kernel /\ \A d \in R : Line(d).boot <= Line(c).boot
    BY <2>1, <2>2 DEF KernelRight
  <2> QED BY <2>3, <2>4, <2>5, <2>6 DEF a, R, ls
<1> QED BY <1>1 DEF FiguresFor, CountsFor

\* Whatever lines there are and in whatever order they are added, from files or from
\* rows: in all four maps the last time of an entry is the latest end of its records,
\* its first the earliest boot, and the kernel of a host that of a latest boot.
THEOREM FiguresAreRight == Spec => [](FiguresRight /\ \A r \in Requests : FiguresFor(r))
<1>1. IInv => FiguresRight /\ \A r \in Requests : FiguresFor(r)
  BY RightIsRight DEF FiguresRight, IInv, TypeOK, Requests
<1> QED BY <1>1, Invariant, PTL

\* In all four maps an entry has a boot per record of its own, and of each of them
\* every second, in a word: no record is counted twice, for two entries or for none,
\* and of two files of a host the second never counts.
THEOREM EveryBootCounts == Spec => [](EveryBootOnce /\ \A r \in Requests : CountsFor(r))
<1>1. IInv => EveryBootOnce /\ \A r \in Requests : CountsFor(r)
  BY RightIsRight DEF EveryBootOnce, IInv, TypeOK, Requests
<1> QED BY <1>1, Invariant, PTL

-----------------------------------------------------------------------------
(* Downtime. *)

\* The table of downtime of the files, which stands for all tables of their hosts.
FilesRequest == [source |-> "files", category |-> "Host", metric |-> "Downtime"]

\* The figures of a host from its file, by the indices of its lines.
LEMMA FileFigures ==
    ASSUME IInv, NEW h \in Host
    PROVE  LET a == agg["files"].host[h]
               D == DOMAIN lines[h]
               S == UNION {{<<h, k>>} \X Covers(lines[h][k]) : k \in D}
           IN  /\ a \in HostFigures
               /\ IsFiniteSet(S) /\ a.uptime = Cardinality(S) % Word
               /\ a.last = 0 \/ \E k \in D : a.last = End(lines[h][k])
               /\ \A k \in D : End(lines[h][k]) <= a.last
               /\ D # {} /\ (\A k \in D : lines[h][k].boot # 0) =>
                     /\ \E k \in D : a.first = lines[h][k].boot
                     /\ \A k \in D : a.first <= lines[h][k].boot
<1> DEFINE r == FilesRequest
           a == agg["files"].host[h]
           D == DOMAIN lines[h]
           S == UNION {{<<h, k>>} \X Covers(lines[h][k]) : k \in D}
           R == RecordsOf(r, h)
           ls == LinesOf("files")
<1>1. r \in Requests /\ r.source = "files" /\ r.category = "Host"
  BY DEF FilesRequest, Requests, Sources, Categories, Metrics, HostMetrics
<1>2. Map(r)[h] = a /\ h \in DOMAIN Map(r) /\ a \in HostFigures
  BY <1>1 DEF IInv, TypeOK, Map, Maps, Sources
<1>3. R = {<<h, k>> : k \in D}
  BY <1>1 DEF RecordsOf, Counted, Added, EntryOf
<1>4. Right(a, R, ls)
  BY <1>1, <1>2 DEF IInv, FigureInv, EntryRight
<1>5. \A k \in D : ls[<<h, k>>] = lines[h][k]
  BY DEF LinesOf, Counted, Added, Line
<1>6. SecondsIn(R, ls) = S
  <2>1. \A c \in R : \E k \in D : c = <<h, k>> /\ ls[c] = lines[h][k]
    BY <1>3, <1>5
  <2>2. SecondsIn(R, ls) \subseteq S
    BY <2>1 DEF SecondsIn
  <2>3. S \subseteq SecondsIn(R, ls)
    BY <1>3, <1>5 DEF SecondsIn
  <2> QED BY <2>2, <2>3
<1> HIDE DEF a, D, S, R, ls
<1>7. IsFiniteSet(S) /\ a.uptime = Cardinality(S) % Word
  BY <1>4, <1>6 DEF Right
<1>8. (a.last = 0 \/ \E k \in D : a.last = End(lines[h][k])) /\ \A k \in D : End(lines[h][k]) <= a.last
  BY <1>3, <1>4, <1>5 DEF Right
<1>9. D # {} /\ (\A k \in D : lines[h][k].boot # 0) =>
         /\ \E k \in D : a.first = lines[h][k].boot
         /\ \A k \in D : a.first <= lines[h][k].boot
  <2> SUFFICES ASSUME D # {}, \A k \in D : lines[h][k].boot # 0
               PROVE  /\ \E k \in D : a.first = lines[h][k].boot
                      /\ \A k \in D : a.first <= lines[h][k].boot
    OBVIOUS
  <2>1. R # {} /\ \A c \in R : ls[c].boot # 0
    BY <1>3, <1>5
  <2>2. (\E c \in R : a.first = ls[c].boot) /\ \A c \in R : a.first <= ls[c].boot
    BY <1>4, <2>1 DEF Right
  <2> QED BY <1>3, <1>5, <2>2
<1> QED BY <1>2, <1>7, <1>8, <1>9 DEF a, D, S

\* T is the union of sets C[k] that share nothing, and S has their elements per set.
Apart(D, C, h, S, T) ==
    /\ \A i, j \in D : i # j => C[i] \cap C[j] = {}
    /\ \A z : z \in S <=> \E k \in D : \E x \in C[k] : z = <<<<h, k>>, x>>
    /\ \A x : x \in T <=> \E k \in D : x \in C[k]

\* Seconds that no two records share are as many as the records' seconds together.
LEMMA DisjointSeconds ==
    ASSUME NEW D, NEW C, NEW h, NEW S, NEW T, Apart(D, C, h, S, T), IsFiniteSet(S)
    PROVE  IsFiniteSet(T) /\ Cardinality(T) = Cardinality(S)
<1> USE DEF Apart
<1> DEFINE f == [z \in S |-> z[2]]
<1>1. \A z \in S : \E k \in D : \E x \in C[k] : z = <<<<h, k>>, x>>
  OBVIOUS
<1>2. \A k \in D : \A x \in C[k] : <<<<h, k>>, x>> \in S /\ x \in T
  OBVIOUS
<1>3. \A x \in T : \E k \in D : x \in C[k]
  OBVIOUS
<1>4. f \in [S -> T]
  BY <1>1, <1>2
<1>5. \A y, z \in S : f[y] = f[z] => y = z
  <2> SUFFICES ASSUME NEW y \in S, NEW z \in S, f[y] = f[z] PROVE y = z
    OBVIOUS
  <2>1. PICK i \in D : \E u \in C[i] : y = <<<<h, i>>, u>>
    BY <1>1
  <2>2. PICK j \in D : \E v \in C[j] : z = <<<<h, j>>, v>>
    BY <1>1
  <2>3. PICK x \in C[i] : y = <<<<h, i>>, x>>
    BY <2>1
  <2>4. x \in C[j] /\ z = <<<<h, j>>, x>>
    BY <2>2, <2>3
  <2> QED BY <2>3, <2>4
<1>6. \A x \in T : \E z \in S : f[z] = x
  <2> SUFFICES ASSUME NEW x \in T PROVE \E z \in S : f[z] = x
    OBVIOUS
  <2>1. PICK k \in D : x \in C[k]
    BY <1>3
  <2>2. <<<<h, k>>, x>> \in S
    BY <1>2, <2>1
  <2>3. f[<<<<h, k>>, x>>] = x
    BY <2>2
  <2> QED BY <2>2, <2>3
<1> HIDE DEF f
<1>7. f \in Bijection(S, T)
  BY <1>4, <1>5, <1>6 DEF Bijection, Injection, Surjection, IsInjective
<1>8. ExistsBijection(S, T)
  BY <1>7 DEF ExistsBijection
<1> QED BY <1>8, FS_Bijection

\* Covered seconds lie between the first boot and the last end, and the rest of
\* these is what the code subtracts to.
LEMMA GapsOfHost ==
    ASSUME IInv, NEW h \in Host, lines[h] # <<>>, Disjoint(h)
    PROVE  LET a == agg["files"].host[h]
               covered == UNION {Covers(lines[h][k]) : k \in DOMAIN lines[h]}
           IN  /\ Downtime(a) = Cardinality((a.first .. a.last - 1) \ covered)
               /\ Lifespan(a) = Downtime(a) + a.uptime
<1> DEFINE a == agg["files"].host[h]
           ls == lines[h]
           D == DOMAIN ls
           C == [k \in D |-> Covers(ls[k])]
           S == UNION {{<<h, k>>} \X C[k] : k \in D}
           T == UNION {C[k] : k \in D}
           I == a.first .. a.last - 1
<1>1. ls \in Seq(Lines) /\ D # {}
  <2>1. ls \in Seq(Lines) /\ ls # <<>>
    BY DEF IInv, TypeOK
  <2> HIDE DEF ls
  <2>2. Len(ls) \in Nat /\ D = 1 .. Len(ls) /\ Len(ls) # 0
    BY <2>1
  <2> QED BY <2>1, <2>2
<1>2. \A k \in D : /\ ls[k].boot \in Nat /\ ls[k].uptime \in Nat /\ ls[k].boot > 0
                   /\ End(ls[k]) = ls[k].boot + ls[k].uptime
  <2> SUFFICES ASSUME NEW k \in D
               PROVE  /\ ls[k].boot \in Nat /\ ls[k].uptime \in Nat /\ ls[k].boot > 0
                      /\ End(ls[k]) = ls[k].boot + ls[k].uptime
    OBVIOUS
  <2>1. ls[k] \in Lines
    BY <1>1
  <2>2. ls[k].boot \in Nat /\ ls[k].uptime \in Nat
    BY <2>1, LineTypes, NumberNat
  <2>3. ls[k].boot > 0 /\ ls[k].boot + ls[k].uptime < Word
    BY DEF Disjoint
  <2>4. ls[k].uptime + ls[k].boot = ls[k].boot + ls[k].uptime
        /\ ls[k].boot + ls[k].uptime \in Number
    BY <2>2, <2>3, NumberAssumption DEF Number
  <2> QED BY <2>2, <2>3, <2>4, NumberNat DEF End
<1>3. /\ a \in HostFigures /\ a.first \in Nat /\ a.last \in Nat /\ a.last < Word
  <2>1. a \in HostFigures
    BY FileFigures
  <2>2. a.first \in Number /\ a.last \in Number
    BY <2>1 DEF HostFigures
  <2> QED BY <2>1, <2>2, NumberAssumption DEF Number
<1>4. S = UNION {{<<h, k>>} \X Covers(ls[k]) : k \in D}
  OBVIOUS
<1>5. IsFiniteSet(S) /\ a.uptime = Cardinality(S) % Word
  BY <1>4, FileFigures
<1>6. \A k \in D : ls[k].boot + ls[k].uptime <= a.last
  BY <1>2, FileFigures
<1>7. (\E k \in D : a.first = ls[k].boot) /\ \A k \in D : a.first <= ls[k].boot
  <2>1. \A k \in D : ls[k].boot # 0
    BY <1>2
  <2> QED BY <1>1, <2>1, FileFigures
<1>8. T = UNION {Covers(ls[k]) : k \in D} /\ \A k \in D : C[k] = Covers(ls[k])
  OBVIOUS
<1>9. \A i, j \in D : i # j => C[i] \cap C[j] = {}
  BY <1>8 DEF Disjoint
<1> HIDE DEF a, ls, D, C
<1>10. IsFiniteSet(T) /\ Cardinality(T) = Cardinality(S)
  <2>1. \A z : z \in S <=> \E k \in D : \E x \in C[k] : z = <<<<h, k>>, x>>
    OBVIOUS
  <2>2. \A x : x \in T <=> \E k \in D : x \in C[k]
    OBVIOUS
  <2>3. IsFiniteSet(S)
    BY <1>5
  <2> HIDE DEF S, T
  <2>4. Apart(D, C, h, S, T)
    BY <1>9, <2>1, <2>2 DEF Apart
  <2> QED BY <2>3, <2>4, DisjointSeconds
<1>11. T \subseteq I
  <2> SUFFICES ASSUME NEW k \in D, NEW x \in Covers(ls[k]) PROVE x \in I
    BY <1>8
  <2> QED BY <1>2, <1>3, <1>6, <1>7 DEF Covers
<1>12. a.first <= a.last
  BY <1>2, <1>3, <1>6, <1>7
<1>13. IsFiniteSet(I) /\ Cardinality(I) = a.last - a.first
  <2> DEFINE e == a.last - 1
  <2>1. a.first \in Int /\ e \in Int /\ (IF a.first > e THEN 0 ELSE e - a.first + 1) = a.last - a.first
    BY <1>3, <1>12
  <2> HIDE DEF e
  <2>2. IsFiniteSet(a.first .. e) /\ Cardinality(a.first .. e) = a.last - a.first
    BY <2>1, FS_Interval
  <2> QED BY <2>2 DEF e
<1> HIDE DEF S, T, I
<1>14. Cardinality(T) \in Nat /\ Cardinality(T) <= a.last - a.first
  BY <1>10, <1>11, <1>13, FS_Subset, FS_CardinalityType
<1>15. a.uptime = Cardinality(T)
  <2>1. Cardinality(T) \in Number
    BY <1>3, <1>14, NumberAssumption DEF Number
  <2> QED BY <1>5, <1>10, <2>1, NumberNat
<1>16. Cardinality(I \ T) = (a.last - a.first) - Cardinality(T)
  <2>1. I \cap T = T
    BY <1>11
  <2>2. Cardinality(I \ T) = Cardinality(I) - Cardinality(I \cap T)
    BY <1>13, FS_Difference
  <2> QED BY <1>13, <2>1, <2>2
<1>17. Lifespan(a) = a.last - a.first
  BY <1>3, <1>12 DEF Lifespan
<1>18. Downtime(a) = (a.last - a.first) - a.uptime
  BY <1>3, <1>14, <1>15, <1>17 DEF Downtime
<1>19. Downtime(a) = Cardinality(I \ T) /\ Lifespan(a) = Downtime(a) + a.uptime
  BY <1>3, <1>14, <1>15, <1>16, <1>17, <1>18
<1> QED BY <1>8, <1>19 DEF a, ls, D, I

\* However many records a host has, in whatever order: if they do not overlap and
\* no end wraps, its downtime is the seconds between them that none covers, and
\* with its uptime that makes its lifespan.
THEOREM GapsAreDowntime == Spec => []DowntimeIsGaps
<1>1. IInv => DowntimeIsGaps
  BY GapsOfHost DEF DowntimeIsGaps
<1> QED BY <1>1, Invariant, PTL

-----------------------------------------------------------------------------
(* The two sources. *)

\* Two figures of the same lines are the same, if no line boots at second 0.
LEMMA SameFigures ==
    ASSUME NEW R, NEW ls, NEW a, NEW b, Right(a, R, ls), Right(b, R, ls),
           \A c \in R : ls[c] \in Lines /\ ls[c].boot # 0,
           {a, b} \subseteq Figures \/ {a, b} \subseteq HostFigures
    PROVE  /\ a.boots = b.boots /\ a.uptime = b.uptime
           /\ a.last = b.last /\ a.first = b.first
<1>1. a.last \in Nat /\ b.last \in Nat /\ a.first \in Nat /\ b.first \in Nat
  BY NumberNat DEF Figures, HostFigures
<1>2. \A c \in R : End(ls[c]) \in Nat /\ ls[c].boot \in Nat
  BY LineTypes, NumberNat
<1>3. a.boots = b.boots /\ a.uptime = b.uptime
  BY DEF Right
<1>4. a.last = b.last
  BY <1>1, <1>2 DEF Right
<1>5. a.first = b.first
  BY <1>1, <1>2 DEF Right
<1> QED BY <1>3, <1>4, <1>5

\* So is the kernel, if no two lines boot at once.
LEMMA SameKernel ==
    ASSUME NEW R, NEW ls, NEW a \in HostFigures, NEW b \in HostFigures,
           KernelRight(a, R, ls), KernelRight(b, R, ls),
           \A c \in R : ls[c] \in Lines,
           \A c, d \in R : ls[c].boot = ls[d].boot => c = d
    PROVE  a.kernel = b.kernel /\ a.newest = b.newest
<1>1. \A c \in R : ls[c].boot \in Nat
  BY LineTypes, NumberNat
<1>2. CASE R = {}
  BY <1>2 DEF KernelRight
<1>3. CASE R # {}
  <2>1. PICK c \in R : a.kernel = ls[c].os /\ a.newest = ls[c].boot
    BY <1>3 DEF KernelRight
  <2>2. PICK d \in R : b.kernel = ls[d].os /\ b.newest = ls[d].boot
    BY <1>3 DEF KernelRight
  <2>3. ls[c].boot <= ls[d].boot /\ ls[d].boot <= ls[c].boot
    BY <2>1, <2>2 DEF KernelRight
  <2>4. c = d
    BY <1>1, <2>3
  <2> QED BY <2>1, <2>2, <2>4
<1> QED BY <1>2, <1>3

\* Figures are their fields.
LEMMA FieldsMake ==
    /\ \A a, b \in Figures : a.boots = b.boots /\ a.uptime = b.uptime /\ a.last = b.last
                             /\ a.first = b.first => a = b
    /\ \A a, b \in HostFigures : a.boots = b.boots /\ a.uptime = b.uptime /\ a.last = b.last
                                 /\ a.first = b.first /\ a.kernel = b.kernel
                                 /\ a.newest = b.newest => a = b
  BY DEF Figures, HostFigures

\* Once all rows are loaded both sources have added the same lines.
LEMMA SameLines ==
    ASSUME IInv, fits, pc \notin {"files", "db", "failed"}
    PROVE  /\ Counted("db") = Counted("files")
           /\ present["db"] = {h \in present["files"] : lines[h] # <<>>}
<1>1. \A h \in Host : loaded[h] = DOMAIN lines[h]
  BY DEF IInv, StageInv
<1>2. \A h \in Host : Added("db", h) = Added("files", h)
  BY <1>1 DEF Added
<1>3. \A h \in Host : lines[h] = <<>> <=> DOMAIN lines[h] = {}
  <2> SUFFICES ASSUME NEW h \in Host PROVE lines[h] = <<>> <=> DOMAIN lines[h] = {}
    OBVIOUS
  <2> DEFINE ls == lines[h]
  <2>1. ls \in Seq(Lines)
    BY DEF IInv, TypeOK
  <2> HIDE DEF ls
  <2>2. Len(ls) \in Nat /\ DOMAIN ls = 1 .. Len(ls) /\ (ls = <<>> <=> Len(ls) = 0)
    BY <2>1
  <2>3. ls = <<>> <=> DOMAIN ls = {}
    BY <2>2
  <2> QED BY <2>3 DEF ls
<1>4. present["db"] = {h \in present["files"] : lines[h] # <<>>}
  <2>1. present["db"] = {h \in Host : loaded[h] # {}} /\ present["files"] \subseteq Host
    BY DEF IInv, StageInv, TypeOK, Sources
  <2>2. \A h \in Host \ present["files"] : lines[h] = <<>>
    BY DEF IInv, StageInv
  <2> QED BY <1>1, <1>3, <2>1, <2>2
<1> QED BY <1>2, <1>4 DEF Counted

\* An entry has the same figures in both sources, if its lines have regular boots.
LEMMA SameEntry ==
    ASSUME IInv, Counted("db") = Counted("files"), NEW x \in Categories,
           NEW n \in DOMAIN MapIn(agg["files"], x),
           \A c \in Counted("files") :
              KeyOf(x, c[1], Line(c)) = n => Line(c).boot # 0,
           x = "Host" => \A c, d \in Counted("files") :
              c[1] = n /\ d[1] = n /\ Line(c).boot = Line(d).boot => c = d
    PROVE  MapIn(agg["db"], x)[n] = MapIn(agg["files"], x)[n]
<1> DEFINE r == [source |-> "files", category |-> x, metric |-> "Boots"]
           q == [source |-> "db", category |-> x, metric |-> "Boots"]
           R == {c \in Counted("files") : KeyOf(x, c[1], Line(c)) = n}
           ls == LinesOf("files")
           a == MapIn(agg["files"], x)[n]
           b == MapIn(agg["db"], x)[n]
<1>1. /\ r \in Requests /\ q \in Requests
      /\ r.source = "files" /\ q.source = "db" /\ r.category = x /\ q.category = x
  BY DEF Requests, Sources, Metrics
<1>2. agg["files"] \in Maps /\ agg["db"] \in Maps
  BY DEF IInv, TypeOK, Sources
<1>3. DOMAIN MapIn(agg["db"], x) = DOMAIN MapIn(agg["files"], x)
  BY <1>2, MapTypes
<1>4. Map(r)[n] = a /\ n \in DOMAIN Map(r) /\ Map(q)[n] = b /\ n \in DOMAIN Map(q)
  BY <1>1, <1>3, MapKey
<1>5. RecordsOf(r, n) = R /\ RecordsOf(q, n) = R
  BY <1>1, MapKey DEF RecordsOf
<1>6. LinesOf("db") = ls
  BY DEF LinesOf
<1>7. /\ Right(a, R, ls) /\ Right(b, R, ls)
      /\ x = "Host" => KernelRight(a, R, ls) /\ KernelRight(b, R, ls)
  <2>1. EntryRight(r, n) /\ EntryRight(q, n)
    BY <1>1, <1>4 DEF IInv, FigureInv
  <2> QED BY <1>1, <1>4, <1>5, <1>6, <2>1 DEF EntryRight
<1>8. \A c \in R : ls[c] = Line(c) /\ ls[c] \in Lines /\ ls[c].boot # 0
  BY CountedLines DEF LinesOf, Sources
<1>9. x = "Host" => \A c, d \in R : ls[c].boot = ls[d].boot => c = d
  BY <1>8 DEF KeyOf
<1>10. IF x = "Host" THEN a \in HostFigures /\ b \in HostFigures
                     ELSE a \in Figures /\ b \in Figures
  BY <1>2, <1>3, MapTypes
<1> HIDE DEF R, ls, a, b
<1>11. /\ a.boots = b.boots /\ a.uptime = b.uptime
       /\ a.last = b.last /\ a.first = b.first
  BY <1>7, <1>8, <1>10, SameFigures
<1>12. x = "Host" => a.kernel = b.kernel /\ a.newest = b.newest
  BY <1>7, <1>8, <1>9, <1>10, SameKernel
<1>13. a = b
  BY <1>10, <1>11, <1>12, FieldsMake
<1> QED BY <1>13 DEF a, b

\* With regular boots all four maps are the same, and of a host with regular boots
\* at least its own figures.
LEMMA SameMaps ==
    ASSUME IInv, Counted("db") = Counted("files")
    PROVE  /\ \A h \in Host : Regular(h) => agg["db"].host[h] = agg["files"].host[h]
           /\ (\A h \in Host : Regular(h)) => agg["db"] = agg["files"]
<1>1. agg["files"] \in Maps /\ agg["db"] \in Maps
  BY DEF IInv, TypeOK, Sources
<1>2. \A c \in Counted("files") : /\ c[1] \in Host /\ c[2] \in DOMAIN lines[c[1]]
                                  /\ c = <<c[1], c[2]>>
  BY CountedLines DEF Sources, Added
<1>3. \A c \in Counted("files") : Regular(c[1]) => Line(c).boot # 0
  <2> SUFFICES ASSUME NEW c \in Counted("files"), Regular(c[1]) PROVE Line(c).boot # 0
    OBVIOUS
  <2>1. Line(c).boot > 0
    BY <1>2 DEF Regular, Line
  <2> QED BY <2>1
<1>4. \A h \in Host : Regular(h) => agg["db"].host[h] = agg["files"].host[h]
  <2> SUFFICES ASSUME NEW h \in Host, Regular(h)
               PROVE  agg["db"].host[h] = agg["files"].host[h]
    OBVIOUS
  <2>1. \A c \in Counted("files") : KeyOf("Host", c[1], Line(c)) = h => Line(c).boot # 0
    BY <1>3 DEF KeyOf
  <2>2. \A c, d \in Counted("files") :
           c[1] = h /\ d[1] = h /\ Line(c).boot = Line(d).boot => c = d
    BY <1>2 DEF Regular, Line
  <2>3. /\ MapIn(agg["files"], "Host") = agg["files"].host /\ MapIn(agg["db"], "Host") = agg["db"].host
        /\ h \in DOMAIN MapIn(agg["files"], "Host")
    BY <1>1 DEF MapIn, Maps
  <2>4. "Host" \in Categories
    BY DEF Categories
  <2> QED BY <2>1, <2>2, <2>3, <2>4, SameEntry
<1>5. ASSUME \A h \in Host : Regular(h)
      PROVE  agg["db"] = agg["files"]
  <2>1. \A c \in Counted("files") : Line(c).boot # 0
    BY <1>2, <1>3, <1>5
  <2>2. ASSUME NEW x \in {"Kernel", "KernelName", "KernelMajor"},
               NEW n \in DOMAIN MapIn(agg["files"], x)
        PROVE  MapIn(agg["db"], x)[n] = MapIn(agg["files"], x)[n]
    <3>1. x \in Categories /\ x # "Host"
      BY DEF Categories
    <3> QED BY <2>1, <3>1, SameEntry
  <2>3. /\ \A n \in Kernel : agg["db"].kernel[n] = agg["files"].kernel[n]
        /\ \A n \in Names : agg["db"].name[n] = agg["files"].name[n]
        /\ \A n \in Majors : agg["db"].major[n] = agg["files"].major[n]
    BY <1>1, <2>2 DEF MapIn, Maps
  <2>4. \A h \in Host : agg["db"].host[h] = agg["files"].host[h]
    BY <1>4, <1>5
  <2>5. /\ agg["db"].host = agg["files"].host /\ agg["db"].kernel = agg["files"].kernel
        /\ agg["db"].name = agg["files"].name /\ agg["db"].major = agg["files"].major
    BY <1>1, <2>3, <2>4 DEF Maps
  <2> QED BY <1>1, <2>5 DEF Maps
<1> QED BY <1>4, <1>5

\* A report from the database is the report from the files: whatever the rows' order,
\* hosts with regular boots have the same figures in both, the maps of kernels too if
\* all hosts are regular, and the database lacks only hosts without a valid line.
THEOREM SameReport == Spec => []SourcesAgree
<1>1. IInv => SourcesAgree
  BY SameLines, SameMaps DEF SourcesAgree
<1> QED BY <1>1, Invariant, PTL

-----------------------------------------------------------------------------
(* Ranking. *)

\* Keys and rows were taken while the clock was at some time, the rows later than
\* the keys; the ranking has every key, the greatest first, and the rows follow it.
RankInv ==
    /\ pc \in {"rows", "done"} =>
          /\ DOMAIN keys = Entries(request)
          /\ ranking \in Bijection(1 .. Cardinality(DOMAIN keys), DOMAIN keys)
          /\ \A i, j \in DOMAIN ranking : i < j => keys[ranking[i]] >= keys[ranking[j]]
    /\ \A n \in DOMAIN keys : \E t \in Start .. now : keys[n] = Value(request, n, t)
    /\ \A i \in DOMAIN table :
          /\ table[i].name = ranking[i]
          /\ \E t, u \in Start .. now :
                /\ t <= u
                /\ keys[ranking[i]] = Value(request, ranking[i], t)
                /\ table[i].value = Value(request, ranking[i], u)
    /\ pc = "done" => ~MoreRows

\* Nothing is ranked before keys are taken, nor by what makes no table.
LEMMA RankNone == StageInv /\ keys = <<>> /\ pc \notin {"rows", "done"} => RankInv
<1> SUFFICES ASSUME StageInv, keys = <<>>, pc \notin {"rows", "done"} PROVE RankInv
  OBVIOUS
<1>1. table = <<>> /\ DOMAIN keys = {} /\ DOMAIN table = {}
  BY DEF StageInv
<1> QED BY <1>1 DEF RankInv

\* The same of the next state.
LEMMA RankNoneNext == StageInv' /\ keys' = <<>> /\ pc' \notin {"rows", "done"} => RankInv'
<1> SUFFICES ASSUME StageInv', keys' = <<>>, pc' \notin {"rows", "done"} PROVE RankInv'
  OBVIOUS
<1>1. table' = <<>> /\ DOMAIN keys' = {} /\ DOMAIN table' = {}
  BY DEF StageInv
<1> QED BY <1>1 DEF RankInv

\* What was read is what values are made of.
LEMMA ValueRest ==
    ASSUME UNCHANGED <<readVars, request>>, NEW n, NEW t
    PROVE  Value(request, n, t)' = Value(request, n, t)
<1>1. Map(request)' = Map(request) /\ request' = request
  BY DEF Map, readVars
<1> QED BY <1>1 DEF Value

\* The ranking and its rows are of entries.
LEMMA RankedEntries ==
    ASSUME IInv
    PROVE  /\ \A i \in DOMAIN ranking : ranking[i] \in DOMAIN keys
           /\ DOMAIN table \subseteq DOMAIN ranking
           /\ Len(table) \in Nat /\ DOMAIN table = 1 .. Len(table)
           /\ Len(ranking) \in Nat /\ DOMAIN ranking = 1 .. Len(ranking)
           /\ Len(table) <= Len(ranking)
<1>1. ranking \in Seq(DOMAIN keys) /\ table \in Seq(Row) /\ Len(table) <= Len(ranking)
  BY DEF IInv, TypeOK
<1> QED BY <1>1

\* Taking keys, sorting, rendering and the clock keep the ranking.
LEMMA RankTableStep ==
    ASSUME IInv, IInv', RankInv, TableStep
    PROVE  RankInv'
<1>0. now \in Nat /\ Start \in Nat /\ Start <= now
  BY NumberAssumption DEF IInv, TypeOK
<1>1. CASE (\E r \in Requests : Begin(r)) \/ \E o \in Orders, k \in BOOLEAN : BeginAll(o, k)
  <2>1. keys' = <<>> /\ pc' \notin {"rows", "done"}
    BY <1>1 DEF Begin, BeginAll, oneVars, IInv, StageInv
  <2> QED BY <2>1, RankNoneNext DEF IInv
<1>2. ASSUME NEW n, TakeKey(n) PROVE RankInv'
  <2>1. /\ UNCHANGED <<readVars, request>> /\ now' = now /\ table = <<>> /\ table' = <<>>
        /\ pc' = "keys"
    BY <1>2 DEF TakeKey, IInv, StageInv
  <2>2. \A m \in DOMAIN keys' : keys'[m] = IF m = n THEN Value(request, n, now) ELSE keys[m]
    BY <1>2 DEF TakeKey
  <2>3. \A m \in DOMAIN keys' : m # n => m \in DOMAIN keys
    BY <1>2 DEF TakeKey
  <2>4. ASSUME NEW m \in DOMAIN keys' PROVE \E t \in Start .. now : keys'[m] = Value(request, m, t)'
    <3>1. \A t : Value(request, m, t)' = Value(request, m, t)
      BY <2>1, ValueRest
    <3>2. CASE m = n
      BY <1>0, <2>2, <3>1, <3>2
    <3>3. CASE m # n
      BY <2>2, <2>3, <3>1, <3>3 DEF RankInv
    <3> QED BY <3>2, <3>3
  <2> QED BY <2>1, <2>4 DEF RankInv
<1>3. CASE Sort
  <2>1. /\ UNCHANGED <<readVars, request>> /\ UNCHANGED <<now, keys, table>> /\ table = <<>>
        /\ pc' = "rows" /\ DOMAIN keys = Entries(request)
    BY <1>3 DEF Sort, IInv, StageInv
  <2>2. Entries(request)' = Entries(request)
    BY <2>1, EntriesRest
  <2>3. \A n, t : Value(request, n, t)' = Value(request, n, t)
    BY <2>1, ValueRest
  <2>4. /\ ranking' \in Bijection(1 .. Cardinality(DOMAIN keys), DOMAIN keys)
        /\ \A i, j \in DOMAIN ranking' : i < j => keys[ranking'[i]] >= keys[ranking'[j]]
    BY <1>3 DEF Sort, InOrder
  <2> QED BY <2>1, <2>2, <2>3, <2>4 DEF RankInv
<1>4. CASE AddRow
  <2>1. /\ UNCHANGED <<readVars, request>> /\ UNCHANGED <<now, keys, ranking, pc>>
        /\ pc = "rows" /\ MoreRows
    BY <1>4 DEF AddRow
  <2>2. Entries(request)' = Entries(request)
    BY <2>1, EntriesRest
  <2>3. \A n, t : Value(request, n, t)' = Value(request, n, t)
    BY <2>1, ValueRest
  <2> DEFINE i == Len(table) + 1
             n == ranking[i]
             row == [name |-> n, marker |-> Marker(request, n, now), value |-> Value(request, n, now)]
  <2>4. /\ i \in DOMAIN ranking /\ n \in DOMAIN keys
        /\ DOMAIN table = 1 .. Len(table) /\ Len(table) \in Nat
    BY <2>1, RankedEntries DEF MoreRows
  <2>5. table \in Seq(Row) /\ table' = Append(table, row)
    BY <1>4 DEF AddRow, IInv, TypeOK
  <2> HIDE DEF row
  <2>6. /\ DOMAIN table' = DOMAIN table \cup {i} /\ table'[i] = row
        /\ \A j \in DOMAIN table : table'[j] = table[j]
    BY <2>4, <2>5
  <2>7. row.name = n /\ row.value = Value(request, n, now)
    BY DEF row
  <2>8. \E t \in Start .. now : keys[n] = Value(request, n, t)
    BY <2>4 DEF RankInv
  <2>9. \E t, u \in Start .. now : /\ t <= u /\ keys[n] = Value(request, n, t)
                                   /\ row.value = Value(request, n, u)
    BY <1>0, <2>7, <2>8
  <2>10. ASSUME NEW j \in DOMAIN table'
         PROVE  /\ table'[j].name = ranking[j]
                /\ \E t, u \in Start .. now :
                      /\ t <= u
                      /\ keys[ranking[j]] = Value(request, ranking[j], t)
                      /\ table'[j].value = Value(request, ranking[j], u)
    <3> HIDE DEF i, n
    <3>1. CASE j = i
      BY <2>6, <2>7, <2>9, <3>1 DEF n
    <3>2. CASE j # i
      BY <2>6, <3>2 DEF RankInv
    <3> QED BY <3>1, <3>2
  <2> QED BY <2>1, <2>2, <2>3, <2>10 DEF RankInv
<1>5. CASE Rendered
  <2>1. /\ UNCHANGED <<readVars, request>> /\ UNCHANGED <<now, keys, ranking, table>>
        /\ pc = "rows" /\ ~MoreRows
    BY <1>5 DEF Rendered, tableVars, oneVars
  <2>2. Entries(request)' = Entries(request)
    BY <2>1, EntriesRest
  <2>3. \A n, t : Value(request, n, t)' = Value(request, n, t)
    BY <2>1, ValueRest
  <2> QED BY <2>1, <2>2, <2>3 DEF RankInv, MoreRows
<1>6. CASE Tick
  <2>1. /\ UNCHANGED <<readVars, request>> /\ UNCHANGED <<pc, keys, ranking, table>>
        /\ now' = now + 1 /\ pc # "done"
    BY <1>6 DEF Tick, tableVars, oneVars
  <2>2. Entries(request)' = Entries(request)
    BY <2>1, EntriesRest
  <2>3. \A n, t : Value(request, n, t)' = Value(request, n, t)
    BY <2>1, ValueRest
  <2>4. Start .. now \subseteq Start .. now'
    BY <1>0, <2>1
  <2>5. \A n \in DOMAIN keys : \E t \in Start .. now' : keys[n] = Value(request, n, t)
    BY <2>4 DEF RankInv
  <2>6. \A i \in DOMAIN table :
          /\ table[i].name = ranking[i]
          /\ \E t, u \in Start .. now' :
                /\ t <= u
                /\ keys[ranking[i]] = Value(request, ranking[i], t)
                /\ table[i].value = Value(request, ranking[i], u)
    BY <2>4 DEF RankInv
  <2> QED BY <2>1, <2>2, <2>3, <2>5, <2>6 DEF RankInv
<1> QED BY <1>1, <1>2, <1>3, <1>4, <1>5, <1>6 DEF TableStep

\* Every step keeps the ranking.
LEMMA RankStep == IInv /\ IInv' /\ RankInv /\ [Next]_vars => RankInv'
<1> SUFFICES ASSUME IInv, IInv', RankInv, [Next]_vars PROVE RankInv'
  OBVIOUS
<1>1. CASE ReadStep
  <2>1. pc' \notin {"keys", "rows", "done"}
    BY <1>1 DEF ReadStep, OpenFile, ReadLine, FilesRead, LoadRow, RowsLoaded
  <2>2. keys' = <<>>
    BY <2>1 DEF IInv, StageInv
  <2> QED BY <2>1, <2>2, RankNoneNext DEF IInv
<1>2. CASE TableStep
  BY <1>2, RankTableStep
<1>3. CASE UNCHANGED vars
  <2>1. UNCHANGED <<readVars, request>> /\ UNCHANGED <<pc, now, keys, ranking, table>>
    BY <1>3 DEF vars, tableVars, oneVars
  <2>2. Entries(request)' = Entries(request)
    BY <2>1, EntriesRest
  <2>3. \A n, t : Value(request, n, t)' = Value(request, n, t)
    BY <2>1, ValueRest
  <2> QED BY <2>1, <2>2, <2>3 DEF RankInv, MoreRows
<1>4. Next => ReadStep \/ TableStep
  BY DEF Next, ReadStep, TableStep, Requests
<1> QED BY <1>1, <1>2, <1>3, <1>4

\* The ranking holds throughout.
LEMMA RankInvariant == Spec => [](IInv /\ RankInv)
<1>1. Init => RankInv
  <2>1. Init => StageInv /\ keys = <<>> /\ pc \notin {"rows", "done"}
    BY InitRight DEF IInv, Init
  <2> QED BY <2>1, RankNone
<1> QED BY <1>1, RankStep, Invariant, PTL DEF Spec

\* An entry loses at most the bonus of being active as time goes on.
LEMMA MetaScoreLater ==
    ASSUME NEW a, a.uptime \in Nat, a.boots \in Nat, a.last \in Nat,
           Points(a) + Month < Word, NEW t \in Nat, NEW u \in Nat, t <= u
    PROVE  LET bonus == (Month + ScoreUnit - 1) \div ScoreUnit
           IN  /\ bonus \in Nat /\ MetaScore(a, t) \in Nat /\ MetaScore(a, u) \in Nat
               /\ MetaScore(a, u) <= MetaScore(a, t)
               /\ MetaScore(a, t) <= MetaScore(a, u) + bonus
<1> DEFINE x == Points(a)
           M == Month + ScoreUnit - 1
           bonus == M \div ScoreUnit
<1>1. Month \in Nat /\ ScoreUnit \in Nat \ {0} /\ ScoreUnit # 0 /\ ScoreUnit \in Nat
  BY NumberAssumption
<1>2. x \in Nat
  <2>1. a.boots * Day \in Nat
    BY NumberAssumption
  <2> QED BY <2>1 DEF Points
<1>3. M \in Nat /\ bonus \in Nat
  <2>1. M \in Nat
    BY <1>1
  <2> HIDE DEF M
  <2> QED BY <1>1, <2>1, DivTypes
<1> HIDE DEF M
<1>4. x % Word = x /\ (x + Month) % Word = x + Month /\ x + 0 = x
  <2> DEFINE y == x + Month
  <2>1. x \in Number /\ y \in Number
    BY <1>1, <1>2, NumberAssumption DEF Number
  <2> HIDE DEF x, y
  <2>2. x % Word = x /\ y % Word = y
    BY <2>1, NumberNat
  <2> QED BY <1>2, <2>2 DEF y
<1> DEFINE low == x \div ScoreUnit
           high == (x + Month) \div ScoreUnit
<1>5. low \in Nat /\ high \in Nat /\ low <= high /\ high <= low + bonus
  <2>1. x + Month \in Nat
    BY <1>1, <1>2
  <2> HIDE DEF x
  <2>2. low \in Nat /\ high \in Nat
    BY <1>1, <1>2, <2>1, DivTypes
  <2> QED BY <1>1, <1>2, <2>2, DivBonus DEF M
<1> HIDE DEF x, low, high, bonus
<1>6. /\ MetaScore(a, t) = IF IsActive(a, t) THEN high ELSE low
      /\ MetaScore(a, u) = IF IsActive(a, u) THEN high ELSE low
  BY <1>4 DEF MetaScore, high, low, x
<1>7. IsActive(a, u) => IsActive(a, t)
  BY NumberAssumption DEF IsActive
<1>8. /\ MetaScore(a, t) \in Nat /\ MetaScore(a, u) \in Nat
      /\ MetaScore(a, u) <= MetaScore(a, t) /\ MetaScore(a, t) <= MetaScore(a, u) + bonus
  BY <1>3, <1>5, <1>6, <1>7
<1> QED BY <1>3, <1>8 DEF bonus, M

\* What is ranked falls as time goes on, but by no more than the bonus.
LEMMA ValueLater ==
    ASSUME IInv, pc \in {"keys", "rows", "done"}, ScoresFit, NEW n \in Entries(request),
           NEW t \in Nat, NEW u \in Nat, t <= u
    PROVE  /\ Value(request, n, t) \in Nat /\ Value(request, n, u) \in Nat /\ Bonus \in Nat
           /\ Value(request, n, u) <= Value(request, n, t)
           /\ Value(request, n, t) <= Value(request, n, u) + Bonus
<1> DEFINE a == Map(request)[n]
<1>1. TypeOK /\ request \in Requests
  BY DEF IInv, TypeOK, Requests
<1>2. request.category # "Host" => request.metric \notin HostMetrics
  BY DEF IInv, StageInv
<1>3. Value(request, n, t) \in Nat /\ Value(request, n, u) \in Nat
  BY <1>1, <1>2, ValueTypes
<1>4. CASE request.metric # "Score"
  <2>1. Value(request, n, t) = Value(request, n, u)
    BY <1>4 DEF Value
  <2>2. Bonus = 0
    BY <1>4 DEF Bonus
  <2> QED BY <1>3, <2>1, <2>2
<1>5. CASE request.metric = "Score"
  <2>1. a.uptime \in Nat /\ a.boots \in Nat /\ a.last \in Nat /\ a.first \in Nat
    <3>1. a \in Figures \cup HostFigures
      BY <1>1, EntryTypes
    <3> QED BY <3>1, NumberNat DEF Figures, HostFigures
  <2>2. Points(a) + Month < Word
    BY <1>5 DEF ScoresFit
  <2>3. Value(request, n, t) = IF request.category = "Host" THEN HostScore(a, t) ELSE MetaScore(a, t)
    BY <1>5 DEF Value
  <2>4. Value(request, n, u) = IF request.category = "Host" THEN HostScore(a, u) ELSE MetaScore(a, u)
    BY <1>5 DEF Value
  <2>5. Bonus = (Month + ScoreUnit - 1) \div ScoreUnit
    BY <1>5 DEF Bonus
  <2> HIDE DEF a
  <2>6. /\ Bonus \in Nat /\ MetaScore(a, t) \in Nat /\ MetaScore(a, u) \in Nat
        /\ MetaScore(a, u) <= MetaScore(a, t) /\ MetaScore(a, t) <= MetaScore(a, u) + Bonus
    BY <2>1, <2>2, <2>5, MetaScoreLater
  <2>7. Downtime(a) \div (2 * ScoreUnit) \in Nat
    <3>1. Downtime(a) \in Nat
      BY <2>1 DEF Downtime, Lifespan
    <3>2. 2 * ScoreUnit \in Nat /\ 2 * ScoreUnit # 0
      BY NumberAssumption
    <3> QED BY <3>1, <3>2, DivTypes
  <2> DEFINE d == Downtime(a) \div (2 * ScoreUnit)
  <2>8. HostScore(a, t) = d + MetaScore(a, t) /\ HostScore(a, u) = d + MetaScore(a, u)
    BY DEF HostScore
  <2> HIDE DEF d
  <2>9. d \in Nat
    BY <2>7 DEF d
  <2> QED BY <1>3, <2>3, <2>4, <2>6, <2>8, <2>9
<1> QED BY <1>4, <1>5

\* A key is not less than what its entry comes to show, nor more with the bonus.
LEMMA KeyBounds ==
    ASSUME IInv, RankInv, pc \in {"rows", "done"}, ScoresFit
    PROVE  /\ Bonus \in Nat
           /\ \A n \in DOMAIN keys : keys[n] \in Nat /\ Value(request, n, now) <= keys[n]
                                     /\ Value(request, n, now) \in Nat
           /\ \A i \in DOMAIN table :
                 /\ table[i].value \in Nat /\ table[i].value <= keys[ranking[i]]
                 /\ keys[ranking[i]] <= table[i].value + Bonus
<1>1. DOMAIN keys = Entries(request) /\ now \in Nat /\ Start \in Nat
  BY NumberAssumption DEF RankInv, IInv, TypeOK
<1>2. \A t \in Start .. now : t \in Nat /\ t <= now
  BY <1>1
<1>3. Bonus \in Nat
  BY NumberAssumption, DivTypes DEF Bonus
<1>4. ASSUME NEW n \in DOMAIN keys
      PROVE  keys[n] \in Nat /\ Value(request, n, now) <= keys[n] /\ Value(request, n, now) \in Nat
  <2>1. PICK t \in Start .. now : keys[n] = Value(request, n, t)
    BY DEF RankInv
  <2>2. t \in Nat /\ t <= now
    BY <1>2
  <2> QED BY <1>1, <2>1, <2>2, ValueLater
<1>5. ASSUME NEW i \in DOMAIN table
      PROVE  /\ table[i].value \in Nat /\ table[i].value <= keys[ranking[i]]
             /\ keys[ranking[i]] <= table[i].value + Bonus
  <2>1. PICK t \in Start .. now, u \in Start .. now :
           /\ t <= u
           /\ keys[ranking[i]] = Value(request, ranking[i], t)
           /\ table[i].value = Value(request, ranking[i], u)
    BY DEF RankInv
  <2>2. t \in Nat /\ u \in Nat
    BY <1>2
  <2>3. ranking[i] \in Entries(request)
    BY <1>1, RankedEntries
  <2> QED BY <2>1, <2>2, <2>3, ValueLater
<1> QED BY <1>3, <1>4, <1>5

\* The rows are those at the top of the ranking.
LEMMA RankedTop == IInv /\ RankInv => TopRanked
<1> SUFFICES ASSUME IInv, RankInv PROVE TopRanked
  OBVIOUS
<1> DEFINE m == Len(table)
           shown == {table[i].name : i \in DOMAIN table}
           others == Entries(request) \ shown
<1>0. /\ m \in Nat /\ DOMAIN table = 1 .. m /\ DOMAIN table \subseteq DOMAIN ranking
      /\ Len(ranking) \in Nat /\ DOMAIN ranking = 1 .. Len(ranking) /\ m <= Len(ranking)
      /\ \A i \in DOMAIN ranking : ranking[i] \in DOMAIN keys
  BY RankedEntries
<1>1. shown = {ranking[i] : i \in DOMAIN table}
  BY DEF RankInv
<1>2. CASE pc \notin {"rows", "done"}
  <2>1. table = <<>> /\ DOMAIN table = {} /\ Len(table) = 0
    BY <1>2 DEF IInv, StageInv
  <2>2. Cardinality(shown) = Len(table)
    BY <2>1, FS_EmptySet
  <2> QED BY <1>2, <2>1, <2>2 DEF TopRanked
<1>3. CASE pc \in {"rows", "done"}
  <2>1. /\ DOMAIN keys = Entries(request)
        /\ ranking \in [DOMAIN ranking -> DOMAIN keys]
        /\ \A i, j \in DOMAIN ranking : ranking[i] = ranking[j] => i = j
        /\ \A n \in DOMAIN keys : \E i \in DOMAIN ranking : ranking[i] = n
        /\ \A i, j \in DOMAIN ranking : i < j => keys[ranking[i]] >= keys[ranking[j]]
    BY <1>3 DEF RankInv, Bijection, Injection, Surjection, IsInjective
  <2>2. Cardinality(shown) = m
    <3> DEFINE f == [i \in 1 .. m |-> ranking[i]]
    <3>1. f \in Bijection(1 .. m, shown)
      BY <1>0, <1>1, <2>1 DEF Bijection, Injection, Surjection, IsInjective
    <3>2. IsFiniteSet(1 .. m) /\ Cardinality(1 .. m) = m
      <4>1. m \in Nat
        BY <1>0
      <4> HIDE DEF m
      <4> QED BY <4>1, Positions
    <3>3. ExistsBijection(1 .. m, shown)
      BY <3>1 DEF ExistsBijection
    <3> QED BY <3>2, <3>3, FS_Bijection
  <2>3. \A n \in others : \E j \in DOMAIN ranking : j > m /\ ranking[j] = n
    <3> SUFFICES ASSUME NEW n \in others PROVE \E j \in DOMAIN ranking : j > m /\ ranking[j] = n
      OBVIOUS
    <3>1. PICK j \in DOMAIN ranking : ranking[j] = n
      BY <2>1
    <3>2. j \notin DOMAIN table
      BY <1>1, <3>1
    <3> QED BY <1>0, <3>1, <3>2
  <2>4. pc = "done" /\ others # {} => m = Limit
    <3> SUFFICES ASSUME pc = "done", others # {} PROVE m = Limit
      OBVIOUS
    <3>1. m < Len(ranking)
      BY <1>0, <2>3
    <3>2. m <= Limit /\ Limit \in Nat
      BY NumberAssumption DEF IInv, TypeOK
    <3>3. ~MoreRows
      BY DEF RankInv
    <3>4. ~(m < Limit)
      BY <3>1, <3>3 DEF MoreRows
    <3>5. m \in Nat
      BY <1>0
    <3> HIDE DEF m
    <3> QED BY <3>2, <3>4, <3>5
  <2>5. ASSUME ScoresFit
        PROVE  /\ \A i, j \in DOMAIN table : i < j => table[j].value <= table[i].value + Bonus
               /\ \A n \in others, i \in DOMAIN table :
                     Value(request, n, now) <= table[i].value + Bonus
    <3>1. /\ Bonus \in Nat
          /\ \A n \in DOMAIN keys : keys[n] \in Nat /\ Value(request, n, now) <= keys[n]
                                    /\ Value(request, n, now) \in Nat
          /\ \A i \in DOMAIN table :
                /\ table[i].value \in Nat /\ table[i].value <= keys[ranking[i]]
                /\ keys[ranking[i]] <= table[i].value + Bonus
      BY <1>3, <2>5, KeyBounds
    <3>2. ASSUME NEW i \in DOMAIN table, NEW j \in DOMAIN table, i < j
          PROVE  table[j].value <= table[i].value + Bonus
      <4>1. keys[ranking[i]] >= keys[ranking[j]]
        BY <1>0, <2>1, <3>2
      <4>2. keys[ranking[i]] \in Nat /\ keys[ranking[j]] \in Nat
        BY <1>0, <3>1
      <4> QED BY <3>1, <4>1, <4>2
    <3>3. ASSUME NEW n \in others, NEW i \in DOMAIN table
          PROVE  Value(request, n, now) <= table[i].value + Bonus
      <4>1. PICK j \in DOMAIN ranking : j > m /\ ranking[j] = n
        BY <2>3
      <4>2. keys[ranking[i]] >= keys[n]
        BY <1>0, <2>1, <4>1
      <4>3. keys[ranking[i]] \in Nat /\ n \in DOMAIN keys
        BY <1>0, <3>1, <4>1
      <4> QED BY <3>1, <4>2, <4>3
    <3> QED BY <3>2, <3>3
  <2> QED BY <1>3, <2>2, <2>4, <2>5 DEF TopRanked
<1> QED BY <1>2, <1>3

\* Whatever is ranked, for any limit and however the clock moves: the rows are
\* different entries, fewer than the limit only if there are no more, and no entry
\* shows or would show more than one above it, but for the bonus of a score that is
\* lost in between; scores must not wrap.
THEOREM TablesAreRanked == Spec => []TopRanked
BY RankInvariant, RankedTop, PTL

-----------------------------------------------------------------------------
(* The tables of -all. *)

\* A set of natural numbers has a least one.
LEMMA Least ==
    ASSUME NEW T, T \subseteq Nat, T # {}
    PROVE  \E x \in T : \A y \in T : x <= y
<1>1. PICK x \in T : \A y \in T : ~(<<y, x>> \in OpToRel(<, Nat))
  <2>1. \E x \in T : \A y \in T : ~(<<y, x>> \in OpToRel(<, Nat))
    BY NatLessThanWellFounded, WFMin
  <2> QED BY <2>1
<1>2. ASSUME NEW y \in T PROVE x <= y
  <2>1. ~(y < x)
    BY <1>1 DEF OpToRel
  <2> QED BY <2>1
<1> QED BY <1>2

\* F gives what the loop of Kept has appended after each of n elements.
Loop(F, s, K, n) ==
    F = [i \in 0 .. n |-> IF i = 0 THEN <<>>
                          ELSE IF i \in K THEN Append(F[i - 1], s[i]) ELSE F[i - 1]]

\* The loop runs for any number of elements; were there a least number for which it
\* does not, it would run for one less, and then once more.
LEMMA LoopRuns ==
    ASSUME NEW s, NEW K, NEW n \in Nat
    PROVE  \E F : Loop(F, s, K, n)
<1> DEFINE T == {m \in Nat : ~\E F : Loop(F, s, K, m)}
<1> SUFFICES ASSUME T # {} PROVE FALSE
  OBVIOUS
<1>1. PICK m \in T : \A y \in T : m <= y
  BY Least
<1>2. m \in Nat /\ ~\E F : Loop(F, s, K, m)
  OBVIOUS
<1>3. CASE m = 0
  <2>1. Loop([i \in 0 .. 0 |-> <<>>], s, K, 0)
    BY DEF Loop
  <2> QED BY <1>2, <1>3, <2>1
<1>4. CASE m # 0
  <2>1. m - 1 \in Nat /\ m - 1 \notin T
    BY <1>1, <1>2, <1>4
  <2>2. PICK F : Loop(F, s, K, m - 1)
    BY <2>1
  <2> DEFINE e == IF m \in K THEN Append(F[m - 1], s[m]) ELSE F[m - 1]
             G == [i \in 0 .. m |-> IF i = m THEN e ELSE F[i]]
             H == [i \in 0 .. m |-> IF i = 0 THEN <<>>
                                    ELSE IF i \in K THEN Append(G[i - 1], s[i]) ELSE G[i - 1]]
  <2>3. \A i \in 0 .. m - 1 :
           F[i] = IF i = 0 THEN <<>> ELSE IF i \in K THEN Append(F[i - 1], s[i]) ELSE F[i - 1]
    BY <2>2 DEF Loop
  <2>4. ASSUME NEW i \in 0 .. m PROVE G[i] = H[i]
    <3>1. CASE i = 0
      BY <1>2, <1>4, <2>3, <3>1
    <3>2. CASE i # 0 /\ i # m
      <4>1. i \in 0 .. m - 1 /\ i - 1 \in 0 .. m /\ i - 1 # m
        BY <1>2, <3>2
      <4>2. G[i] = F[i] /\ G[i - 1] = F[i - 1]
        BY <1>2, <3>2, <4>1
      <4> QED BY <2>3, <3>2, <4>1, <4>2
    <3>3. CASE i = m
      <4>1. m - 1 \in 0 .. m /\ m - 1 # m /\ m \in 0 .. m
        BY <1>2, <1>4
      <4>2. G[m] = e /\ G[m - 1] = F[m - 1]
        BY <4>1
      <4> QED BY <1>4, <3>3, <4>1, <4>2
    <3> QED BY <3>1, <3>2, <3>3
  <2>5. G = H
    <3>1. DOMAIN G = 0 .. m /\ DOMAIN H = 0 .. m
      OBVIOUS
    <3> QED BY <2>4
  <2> HIDE DEF G
  <2>6. Loop(G, s, K, m)
    BY <2>5 DEF Loop
  <2> QED BY <1>2, <2>6
<1> QED BY <1>3, <1>4

\* So Kept is what the loop has at the end.
LEMMA KeptLoop ==
    ASSUME NEW s, NEW K, Len(s) \in Nat
    PROVE  \E F : Loop(F, s, K, Len(s)) /\ Kept(s, K) = F[Len(s)]
<1> DEFINE G == CHOOSE F : F = [i \in 0 .. Len(s) |->
                                  IF i = 0 THEN <<>>
                                  ELSE IF i \in K THEN Append(F[i - 1], s[i]) ELSE F[i - 1]]
<1>1. Kept(s, K) = G[Len(s)]
  BY DEF Kept
<1>2. \E F : F = [i \in 0 .. Len(s) |->
                    IF i = 0 THEN <<>>
                    ELSE IF i \in K THEN Append(F[i - 1], s[i]) ELSE F[i - 1]]
  <2>1. \E F : Loop(F, s, K, Len(s))
    BY LoopRuns
  <2> QED BY <2>1 DEF Loop
<1>3. G = [i \in 0 .. Len(s) |->
             IF i = 0 THEN <<>>
             ELSE IF i \in K THEN Append(G[i - 1], s[i]) ELSE G[i - 1]]
  BY <1>2, Zenon
<1>4. Loop(G, s, K, Len(s))
  BY <1>3 DEF Loop
<1> QED BY <1>1, <1>4

\* q has the elements of s at the positions in K up to n, and p are these positions.
Picks(p, q, S, s, K, n) ==
    /\ p \in Seq(Nat) /\ q \in Seq(S) /\ Len(q) = Len(p)
    /\ \A i \in 1 .. Len(p) : p[i] \in K /\ p[i] \in 1 .. n /\ q[i] = s[p[i]]
    /\ \A i, j \in 1 .. Len(p) : i < j => p[i] < p[j]
    /\ \A k \in 1 .. n : k \in K => \E i \in 1 .. Len(p) : p[i] = k

\* One more position, which may be in K.
LEMMA PicksStep ==
    ASSUME NEW S, NEW s \in Seq(S), NEW K, NEW n \in Nat, n + 1 <= Len(s), NEW p, NEW q,
           Picks(p, q, S, s, K, n)
    PROVE  /\ n + 1 \notin K => Picks(p, q, S, s, K, n + 1)
           /\ n + 1 \in K => Picks(Append(p, n + 1), Append(q, s[n + 1]), S, s, K, n + 1)
<1>1. CASE n + 1 \notin K
  <2>1. \A k \in 1 .. n + 1 : k \in K => k \in 1 .. n
    BY <1>1
  <2>2. 1 .. n \subseteq 1 .. n + 1
    OBVIOUS
  <2> QED BY <1>1, <2>1, <2>2 DEF Picks
<1>2. CASE n + 1 \in K
  <2> DEFINE m == Len(p)
             r == Append(p, n + 1)
             t == Append(q, s[n + 1])
  <2>1. /\ p \in Seq(Nat) /\ q \in Seq(S) /\ Len(q) = m /\ m \in Nat
        /\ s[n + 1] \in S /\ n + 1 \in Nat
    BY DEF Picks
  <2>2. /\ r \in Seq(Nat) /\ t \in Seq(S) /\ Len(r) = m + 1 /\ Len(t) = m + 1
        /\ r[m + 1] = n + 1 /\ t[m + 1] = s[n + 1]
        /\ \A i \in 1 .. m : r[i] = p[i] /\ t[i] = q[i]
    BY <2>1
  <2> HIDE DEF r, t
  <2>3. \A i \in 1 .. m : p[i] \in K /\ p[i] \in 1 .. n /\ q[i] = s[p[i]]
    BY DEF Picks
  <2> HIDE DEF m
  <2>4. ASSUME NEW i \in 1 .. m + 1 PROVE r[i] \in K /\ r[i] \in 1 .. n + 1 /\ t[i] = s[r[i]]
    <3>1. CASE i = m + 1
      BY <1>2, <2>1, <2>2, <3>1
    <3>2. CASE i # m + 1
      <4>1. i \in 1 .. m
        BY <2>1, <3>2
      <4>2. r[i] = p[i] /\ t[i] = q[i] /\ p[i] \in K /\ p[i] \in 1 .. n /\ q[i] = s[p[i]]
        BY <2>2, <2>3, <4>1
      <4> QED BY <4>2
    <3> QED BY <3>1, <3>2
  <2>5. ASSUME NEW i \in 1 .. m + 1, NEW j \in 1 .. m + 1, i < j PROVE r[i] < r[j]
    <3>1. i \in 1 .. m
      BY <2>1, <2>5
    <3>2. CASE j = m + 1
      BY <2>2, <2>3, <3>1, <3>2
    <3>3. CASE j # m + 1
      <4>1. j \in 1 .. m
        BY <2>1, <3>3
      <4>2. p[i] < p[j]
        BY <2>5, <3>1, <4>1 DEF Picks, m
      <4> QED BY <2>2, <3>1, <4>1, <4>2
    <3> QED BY <3>2, <3>3
  <2>6. ASSUME NEW k \in 1 .. n + 1, k \in K PROVE \E i \in 1 .. m + 1 : r[i] = k
    <3>1. CASE k = n + 1
      BY <2>1, <2>2, <3>1
    <3>2. CASE k # n + 1
      <4>1. k \in 1 .. n
        BY <3>2
      <4>2. PICK i \in 1 .. m : p[i] = k
        BY <2>6, <4>1 DEF Picks, m
      <4>3. i \in 1 .. m + 1 /\ r[i] = k
        BY <2>1, <2>2, <4>2
      <4> QED BY <4>3
    <3> QED BY <3>1, <3>2
  <2>7. Picks(r, t, S, s, K, n + 1)
    BY <2>2, <2>4, <2>5, <2>6 DEF Picks
  <2> QED BY <1>2, <2>7 DEF r, t
<1> QED BY <1>1, <1>2

\* Kept has the elements at the positions in K, in their order, and no others.
LEMMA KeptPicks ==
    ASSUME NEW S, NEW s \in Seq(S), NEW K
    PROVE  \E p : Picks(p, Kept(s, K), S, s, K, Len(s))
<1> DEFINE N == Len(s)
<1>1. N \in Nat
  OBVIOUS
<1>2. PICK F : Loop(F, s, K, N) /\ Kept(s, K) = F[N]
  BY <1>1, KeptLoop
<1>3. \A i \in 0 .. N :
         F[i] = IF i = 0 THEN <<>> ELSE IF i \in K THEN Append(F[i - 1], s[i]) ELSE F[i - 1]
  BY <1>2 DEF Loop
<1> DEFINE T == {i \in 0 .. N : ~\E p : Picks(p, F[i], S, s, K, i)}
<1>4. T = {}
  <2> SUFFICES ASSUME T # {} PROVE FALSE
    OBVIOUS
  <2>1. PICK m \in T : \A y \in T : m <= y
    <3>1. T \subseteq Nat
      BY <1>1
    <3> HIDE DEF T
    <3> QED BY <3>1, Least
  <2>2. m \in 0 .. N /\ ~\E p : Picks(p, F[m], S, s, K, m)
    OBVIOUS
  <2>3. CASE m = 0
    <3>1. F[0] = <<>>
      BY <1>1, <1>3
    <3>2. Picks(<<>>, <<>>, S, s, K, 0)
      BY DEF Picks
    <3> QED BY <2>2, <2>3, <3>1, <3>2
  <2>4. CASE m # 0
    <3>1. PICK n \in 0 .. N : m = n + 1
      <4>1. m - 1 \in 0 .. N /\ m = (m - 1) + 1
        BY <1>1, <2>2, <2>4
      <4> QED BY <4>1
    <3>2. n \notin T /\ n \in Nat /\ n + 1 <= N /\ n + 1 # 0 /\ (n + 1) - 1 = n
      BY <1>1, <2>1, <2>2, <3>1
    <3>3. PICK p : Picks(p, F[n], S, s, K, n)
      BY <3>2
    <3>4. /\ n + 1 \notin K => Picks(p, F[n], S, s, K, n + 1)
          /\ n + 1 \in K => Picks(Append(p, n + 1), Append(F[n], s[n + 1]), S, s, K, n + 1)
      BY <3>2, <3>3, PicksStep
    <3>5. F[n + 1] = IF n + 1 \in K THEN Append(F[n], s[n + 1]) ELSE F[n]
      BY <1>3, <2>2, <3>1, <3>2
    <3> QED BY <2>2, <3>1, <3>4, <3>5
  <2> QED BY <2>3, <2>4
<1>5. N \in 0 .. N
  BY <1>1
<1>6. \E p : Picks(p, F[N], S, s, K, N)
  BY <1>4, <1>5
<1> QED BY <1>2, <1>6

\* The tables that WriteReports gives for a category and a metric.
Supported == {p \in Pair : ~Unsupported(p)}

\* The default order has all of them.
LEMMA DefaultTables ==
    /\ DefaultOrder \in Seq(Supported)
    /\ \A p \in Supported : \E i \in 1 .. Len(DefaultOrder) : DefaultOrder[i] = p
<1> USE DEF Supported, Unsupported, Pair, Categories, Metrics, HostMetrics, P
<1>1. DefaultOrder \in Seq(Supported) /\ Len(DefaultOrder) = 15
  BY DEF DefaultOrder
<1>2. ASSUME NEW p \in Supported PROVE \E i \in 1 .. 15 : DefaultOrder[i] = p
  <2>1. p = P(p.category, p.metric)
    OBVIOUS
  <2>2. CASE p.category = "Host"
    BY <2>1, <2>2 DEF DefaultOrder
  <2>3. CASE p.category = "Kernel"
    BY <2>1, <2>3 DEF DefaultOrder
  <2>4. CASE p.category = "KernelName"
    BY <2>1, <2>4 DEF DefaultOrder
  <2>5. CASE p.category = "KernelMajor"
    BY <2>1, <2>5 DEF DefaultOrder
  <2> QED BY <2>2, <2>3, <2>4, <2>5
<1> QED BY <1>1, <1>2

\* The entries of a valid order that are not blank are tables.
LEMMA EnteredTables ==
    ASSUME NEW o \in Orders, Valid(o)
    PROVE  /\ Entered(o) \in Seq(Supported)
           /\ \E p : /\ \A i \in 1 .. Len(Entered(o)) :
                           p[i] \in DOMAIN o /\ Entered(o)[i] = o[p[i]]
                     /\ \A i, j \in 1 .. Len(Entered(o)) : i < j => p[i] < p[j]
                     /\ \A k \in DOMAIN o : o[k] # None =>
                           \E i \in 1 .. Len(Entered(o)) : p[i] = k
<1> DEFINE S == Pair \cup {None, Malformed}
           K == {k \in DOMAIN o : o[k] # None}
           E == Entered(o)
<1>1. o \in Seq(S) /\ DOMAIN o = 1 .. Len(o) /\ Len(o) \in Nat
  BY OrderAssumption
<1>2. E = Kept(o, K)
  BY DEF Entered
<1> HIDE DEF S, E, K
<1>3. PICK p : Picks(p, E, S, o, K, Len(o))
  BY <1>1, <1>2, KeptPicks
<1>4. /\ E \in Seq(S) /\ Len(E) = Len(p) /\ Len(E) \in Nat /\ DOMAIN E = 1 .. Len(E)
      /\ \A i \in 1 .. Len(E) : p[i] \in K /\ E[i] = o[p[i]]
      /\ \A i, j \in 1 .. Len(E) : i < j => p[i] < p[j]
      /\ \A k \in K : \E i \in 1 .. Len(E) : p[i] = k
  <2>1. /\ E \in Seq(S) /\ Len(E) = Len(p)
        /\ \A i \in 1 .. Len(E) : p[i] \in K /\ E[i] = o[p[i]]
        /\ \A i, j \in 1 .. Len(E) : i < j => p[i] < p[j]
        /\ \A k \in 1 .. Len(o) : k \in K => \E i \in 1 .. Len(E) : p[i] = k
    BY <1>3 DEF Picks
  <2>2. K \subseteq 1 .. Len(o)
    BY <1>1 DEF K
  <2> QED BY <2>1, <2>2
<1>5. ASSUME NEW i \in 1 .. Len(E) PROVE E[i] \in Supported
  <2>1. E[i] \in S /\ E[i] # None
    BY <1>4 DEF K
  <2>2. o # <<>>
    BY <1>1, <1>4 DEF K
  <2>3. E[i] \in Range(E)
    BY <1>4 DEF Range
  <2>4. E[i] # Malformed /\ ~Unsupported(E[i])
    BY <2>2, <2>3 DEF Valid, E
  <2> QED BY <2>1, <2>4 DEF S, Supported
<1>6. E \in Seq(Supported)
  <2>1. E = [i \in 1 .. Len(E) |-> E[i]]
    BY <1>4
  <2>2. E \in [1 .. Len(E) -> Supported]
    BY <1>4, <1>5
  <2> QED BY <1>4, <2>2, SequenceOf
<1>7. /\ \A i \in 1 .. Len(E) : p[i] \in DOMAIN o /\ E[i] = o[p[i]]
      /\ \A k \in DOMAIN o : o[k] # None => \E i \in 1 .. Len(E) : p[i] = k
  BY <1>4 DEF K
<1> QED BY <1>4, <1>6, <1>7 DEF E

\* Of equal elements FirstOnly keeps the first, at its place among the others.
LEMMA FirstPicks ==
    ASSUME NEW S, NEW s \in Seq(S)
    PROVE  /\ FirstOnly(s) \in Seq(S)
           /\ \E p : /\ \A i \in 1 .. Len(FirstOnly(s)) :
                           /\ p[i] \in 1 .. Len(s) /\ FirstOnly(s)[i] = s[p[i]]
                           /\ \A j \in 1 .. Len(s) : s[j] = s[p[i]] => p[i] <= j
                     /\ \A i, j \in 1 .. Len(FirstOnly(s)) : i < j => p[i] < p[j]
                     /\ \A k \in 1 .. Len(s) :
                           \E i \in 1 .. Len(FirstOnly(s)) : FirstOnly(s)[i] = s[k]
<1> DEFINE K == {k \in DOMAIN s : \A j \in 1 .. k - 1 : s[j] # s[k]}
           F == FirstOnly(s)
<1>1. DOMAIN s = 1 .. Len(s) /\ Len(s) \in Nat
  OBVIOUS
<1>2. F = Kept(s, K)
  BY DEF FirstOnly
<1> HIDE DEF F, K
<1>3. PICK p : Picks(p, F, S, s, K, Len(s))
  BY <1>2, KeptPicks
<1>4. /\ F \in Seq(S) /\ Len(F) = Len(p)
      /\ \A i \in 1 .. Len(F) : p[i] \in K /\ p[i] \in 1 .. Len(s) /\ F[i] = s[p[i]]
      /\ \A i, j \in 1 .. Len(F) : i < j => p[i] < p[j]
      /\ \A k \in 1 .. Len(s) : k \in K => \E i \in 1 .. Len(F) : p[i] = k
  BY <1>3 DEF Picks
<1>5. ASSUME NEW i \in 1 .. Len(F), NEW j \in 1 .. Len(s), s[j] = s[p[i]] PROVE p[i] <= j
  <2>1. p[i] \in K /\ p[i] \in Nat
    BY <1>4
  <2>2. j \notin 1 .. p[i] - 1
    BY <1>5, <2>1 DEF K
  <2> QED BY <2>1, <2>2
<1>6. ASSUME NEW k \in 1 .. Len(s) PROVE \E i \in 1 .. Len(F) : F[i] = s[k]
  <2> DEFINE T == {j \in 1 .. Len(s) : s[j] = s[k]}
  <2>1. k \in T /\ T \subseteq Nat
    BY <1>1
  <2>2. PICK m \in T : \A y \in T : m <= y
    <3> HIDE DEF T
    <3> QED BY <2>1, Least
  <2>3. m \in 1 .. Len(s) /\ s[m] = s[k]
    OBVIOUS
  <2>4. \A j \in 1 .. m - 1 : s[j] # s[m]
    <3> SUFFICES ASSUME NEW j \in 1 .. m - 1, s[j] = s[m] PROVE FALSE
      OBVIOUS
    <3>1. j \in 1 .. Len(s) /\ j < m
      BY <1>1, <2>3
    <3>2. j \in T
      BY <2>3, <3>1
    <3>3. m <= j
      BY <2>2, <3>2
    <3> QED BY <1>1, <2>3, <3>1, <3>3
  <2>5. m \in K
    BY <1>1, <2>3, <2>4 DEF K
  <2>6. PICK i \in 1 .. Len(F) : p[i] = m
    BY <1>4, <2>3, <2>5
  <2> QED BY <1>4, <2>3, <2>6
<1>7. \A i \in 1 .. Len(F) :
         /\ p[i] \in 1 .. Len(s) /\ F[i] = s[p[i]]
         /\ \A j \in 1 .. Len(s) : s[j] = s[p[i]] => p[i] <= j
  BY <1>4, <1>5
<1> QED BY <1>4, <1>6, <1>7 DEF F

\* Every entry of q stands in s at the place that a names, where s has it first, and
\* these places are in order.
FirstPlaces(a, q, s) ==
    /\ \A i \in 1 .. Len(q) :
          /\ a[i] \in 1 .. Len(s) /\ q[i] = s[a[i]]
          /\ \A j \in 1 .. Len(s) : s[j] = q[i] => a[i] <= j
    /\ \A i, j \in 1 .. Len(q) : i < j => a[i] < a[j]

\* The list of tables: they are entries of the custom order and of the default, each
\* at its first place, but for those that are skipped.
LEMMA TablesPicks ==
    ASSUME NEW o \in Orders, Valid(o), NEW kernels \in BOOLEAN
    PROVE  LET s == Entered(o) \o DefaultOrder
               q == TablesOf(o, kernels)
           IN  /\ q \in Seq(Supported)
               /\ \A i \in 1 .. Len(q) : ~Skipped(kernels, q[i])
               /\ \A p \in Supported : ~Skipped(kernels, p) => \E i \in 1 .. Len(q) : q[i] = p
               /\ \E a : FirstPlaces(a, q, s)
<1> DEFINE s == Entered(o) \o DefaultOrder
           l == FirstOnly(s)
           K == {k \in DOMAIN l : ~Skipped(kernels, l[k])}
           q == TablesOf(o, kernels)
<1>0. q = Kept(l, K)
  BY DEF TablesOf, StatsOrderList
<1>1. s \in Seq(Supported) /\ \A p \in Supported : \E i \in 1 .. Len(s) : s[i] = p
  <2>1. Entered(o) \in Seq(Supported)
    BY EnteredTables
  <2>2. \A i \in 1 .. Len(DefaultOrder) :
           i + Len(Entered(o)) \in 1 .. Len(s) /\ s[i + Len(Entered(o))] = DefaultOrder[i]
    BY <2>1, DefaultTables
  <2>3. s \in Seq(Supported)
    BY <2>1, DefaultTables
  <2>4. ASSUME NEW p \in Supported PROVE \E i \in 1 .. Len(s) : s[i] = p
    <3>1. PICK i \in 1 .. Len(DefaultOrder) : DefaultOrder[i] = p
      BY DefaultTables
    <3>2. i + Len(Entered(o)) \in 1 .. Len(s) /\ s[i + Len(Entered(o))] = p
      BY <2>2, <3>1
    <3> QED BY <3>2
  <2> QED BY <2>3, <2>4
<1> HIDE DEF s, q
<1>2. l \in Seq(Supported)
  BY <1>1, FirstPicks
<1>3. PICK f : /\ \A i \in 1 .. Len(l) :
                     /\ f[i] \in 1 .. Len(s) /\ l[i] = s[f[i]]
                     /\ \A j \in 1 .. Len(s) : s[j] = s[f[i]] => f[i] <= j
               /\ \A i, j \in 1 .. Len(l) : i < j => f[i] < f[j]
               /\ \A k \in 1 .. Len(s) : \E i \in 1 .. Len(l) : l[i] = s[k]
  BY <1>1, FirstPicks
<1>4. DOMAIN l = 1 .. Len(l) /\ Len(l) \in Nat
  BY <1>2
<1> HIDE DEF l, K
<1>5. PICK p : Picks(p, q, Supported, l, K, Len(l))
  BY <1>0, <1>2, KeptPicks
<1>6. /\ q \in Seq(Supported) /\ Len(q) = Len(p) /\ Len(q) \in Nat
      /\ \A i \in 1 .. Len(q) : p[i] \in K /\ p[i] \in 1 .. Len(l) /\ q[i] = l[p[i]]
      /\ \A i, j \in 1 .. Len(q) : i < j => p[i] < p[j]
      /\ \A k \in 1 .. Len(l) : k \in K => \E i \in 1 .. Len(q) : p[i] = k
  BY <1>5 DEF Picks
<1>7. \A i \in 1 .. Len(q) : ~Skipped(kernels, q[i])
  BY <1>6 DEF K
<1>8. ASSUME NEW t \in Supported, ~Skipped(kernels, t) PROVE \E i \in 1 .. Len(q) : q[i] = t
  <2>1. PICK j \in 1 .. Len(s) : s[j] = t
    BY <1>1
  <2>2. PICK k \in 1 .. Len(l) : l[k] = t
    BY <1>3, <2>1
  <2>3. k \in K
    BY <1>4, <1>8, <2>2 DEF K
  <2>4. PICK i \in 1 .. Len(q) : p[i] = k
    BY <1>6, <2>3
  <2>5. q[i] = t
    BY <1>6, <2>2, <2>4
  <2> QED BY <2>5
<1> DEFINE a == [i \in 1 .. Len(q) |-> f[p[i]]]
<1>9. \A i \in 1 .. Len(q) : a[i] = f[p[i]]
  OBVIOUS
<1> HIDE DEF a
<1>10. ASSUME NEW i \in 1 .. Len(q)
       PROVE  /\ a[i] \in 1 .. Len(s) /\ q[i] = s[a[i]]
              /\ \A j \in 1 .. Len(s) : s[j] = q[i] => a[i] <= j
  <2>1. p[i] \in 1 .. Len(l) /\ q[i] = l[p[i]] /\ a[i] = f[p[i]]
    BY <1>6, <1>9
  <2> QED BY <1>3, <2>1
<1>11. ASSUME NEW i \in 1 .. Len(q), NEW j \in 1 .. Len(q), i < j PROVE a[i] < a[j]
  <2>1. p[i] \in 1 .. Len(l) /\ p[j] \in 1 .. Len(l) /\ p[i] < p[j]
    BY <1>6, <1>11
  <2> QED BY <1>3, <1>9, <2>1
<1>12. FirstPlaces(a, q, s)
  BY <1>10, <1>11 DEF FirstPlaces
<1> QED BY <1>6, <1>7, <1>8, <1>12 DEF q, s

\* t has every table once, the wanted ones first.
OnceEach(t) ==
    LET pairs == t.pairs
        wanted == {p \in Pair : /\ p.category # "Host" => p.metric \notin HostMetrics
                                /\ p.category = "Kernel" => t.kernels}
        mentions(p) == {k \in DOMAIN t.custom : t.custom[k] = p}
        before(p, q) == \E k \in mentions(p) : \A l \in mentions(q) : k < l
    IN  /\ Range(pairs) = wanted
        /\ Len(pairs) = Cardinality(wanted)
        /\ \A i, j \in DOMAIN pairs :
              i < j /\ mentions(pairs[j]) # {} => before(pairs[i], pairs[j])

\* This is what AllTablesOnce says of the tables that a valid order gives.
LEMMA TablesOnce ==
    ASSUME NEW t, t.custom \in Orders, Valid(t.custom), t.kernels \in BOOLEAN,
           t.pairs = TablesOf(t.custom, t.kernels)
    PROVE  OnceEach(t)
<1> DEFINE o == t.custom
           kernels == t.kernels
           E == Entered(o)
           L == E \o DefaultOrder
           q == t.pairs
           wanted == {p \in Pair : /\ p.category # "Host" => p.metric \notin HostMetrics
                                   /\ p.category = "Kernel" => t.kernels}
           mentions(p) == {k \in DOMAIN t.custom : t.custom[k] = p}
<1>1. E \in Seq(Supported)
  BY EnteredTables
<1>2. PICK e : /\ \A i \in 1 .. Len(E) : e[i] \in DOMAIN o /\ E[i] = o[e[i]]
               /\ \A i, j \in 1 .. Len(E) : i < j => e[i] < e[j]
               /\ \A k \in DOMAIN o : o[k] # None => \E i \in 1 .. Len(E) : e[i] = k
  BY EnteredTables
<1>3. /\ q \in Seq(Supported)
      /\ \A i \in 1 .. Len(q) : ~Skipped(kernels, q[i])
      /\ \A p \in Supported : ~Skipped(kernels, p) => \E i \in 1 .. Len(q) : q[i] = p
  BY TablesPicks
<1>0. \E a : FirstPlaces(a, q, L)
  BY TablesPicks
<1> PICK a : FirstPlaces(a, q, L)
  BY <1>0
<1>4. /\ \A i \in 1 .. Len(q) :
            /\ a[i] \in 1 .. Len(L) /\ q[i] = L[a[i]]
            /\ \A j \in 1 .. Len(L) : L[j] = q[i] => a[i] <= j
      /\ \A i, j \in 1 .. Len(q) : i < j => a[i] < a[j]
  BY DEF FirstPlaces
<1> HIDE DEF E
<1>5. Len(E) \in Nat /\ Len(L) \in Nat
      /\ \A i \in 1 .. Len(E) : i \in 1 .. Len(L) /\ L[i] = E[i]
  BY <1>1, DefaultTables
<1> HIDE DEF L, q
<1>6. DOMAIN q = 1 .. Len(q) /\ Len(q) \in Nat
  BY <1>3
<1>7. wanted = {p \in Supported : ~Skipped(kernels, p)}
  BY DEF Supported, Unsupported, Skipped
<1> HIDE DEF wanted
<1>8. Range(q) = wanted
  <2>1. \A i \in 1 .. Len(q) : q[i] \in wanted
    BY <1>3, <1>7
  <2>2. \A p \in wanted : \E i \in 1 .. Len(q) : q[i] = p
    BY <1>3, <1>7
  <2> QED BY <1>6, <2>1, <2>2 DEF Range
<1>9. ASSUME NEW i \in 1 .. Len(q), NEW j \in 1 .. Len(q), q[i] = q[j] PROVE i = j
  <2>0. a[i] \in 1 .. Len(L) /\ a[j] \in 1 .. Len(L) /\ L[a[i]] = q[j] /\ L[a[j]] = q[i]
    BY <1>4, <1>9
  <2>1. a[i] \in Nat /\ a[j] \in Nat /\ a[i] <= a[j] /\ a[j] <= a[i]
    BY <1>4, <1>5, <2>0
  <2>2. ~(i < j) /\ ~(j < i)
    BY <1>4, <2>1
  <2> QED BY <2>2
<1>10. Len(q) = Cardinality(wanted)
  <2> DEFINE m == Len(q)
  <2>1. q \in [1 .. m -> wanted] /\ \A p \in wanted : \E i \in 1 .. m : q[i] = p
    BY <1>3, <1>6, <1>7
  <2>2. q \in Bijection(1 .. m, wanted)
    BY <1>9, <2>1 DEF Bijection, Injection, Surjection, IsInjective
  <2>3. ExistsBijection(1 .. m, wanted)
    BY <2>2 DEF ExistsBijection
  <2>4. IsFiniteSet(1 .. m) /\ Cardinality(1 .. m) = m
    <3>1. m \in Nat
      BY <1>6
    <3> HIDE DEF m
    <3> QED BY <3>1, Positions
  <2> QED BY <2>3, <2>4, FS_Bijection
<1>11. ASSUME NEW i \in 1 .. Len(q), NEW j \in 1 .. Len(q), i < j, mentions(q[j]) # {}
       PROVE  \E k \in mentions(q[i]) : \A l \in mentions(q[j]) : k < l
  <2>1. ASSUME NEW l \in mentions(q[j])
        PROVE  \E n \in 1 .. Len(E) : e[n] = l /\ a[j] <= n
    <3>1. l \in DOMAIN o /\ o[l] = q[j]
      OBVIOUS
    <3>2. o[l] # None
      BY <1>3, <3>1, OrderAssumption DEF Supported
    <3>3. PICK n \in 1 .. Len(E) : e[n] = l
      BY <1>2, <3>1, <3>2
    <3>4. n \in 1 .. Len(L) /\ L[n] = q[j]
      BY <1>2, <1>5, <3>1, <3>3
    <3> QED BY <1>4, <3>3, <3>4
  <2>2. a[i] < a[j] /\ a[i] \in 1 .. Len(L) /\ a[j] \in 1 .. Len(L)
    BY <1>4, <1>11
  <2>3. a[i] \in 1 .. Len(E)
    <3>1. PICK l : l \in mentions(q[j])
      BY <1>11
    <3>2. PICK n \in 1 .. Len(E) : a[j] <= n
      BY <2>1, <3>1
    <3> QED BY <1>5, <2>2, <3>2
  <2>4. e[a[i]] \in mentions(q[i])
    BY <1>2, <1>4, <1>5, <2>3
  <2>5. ASSUME NEW l \in mentions(q[j]) PROVE e[a[i]] < l
    <3>1. PICK n \in 1 .. Len(E) : e[n] = l /\ a[j] <= n
      BY <2>1
    <3>2. a[i] < n
      BY <1>5, <2>2, <3>1
    <3> QED BY <1>2, <2>3, <3>1, <3>2
  <2> QED BY <2>4, <2>5
<1> QED BY <1>6, <1>8, <1>10, <1>11 DEF OnceEach, q, wanted

\* The list of tables is that of a valid order.
TablesInv ==
    pc = "all" => \E o \in Orders, k \in BOOLEAN :
        Valid(o) /\ tables = [kernels |-> k, custom |-> o, pairs |-> TablesOf(o, k)]

\* Only BeginAll makes the list, and nothing comes after it.
LEMMA TablesStep == TablesInv /\ [Next]_vars => TablesInv'
<1> SUFFICES ASSUME TablesInv, [Next]_vars PROVE TablesInv'
  OBVIOUS
<1>1. CASE ReadStep
  BY <1>1 DEF TablesInv, ReadStep, OpenFile, ReadLine, FilesRead, LoadRow, RowsLoaded
<1>2. ASSUME NEW o \in Orders, NEW k \in BOOLEAN, BeginAll(o, k) PROVE TablesInv'
  BY <1>2 DEF TablesInv, BeginAll
<1>3. CASE \/ \E r \in Requests : Begin(r)
           \/ \E n \in Host \cup Kernel \cup Names \cup Majors : TakeKey(n)
           \/ Sort \/ AddRow \/ Rendered \/ Tick
  BY <1>3 DEF TablesInv, Begin, TakeKey, Sort, AddRow, Rendered, Tick
<1>4. CASE UNCHANGED vars
  BY <1>4 DEF TablesInv, vars, tableVars
<1>5. Next => ReadStep \/ TableStep
  BY DEF Next, ReadStep, TableStep, Requests
<1> QED BY <1>1, <1>2, <1>3, <1>4, <1>5 DEF TableStep

\* The list gives every table once.
LEMMA ListedOnce == TablesInv => AllTablesOnce
<1> SUFFICES ASSUME TablesInv, pc = "all" PROVE AllTablesOnce
  BY DEF AllTablesOnce
<1>1. PICK o \in Orders, k \in BOOLEAN :
         Valid(o) /\ tables = [kernels |-> k, custom |-> o, pairs |-> TablesOf(o, k)]
  BY DEF TablesInv
<1>2. tables.kernels = k /\ tables.custom = o /\ tables.pairs = TablesOf(o, k)
  BY <1>1
<1>3. OnceEach(tables)
  BY <1>1, <1>2, TablesOnce
<1> QED BY <1>3 DEF AllTablesOnce, OnceEach

\* However long a valid -stats-order is and however often it names a table: -all gives
\* every table once, those of the order first and in the order of their first names.
THEOREM EveryTableOnce == Spec => []AllTablesOnce
<1>1. Init => TablesInv
  BY DEF Init, TablesInv
<1> QED BY <1>1, TablesStep, ListedOnce, PTL DEF Spec
=============================================================================
