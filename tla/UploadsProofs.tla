--------------------------- MODULE UploadsProofs ---------------------------
(***************************************************************************)
(* The safety properties of Uploads, for every set of hosts, kinds,        *)
(* bodies, keys, requests and temps.  None of them is inductive alone: they *)
(* are conjuncts of the invariant IInv below, whose other conjuncts say what *)
(* a handler knows at each stage about its own job and its own temp.       *)
(***************************************************************************)
EXTENDS Uploads, TLAPS

HoldsTemp == {"mask", "unmask", "chmod", "copy", "rename"}

\* A handler has a job while it runs, and a temp exactly at the stages between
\* CreateTemp and Rename.
StageInv ==
    \A r \in Req :
        /\ pc[r] = "idle" <=> job[r] = None
        /\ pc[r] \in HoldsTemp <=> tmp[r] # None

\* The temps in the directory, the handlers that hold them and the orphans.
TempInv ==
    /\ \A r \in Req : tmp[r] # None => temps[tmp[r]] # None /\ tmp[r] \notin orphans
    /\ \A r, s \in Req : tmp[r] # None /\ tmp[r] = tmp[s] => r = s
    /\ \A t \in orphans : temps[t] # None
    /\ \A t \in Temp : temps[t] # None => t \in orphans \/ \E r \in Req : tmp[r] = t

\* What a handler has written so far.
ContentInv ==
    \A r \in Req :
        /\ pc[r] = "class" => job[r].kind = ClassKind
        /\ pc[r] \in HoldsTemp \cup {"create", "reply"} /\ job[r].kind = ClassKind
              => ClassOf[job[r].body] = job[r].body
        /\ pc[r] \in HoldsTemp => temps[tmp[r]].body = job[r].body
        /\ pc[r] = "rename" => temps[tmp[r]].whole = (job[r].body \notin Huge)

\* The umask can only have been cleared too long, never tightened.
ModeInv ==
    /\ umask \subseteq InitUmask
    /\ \A r \in Req :
          /\ mask[r] \subseteq InitUmask
          /\ pc[r] \in {"copy", "rename"}
                => Perms \ InitUmask \subseteq temps[tmp[r]].mode

\* Keys are only added or replaced by fresh ones, so the host of a request has
\* a key if it had one on arrival, and a token that is current was so then.
KeyInv ==
    /\ \A h \in Host : keys[h] \in issued \cup {None}
    /\ \A r \in Req : pc[r] # "idle" =>
          /\ \A h \in Host : arrival[r][h] # None => keys[h] # None
          /\ job[r].cred \in issued \cup {None, Bogus}
          /\ job[r].cred # None /\ job[r].cred = keys[job[r].host]
                => job[r].cred = arrival[r][job[r].host]
          /\ pc[r] = "verify" => job[r].cred # None

TempPart == TypeOK /\ StageInv /\ TempInv

USE DEF Cred, Job, File, Codes, NoAnswer, Stages, HoldsTemp, Matches, Open, Invalid,
        Canonical, Free, ModeFor, Abortable, ClientStep, ServerStep

\* The endpoint starts with its types, no handler and no temp.
LEMMA TypeInit == Init => TempPart
<1> USE NoneAssumption, FlagAssumption, ModeAssumption
<1>1. Init => TypeOK
  BY DEF Init, TypeOK, NoKeys
<1>2. Init => StageInv
  BY DEF Init, StageInv
<1>3. Init => TempInv
  BY DEF Init, TempInv
<1> QED BY <1>1, <1>2, <1>3 DEF TempPart


HandlerTypes ==
    /\ pc \in [Req -> Stages]
    /\ job \in [Req -> Job \cup {None}]
    /\ tmp \in [Req -> Temp \cup {None}]
    /\ mask \in [Req -> SUBSET Perms]
    /\ answer \in [Req -> Codes \cup {NoAnswer}]
    /\ arrival \in [Req -> [Host -> Token \cup {None}]]

\* A handler that ends leaves its variables with their types.
LEMMA FinishTypes ==
    ASSUME NEW r \in Req, NEW code \in Codes, HandlerTypes, Finish(r, code)
    PROVE  HandlerTypes'
  BY DEF HandlerTypes, Finish, NoKeys

\* removeOwnTemp leaves files or nothing under the temporary names, whether or
\* not os.Remove succeeds.
LEMMA RemoveTypes ==
    ASSUME NEW r \in Req, TypeOK,
           RemoveOwnTemp(r) \/ (temps' = WithoutOwnTemp(r) /\ UNCHANGED orphans)
    PROVE  temps' \in [Temp -> File \cup {None}] /\ orphans' \subseteq Temp
<1>1. WithoutOwnTemp(r) \in [Temp -> File \cup {None}]
  BY DEF TypeOK, WithoutOwnTemp
<1>2. CASE temps' = WithoutOwnTemp(r) /\ UNCHANGED orphans
  BY <1>1, <1>2 DEF TypeOK
<1>3. CASE tmp[r] # None /\ orphans' = orphans \cup {tmp[r]} /\ UNCHANGED temps
  BY <1>3 DEF TypeOK
<1> QED BY <1>2, <1>3 DEF RemoveOwnTemp

\* A handler whose classification parses still has a job afterwards.
LEMMA CanonicalJob ==
    ASSUME NEW r \in Req, TypeOK, StageInv, pc[r] = "class",
           ClassOf[job[r].body] # None
    PROVE  [job[r] EXCEPT !.body = ClassOf[job[r].body]] \in Job
<1>1. job[r] \in Job
  BY DEF TypeOK, StageInv
<1>2. ClassOf[job[r].body] \in Body
  BY <1>1, BodyAssumption
<1> QED BY <1>1, <1>2

\* No step of a handler, of the operator or of a crash breaks a type.
LEMMA TypeStep == TempPart /\ [Next]_vars => TypeOK'
<1> SUFFICES ASSUME TypeOK, StageInv, TempInv, [Next]_vars PROVE TypeOK'
  BY DEF TempPart
<1> USE NoneAssumption, BodyAssumption, ModeAssumption
<1> USE DEF authVars, diskVars, Goto, FirstWriteStage, TypeOK
<1>h. HandlerTypes
  BY DEF HandlerTypes
<1>1. ASSUME NEW r \in Req, Receive(r) PROVE TypeOK'
  BY <1>1 DEF Receive
<1>2. ASSUME NEW r \in Req, RefuseMalformed(r) PROVE TypeOK'
  BY <1>2 DEF RefuseMalformed
<1>3. ASSUME NEW r \in Req, CountKeys(r) PROVE TypeOK'
  <2>1. CASE \E code \in Codes : Finish(r, code)
    <3>1. HandlerTypes'
      BY <2>1, <1>h, FinishTypes
    <3> QED BY <1>3, <3>1 DEF CountKeys, HandlerTypes
  <2>2. CASE /\ \E stage \in Stages : Goto(r, stage)
             /\ UNCHANGED <<job, tmp, mask, answer, arrival>>
    BY <1>3, <2>2 DEF CountKeys
  <2> QED BY <1>3, <2>1, <2>2 DEF CountKeys
<1>4. ASSUME NEW r \in Req, VerifyToken(r) PROVE TypeOK'
  <2>1. CASE \E code \in Codes : Finish(r, code)
    <3>1. HandlerTypes'
      BY <2>1, <1>h, FinishTypes
    <3> QED BY <1>4, <3>1 DEF VerifyToken, HandlerTypes
  <2>2. CASE /\ \E stage \in Stages : Goto(r, stage)
             /\ UNCHANGED <<job, tmp, mask, answer, arrival>>
    BY <1>4, <2>2 DEF VerifyToken
  <2> QED BY <1>4, <2>1, <2>2 DEF VerifyToken
<1>5. ASSUME NEW r \in Req, NEW code \in Codes, Finish(r, code),
             UNCHANGED <<authVars, files, umask>>,
             RemoveOwnTemp(r) \/ UNCHANGED <<temps, orphans>>
      PROVE  TypeOK'
  <2>1. HandlerTypes'
    BY <1>5, <1>h, FinishTypes
  <2>2. temps' \in [Temp -> File \cup {None}] /\ orphans' \subseteq Temp
    BY <1>5, RemoveTypes
  <2> QED BY <1>5, <2>1, <2>2 DEF HandlerTypes
<1>6. ASSUME NEW r \in Req, StoreError(r) \/ TooLarge(r) \/ Abort(r) \/ Reply(r)
      PROVE  TypeOK'
  BY <1>5, <1>6 DEF StoreError, TooLarge, Abort, Reply
<1>7. ASSUME NEW r \in Req, NormalizeClass(r) PROVE TypeOK'
  <2>1. CASE ClassOf[job[r].body] = None
    BY <1>5, <1>7, <2>1 DEF NormalizeClass
  <2>2. CASE ClassOf[job[r].body] # None
    <3>2. [job[r] EXCEPT !.body = ClassOf[job[r].body]] \in Job
      BY <1>7, <2>2, CanonicalJob DEF NormalizeClass
    <3>3. job' = [job EXCEPT ![r] = [job[r] EXCEPT !.body = ClassOf[job[r].body]]]
      BY <1>7, <2>2 DEF NormalizeClass
    <3>4. job' \in [Req -> Job \cup {None}]
      BY <3>2, <3>3
    <3> QED BY <1>7, <2>2, <3>4 DEF NormalizeClass
  <2> QED BY <2>1, <2>2
<1>8. ASSUME NEW r \in Req, CreateTemp(r) PROVE TypeOK'
  <2>1. job[r] \in Job
    BY <1>8 DEF CreateTemp, StageInv
  <2> QED BY <1>8, <2>1 DEF CreateTemp
<1>9. ASSUME NEW r \in Req, ClearUmask(r) \/ RestoreUmask(r) PROVE TypeOK'
  <2>1. mask[r] \in SUBSET Perms
    OBVIOUS
  <2>2. CASE ClearUmask(r)
    BY <2>2 DEF ClearUmask
  <2>3. CASE RestoreUmask(r)
    BY <2>1, <2>3 DEF RestoreUmask
  <2> QED BY <1>9, <2>2, <2>3
<1>10. ASSUME NEW r \in Req, Chmod(r) PROVE TypeOK'
  <2>1. tmp[r] \in Temp /\ Perms \ mask[r] \in SUBSET Perms
    BY <1>10 DEF Chmod, StageInv
  <2>2. [temps[tmp[r]] EXCEPT !.mode = Perms \ mask[r]] \in File
    <3>1. temps[tmp[r]] \in File
      BY <2>1 DEF TempInv
    <3> QED BY <2>1, <3>1
  <2>3. temps' \in [Temp -> File \cup {None}]
    BY <1>10, <2>1, <2>2 DEF Chmod
  <2> QED BY <1>10, <2>3 DEF Chmod
<1>11. ASSUME NEW r \in Req, Copy(r) PROVE TypeOK'
  <2>1. tmp[r] \in Temp
    BY <1>11 DEF Copy, StageInv
  <2>2. temps[tmp[r]] \in File
    BY <2>1 DEF TempInv
  <2>3. [temps[tmp[r]] EXCEPT !.whole = (job[r].body \notin Huge)] \in File
    BY <2>2
  <2> QED BY <1>11, <2>1, <2>3 DEF Copy
<1>12. ASSUME NEW r \in Req, Rename(r) PROVE TypeOK'
  <2>1. temps' \in [Temp -> File \cup {None}]
    BY <1>12, RemoveTypes DEF Rename
  <2> QED BY <1>12, <2>1 DEF Rename, StageInv
<1>13. ASSUME NEW h \in Host, CreateKey(h) PROVE TypeOK'
  BY <1>13 DEF CreateKey
<1>14. CASE Crash
  BY <1>14, FlagAssumption DEF Crash, LiveTemps, NoKeys
<1>15. CASE UNCHANGED vars
  BY <1>15 DEF vars
<1> QED
  BY <1>1, <1>2, <1>3, <1>4, <1>6, <1>7, <1>8, <1>9, <1>10, <1>11, <1>12,
     <1>13, <1>14, <1>15 DEF Next, Handle
\* The stages of a handler and its local variables.
LEMMA StageStep == TempPart /\ [Next]_vars => StageInv'
<1> SUFFICES ASSUME TypeOK, StageInv, [Next]_vars PROVE StageInv'
  BY DEF TempPart
<1> USE NoneAssumption
<1> USE DEF authVars, diskVars, Goto, FirstWriteStage, TypeOK, StageInv
<1>1. ASSUME NEW r \in Req, Receive(r) PROVE StageInv'
  BY <1>1 DEF Receive
<1>2. ASSUME NEW r \in Req, RefuseMalformed(r) PROVE StageInv'
  BY <1>2 DEF RefuseMalformed
<1>3. ASSUME NEW r \in Req, NEW code \in Codes, Finish(r, code) PROVE StageInv'
  BY <1>3 DEF Finish
<1>4. ASSUME NEW r \in Req, CountKeys(r) PROVE StageInv'
  <2>1. CASE \E code \in Codes : Finish(r, code)
    BY <1>3, <2>1
  <2>2. CASE /\ \E stage \in {"verify", "class", "create"} : Goto(r, stage)
             /\ UNCHANGED <<job, tmp>>
    BY <1>4, <2>2 DEF CountKeys
  <2> QED BY <1>4, <2>1, <2>2 DEF CountKeys
<1>5. ASSUME NEW r \in Req, VerifyToken(r) PROVE StageInv'
  <2>1. CASE \E code \in Codes : Finish(r, code)
    BY <1>3, <2>1
  <2>2. CASE /\ \E stage \in {"class", "create"} : Goto(r, stage)
             /\ UNCHANGED <<job, tmp>>
    BY <1>5, <2>2 DEF VerifyToken
  <2> QED BY <1>5, <2>1, <2>2 DEF VerifyToken
<1>6. ASSUME NEW r \in Req, StoreError(r) \/ TooLarge(r) \/ Abort(r) \/ Reply(r)
      PROVE  StageInv'
  BY <1>3, <1>6 DEF StoreError, TooLarge, Abort, Reply
<1>7. ASSUME NEW r \in Req, NormalizeClass(r) PROVE StageInv'
  <2>1. CASE ClassOf[job[r].body] = None
    BY <1>3, <1>7, <2>1 DEF NormalizeClass
  <2>2. CASE ClassOf[job[r].body] # None
    <3>1. [job[r] EXCEPT !.body = ClassOf[job[r].body]] \in Job
      BY <1>7, <2>2, CanonicalJob DEF NormalizeClass
    <3> QED BY <1>7, <2>2, <3>1 DEF NormalizeClass
  <2> QED BY <2>1, <2>2
<1>8. ASSUME NEW r \in Req, CreateTemp(r) PROVE StageInv'
  BY <1>8 DEF CreateTemp
<1>9. ASSUME NEW r \in Req,
             ClearUmask(r) \/ RestoreUmask(r) \/ Chmod(r) \/ Copy(r)
      PROVE  StageInv'
  BY <1>9 DEF ClearUmask, RestoreUmask, Chmod, Copy
<1>10. ASSUME NEW r \in Req, Rename(r) PROVE StageInv'
  BY <1>10 DEF Rename
<1>11. ASSUME NEW h \in Host, CreateKey(h) PROVE StageInv'
  BY <1>11 DEF CreateKey
<1>12. CASE Crash
  BY <1>12 DEF Crash
<1>13. CASE UNCHANGED vars
  BY <1>13 DEF vars
<1> QED
  BY <1>1, <1>2, <1>4, <1>5, <1>6, <1>7, <1>8, <1>9, <1>10, <1>11, <1>12, <1>13
  DEF Next, Handle

\* The steps that neither create nor remove a temp.
LEMMA TempFrame ==
    ASSUME TempInv, UNCHANGED <<tmp, orphans>>,
           \A t \in Temp : temps'[t] = None <=> temps[t] = None,
           TypeOK
    PROVE  TempInv'
  BY NoneAssumption DEF TempInv, TypeOK

\* A handler lets go of its temp, which disappears from the directory.
LEMMA TempRelease ==
    ASSUME TempInv, TypeOK, NEW r \in Req, UNCHANGED orphans,
           tmp' = [tmp EXCEPT ![r] = None],
           temps' = WithoutOwnTemp(r) \/ (UNCHANGED temps /\ tmp[r] = None)
    PROVE  TempInv'
<1> USE NoneAssumption DEF TypeOK
<1>1. temps' = [t \in Temp |-> IF t = tmp[r] THEN None ELSE temps[t]]
  BY DEF WithoutOwnTemp
<1>2. \A s \in Req : tmp'[s] # None => tmp'[s] = tmp[s] /\ tmp[s] # tmp[r]
  BY DEF TempInv
<1>3. \A s \in Req : tmp'[s] # None => temps'[tmp'[s]] # None /\ tmp'[s] \notin orphans
  BY <1>1, <1>2 DEF TempInv
<1>4. \A t \in orphans : temps'[t] # None
  BY <1>1 DEF TempInv
<1>5. \A t \in Temp : temps'[t] # None => t \in orphans \/ \E s \in Req : tmp'[s] = t
  BY <1>1 DEF TempInv
<1> QED BY <1>2, <1>3, <1>4, <1>5 DEF TempInv

\* A handler lets go of its temp, which os.Remove fails to remove.
LEMMA TempAbandon ==
    ASSUME TempInv, TypeOK, NEW r \in Req, tmp[r] # None, UNCHANGED temps,
           tmp' = [tmp EXCEPT ![r] = None], orphans' = orphans \cup {tmp[r]}
    PROVE  TempInv'
<1> USE NoneAssumption DEF TypeOK
<1>1. \A s \in Req : tmp'[s] # None => tmp'[s] = tmp[s] /\ tmp[s] # tmp[r]
  BY DEF TempInv
<1>2. \A s \in Req : tmp'[s] # None => temps'[tmp'[s]] # None /\ tmp'[s] \notin orphans'
  BY <1>1 DEF TempInv
<1>3. \A t \in orphans' : temps'[t] # None
  BY DEF TempInv
<1>4. \A t \in Temp : temps'[t] # None => t \in orphans' \/ \E s \in Req : tmp'[s] = t
  BY DEF TempInv
<1> QED BY <1>1, <1>2, <1>3, <1>4 DEF TempInv

\* CreateTemp takes a free name and every exit removes it, so temps have one
\* owner each.
LEMMA TempStep == TempPart /\ [Next]_vars => TempInv'
<1> SUFFICES ASSUME TypeOK, StageInv, TempInv, [Next]_vars PROVE TempInv'
  BY DEF TempPart
<1> USE NoneAssumption DEF authVars, diskVars, Goto
<1>1. ASSUME UNCHANGED <<tmp, temps, orphans>> PROVE TempInv'
  BY <1>1 DEF TempInv
<1>2. ASSUME NEW r \in Req,
             \/ Receive(r) \/ RefuseMalformed(r)
             \/ ClearUmask(r) \/ RestoreUmask(r)
      PROVE  TempInv'
  BY <1>1, <1>2 DEF Receive, RefuseMalformed, ClearUmask, RestoreUmask
<1>3. ASSUME NEW r \in Req, NEW code \in Codes, Finish(r, code),
             UNCHANGED <<temps, orphans>>, tmp[r] = None
      PROVE  TempInv'
  BY <1>3, TempRelease DEF Finish
<1>4. ASSUME NEW r \in Req, CountKeys(r) \/ VerifyToken(r) \/ StoreError(r) \/
                            NormalizeClass(r) \/ Reply(r)
      PROVE  TempInv'
  <2>1. tmp[r] = None
    BY <1>4 DEF StageInv, CountKeys, VerifyToken, StoreError, NormalizeClass, Reply
  <2> QED BY <1>1, <1>3, <1>4, <2>1
          DEF CountKeys, VerifyToken, StoreError, NormalizeClass, Reply
<1>5. ASSUME NEW r \in Req, CreateTemp(r) PROVE TempInv'
  <2>1. PICK t \in Temp :
          /\ temps[t] = None
          /\ temps' = [temps EXCEPT ![t] =
                          [body |-> job[r].body, whole |-> FALSE, mode |-> {}]]
          /\ tmp' = [tmp EXCEPT ![r] = t]
    BY <1>5 DEF CreateTemp
  <2>2. UNCHANGED orphans
    BY <1>5 DEF CreateTemp
  <2>3. tmp[r] = None
    BY <1>5 DEF CreateTemp, StageInv
  <2>4. job[r] \in Job
    BY <1>5 DEF CreateTemp, StageInv, TypeOK
  <2>5. [body |-> job[r].body, whole |-> FALSE, mode |-> {}] \in File
    BY <2>4
  <2>6. temps'[t] # None /\ tmp'[r] = t /\ t \notin orphans
    <3>1. temps'[t] \in File
      BY <2>1, <2>5 DEF TypeOK
    <3>2. tmp'[r] = t
      BY <2>1 DEF TypeOK
    <3>3. t \notin orphans
      BY <2>1 DEF TempInv
    <3> QED BY <3>1, <3>2, <3>3
  <2>7. \A s \in Req : tmp[s] # None => tmp[s] # t
    BY <2>1 DEF TempInv
  <2>8. \A s \in Req : s # r => tmp'[s] = tmp[s]
    BY <2>1 DEF TypeOK
  <2>9. \A u \in Temp : u # t => temps'[u] = temps[u]
    BY <2>1 DEF TypeOK
  <2>10. \A s \in Req : tmp'[s] # None => temps'[tmp'[s]] # None /\ tmp'[s] \notin orphans
    BY <2>6, <2>7, <2>8, <2>9 DEF TypeOK, TempInv
  <2>11. \A s, q \in Req : tmp'[s] # None /\ tmp'[s] = tmp'[q] => s = q
    BY <2>6, <2>7, <2>8 DEF TempInv
  <2>12. \A u \in orphans : temps'[u] # None
    BY <2>1, <2>9 DEF TempInv, TypeOK
  <2>13. \A u \in Temp : temps'[u] # None => u \in orphans \/ \E s \in Req : tmp'[s] = u
    BY <2>3, <2>6, <2>8, <2>9 DEF TempInv
  <2> QED BY <2>2, <2>10, <2>11, <2>12, <2>13 DEF TempInv
<1>6. ASSUME NEW r \in Req, Chmod(r) \/ Copy(r) PROVE TempInv'
  <2>1. tmp[r] \in Temp /\ temps[tmp[r]] # None
    BY <1>6 DEF Chmod, Copy, StageInv, TempInv, TypeOK
  <2>3. \E f \in File : temps' = [temps EXCEPT ![tmp[r]] = f]
    <3>1. temps[tmp[r]] \in File
      BY <2>1 DEF TypeOK
    <3>2. mask[r] \in SUBSET Perms
      BY DEF TypeOK
    <3>3. /\ [temps[tmp[r]] EXCEPT !.mode = Perms \ mask[r]] \in File
          /\ [temps[tmp[r]] EXCEPT !.whole = (job[r].body \notin Huge)] \in File
      BY <3>1, <3>2
    <3> QED BY <1>6, <3>3 DEF Chmod, Copy
  <2>4. UNCHANGED <<tmp, orphans>>
    BY <1>6 DEF Chmod, Copy
  <2> QED BY <2>1, <2>3, <2>4, TempFrame DEF TypeOK
<1>7. ASSUME NEW r \in Req, TooLarge(r) \/ Abort(r) PROVE TempInv'
  <2>1. tmp' = [tmp EXCEPT ![r] = None] /\ RemoveOwnTemp(r)
    BY <1>7 DEF TooLarge, Abort, Finish
  <2> QED BY <2>1, TempRelease, TempAbandon DEF RemoveOwnTemp
<1>8. ASSUME NEW r \in Req, Rename(r) PROVE TempInv'
  BY <1>8, TempRelease DEF Rename
<1>9. ASSUME NEW h \in Host, CreateKey(h) PROVE TempInv'
  BY <1>1, <1>9 DEF CreateKey
<1>10. CASE Crash
  BY <1>10 DEF Crash, LiveTemps, TempInv
<1>11. CASE UNCHANGED vars
  BY <1>1, <1>11 DEF vars
<1> QED
  BY <1>2, <1>4, <1>5, <1>6, <1>7, <1>8, <1>9, <1>10, <1>11 DEF Next, Handle

\* Types, stages and temps together are inductive.
LEMMA TempPartStep == TempPart /\ [Next]_vars => TempPart'
  BY TypeStep, StageStep, TempStep DEF TempPart

\* A step of one handler leaves the others alone: their stage, their local
\* variables and the temp they hold.
SameHandler(s) ==
    /\ pc'[s] = pc[s]
    /\ job'[s] = job[s]
    /\ tmp'[s] = tmp[s]
    /\ mask'[s] = mask[s]
    /\ arrival'[s] = arrival[s]
    /\ answer'[s] = answer[s]

SameTemp(s) == tmp[s] # None => temps'[tmp[s]] = temps[tmp[s]]

\* A step of one handler leaves the local variables of the others alone.
LEMMA OneHandler ==
    ASSUME TempPart, NEW r \in Req, Receive(r) \/ RefuseMalformed(r) \/ Handle(r),
           NEW s \in Req, s # r
    PROVE  SameHandler(s)
<1> USE DEF TempPart, TypeOK, SameHandler, Goto
<1>1. ASSUME NEW code, Finish(r, code) PROVE SameHandler(s)
  BY <1>1 DEF Finish
<1>2. CASE Receive(r) \/ RefuseMalformed(r)
  BY <1>2 DEF Receive, RefuseMalformed
<1>3. CASE CountKeys(r) \/ VerifyToken(r) \/ StoreError(r) \/ NormalizeClass(r)
  BY <1>1, <1>3 DEF CountKeys, VerifyToken, StoreError, NormalizeClass
<1>4. CASE CreateTemp(r) \/ ClearUmask(r) \/ RestoreUmask(r) \/ Chmod(r) \/ Copy(r)
  BY <1>4 DEF CreateTemp, ClearUmask, RestoreUmask, Chmod, Copy
<1>5. CASE TooLarge(r) \/ Rename(r) \/ Abort(r) \/ Reply(r)
  BY <1>1, <1>5 DEF TooLarge, Rename, Abort, Reply
<1> QED BY <1>2, <1>3, <1>4, <1>5 DEF Handle

\* A step of one handler leaves the temp of another as it is.
LEMMA OneTemp ==
    ASSUME TempPart, NEW r \in Req, Receive(r) \/ RefuseMalformed(r) \/ Handle(r),
           NEW s \in Req, s # r
    PROVE  SameTemp(s)
<1> SUFFICES ASSUME tmp[s] # None PROVE temps'[tmp[s]] = temps[tmp[s]]
  BY DEF SameTemp
<1>1. tmp[s] \in Temp /\ temps[tmp[s]] # None /\ tmp[s] # tmp[r]
  BY DEF TempPart, TempInv, TypeOK
<1>2. CASE UNCHANGED temps
  BY <1>2
<1>3. CASE RemoveOwnTemp(r) \/ temps' = WithoutOwnTemp(r)
  BY <1>1, <1>3 DEF RemoveOwnTemp, WithoutOwnTemp
<1>4. CASE CreateTemp(r)
  BY <1>1, <1>4 DEF CreateTemp, TempPart, TypeOK
<1>5. CASE Chmod(r) \/ Copy(r)
  BY <1>1, <1>5 DEF Chmod, Copy, TempPart, TypeOK
<1> QED
  BY <1>2, <1>3, <1>4, <1>5
  DEF Receive, RefuseMalformed, Handle, CountKeys, VerifyToken, StoreError,
      NormalizeClass, ClearUmask, RestoreUmask, TooLarge, Rename, Abort, Reply,
      diskVars

\* What a handler has written stays the body of its own request.
LEMMA ContentStep == TempPart /\ ContentInv /\ [Next]_vars => ContentInv'
<1> SUFFICES ASSUME TempPart, ContentInv, [Next]_vars PROVE ContentInv'
  OBVIOUS
<1> DEFINE Good(r) ==
      /\ pc[r] = "class" => job[r].kind = ClassKind
      /\ pc[r] \in HoldsTemp \cup {"create", "reply"} /\ job[r].kind = ClassKind
            => ClassOf[job[r].body] = job[r].body
      /\ pc[r] \in HoldsTemp => temps[tmp[r]].body = job[r].body
      /\ pc[r] = "rename" => temps[tmp[r]].whole = (job[r].body \notin Huge)
<1>1. ASSUME NEW r \in Req, Receive(r) \/ RefuseMalformed(r) \/ Handle(r)
      PROVE  Good(r)'
  <2> USE DEF TempPart, TypeOK, Goto, diskVars, ContentInv
  <2>1. ASSUME NEW code, Finish(r, code) PROVE Good(r)'
    BY <2>1 DEF Finish
  <2>2. CASE Receive(r) \/ RefuseMalformed(r)
    BY <2>2 DEF Receive, RefuseMalformed
  <2>3. CASE CountKeys(r) \/ VerifyToken(r)
    BY <2>1, <2>3 DEF CountKeys, VerifyToken, FirstWriteStage
  <2>4. CASE NormalizeClass(r)
    <3>1. CASE ClassOf[job[r].body] = None
      BY <2>1, <2>4, <3>1 DEF NormalizeClass
    <3>2. CASE ClassOf[job[r].body] # None
      <4>1. job[r] \in Job
        BY <2>4 DEF NormalizeClass, StageInv
      <4>2. ClassOf[ClassOf[job[r].body]] = ClassOf[job[r].body]
        BY <3>2, <4>1, ClassAssumption
      <4>3. pc'[r] = "create" /\ job'[r].body = ClassOf[job[r].body]
        BY <2>4, <3>2, <4>1 DEF NormalizeClass
      <4> QED BY <4>2, <4>3
    <3> QED BY <3>1, <3>2
  <2>5. CASE CreateTemp(r)
    BY <2>5 DEF CreateTemp
  <2>6. CASE ClearUmask(r) \/ RestoreUmask(r)
    BY <2>6 DEF ClearUmask, RestoreUmask
  <2>7. CASE Chmod(r)
    BY <2>7 DEF Chmod, StageInv, TempInv
  <2>8. CASE Copy(r)
    BY <2>8 DEF Copy, StageInv, TempInv
  <2>9. CASE Rename(r)
    BY <2>9 DEF Rename
  <2>10. CASE StoreError(r) \/ TooLarge(r) \/ Abort(r) \/ Reply(r)
    BY <2>1, <2>10 DEF StoreError, TooLarge, Abort, Reply
  <2> QED
    BY <1>1, <2>2, <2>3, <2>4, <2>5, <2>6, <2>7, <2>8, <2>9, <2>10 DEF Handle
<1>2. ASSUME NEW r \in Req, Receive(r) \/ RefuseMalformed(r) \/ Handle(r),
             NEW s \in Req, s # r
      PROVE  Good(s)'
  <2>1. SameHandler(s) /\ SameTemp(s) /\ Good(s)
    BY <1>2, OneHandler, OneTemp DEF ContentInv
  <2>2. pc[s] \in HoldsTemp => tmp[s] # None
    BY DEF TempPart, StageInv
  <2> QED BY <2>1, <2>2 DEF SameHandler, SameTemp
<1>3. ASSUME NEW h \in Host, CreateKey(h) PROVE ContentInv'
  BY <1>3 DEF CreateKey, diskVars, ContentInv
<1>4. CASE Crash
  BY <1>4 DEF Crash, ContentInv
<1>5. CASE UNCHANGED vars
  BY <1>5 DEF vars, diskVars, ContentInv
<1> QED BY <1>1, <1>2, <1>3, <1>4, <1>5 DEF Next, ContentInv

\* Umask and chmod of overlapping handlers never take permissions away.
LEMMA ModeStep == TempPart /\ ModeInv /\ [Next]_vars => ModeInv'
<1> SUFFICES ASSUME TempPart, ModeInv, [Next]_vars PROVE ModeInv'
  OBVIOUS
<1> DEFINE Good(r) ==
      /\ mask[r] \subseteq InitUmask
      /\ pc[r] \in {"copy", "rename"} => Perms \ InitUmask \subseteq temps[tmp[r]].mode
<1>1. ASSUME NEW r \in Req, Receive(r) \/ RefuseMalformed(r) \/ Handle(r)
      PROVE  (umask \subseteq InitUmask)' /\ Good(r)'
  <2> USE DEF TempPart, TypeOK, Goto, diskVars, ModeInv
  <2>1. ASSUME NEW code, Finish(r, code), UNCHANGED umask
        PROVE (umask \subseteq InitUmask)' /\ Good(r)'
    BY <2>1 DEF Finish
  <2>2. CASE Receive(r) \/ RefuseMalformed(r)
    BY <2>2 DEF Receive, RefuseMalformed
  <2>3. CASE CountKeys(r) \/ VerifyToken(r) \/ NormalizeClass(r)
    BY <2>1, <2>3 DEF CountKeys, VerifyToken, NormalizeClass, FirstWriteStage
  <2>4. CASE CreateTemp(r) \/ Rename(r)
    BY <2>4 DEF CreateTemp, Rename
  <2>5. CASE ClearUmask(r) \/ RestoreUmask(r)
    BY <2>5 DEF ClearUmask, RestoreUmask
  <2>6. CASE Chmod(r)
    BY <2>6 DEF Chmod, StageInv, TempInv
  <2>7. CASE Copy(r)
    BY <2>7 DEF Copy, StageInv, TempInv
  <2>8. CASE StoreError(r) \/ TooLarge(r) \/ Abort(r) \/ Reply(r)
    BY <2>1, <2>8 DEF StoreError, TooLarge, Abort, Reply
  <2> QED BY <1>1, <2>2, <2>3, <2>4, <2>5, <2>6, <2>7, <2>8 DEF Handle
<1>2. ASSUME NEW r \in Req, Receive(r) \/ RefuseMalformed(r) \/ Handle(r),
             NEW s \in Req, s # r
      PROVE  Good(s)'
  <2>1. SameHandler(s) /\ SameTemp(s) /\ Good(s)
    BY <1>2, OneHandler, OneTemp DEF ModeInv
  <2>2. pc[s] \in HoldsTemp => tmp[s] # None
    BY DEF TempPart, StageInv
  <2> QED BY <2>1, <2>2 DEF SameHandler, SameTemp
<1>3. ASSUME NEW h \in Host, CreateKey(h) PROVE ModeInv'
  BY <1>3 DEF CreateKey, diskVars, ModeInv
<1>4. CASE Crash
  BY <1>4 DEF Crash, ModeInv
<1>5. CASE UNCHANGED vars
  BY <1>5 DEF vars, diskVars, ModeInv
<1> QED BY <1>1, <1>2, <1>3, <1>4, <1>5 DEF Next, ModeInv

\* CreateKey only adds fresh keys, so what a request may do was so on arrival.
LEMMA KeyStep == TempPart /\ KeyInv /\ [Next]_vars => KeyInv'
<1> SUFFICES ASSUME TempPart, KeyInv, [Next]_vars PROVE KeyInv'
  OBVIOUS
<1> USE DEF TempPart, TypeOK, authVars
<1> DEFINE Good(r) ==
      pc[r] # "idle" =>
          /\ \A h \in Host : arrival[r][h] # None => keys[h] # None
          /\ job[r].cred \in issued \cup {None, Bogus}
          /\ job[r].cred # None /\ job[r].cred = keys[job[r].host]
                => job[r].cred = arrival[r][job[r].host]
          /\ pc[r] = "verify" => job[r].cred # None
<1>0. KeyInv <=> /\ \A h \in Host : keys[h] \in issued \cup {None}
                 /\ \A r \in Req : Good(r)
  BY DEF KeyInv
<1>1. ASSUME NEW r \in Req, Receive(r) \/ RefuseMalformed(r) \/ Handle(r)
      PROVE  UNCHANGED authVars
  BY <1>1
  DEF Receive, RefuseMalformed, Handle, CountKeys, VerifyToken, StoreError,
      NormalizeClass, CreateTemp, ClearUmask, RestoreUmask, Chmod, Copy, TooLarge,
      Rename, Abort, Reply
<1>2. ASSUME NEW r \in Req, Receive(r) \/ RefuseMalformed(r) \/ Handle(r)
      PROVE  Good(r)'
  <2>1. UNCHANGED <<keys, issued>> /\ Good(r)
    BY <1>0, <1>1, <1>2
  <2> USE DEF Goto
  <2>2. CASE \E code : Finish(r, code)
    BY <2>2 DEF Finish
  <2>3. CASE Receive(r)
    <3>1. PICK h \in Host, k \in Kind, b \in Body, c \in issued \cup {None, Bogus} :
            job' = [job EXCEPT ![r] = [host |-> h, kind |-> k, cred |-> c, body |-> b]]
      BY <2>3 DEF Receive
    <3>2. /\ job'[r].cred \in issued \cup {None, Bogus}
          /\ arrival'[r] = keys
          /\ pc'[r] = "count"
      BY <2>3, <3>1 DEF Receive
    <3> QED BY <2>1, <3>2
  <2>4. CASE /\ UNCHANGED <<job, arrival>>
             /\ \/ UNCHANGED pc
                \/ pc[r] # "idle" /\ (pc'[r] = "verify" => job[r].cred # None)
    BY <2>1, <2>4
  <2>5. CASE NormalizeClass(r)
    <3>1. job[r] \in Job
      BY <2>5 DEF NormalizeClass, StageInv
    <3>2. ClassOf[job[r].body] # None =>
            /\ job'[r].cred = job[r].cred
            /\ job'[r].host = job[r].host
            /\ arrival'[r] = arrival[r]
            /\ pc'[r] = "create"
      BY <2>5, <3>1 DEF NormalizeClass
    <3> QED BY <2>1, <2>2, <2>5, <3>2 DEF NormalizeClass
  <2>6. CASE CountKeys(r) \/ VerifyToken(r)
    BY <2>2, <2>4, <2>6 DEF CountKeys, VerifyToken, FirstWriteStage
  <2>7. CASE CreateTemp(r) \/ ClearUmask(r) \/ RestoreUmask(r) \/ Chmod(r)
             \/ Copy(r) \/ Rename(r)
    BY <2>4, <2>7 DEF CreateTemp, ClearUmask, RestoreUmask, Chmod, Copy, Rename
  <2>8. CASE StoreError(r) \/ TooLarge(r) \/ Abort(r) \/ Reply(r)
    BY <2>2, <2>8 DEF StoreError, TooLarge, Abort, Reply
  <2>9. CASE RefuseMalformed(r)
    BY <2>4, <2>9 DEF RefuseMalformed
  <2> QED BY <1>2, <2>3, <2>5, <2>6, <2>7, <2>8, <2>9 DEF Handle
<1>3. ASSUME NEW r \in Req, Receive(r) \/ RefuseMalformed(r) \/ Handle(r)
      PROVE  KeyInv'
  <2>1. ASSUME NEW s \in Req, s # r PROVE Good(s)'
    BY <1>0, <1>1, <1>3, <2>1, OneHandler DEF SameHandler
  <2> QED BY <1>0, <1>1, <1>2, <1>3, <2>1 DEF KeyInv
<1>4. ASSUME NEW h \in Host, CreateKey(h) PROVE KeyInv'
  <2>1. PICK t \in Token \ issued :
          keys' = [keys EXCEPT ![h] = t] /\ issued' = issued \cup {t}
    BY <1>4 DEF CreateKey
  <2>2. UNCHANGED <<pc, job, arrival>>
    BY <1>4 DEF CreateKey
  <2>3. ASSUME NEW r \in Req, pc[r] # "idle" PROVE Good(r)'
    <3>1. Good(r) /\ job[r] \in Job
      BY <1>0, <2>3 DEF StageInv
    <3>2. job[r].cred # t
      BY <2>1, <3>1, <2>3, NoneAssumption, BogusAssumption
    <3> QED BY <2>1, <2>2, <3>1, <3>2, NoneAssumption
  <2>4. \A g \in Host : keys'[g] \in issued' \cup {None}
    BY <1>0, <2>1
  <2> QED BY <2>2, <2>3, <2>4 DEF KeyInv
<1>5. CASE Crash
  BY <1>5 DEF Crash, KeyInv
<1>6. CASE UNCHANGED vars
  BY <1>6 DEF vars, KeyInv
<1> QED BY <1>3, <1>4, <1>5, <1>6 DEF Next

IInv ==
    /\ TempPart
    /\ ContentInv
    /\ ModeInv
    /\ KeyInv
    /\ FilesAreWhole
    /\ NeverLeftPrivate
    /\ AdmissionSound

\* Only Rename writes a file of the stats directory, and it publishes a temp
\* that its handler has filled and given its mode.
LEMMA Published ==
    ASSUME IInv, NEW r \in Req, Rename(r)
    PROVE  /\ job[r] \in Job
           /\ files' = [files EXCEPT ![<<job[r].host, job[r].kind>>] = temps[tmp[r]]]
           /\ temps[tmp[r]].whole
           /\ temps[tmp[r]].body \notin Huge
           /\ job[r].kind = ClassKind
                => ClassOf[temps[tmp[r]].body] = temps[tmp[r]].body
           /\ Perms \ InitUmask \subseteq temps[tmp[r]].mode
<1>1. pc[r] = "rename" /\ job[r].body \notin Huge
  BY DEF Rename
<1>2. job[r] \in Job
  BY <1>1 DEF IInv, TempPart, TypeOK, StageInv
<1>3. temps[tmp[r]].body = job[r].body /\ temps[tmp[r]].whole
  BY <1>1 DEF IInv, ContentInv
<1>4. job[r].kind = ClassKind => ClassOf[job[r].body] = job[r].body
  BY <1>1 DEF IInv, ContentInv
<1>5. Perms \ InitUmask \subseteq temps[tmp[r]].mode
  BY <1>1 DEF IInv, ModeInv
<1> QED BY <1>1, <1>2, <1>3, <1>4, <1>5 DEF Rename

\* The files of the stats directory change by nothing but a rename.
LEMMA OnlyRename ==
    ASSUME [Next]_vars, ~ \E r \in Req : Rename(r)
    PROVE  UNCHANGED files
  BY DEF Next, Handle, Receive, RefuseMalformed, CountKeys, VerifyToken, StoreError,
     NormalizeClass, CreateTemp, ClearUmask, RestoreUmask, Chmod, Copy, TooLarge,
     Abort, Reply, CreateKey, Crash, vars, diskVars

\* A rename publishes a whole, canonical and readable file.
LEMMA FilesStep == IInv /\ [Next]_vars => FilesAreWhole' /\ NeverLeftPrivate'
<1> SUFFICES ASSUME IInv, [Next]_vars PROVE FilesAreWhole' /\ NeverLeftPrivate'
  OBVIOUS
<1>1. CASE UNCHANGED files
  BY <1>1 DEF IInv, FilesAreWhole, NeverLeftPrivate
<1>2. ASSUME NEW r \in Req, Rename(r) PROVE FilesAreWhole' /\ NeverLeftPrivate'
  <2>1. ASSUME NEW h \in Host, NEW k \in Kind,
               <<h, k>> # <<job[r].host, job[r].kind>>
        PROVE  files'[<<h, k>>] = files[<<h, k>>]
    <3>1. files' = [files EXCEPT ![<<job[r].host, job[r].kind>>] = temps[tmp[r]]]
      BY <1>2, Published
    <3>2. files \in [Host \X Kind -> File \cup {None}] /\ <<h, k>> \in Host \X Kind
      BY DEF IInv, TempPart, TypeOK
    <3> QED BY <2>1, <3>1, <3>2
  <2>2. files'[<<job[r].host, job[r].kind>>] = temps[tmp[r]]
    BY <1>2, Published DEF IInv, TempPart, TypeOK
  <2>3. FilesAreWhole'
    BY <1>2, <2>1, <2>2, Published DEF IInv, FilesAreWhole
  <2>4. NeverLeftPrivate'
    BY <1>2, <2>1, <2>2, Published DEF IInv, NeverLeftPrivate
  <2> QED BY <2>3, <2>4
<1> QED BY <1>1, <1>2, OnlyRename

\* The key checks let in only who was entitled on arrival.
LEMMA AdmissionStep == IInv /\ [Next]_vars => AdmissionSound'
<1> SUFFICES ASSUME IInv, [Next]_vars PROVE AdmissionSound'
  OBVIOUS
<1> USE DEF IInv, TempPart, TypeOK, Admitted
<1> DEFINE Good(r) ==
      Admitted(r) =>
        \/ /\ job[r].cred # None
           /\ job[r].cred = arrival[r][job[r].host]
        \/ /\ allowAnonymous
           /\ arrival[r] = NoKeys
<1>0. AdmissionSound <=> \A r \in Req : Good(r)
  BY DEF AdmissionSound
<1>1. ASSUME NEW r \in Req, Receive(r) \/ RefuseMalformed(r) \/ Handle(r)
      PROVE  Good(r)' /\ UNCHANGED allowAnonymous
  <2> USE DEF Goto, authVars
  <2>1. ASSUME \E code : Finish(r, code) PROVE Good(r)'
    BY <2>1 DEF Finish
  <2>2. CASE Receive(r) \/ RefuseMalformed(r)
    BY <2>2, <1>0 DEF Receive, RefuseMalformed
  <2>3. CASE CountKeys(r)
    <3>1. CASE keys = NoKeys /\ allowAnonymous
      <4>1. arrival[r] = NoKeys
        <5>1. \A h \in Host : arrival[r][h] = None
          BY <2>3, <3>1 DEF CountKeys, KeyInv, NoKeys
        <5> QED BY <5>1 DEF NoKeys
      <4> QED BY <2>3, <3>1, <4>1 DEF CountKeys
    <3>2. CASE ~ (keys = NoKeys /\ allowAnonymous)
      BY <2>1, <2>3, <3>2 DEF CountKeys
    <3> QED BY <3>1, <3>2
  <2>4. CASE VerifyToken(r)
    <3>1. CASE job[r].cred = keys[job[r].host]
      <4>1. job[r].cred # None /\ job[r].cred = arrival[r][job[r].host]
        BY <2>4, <3>1 DEF VerifyToken, KeyInv
      <4> QED BY <2>4, <3>1, <4>1 DEF VerifyToken
    <3>2. CASE job[r].cred # keys[job[r].host]
      BY <2>1, <2>4, <3>2 DEF VerifyToken
    <3> QED BY <3>1, <3>2
  <2>5. CASE NormalizeClass(r)
    <3>1. job[r] \in Job
      BY <2>5 DEF NormalizeClass, StageInv
    <3>2. ClassOf[job[r].body] # None =>
            /\ job'[r].cred = job[r].cred
            /\ job'[r].host = job[r].host
            /\ arrival'[r] = arrival[r]
      BY <2>5, <3>1 DEF NormalizeClass
    <3>3. Admitted(r) /\ Good(r) /\ UNCHANGED allowAnonymous
      BY <2>5, <1>0 DEF NormalizeClass
    <3> QED BY <2>1, <2>5, <3>2, <3>3 DEF NormalizeClass
  <2>6. CASE CreateTemp(r) \/ ClearUmask(r) \/ RestoreUmask(r) \/ Chmod(r)
             \/ Copy(r) \/ Rename(r)
    <3>1. UNCHANGED <<job, arrival, allowAnonymous>> /\ Admitted(r)
      BY <2>6 DEF CreateTemp, ClearUmask, RestoreUmask, Chmod, Copy, Rename
    <3> QED BY <3>1, <1>0
  <2>7. CASE StoreError(r) \/ TooLarge(r) \/ Abort(r) \/ Reply(r)
    BY <2>1, <2>7 DEF StoreError, TooLarge, Abort, Reply
  <2> QED BY <1>1, <2>2, <2>3, <2>4, <2>5, <2>6, <2>7
          DEF Handle, CountKeys, VerifyToken, NormalizeClass
<1>2. ASSUME NEW r \in Req, Receive(r) \/ RefuseMalformed(r) \/ Handle(r),
             NEW s \in Req, s # r
      PROVE  Good(s)'
  BY <1>0, <1>1, <1>2, OneHandler DEF SameHandler
<1>3. ASSUME NEW h \in Host, CreateKey(h) PROVE AdmissionSound'
  BY <1>3 DEF CreateKey, AdmissionSound
<1>4. CASE Crash
  BY <1>4 DEF Crash, AdmissionSound
<1>5. CASE UNCHANGED vars
  BY <1>5 DEF vars, authVars, AdmissionSound
<1> QED BY <1>1, <1>2, <1>3, <1>4, <1>5 DEF Next, AdmissionSound

\* The invariant holds when the daemon starts for the first time.
LEMMA InitIInv == Init => IInv
<1> SUFFICES ASSUME Init PROVE IInv
  OBVIOUS
<1>1. TempPart
  BY TypeInit
<1>2. ContentInv /\ AdmissionSound
  BY DEF Init, ContentInv, AdmissionSound, Admitted
<1>3. ModeInv
  BY DEF Init, ModeInv
<1>4. KeyInv
  BY DEF Init, KeyInv, NoKeys
<1>5. FilesAreWhole /\ NeverLeftPrivate
  BY DEF Init, FilesAreWhole, NeverLeftPrivate
<1> QED BY <1>1, <1>2, <1>3, <1>4, <1>5 DEF IInv

\* Every step keeps the invariant.
LEMMA StepIInv == IInv /\ [Next]_vars => IInv'
  BY TempPartStep, ContentStep, ModeStep, KeyStep, FilesStep, AdmissionStep DEF IInv

\* IInv, the inductive strengthening of the safety properties of the endpoint
\* (handlers, temps, contents, modes and keys), holds in every reachable state.
THEOREM Invariance == Spec => []IInv
  BY InitIInv, StepIInv, PTL DEF Spec

-----------------------------------------------------------------------------
\* Every variable of Uploads keeps its type.
THEOREM TypeCorrect == Spec => []TypeOK
<1>1. IInv => TypeOK
  BY DEF IInv, TempPart
<1> QED BY Invariance, <1>1, PTL

\* Nobody is past the key checks of serveUploadPut who was not entitled when
\* the request arrived, whatever keys are created or replaced meanwhile.
THEOREM AdmissionIsSound == Spec => []AdmissionSound
<1>1. IInv => AdmissionSound
  BY DEF IInv
<1> QED BY Invariance, <1>1, PTL

\* Whoever reads the stats directory finds whole files and canonical classes.
THEOREM FilesStayWhole == Spec => []FilesAreWhole
<1>1. IInv => FilesAreWhole
  BY DEF IInv
<1> QED BY Invariance, <1>1, PTL

\* chmodLikeCreate may give too much when uploads overlap, never too little.
THEOREM FilesStayReadable == Spec => []NeverLeftPrivate
<1>1. IInv => NeverLeftPrivate
  BY DEF IInv
<1> QED BY Invariance, <1>1, PTL

\* writeUploadBody shares no temp and leaves none behind.
THEOREM NoTempIsLost == Spec => []TempsAccountedFor
<1>1. IInv => TempsAccountedFor
  <2> SUFFICES ASSUME IInv, NEW t \in Temp
               PROVE  /\ temps[t] # None => (t \in orphans) # (Holder(t) # {})
                      /\ \A r, s \in Holder(t) : r = s
    BY DEF TempsAccountedFor
  <2>1. t # None
    BY NoneAssumption
  <2>2. \A r, s \in Holder(t) : r = s
    BY <2>1 DEF IInv, TempPart, TempInv, Holder
  <2>3. t \in orphans => Holder(t) = {}
    BY <2>1 DEF IInv, TempPart, TempInv, Holder
  <2>4. temps[t] # None => t \in orphans \/ Holder(t) # {}
    BY DEF IInv, TempPart, TempInv, Holder
  <2> QED BY <2>2, <2>3, <2>4
<1> QED BY Invariance, <1>1, PTL

-----------------------------------------------------------------------------
(* The one thing that makes a mode wrong. *)

\* No two handlers are between the two calls of syscall.Umask at once.
OneAtUmask == \A r, s \in Req : pc[r] = "unmask" /\ pc[s] = "unmask" => r = s

\* Then the umask is cleared only while one is there, every handler that has asked
\* for it has seen that of the daemon, and modes are made of that one.
UmaskInv ==
    /\ umask = InitUmask \/ \E r \in Req : pc[r] = "unmask"
    /\ \A r \in Req :
          /\ pc[r] \in {"unmask", "chmod"} => mask[r] = InitUmask
          /\ pc[r] \in {"copy", "rename"} => temps[tmp[r]].mode = Perms \ InitUmask

ModesRight == UmaskInv /\ ModeLikeCreate

\* A handler that stays out of the two calls leaves the umask as it is.
LEMMA UmaskStep ==
    ASSUME IInv, UmaskInv, OneAtUmask, OneAtUmask', [Next]_vars
    PROVE  UmaskInv'
<1> DEFINE Good(r) ==
      /\ pc[r] \in {"unmask", "chmod"} => mask[r] = InitUmask
      /\ pc[r] \in {"copy", "rename"} => temps[tmp[r]].mode = Perms \ InitUmask
           Kept == umask = InitUmask \/ \E r \in Req : pc[r] = "unmask"
<1>0. TempPart /\ TypeOK
  BY DEF IInv, TempPart
<1>1. ASSUME NEW r \in Req, Receive(r) \/ RefuseMalformed(r) \/ Handle(r)
      PROVE  Kept' /\ Good(r)'
  <2> USE DEF TypeOK, Goto, diskVars, UmaskInv
  <2>1. ASSUME UNCHANGED umask, pc[r] # "unmask", \A s \in Req \ {r} : pc'[s] = pc[s]
        PROVE  Kept'
    BY <2>1
  <2>2. ASSUME NEW code, Finish(r, code), UNCHANGED umask, pc[r] # "unmask"
        PROVE  Kept' /\ Good(r)'
    <3>1. pc'[r] = "idle" /\ \A s \in Req \ {r} : pc'[s] = pc[s]
      BY <1>0, <2>2 DEF Finish
    <3> QED BY <2>1, <2>2, <3>1
  <2>3. ASSUME UNCHANGED umask, NEW stage \in {"count", "verify", "class", "create", "mask"},
               Goto(r, stage), pc[r] # "unmask"
        PROVE  Kept' /\ Good(r)'
    <3>1. pc'[r] = stage /\ \A s \in Req \ {r} : pc'[s] = pc[s]
      BY <1>0, <2>3
    <3> QED BY <2>1, <2>3, <3>1
  <2>4. CASE Receive(r) \/ CreateTemp(r)
    BY <2>3, <2>4 DEF Receive, CreateTemp
  <2>5. CASE RefuseMalformed(r)
    BY <2>5 DEF RefuseMalformed
  <2>6. CASE CountKeys(r) \/ VerifyToken(r) \/ NormalizeClass(r)
    BY <2>2, <2>3, <2>6 DEF CountKeys, VerifyToken, NormalizeClass, FirstWriteStage
  <2>7. CASE StoreError(r) \/ TooLarge(r) \/ Abort(r) \/ Reply(r)
    BY <2>2, <2>7 DEF StoreError, TooLarge, Abort, Reply
  <2>8. CASE ClearUmask(r)
    <3>1. pc[r] = "mask" /\ pc'[r] = "unmask" /\ mask'[r] = umask
          /\ \A s \in Req \ {r} : pc'[s] = pc[s]
      BY <1>0, <2>8 DEF ClearUmask
    <3>2. umask = InitUmask
      <4>1. \A s \in Req : pc[s] # "unmask"
        BY <3>1 DEF OneAtUmask
      <4> QED BY <4>1
    <3> QED BY <3>1, <3>2
  <2>9. CASE RestoreUmask(r)
    BY <1>0, <2>9 DEF RestoreUmask
  <2>10. CASE Chmod(r)
    <3>1. /\ pc[r] = "chmod" /\ pc'[r] = "copy" /\ \A s \in Req \ {r} : pc'[s] = pc[s]
          /\ tmp[r] \in Temp /\ temps[tmp[r]] \in File /\ UNCHANGED <<tmp, umask>>
          /\ temps' = [temps EXCEPT ![tmp[r]].mode = Perms \ mask[r]]
      BY <1>0, <2>10 DEF Chmod, TempPart, StageInv, TempInv
    <3>2. temps'[tmp'[r]].mode = Perms \ InitUmask
      BY <1>0, <3>1
    <3> QED BY <2>1, <3>1, <3>2
  <2>11. CASE Copy(r)
    <3>1. /\ pc[r] = "copy" /\ pc'[r] = "rename" /\ \A s \in Req \ {r} : pc'[s] = pc[s]
          /\ tmp[r] \in Temp /\ temps[tmp[r]] \in File /\ UNCHANGED <<tmp, umask>>
          /\ temps' = [temps EXCEPT ![tmp[r]].whole = (job[r].body \notin Huge)]
      BY <1>0, <2>11 DEF Copy, TempPart, StageInv, TempInv
    <3>2. temps'[tmp'[r]].mode = Perms \ InitUmask
      BY <1>0, <3>1
    <3> QED BY <2>1, <3>1, <3>2
  <2>12. CASE Rename(r)
    <3>1. pc[r] = "rename" /\ pc'[r] = "reply" /\ \A s \in Req \ {r} : pc'[s] = pc[s]
      BY <1>0, <2>12 DEF Rename
    <3>2. UNCHANGED umask
      BY <2>12 DEF Rename
    <3> QED BY <2>1, <3>1, <3>2
  <2> QED BY <1>1, <2>4, <2>5, <2>6, <2>7, <2>8, <2>9, <2>10, <2>11, <2>12 DEF Handle
<1>2. ASSUME NEW r \in Req, Receive(r) \/ RefuseMalformed(r) \/ Handle(r),
             NEW s \in Req, s # r
      PROVE  Good(s)'
  <2>1. SameHandler(s) /\ SameTemp(s) /\ Good(s)
    BY <1>0, <1>2, OneHandler, OneTemp DEF UmaskInv
  <2>2. pc[s] \in HoldsTemp => tmp[s] # None
    BY <1>0 DEF TempPart, StageInv
  <2> QED BY <2>1, <2>2 DEF SameHandler, SameTemp
<1>3. ASSUME NEW h \in Host, CreateKey(h) PROVE UmaskInv'
  BY <1>3 DEF CreateKey, diskVars, UmaskInv
<1>4. CASE Crash
  BY <1>4 DEF Crash, UmaskInv
<1>5. CASE UNCHANGED vars
  BY <1>5 DEF vars, diskVars, UmaskInv
<1>6. ASSUME NEW r \in Req, Receive(r) \/ RefuseMalformed(r) \/ Handle(r) PROVE UmaskInv'
  <2>1. \A s \in Req : Good(s)'
    BY <1>1, <1>2, <1>6
  <2> QED BY <1>1, <1>6, <2>1 DEF UmaskInv
<1> QED BY <1>3, <1>4, <1>5, <1>6 DEF Next

\* The test TestWriteUploadBodyModeMatchesCreate is right about every uploaded file,
\* for any number of uploads, failures and restarts, as long as no two handlers are
\* between the two calls of syscall.Umask in chmodLikeCreate at once.
THEOREM ModesLikeCreate == Spec /\ []OneAtUmask => []ModeLikeCreate
<1>1. Init => ModesRight
  BY DEF Init, ModesRight, UmaskInv, ModeLikeCreate
<1>2. IInv /\ ModesRight /\ OneAtUmask /\ OneAtUmask' /\ [Next]_vars => ModesRight'
  <2> SUFFICES ASSUME IInv, ModesRight, OneAtUmask, OneAtUmask', [Next]_vars
               PROVE  ModeLikeCreate'
    BY UmaskStep DEF ModesRight
  <2>1. CASE UNCHANGED files
    BY <2>1 DEF ModesRight, ModeLikeCreate
  <2>2. ASSUME NEW r \in Req, Rename(r) PROVE ModeLikeCreate'
    <3> SUFFICES ASSUME NEW h \in Host, NEW k \in Kind, files'[<<h, k>>] # None
                 PROVE  files'[<<h, k>>].mode = Perms \ InitUmask
      BY DEF ModeLikeCreate
    <3>1. files' = [files EXCEPT ![<<job[r].host, job[r].kind>>] = temps[tmp[r]]]
      BY <2>2, Published
    <3>2. files \in [Host \X Kind -> File \cup {None}] /\ <<h, k>> \in Host \X Kind
      BY DEF IInv, TempPart, TypeOK
    <3>3. temps[tmp[r]].mode = Perms \ InitUmask
      BY <2>2 DEF Rename, ModesRight, UmaskInv
    <3>4. CASE <<h, k>> = <<job[r].host, job[r].kind>>
      BY <3>1, <3>2, <3>3, <3>4
    <3>5. CASE <<h, k>> # <<job[r].host, job[r].kind>>
      <4>1. files'[<<h, k>>] = files[<<h, k>>]
        BY <3>1, <3>2, <3>5
      <4> QED BY <4>1 DEF ModesRight, ModeLikeCreate
    <3> QED BY <3>4, <3>5
  <2> QED BY <2>1, <2>2, OnlyRename
<1> QED BY <1>1, <1>2, Invariance, PTL DEF Spec, ModesRight
=============================================================================
