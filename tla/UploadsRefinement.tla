------------------------- MODULE UploadsRefinement -------------------------
(***************************************************************************)
(* Uploads implements AtomicUploads: under the mapping of Uploads (callBar, *)
(* storeBar, answerBar) every step of a handler is a step of the abstract   *)
(* specification or changes nothing it shows.                              *)
(***************************************************************************)
EXTENDS UploadsProofs

USE DEF Cred, Job, File, Codes, NoAnswer, Stages, HoldsTemp, Matches, Open, Invalid,
        Canonical, Free, ModeFor, Abortable, ClientStep, ServerStep

\* A handler step leaves what the other clients see of their calls.
LEMMA OnlyOwnCall ==
    ASSUME IInv, NEW r \in Req, Receive(r) \/ RefuseMalformed(r) \/ Handle(r)
    PROVE  /\ callBar' = [callBar EXCEPT ![r] = CallOf(r)']
           /\ answerBar' = [answerBar EXCEPT ![r] = AnswerOf(r)']
<1>1. ASSUME NEW s \in Req, s # r
      PROVE  CallOf(s)' = CallOf(s) /\ AnswerOf(s)' = AnswerOf(s)
  <2>1. SameHandler(s)
    BY <1>1, OneHandler DEF IInv
  <2> QED BY <2>1 DEF SameHandler, CallOf, CallState, AnswerOf
<1> QED BY <1>1 DEF callBar, answerBar

\* What a running handler shows is a call of the abstract specification.
LEMMA RunningCall ==
    ASSUME IInv, NEW r \in Req, pc[r] # "idle"
    PROVE  /\ job[r] \in Job
           /\ StoredAs(job[r].kind, job[r].body) \in Body \cup {None}
           /\ callBar[r] = [state |-> CallState(r), host |-> job[r].host,
                            kind |-> job[r].kind, cred |-> job[r].cred,
                            content |-> StoredAs(job[r].kind, job[r].body)]
           /\ callBar[r] # None
<1>1. job[r] \in Job
  BY DEF IInv, TempPart, TypeOK, StageInv
<1>2. StoredAs(job[r].kind, job[r].body) \in Body \cup {None}
  BY <1>1, BodyAssumption DEF StoredAs
<1>3. callBar[r] = [state |-> CallState(r), host |-> job[r].host,
                    kind |-> job[r].kind, cred |-> job[r].cred,
                    content |-> StoredAs(job[r].kind, job[r].body)]
  BY DEF callBar, CallOf
<1>4. CallState(r) \in {"asked", "admitted", "stored"}
  BY DEF CallState
<1>5. callBar[r] \in Atomic!Call
  BY <1>1, <1>2, <1>3, <1>4 DEF Atomic!Call
<1> QED BY <1>1, <1>2, <1>3, <1>5, CallAssumption

\* A handler that ends with an error answer: the abstract call is refused.
LEMMA EndsRefused ==
    ASSUME IInv, NEW r \in Req, RefuseMalformed(r) \/ Handle(r),
           NEW code \in Codes \ {204}, Finish(r, code) \/ RefuseMalformed(r),
           pc[r] # "reply", UNCHANGED <<authVars, files>>
    PROVE  Atomic!Refuse(r)
<1>1. CallOf(r)' = None
  <2>1. pc'[r] = "idle"
    BY DEF Finish, RefuseMalformed, IInv, TempPart, TypeOK
  <2> QED BY <2>1 DEF CallOf
<1>2. AnswerOf(r)' = "refused"
  <2>1. answer'[r] \in Codes \ {204}
    BY DEF Finish, RefuseMalformed, IInv, TempPart, TypeOK
  <2> QED BY <2>1 DEF AnswerOf
<1>3. callBar[r] # None => callBar[r].state # "stored"
  <2>1. CASE pc[r] = "idle"
    BY <2>1 DEF callBar, CallOf
  <2>2. CASE pc[r] # "idle"
    <3>1. CallState(r) # "stored"
      BY DEF CallState
    <3>2. callBar[r].state = CallState(r)
      BY <2>2 DEF callBar, CallOf
    <3> QED BY <3>1, <3>2
  <2> QED BY <2>1, <2>2
<1>4. UNCHANGED <<keys, issued, storeBar, allowAnonymous>>
  BY DEF authVars, storeBar, ContentOf
<1> QED BY <1>1, <1>2, <1>3, <1>4, OnlyOwnCall DEF Atomic!Refuse

\* A handler that goes on without touching a file: its call is admitted, or
\* nothing is seen of the step.
LEMMA GoesOn ==
    ASSUME IInv, NEW r \in Req, Handle(r), pc[r] # "idle", pc'[r] # "idle",
           CallState(r)' = CallState(r),
           job'[r].host = job[r].host, job'[r].kind = job[r].kind,
           job'[r].cred = job[r].cred,
           StoredAs(job[r].kind, job[r].body)' = StoredAs(job[r].kind, job[r].body),
           answer'[r] = answer[r], UNCHANGED <<authVars, files>>
    PROVE  UNCHANGED Atomic!vars
<1>1. CallOf(r)' = CallOf(r) /\ AnswerOf(r)' = AnswerOf(r)
  BY DEF CallOf, AnswerOf
<1>2. callBar' = callBar /\ answerBar' = answerBar
  BY <1>1, OnlyOwnCall DEF callBar, answerBar
<1>3. UNCHANGED <<keys, issued, storeBar, allowAnonymous>>
  BY DEF authVars, storeBar, ContentOf
<1> QED BY <1>2, <1>3 DEF Atomic!vars

\* Passing the key checks of the code is being admitted by the abstract rule.
LEMMA IsAdmitted ==
    ASSUME IInv, NEW r \in Req, CountKeys(r) \/ VerifyToken(r),
           pc'[r] \in {"class", "create"}
    PROVE  Atomic!Admit(r)
<1> USE DEF IInv, TempPart, TypeOK
<1>1. /\ pc[r] \in {"count", "verify"}
      /\ UNCHANGED <<authVars, files, job, answer>>
  BY DEF CountKeys, VerifyToken, Finish, diskVars
<1>2. CallOf(r) = [state |-> "asked", host |-> job[r].host, kind |-> job[r].kind,
                   cred |-> job[r].cred, content |-> StoredAs(job[r].kind, job[r].body)]
  BY <1>1 DEF CallOf, CallState
<1>3. CallOf(r)' = [state |-> "admitted", host |-> job[r].host, kind |-> job[r].kind,
                    cred |-> job[r].cred, content |-> StoredAs(job[r].kind, job[r].body)]
  BY <1>1 DEF CallOf, CallState, StoredAs
<1>4. CallOf(r)' = [CallOf(r) EXCEPT !.state = "admitted"] /\ callBar[r] = CallOf(r)
  BY <1>2, <1>3 DEF callBar
<1>5. callBar' = [callBar EXCEPT ![r].state = "admitted"]
  BY <1>4, OnlyOwnCall DEF Handle
<1>6. answerBar' = answerBar
  BY <1>1 DEF answerBar, AnswerOf
<1>7. UNCHANGED <<keys, issued, storeBar, allowAnonymous>>
  BY <1>1 DEF authVars, storeBar, ContentOf
<1>8. callBar[r] # None /\ job[r] \in Job
  BY <1>1, RunningCall
<1>9. Atomic!Entitled(callBar[r])
  <2>1. CASE CountKeys(r)
    BY <2>1, <1>2, <1>4 DEF CountKeys, Finish, Atomic!Entitled, NoKeys, Goto
  <2>2. CASE VerifyToken(r)
    <3>1. job[r].cred = keys[job[r].host] /\ job[r].cred # None
      BY <2>2 DEF VerifyToken, Finish, KeyInv
    <3> QED BY <3>1, <1>2, <1>4 DEF Atomic!Entitled
  <2> QED BY <2>1, <2>2
<1> QED BY <1>2, <1>4, <1>5, <1>6, <1>7, <1>8, <1>9 DEF Atomic!Admit

\* The endpoint starts as the abstract one: nothing stored, nobody calling.
LEMMA InitAtomic == Init => Atomic!Init
  BY DEF Init, Atomic!Init, NoKeys, storeBar, ContentOf, callBar, CallOf, answerBar,
     AnswerOf

\* A request that arrives is an abstract Ask.
LEMMA ReceiveAsks == ASSUME IInv, NEW r \in Req, Receive(r) PROVE Atomic!Ask(r)
<1> USE DEF IInv, TempPart, TypeOK
<1>1. PICK h \in Host, k \in Kind, b \in Body, c \in issued \cup {None, Bogus} :
        job' = [job EXCEPT ![r] = [host |-> h, kind |-> k, cred |-> c, body |-> b]]
  BY DEF Receive
<1>2. CallOf(r)' = [state |-> "asked", host |-> h, kind |-> k, cred |-> c,
                    content |-> StoredAs(k, b)]
  BY <1>1 DEF Receive, Goto, CallOf, CallState, StoredAs
<1>3. CallOf(r)' \in Atomic!Call
  <2>1. StoredAs(k, b) \in Body \cup {None}
    BY BodyAssumption DEF StoredAs
  <2> QED BY <1>2, <2>1 DEF Atomic!Call
<1>4. CallOf(r)'.state = "asked" /\ CallOf(r)'.cred \in issued \cup {None, Bogus}
  BY <1>2
<1>5. callBar[r] = None
  BY DEF Receive, callBar, CallOf
<1>6. AnswerOf(r)' = "none"
  BY DEF Receive, AnswerOf
<1>7. UNCHANGED <<keys, issued, storeBar, allowAnonymous>>
  BY DEF Receive, authVars, diskVars, storeBar, ContentOf
<1> QED BY <1>3, <1>4, <1>5, <1>6, <1>7, OnlyOwnCall DEF Atomic!Ask

\* The rename is the instant at which the abstract Put happens.
LEMMA RenamePuts == ASSUME IInv, NEW r \in Req, Rename(r) PROVE Atomic!Put(r)
<1> USE DEF IInv, TempPart, TypeOK
<1> DEFINE content == StoredAs(job[r].kind, job[r].body)
<1>1. pc[r] = "rename" /\ pc'[r] = "reply" /\ UNCHANGED <<authVars, job, answer>>
  BY DEF Rename, Goto
<1>2. /\ job[r] \in Job
      /\ callBar[r] # None
      /\ callBar[r] = [state |-> "admitted", host |-> job[r].host, kind |-> job[r].kind,
                       cred |-> job[r].cred, content |-> content]
  BY <1>1, RunningCall DEF CallState
<1>3. CallOf(r)' = [state |-> "stored", host |-> job[r].host, kind |-> job[r].kind,
                    cred |-> job[r].cred, content |-> content]
  BY <1>1 DEF CallOf, CallState, StoredAs
<1>4. callBar' = [callBar EXCEPT ![r].state = "stored"]
  <2>1. CallOf(r)' = [callBar[r] EXCEPT !.state = "stored"]
    BY <1>2, <1>3
  <2> QED BY <2>1, OnlyOwnCall DEF Handle
<1>5. content = temps[tmp[r]].body /\ content # None
  <2>1. temps[tmp[r]].body = job[r].body /\ job[r].body \in Body
    BY <1>1, <1>2 DEF ContentInv
  <2>2. CASE job[r].kind = ClassKind
    BY <1>1, <2>1, <2>2, NoneAssumption DEF ContentInv, StoredAs
  <2>3. CASE job[r].kind # ClassKind
    BY <2>1, <2>3, NoneAssumption DEF Rename, StoredAs
  <2> QED BY <2>2, <2>3
<1>6. storeBar' = [storeBar EXCEPT ![<<job[r].host, job[r].kind>>] = content]
  <2>0. PICK slot \in Host \X Kind : slot = <<job[r].host, job[r].kind>>
    BY <1>2
  <2>1. files' = [files EXCEPT ![slot] = temps[tmp[r]]]
    BY <2>0, Published
  <2>2. temps[tmp[r]] # None
    BY <1>1 DEF StageInv, TempInv
  <2>3. ContentOf(slot)' = content
    BY <2>1, <2>2, <1>5 DEF ContentOf
  <2>4. \A s \in Host \X Kind : s # slot => ContentOf(s)' = ContentOf(s)
    BY <2>1 DEF ContentOf
  <2> QED BY <2>0, <2>3, <2>4 DEF storeBar
<1>7. answerBar' = answerBar /\ UNCHANGED <<keys, issued, allowAnonymous>>
  BY <1>1 DEF answerBar, AnswerOf, authVars
<1> QED BY <1>2, <1>4, <1>5, <1>6, <1>7 DEF Atomic!Put

\* The answer 204 is the abstract Confirm.
LEMMA ReplyConfirms == ASSUME IInv, NEW r \in Req, Reply(r) PROVE Atomic!Confirm(r)
<1> USE DEF IInv, TempPart, TypeOK
<1>1. CallOf(r)' = None /\ AnswerOf(r)' = "ok"
  BY DEF Reply, Finish, CallOf, AnswerOf
<1>2. callBar[r] # None /\ callBar[r].state = "stored"
  <2>1. pc[r] = "reply"
    BY DEF Reply
  <2>2. CallState(r) = "stored"
    BY <2>1 DEF CallState
  <2> QED BY <2>1, <2>2, RunningCall DEF callBar, CallOf
<1>3. UNCHANGED <<keys, issued, storeBar, allowAnonymous>>
  BY DEF Reply, authVars, diskVars, storeBar, ContentOf
<1> QED BY <1>1, <1>2, <1>3, OnlyOwnCall DEF Handle, Atomic!Confirm

\* Every step of a handler is a step of the abstract endpoint or invisible.
LEMMA HandleAtomic ==
    ASSUME IInv, NEW r \in Req, Handle(r)
    PROVE  Atomic!Next \/ UNCHANGED Atomic!vars
<1> USE DEF IInv, TempPart, TypeOK, Goto
<1>1. CASE CountKeys(r) \/ VerifyToken(r)
  <2>1. UNCHANGED <<authVars, files>> /\ pc[r] \notin {"reply", "idle"}
    BY <1>1 DEF CountKeys, VerifyToken, diskVars
  <2>2. CASE \E code \in Codes \ {204} : Finish(r, code)
    BY <2>1, <2>2, EndsRefused DEF Atomic!Next
  <2>3. CASE pc'[r] \in {"class", "create"}
    BY <1>1, <2>3, IsAdmitted DEF Atomic!Next
  <2>4. CASE Goto(r, "verify") /\ UNCHANGED <<job, answer>>
    <3>1. CallState(r)' = CallState(r) /\ pc'[r] # "idle"
      BY <1>1, <2>4 DEF CountKeys, VerifyToken, CallState
    <3>2. StoredAs(job[r].kind, job[r].body)' = StoredAs(job[r].kind, job[r].body)
      BY <2>4 DEF StoredAs
    <3> QED BY <2>1, <2>4, <3>1, <3>2, GoesOn
  <2> QED BY <1>1, <2>2, <2>3, <2>4 DEF CountKeys, VerifyToken, FirstWriteStage
<1>2. CASE StoreError(r) \/ TooLarge(r) \/ Abort(r)
  <2>1. /\ UNCHANGED <<authVars, files>> /\ pc[r] # "reply"
        /\ \E code \in Codes \ {204} : Finish(r, code)
    BY <1>2 DEF StoreError, TooLarge, Abort, diskVars
  <2> QED BY <2>1, EndsRefused DEF Atomic!Next
<1>3. CASE NormalizeClass(r)
  <2>1. UNCHANGED <<authVars, files>> /\ pc[r] = "class"
    BY <1>3 DEF NormalizeClass, diskVars
  <2>2. CASE ClassOf[job[r].body] = None
    BY <1>3, <2>1, <2>2, EndsRefused DEF Atomic!Next, NormalizeClass
  <2>3. CASE ClassOf[job[r].body] # None
    <3>1. job[r] \in Job
      BY <2>1 DEF StageInv
    <3>2. ClassOf[ClassOf[job[r].body]] = ClassOf[job[r].body]
      BY <2>3, <3>1, ClassAssumption
    <3>3. /\ job'[r].host = job[r].host
          /\ job'[r].kind = job[r].kind
          /\ job'[r].cred = job[r].cred
          /\ job'[r].body = ClassOf[job[r].body]
          /\ pc'[r] = "create" /\ answer'[r] = answer[r]
      BY <1>3, <2>3, <3>1 DEF NormalizeClass
    <3>4. CallState(r)' = CallState(r)
      BY <2>1, <3>3 DEF CallState
    <3>5. job[r].kind = ClassKind
      BY <2>1 DEF ContentInv
    <3>6. StoredAs(job[r].kind, job[r].body)' = StoredAs(job[r].kind, job[r].body)
      BY <3>2, <3>3, <3>5 DEF StoredAs
    <3> QED BY <2>1, <3>3, <3>4, <3>6, GoesOn
  <2> QED BY <2>2, <2>3
<1>4. CASE CreateTemp(r) \/ ClearUmask(r) \/ RestoreUmask(r) \/ Chmod(r) \/ Copy(r)
  <2>1. /\ UNCHANGED <<authVars, files, job, answer>>
        /\ pc[r] \in {"create", "mask", "unmask", "chmod", "copy"}
        /\ pc'[r] \in HoldsTemp
    <3>1. CASE CreateTemp(r)
      BY <3>1 DEF CreateTemp
    <3>2. CASE ClearUmask(r) \/ RestoreUmask(r)
      BY <3>2 DEF ClearUmask, RestoreUmask, diskVars
    <3>3. CASE Chmod(r) \/ Copy(r)
      BY <3>3 DEF Chmod, Copy
    <3> QED BY <1>4, <3>1, <3>2, <3>3
  <2>2. CallState(r)' = CallState(r)
    BY <2>1 DEF CallState
  <2>3. StoredAs(job[r].kind, job[r].body)' = StoredAs(job[r].kind, job[r].body)
    BY <2>1 DEF StoredAs
  <2> QED BY <2>1, <2>2, <2>3, GoesOn
<1>5. CASE Rename(r)
  BY <1>5, RenamePuts DEF Atomic!Next
<1>6. CASE Reply(r)
  BY <1>6, ReplyConfirms DEF Atomic!Next
<1> QED BY <1>1, <1>2, <1>3, <1>4, <1>5, <1>6 DEF Handle

\* Every step of the daemon, its clients and its operator is one, too.
LEMMA StepAtomic == IInv /\ [Next]_vars => [Atomic!Next]_(Atomic!vars)
<1> SUFFICES ASSUME IInv, [Next]_vars PROVE Atomic!Next \/ UNCHANGED Atomic!vars
  OBVIOUS
<1>1. ASSUME NEW r \in Req, Receive(r) PROVE Atomic!Next
  BY <1>1, ReceiveAsks DEF Atomic!Next
<1>2. ASSUME NEW r \in Req, RefuseMalformed(r) PROVE Atomic!Next
  <2>1. pc[r] # "reply" /\ UNCHANGED <<authVars, files>>
    BY <1>2 DEF RefuseMalformed, diskVars
  <2> QED BY <1>2, <2>1, EndsRefused DEF Atomic!Next
<1>3. ASSUME NEW r \in Req, Handle(r) PROVE Atomic!Next \/ UNCHANGED Atomic!vars
  BY <1>3, HandleAtomic
<1>4. ASSUME NEW h \in Host, CreateKey(h) PROVE Atomic!Next
  <2>1. UNCHANGED <<storeBar, callBar, answerBar, allowAnonymous>>
    BY <1>4 DEF CreateKey, diskVars, storeBar, ContentOf, callBar, CallOf, CallState,
       StoredAs, answerBar, AnswerOf
  <2> QED BY <1>4, <2>1 DEF CreateKey, Atomic!Next, Atomic!NewKey
<1>5. CASE Crash
  <2>1. callBar' = [r \in Req |-> None]
    BY <1>5 DEF Crash, callBar, CallOf
  <2>2. answerBar' = [r \in Req |-> "none"]
    BY <1>5 DEF Crash, answerBar, AnswerOf
  <2>3. UNCHANGED <<keys, issued, storeBar>> /\ allowAnonymous' \in Flags
    BY <1>5 DEF Crash, storeBar, ContentOf
  <2> QED BY <2>1, <2>2, <2>3 DEF Atomic!Next, Atomic!Die
<1>6. CASE UNCHANGED vars
  BY <1>6 DEF vars, authVars, diskVars, Atomic!vars, storeBar, ContentOf, callBar,
     CallOf, CallState, StoredAs, answerBar, AnswerOf
<1> QED BY <1>1, <1>2, <1>3, <1>4, <1>5, <1>6 DEF Next

-----------------------------------------------------------------------------
\* Each PUT takes effect at one instant, by a key that is current at one
\* instant, and its answer says whether it did: serveUploadPut with all its
\* steps, errors and crashes implements AtomicUploads.
THEOREM Refinement == Spec => AtomicEffect
<1>1. Init => Atomic!Init
  BY InitAtomic
<1>2. IInv /\ [Next]_vars => [Atomic!Next]_(Atomic!vars)
  BY StepAtomic
<1> QED BY <1>1, <1>2, Invariance, PTL DEF Spec, AtomicEffect, Atomic!Spec
=============================================================================
