------------------------------ MODULE Uploads ------------------------------
(***************************************************************************)
(* PUT /upload/HOST/KIND (internal/daemon/upload.go) with its key store    *)
(* (internal/authkeys/store.go): requests that run concurrently, each in a *)
(* goroutine of its own, the keys an operator creates meanwhile with       *)
(* --create-client-key in another process, and a daemon that may die.      *)
(* A request is a sequence of steps on shared state: the two queries of    *)
(* the key database, the temporary file, the umask of the process, and the *)
(* rename that publishes the file.                                         *)
(*                                                                         *)
(* A host name here has no dot, so HOST + extension names one file: the    *)
(* files are indexed by <<host, kind>>.                                    *)
(***************************************************************************)
EXTENDS Naturals, FiniteSets

CONSTANTS
    Host,            \* hosts that upload
    Kind,            \* upload kinds (records, txt, class, ...)
    ClassKind,       \* the kind "class", whose body is validated
    Body,            \* request bodies
    Huge,            \* the bodies longer than maxUploadBytes
    ClassOf,         \* what hostclass.Parse makes of a body, or None
    Token,           \* client keys that can ever be issued
    Req,             \* requests in progress at once
    Temp,            \* names os.CreateTemp can choose
    Perms,           \* permission bits of 0666 other than the owner's
    InitUmask,       \* the umask the daemon was started with
    Flags,           \* values -allow-anonymous-upload may be started with
    MaxOrphans,      \* bound: crashes and failing removes stop when so many temps
                     \* are left over
    None,
    Bogus

ASSUME BodyAssumption ==
    /\ Huge \subseteq Body
    /\ ClassOf \in [Body -> Body \cup {None}]

\* Class.String() gives a short name that Parse maps to the same class.
ASSUME ClassAssumption ==
    \A b \in Body : ClassOf[b] # None =>
        /\ ClassOf[b] \notin Huge
        /\ ClassOf[ClassOf[b]] = ClassOf[b]

ASSUME ModeAssumption == InitUmask \subseteq Perms
ASSUME FlagAssumption == Flags \subseteq BOOLEAN /\ Flags # {}

Cred == Token \cup {None, Bogus}
Job == [host : Host, kind : Kind, cred : Cred, body : Body]
\* whole: all of the body has been written.
File == [body : Body, whole : BOOLEAN, mode : SUBSET Perms]

ASSUME NoneAssumption ==
    /\ None \notin Token \cup Body \cup Temp
    /\ None \notin Job
    /\ None \notin File
ASSUME BogusAssumption == Bogus \notin Token \cup {None}

Codes == {204, 400, 401, 403, 405, 500}
NoAnswer == 0
Stages == {"idle", "count", "verify", "class", "create", "mask", "unmask",
           "chmod", "copy", "rename", "reply"}

VARIABLES
    keys,     \* table client_key: the key each host has, or None
    issued,   \* every key printed so far: a new one is 32 random bytes
    files,    \* the files of the stats directory, by <<host, kind>>
    temps,    \* its .up-*.tmp files
    orphans,  \* the temps that no handler owns: since a crash, or a failed os.Remove
    allowAnonymous, \* the flag this daemon was started with
    umask,    \* the umask, which all threads of the daemon share
    pc,       \* the next step of each request's handler
    job,      \* what it was asked to do; the body becomes the canonical class
    tmp,      \* the temp it created
    mask,     \* the umask it saw: local variable mask of chmodLikeCreate
    answer,   \* the status of the last answer on each connection
    arrival   \* history: the keys at the time the request arrived

authVars == <<keys, issued, allowAnonymous>>
diskVars == <<files, temps, orphans>>
vars == <<authVars, diskVars, umask, pc, job, tmp, mask, answer, arrival>>

NoKeys == [h \in Host |-> None]

Init ==
    /\ keys = NoKeys
    /\ issued = {}
    /\ files = [s \in Host \X Kind |-> None]
    /\ temps = [t \in Temp |-> None]
    /\ orphans = {}
    /\ allowAnonymous \in Flags
    /\ umask = InitUmask
    /\ pc = [r \in Req |-> "idle"]
    /\ job = [r \in Req |-> None]
    /\ tmp = [r \in Req |-> None]
    /\ mask = [r \in Req |-> {}]
    /\ answer = [r \in Req |-> NoAnswer]
    /\ arrival = [r \in Req |-> NoKeys]

-----------------------------------------------------------------------------
(* Helpers: move a handler on, or end it with an answer. *)

Goto(r, stage) == pc' = [pc EXCEPT ![r] = stage]

Finish(r, code) ==
    /\ pc' = [pc EXCEPT ![r] = "idle"]
    /\ job' = [job EXCEPT ![r] = None]
    /\ tmp' = [tmp EXCEPT ![r] = None]
    /\ mask' = [mask EXCEPT ![r] = {}]
    /\ answer' = [answer EXCEPT ![r] = code]
    /\ arrival' = [arrival EXCEPT ![r] = NoKeys]

\* writeUpload: only a classification is read and parsed first.
FirstWriteStage(r) == IF job[r].kind = ClassKind THEN "class" ELSE "create"

\* Mutant: the handler compares with the keys of all hosts (no WHERE hostname).
AnyHostsKey(r) == \E h \in Host : job[r].cred = keys[h]
Matches(r) == job[r].cred = keys[job[r].host]

\* Mutant: the check of -allow-anonymous-upload is dropped.
OpenWithoutFlag == keys = NoKeys
Open == keys = NoKeys /\ allowAnonymous

\* Mutant: the error of hostclass.Parse is ignored.
NothingInvalid(r) == FALSE
Invalid(r) == ClassOf[job[r].body] = None

\* Mutant: the class is validated and then stored as the client spelled it.
AsSent(r) == job[r].body
Canonical(r) == ClassOf[job[r].body]

\* Mutant: one fixed temporary name, as hostclass.WriteFile has it.
AnyName(t) == TRUE
Free(t) == temps[t] = None

\* Mutant: 0o666 & mask in place of 0o666 &^ mask.
ModeInMask(m) == Perms \cap m
ModeFor(m) == Perms \ m

\* Mutant: an error after the rename is answered like one before it.
AbortableAfterRename == {"class", "create", "chmod", "copy", "rename", "reply"}
\* Mutant: no ReadTimeout; nothing ends a body that stops arriving.
AbortableByServerOnly == {"create", "chmod", "rename"}
\* The stages whose calls can fail before the file is published.
Abortable == {"class", "create", "chmod", "copy", "rename"}

WithoutOwnTemp(r) == [t \in Temp |-> IF t = tmp[r] THEN None ELSE temps[t]]

\* os.Remove, whose error is ignored: then the temp stays, and nobody owns it.
RemoveOwnTemp(r) ==
    \/ /\ temps' = WithoutOwnTemp(r)
       /\ UNCHANGED orphans
    \/ /\ tmp[r] # None
       /\ Cardinality(orphans) < MaxOrphans
       /\ orphans' = orphans \cup {tmp[r]}
       /\ UNCHANGED temps

-----------------------------------------------------------------------------
(* serveUploadPut: method, path, keys. *)

Receive(r) ==
    /\ pc[r] = "idle"
    /\ \E h \in Host, k \in Kind, b \in Body, c \in issued \cup {None, Bogus} :
          job' = [job EXCEPT ![r] = [host |-> h, kind |-> k, cred |-> c, body |-> b]]
    /\ Goto(r, "count")
    /\ answer' = [answer EXCEPT ![r] = NoAnswer]
    /\ arrival' = [arrival EXCEPT ![r] = keys]
    /\ UNCHANGED <<authVars, diskVars, umask, tmp, mask>>

\* Another method, a path that is not /upload/HOST/KIND, or an unknown kind.
RefuseMalformed(r) ==
    /\ pc[r] = "idle"
    /\ \E code \in {400, 405} : answer' = [answer EXCEPT ![r] = code]
    /\ UNCHANGED <<authVars, diskVars, umask, pc, job, tmp, mask, arrival>>

CountKeys(r) ==
    /\ pc[r] = "count"
    /\ \/ /\ keys = NoKeys
          /\ ~Open
          /\ Finish(r, 401)
       \/ /\ Open
          /\ Goto(r, FirstWriteStage(r))
          /\ UNCHANGED <<job, tmp, mask, answer, arrival>>
       \/ /\ keys # NoKeys
          /\ job[r].cred # None
          /\ Goto(r, "verify")
          /\ UNCHANGED <<job, tmp, mask, answer, arrival>>
       \/ /\ keys # NoKeys
          /\ job[r].cred = None
          /\ Finish(r, 401)
    /\ UNCHANGED <<authVars, diskVars, umask>>

VerifyToken(r) ==
    /\ pc[r] = "verify"
    /\ \/ /\ Matches(r)
          /\ Goto(r, FirstWriteStage(r))
          /\ UNCHANGED <<job, tmp, mask, answer, arrival>>
       \/ /\ ~Matches(r)
          /\ Finish(r, 403)
    /\ UNCHANGED <<authVars, diskVars, umask>>

\* KeyCount or Verify fails: the database is locked or unreadable.
StoreError(r) ==
    /\ pc[r] \in {"count", "verify"}
    /\ Finish(r, 500)
    /\ UNCHANGED <<authVars, diskVars, umask>>

-----------------------------------------------------------------------------
(* writeUpload, writeUploadBody and chmodLikeCreate. *)

\* A class that does not parse is answered 400; else its canonical name is stored.
NormalizeClass(r) ==
    /\ pc[r] = "class"
    /\ \/ /\ Invalid(r)
          /\ Finish(r, 400)
       \/ /\ ~Invalid(r)
          /\ job' = [job EXCEPT ![r].body = Canonical(r)]
          /\ Goto(r, "create")
          /\ UNCHANGED <<tmp, mask, answer, arrival>>
    /\ UNCHANGED <<authVars, diskVars, umask>>

\* os.CreateTemp opens a name that does not exist yet, with mode 0600.
CreateTemp(r) ==
    /\ pc[r] = "create"
    /\ \E t \in Temp :
          /\ Free(t)
          /\ temps' = [temps EXCEPT ![t] =
                          [body |-> job[r].body, whole |-> FALSE, mode |-> {}]]
          /\ tmp' = [tmp EXCEPT ![r] = t]
    /\ Goto(r, "mask")
    /\ UNCHANGED <<authVars, files, orphans, umask, job, mask, answer, arrival>>

\* mask := syscall.Umask(0)
ClearUmask(r) ==
    /\ pc[r] = "mask"
    /\ mask' = [mask EXCEPT ![r] = umask]
    /\ umask' = {}
    /\ Goto(r, "unmask")
    /\ UNCHANGED <<authVars, diskVars, job, tmp, answer, arrival>>

\* syscall.Umask(mask)
RestoreUmask(r) ==
    /\ pc[r] = "unmask"
    /\ umask' = mask[r]
    /\ Goto(r, "chmod")
    /\ UNCHANGED <<authVars, diskVars, job, tmp, mask, answer, arrival>>

Chmod(r) ==
    /\ pc[r] = "chmod"
    /\ temps' = [temps EXCEPT ![tmp[r]].mode = ModeFor(mask[r])]
    /\ mask' = [mask EXCEPT ![r] = {}]
    /\ Goto(r, "copy")
    /\ UNCHANGED <<authVars, files, orphans, umask, job, tmp, answer, arrival>>

\* io.Copy from a reader limited to maxUploadBytes + 1, and Close.
Copy(r) ==
    /\ pc[r] = "copy"
    /\ temps' = [temps EXCEPT ![tmp[r]].whole = (job[r].body \notin Huge)]
    /\ Goto(r, "rename")
    /\ UNCHANGED <<authVars, files, orphans, umask, job, tmp, mask, answer, arrival>>

TooLarge(r) ==
    /\ pc[r] = "rename"
    /\ job[r].body \in Huge
    /\ RemoveOwnTemp(r)
    /\ Finish(r, 400)
    /\ UNCHANGED <<authVars, files, umask>>

Rename(r) ==
    /\ pc[r] = "rename"
    /\ job[r].body \notin Huge
    /\ files' = [files EXCEPT ![<<job[r].host, job[r].kind>>] = temps[tmp[r]]]
    /\ temps' = WithoutOwnTemp(r)
    /\ tmp' = [tmp EXCEPT ![r] = None]
    /\ Goto(r, "reply")
    /\ UNCHANGED <<authVars, orphans, umask, job, mask, answer, arrival>>

\* The body breaks off (ReadTimeout, a lost connection) or a file operation
\* fails: the handler removes its temp and answers 400.
Abort(r) ==
    /\ pc[r] \in Abortable
    /\ RemoveOwnTemp(r)
    /\ Finish(r, 400)
    /\ UNCHANGED <<authVars, files, umask>>

Reply(r) ==
    /\ pc[r] = "reply"
    /\ Finish(r, 204)
    /\ UNCHANGED <<authVars, diskVars, umask>>

-----------------------------------------------------------------------------
(* The environment: the operator, and the death of the daemon. *)

\* authkeys.CreateKey: one upsert; the new key replaces the host's old one.
CreateKey(h) ==
    /\ \E t \in Token \ issued :
          /\ keys' = [keys EXCEPT ![h] = t]
          /\ issued' = issued \cup {t}
    /\ UNCHANGED <<diskVars, allowAnonymous, umask, pc, job, tmp, mask, answer, arrival>>

LiveTemps == {t \in Temp : temps[t] # None}

\* The process dies and is started again, perhaps with another flag: files and
\* keys stay, and so do the temps of its handlers, which nothing ever removes.
Crash ==
    /\ Cardinality(LiveTemps) <= MaxOrphans
    /\ orphans' = LiveTemps
    /\ allowAnonymous' \in Flags
    /\ umask' = InitUmask
    /\ pc' = [r \in Req |-> "idle"]
    /\ job' = [r \in Req |-> None]
    /\ tmp' = [r \in Req |-> None]
    /\ mask' = [r \in Req |-> {}]
    /\ answer' = [r \in Req |-> NoAnswer]
    /\ arrival' = [r \in Req |-> NoKeys]
    /\ UNCHANGED <<keys, issued, files, temps>>

\* What the handler does once the client has sent what it waits for.
ClientStep(r) == NormalizeClass(r) \/ Copy(r)

ServerStep(r) ==
    \/ CountKeys(r) \/ VerifyToken(r) \/ StoreError(r)
    \/ CreateTemp(r) \/ ClearUmask(r) \/ RestoreUmask(r) \/ Chmod(r)
    \/ TooLarge(r) \/ Rename(r) \/ Abort(r) \/ Reply(r)

Handle(r) == ClientStep(r) \/ ServerStep(r)

Next ==
    \/ \E r \in Req : Receive(r) \/ RefuseMalformed(r) \/ Handle(r)
    \/ \E h \in Host : CreateKey(h)
    \/ Crash

Spec == Init /\ [][Next]_vars

\* A handler is a goroutine the runtime schedules, and ReadTimeout makes reading
\* the body fail if it does not arrive. Clients, operators and crashes owe nothing.
FairSpec == Spec /\ \A r \in Req : WF_vars(ServerStep(r))

-----------------------------------------------------------------------------
(* Properties. *)

\* Every variable keeps its type: job, temp and mask of a handler, the stored
\* files and the answers of serveUploadPut.
TypeOK ==
    /\ keys \in [Host -> Token \cup {None}]
    /\ issued \subseteq Token
    /\ files \in [Host \X Kind -> File \cup {None}]
    /\ temps \in [Temp -> File \cup {None}]
    /\ orphans \subseteq Temp
    /\ allowAnonymous \in BOOLEAN
    /\ umask \subseteq Perms
    /\ pc \in [Req -> Stages]
    /\ job \in [Req -> Job \cup {None}]
    /\ tmp \in [Req -> Temp \cup {None}]
    /\ mask \in [Req -> SUBSET Perms]
    /\ answer \in [Req -> Codes \cup {NoAnswer}]
    /\ arrival \in [Req -> [Host -> Token \cup {None}]]

Admitted(r) == pc[r] \in Stages \ {"idle", "count", "verify"}

\* A handler that is past the key checks was entitled when its request
\* arrived, although the two queries run later and keys change in between:
\* either its token was already the key of its host then (a token that had
\* been replaced never gets in again, nor does another host's), or the daemon
\* is open and no host had a key.
AdmissionSound ==
    \A r \in Req : Admitted(r) =>
        \/ /\ job[r].cred # None
           /\ job[r].cred = arrival[r][job[r].host]
        \/ /\ allowAnonymous
           /\ arrival[r] = NoKeys

\* Reports and imports read the stats directory at any moment, also while
\* uploads of the same file overlap and after crashes: each file they find is
\* the whole body of one upload within the limit, and a HOST.class file holds
\* the canonical name of a class ("so a HOST.class file always holds a name
\* the reports and the import understand", upload.go).
FilesAreWhole ==
    \A h \in Host, k \in Kind : files[<<h, k>>] # None =>
        /\ files[<<h, k>>].whole
        /\ files[<<h, k>>].body \notin Huge
        /\ k = ClassKind => ClassOf[files[<<h, k>>].body] = files[<<h, k>>].body

Holder(t) == {r \in Req : tmp[r] = t}

\* No two handlers ever share a temp, and a handler leaves none behind on any
\* of its exits: a temp in the directory belongs to a running handler, or it is
\* one that a crash or a failed os.Remove left, which no handler takes up again.
TempsAccountedFor ==
    \A t \in Temp :
        /\ temps[t] # None => (t \in orphans) # (Holder(t) # {})
        /\ \A r, s \in Holder(t) : r = s

\* os.CreateTemp makes files only their owner can read; however many uploads
\* run chmodLikeCreate at once, a published file grants at least the
\* permissions that a file created directly would have.
NeverLeftPrivate ==
    \A h \in Host, k \in Kind : files[<<h, k>>] # None =>
        Perms \ InitUmask \subseteq files[<<h, k>>].mode

\* Every request is answered, or the daemon dies, also when its client stops
\* sending: no handler waits for ever, and none waits for another.
Answered == \A r \in Req : (pc[r] # "idle") ~> (pc[r] = "idle")

\* The endpoint as its clients see it (module AtomicUploads).
StoredAs(k, b) ==
    IF k = ClassKind THEN ClassOf[b] ELSE IF b \in Huge THEN None ELSE b

CallState(r) ==
    CASE pc[r] \in {"count", "verify"} -> "asked"
      [] pc[r] = "reply" -> "stored"
      [] OTHER -> "admitted"

CallOf(r) ==
    IF pc[r] = "idle" THEN None
    ELSE [state |-> CallState(r), host |-> job[r].host, kind |-> job[r].kind,
          cred |-> job[r].cred, content |-> StoredAs(job[r].kind, job[r].body)]

AnswerOf(r) ==
    IF answer[r] = 204 THEN "ok" ELSE IF answer[r] = NoAnswer THEN "none" ELSE "refused"

ContentOf(s) == IF files[s] = None THEN None ELSE files[s].body

storeBar == [s \in Host \X Kind |-> ContentOf(s)]
callBar == [r \in Req |-> CallOf(r)]
answerBar == [r \in Req |-> AnswerOf(r)]

Atomic == INSTANCE AtomicUploads WITH
    Content <- Body, store <- storeBar, call <- callBar, answer <- answerBar

ASSUME CallAssumption == None \notin Atomic!Call

\* Each PUT takes effect at one instant, the rename, by a key that was current
\* at one instant, the query; 204 means that it did and any other answer that
\* it did not.
AtomicEffect == Atomic!Spec

-----------------------------------------------------------------------------
(* What the repository says that the code does not do. *)

\* upload_test.go TestWriteUploadBodyModeMatchesCreate: the mode of an uploaded
\* file is that of a file created directly, 0666 less the umask.
ModeLikeCreate ==
    \A h \in Host, k \in Kind : files[<<h, k>>] # None =>
        files[<<h, k>>].mode = Perms \ InitUmask
=============================================================================
