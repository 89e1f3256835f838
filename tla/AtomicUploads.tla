--------------------------- MODULE AtomicUploads ---------------------------
(***************************************************************************)
(* What the upload endpoint of the daemon promises its clients, without    *)
(* temporary files, error paths or handler steps: a PUT is admitted at one *)
(* instant, by the key its host has at that instant (or because the daemon *)
(* is open and has no key at all); its file appears whole at one later     *)
(* instant; a client told "ok" has had that happen, and a client told      *)
(* "refused" never has.                                                    *)
(***************************************************************************)

CONSTANTS
    Host,            \* hosts that upload
    Kind,            \* kinds of files they upload
    Content,         \* contents a stored file may have
    Token,           \* client keys that can ever be issued
    Req,             \* requests that may be in progress at once
    Flags,           \* values -allow-anonymous-upload may be started with
    None,            \* no key, no file, no credential, no call
    Bogus            \* a credential that was never issued

VARIABLES
    keys,    \* the key each host has, or None
    issued,  \* every key issued so far
    store,   \* the content of each file, or None
    allowAnonymous, \* the flag this daemon was started with
    call,    \* the requests in progress
    answer   \* the last answer given to each client

vars == <<keys, issued, store, allowAnonymous, call, answer>>

\* content is None for a body the endpoint will not store.
Call == [state : {"asked", "admitted", "stored"}, host : Host, kind : Kind,
         cred : Token \cup {None, Bogus}, content : Content \cup {None}]

Init ==
    /\ keys = [h \in Host |-> None]
    /\ issued = {}
    /\ store = [s \in Host \X Kind |-> None]
    /\ allowAnonymous \in Flags
    /\ call = [r \in Req |-> None]
    /\ answer = [r \in Req |-> "none"]

NewKey(h) ==
    /\ \E t \in Token \ issued :
          /\ keys' = [keys EXCEPT ![h] = t]
          /\ issued' = issued \cup {t}
    /\ UNCHANGED <<store, allowAnonymous, call, answer>>

Ask(r) ==
    /\ call[r] = None
    /\ \E c \in Call :
          /\ c.state = "asked"
          /\ c.cred \in issued \cup {None, Bogus}
          /\ call' = [call EXCEPT ![r] = c]
    /\ answer' = [answer EXCEPT ![r] = "none"]
    /\ UNCHANGED <<keys, issued, store, allowAnonymous>>

Entitled(c) ==
    \/ /\ keys[c.host] # None
       /\ c.cred = keys[c.host]
    \/ /\ allowAnonymous
       /\ \A h \in Host : keys[h] = None

Admit(r) ==
    /\ call[r] # None
    /\ call[r].state = "asked"
    /\ Entitled(call[r])
    /\ call' = [call EXCEPT ![r].state = "admitted"]
    /\ UNCHANGED <<keys, issued, store, allowAnonymous, answer>>

Put(r) ==
    /\ call[r] # None
    /\ call[r].state = "admitted"
    /\ call[r].content # None
    /\ store' = [store EXCEPT ![<<call[r].host, call[r].kind>>] = call[r].content]
    /\ call' = [call EXCEPT ![r].state = "stored"]
    /\ UNCHANGED <<keys, issued, allowAnonymous, answer>>

Confirm(r) ==
    /\ call[r] # None
    /\ call[r].state = "stored"
    /\ call' = [call EXCEPT ![r] = None]
    /\ answer' = [answer EXCEPT ![r] = "ok"]
    /\ UNCHANGED <<keys, issued, store, allowAnonymous>>

Refuse(r) ==
    /\ call[r] # None => call[r].state # "stored"
    /\ call' = [call EXCEPT ![r] = None]
    /\ answer' = [answer EXCEPT ![r] = "refused"]
    /\ UNCHANGED <<keys, issued, store, allowAnonymous>>

\* The daemon dies and is restarted: what is stored stays, nobody is answered.
Die ==
    /\ call' = [r \in Req |-> None]
    /\ answer' = [r \in Req |-> "none"]
    /\ allowAnonymous' \in Flags
    /\ UNCHANGED <<keys, issued, store>>

Next ==
    \/ \E h \in Host : NewKey(h)
    \/ \E r \in Req : Ask(r) \/ Admit(r) \/ Put(r) \/ Confirm(r) \/ Refuse(r)
    \/ Die

Spec == Init /\ [][Next]_vars
=============================================================================
