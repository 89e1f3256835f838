------------------------------- MODULE Daemon -------------------------------
(***************************************************************************)
(* The life of goprecords daemon (internal/daemon/daemon.go, Run;           *)
(* internal/cli/cmd_daemon.go): the main goroutine opens the key store,     *)
(* starts a second one that listens and accepts, and waits for a signal or  *)
(* for that goroutine to fail; after a signal it shuts the server down,     *)
(* for 30 seconds at most, closes the store and exits, which ends every     *)
(* handler that is still at work.  The stages of an upload are in Uploads;  *)
(* here a handler queries the store, writes, and answers.                   *)
(*                                                                         *)
(* External, as Run uses it: net/http.  Shutdown closes the listener, waits *)
(* for the accept loop, then closes idle connections until none is left.    *)
(* It looks at the state of a connection before it closes it, so a request  *)
(* that comes on a connection just then is still handled, unseen by it.     *)
(***************************************************************************)
CONSTANT Conn  \* connections at once

VARIABLES
    main,       \* the next step of Run
    server,     \* the other goroutine: what ListenAndServe is doing, or the
                \* error that it has sent on errCh
    store,      \* the key store, which the handlers share
    signalled,  \* ctx is done
    inShutdown, \* the server does not accept any more
    late,       \* the 30 seconds are over
    status,     \* of the process
    conn,       \* the state of each connection
    handler     \* the next step of its handler

stopVars == <<signalled, inShutdown, late>>
netVars == <<conn, handler>>
vars == <<main, server, store, stopVars, status, netVars>>

Steps == {"open", "select", "shutdown", "drain", "receive", "close", "exit", "exited"}
Servers == {"none", "listen", "serve", "closed", "failed"}
Conns == {"none", "new", "idle", "active", "dropped"}
Handlers == {"none", "query", "write", "reply"}

Init ==
    /\ main = "open"
    /\ server = "none"
    /\ store = "none"
    /\ signalled = FALSE
    /\ inShutdown = FALSE
    /\ late = FALSE
    /\ status = "none"
    /\ conn = [c \in Conn |-> "none"]
    /\ handler = [c \in Conn |-> "none"]

-----------------------------------------------------------------------------
(* Helpers. *)

\* Run returns: its deferred calls come next.
Return(s) == main' = "close" /\ status' = s

\* Mutant: Shutdown with context.Background().
NoDeadline == FALSE
Draining == main = "drain"

\* Mutant: Close in place of Shutdown, which does not wait for handlers.
Nobody == {}
Tracked == {c \in Conn : conn[c] \in {"new", "idle", "active"}}

\* Mutant: no ReadTimeout and no WriteTimeout, so that a client can stall a handler.
UntilStalled == {"query"}
Ending == {"query", "write", "reply"}

\* Mutants: the error of ListenAndServe is dropped after a shutdown, and it is
\* returned as it is, http.ErrServerClosed included.
AlwaysStopped == "ok"
AsReceived == server
ReceivedStatus == IF server = "failed" THEN "error" ELSE "ok"

-----------------------------------------------------------------------------
(* Run. *)

\* openAuthStore; then the server is made and its goroutine started.
OpenStore ==
    /\ main = "open"
    /\ store' = "open"
    /\ server' = "listen"
    /\ main' = "select"
    /\ UNCHANGED <<stopVars, status, netVars>>

\* Also because ctx is done already: runDaemon takes that for a stop.
OpenFails ==
    /\ main = "open"
    /\ main' = "exited"
    /\ \/ status' = "error"
       \/ signalled /\ status' = "ok"
    /\ UNCHANGED <<server, store, stopVars, netVars>>

\* The select takes either branch if both are ready.
SelectSignal ==
    /\ main = "select"
    /\ signalled
    /\ main' = "shutdown"
    /\ UNCHANGED <<server, store, stopVars, status, netVars>>

SelectServer ==
    /\ main = "select"
    /\ server \in {"closed", "failed"}
    /\ Return(ReceivedStatus)
    /\ UNCHANGED <<server, store, stopVars, netVars>>

BeginShutdown ==
    /\ main = "shutdown"
    /\ inShutdown' = TRUE
    /\ main' = "drain"
    /\ UNCHANGED <<server, store, signalled, late, status, netVars>>

\* An idle connection is closed, or one that has sent no request for 5 seconds.
CloseIdle(c) ==
    /\ main = "drain"
    /\ server # "serve"
    /\ conn[c] \in {"new", "idle"}
    /\ conn' = [conn EXCEPT ![c] = "dropped"]
    /\ UNCHANGED <<main, server, store, stopVars, status, handler>>

Deadline ==
    /\ Draining
    /\ ~late
    /\ late' = TRUE
    /\ UNCHANGED <<main, server, store, signalled, inShutdown, status, netVars>>

\* Its error is ignored.
ShutdownReturns ==
    /\ main = "drain"
    /\ server # "serve"
    /\ late \/ Tracked = {}
    /\ main' = "receive"
    /\ UNCHANGED <<server, store, stopVars, status, netVars>>

\* err := <-errCh, then ctx.Err, which runDaemon does not count as an error.
Receive ==
    /\ main = "receive"
    /\ server \in {"closed", "failed"}
    /\ Return(ReceivedStatus)
    /\ UNCHANGED <<server, store, stopVars, netVars>>

\* defer store.Close()
CloseStore ==
    /\ main = "close"
    /\ store' = "closed"
    /\ main' = "exit"
    /\ UNCHANGED <<server, stopVars, status, netVars>>

\* The end of the process is the end of every goroutine.
Exit ==
    /\ main = "exit"
    /\ main' = "exited"
    /\ UNCHANGED <<server, store, stopVars, status, netVars>>

RunStep ==
    \/ OpenStore \/ SelectSignal \/ SelectServer \/ BeginShutdown \/ ShutdownReturns
    \/ Receive \/ CloseStore \/ Exit

-----------------------------------------------------------------------------
(* The other goroutine: errCh <- srv.ListenAndServe(). *)

Up == main # "exited"

Listen ==
    /\ Up /\ server = "listen"
    /\ server' = IF inShutdown THEN "closed" ELSE "serve"
    /\ UNCHANGED <<main, store, stopVars, status, netVars>>

\* The address is in use; or later, accept fails for good.
ServerFails ==
    /\ Up
    /\ server = "listen" \/ (server = "serve" /\ ~inShutdown)
    /\ server' = "failed"
    /\ UNCHANGED <<main, store, stopVars, status, netVars>>

AcceptEnds ==
    /\ Up /\ server = "serve" /\ inShutdown
    /\ server' = "closed"
    /\ UNCHANGED <<main, store, stopVars, status, netVars>>

Accept(c) ==
    /\ Up /\ server = "serve" /\ ~inShutdown
    /\ conn[c] = "none"
    /\ conn' = [conn EXCEPT ![c] = "new"]
    /\ UNCHANGED <<main, server, store, stopVars, status, handler>>

-----------------------------------------------------------------------------
(* The goroutine of a connection. *)

Goto(c, step) == handler' = [handler EXCEPT ![c] = step]

\* A request: an upload, or one that needs no keys.
Begin(c) ==
    /\ Up
    /\ handler[c] = "none"
    /\ conn[c] \in {"new", "idle", "dropped"}
    /\ \E step \in {"query", "reply"} : Goto(c, step)
    /\ conn' = IF conn[c] = "dropped" THEN conn ELSE [conn EXCEPT ![c] = "active"]
    /\ UNCHANGED <<main, server, store, stopVars, status>>

\* KeyCount and Verify, which fail if the store is closed.
Query(c) ==
    /\ Up /\ handler[c] = "query"
    /\ \/ store = "open" /\ Goto(c, "write")
       \/ Goto(c, "reply")
    /\ UNCHANGED <<main, server, store, stopVars, status, conn>>

\* The body has come, or does not come in time.
Write(c) ==
    /\ Up /\ handler[c] = "write"
    /\ Goto(c, "reply")
    /\ UNCHANGED <<main, server, store, stopVars, status, conn>>

Reply(c) ==
    /\ Up /\ handler[c] = "reply"
    /\ Goto(c, "none")
    /\ conn' = [conn EXCEPT ![c] = IF inShutdown \/ conn[c] = "dropped" THEN "none" ELSE "idle"]
    /\ UNCHANGED <<main, server, store, stopVars, status>>

\* The client, or IdleTimeout, closes a connection without request.
HangUp(c) ==
    /\ Up /\ handler[c] = "none" /\ conn[c] # "none"
    /\ conn' = [conn EXCEPT ![c] = "none"]
    /\ UNCHANGED <<main, server, store, stopVars, status, handler>>

\* SIGINT or SIGTERM.
Signal ==
    /\ Up /\ ~signalled
    /\ signalled' = TRUE
    /\ UNCHANGED <<main, server, store, inShutdown, late, status, netVars>>

ServerStep == Listen \/ AcceptEnds

ConnStep(c) ==
    \/ Accept(c) \/ CloseIdle(c) \/ Begin(c) \/ Query(c) \/ Write(c) \/ Reply(c) \/ HangUp(c)

Next ==
    \/ RunStep \/ OpenFails \/ Deadline
    \/ ServerStep \/ ServerFails
    \/ \E c \in Conn : ConnStep(c)
    \/ Signal

Spec == Init /\ [][Next]_vars

\* The goroutines of Run and of the listener run whenever they can.
FairSpec == Spec /\ WF_vars(RunStep) /\ WF_vars(ServerStep)

-----------------------------------------------------------------------------
(* Properties. *)

\* Every variable keeps its type; the process ends with one of two statuses.
TypeOK ==
    /\ main \in Steps
    /\ server \in Servers
    /\ store \in {"none", "open", "closed"}
    /\ signalled \in BOOLEAN /\ inShutdown \in BOOLEAN /\ late \in BOOLEAN
    /\ status \in {"none", "ok", "error"}
    /\ conn \in [Conn -> Conns]
    /\ handler \in [Conn -> Handlers]

\* "then shuts down gracefully" (daemon.go, Run): when the store is closed after a
\* shutdown no handler is at work any more that would query it, or whose upload the
\* exit would cut off; except after the 30 seconds, and on a connection that was
\* closed while its request came in.
Drained ==
    store = "closed" /\ inShutdown /\ ~late =>
        \A c \in Conn : handler[c] # "none" => conn[c] = "dropped"

\* Whichever branch the select takes, and whenever the listener fails, before,
\* during or after the shutdown began: the process ends with status 0 only if it
\* was told to stop and could serve until then, and with 1 only if it could not.
StatusTrue ==
    main = "exited" =>
        /\ status = "ok" => signalled /\ server # "failed"
        /\ status = "error" => server = "failed" \/ store = "none"

Stops == signalled ~> main = "exited"

\* A signal stops the daemon after 30 seconds at the latest, whatever clients and
\* handlers do, and also when it comes before the listener is there.
StopsInTime == WF_vars(Deadline) => Stops

\* What a handler does within ReadTimeout and WriteTimeout.
HandlerStep(c) == handler[c] \in Ending /\ (Query(c) \/ Write(c) \/ Reply(c))

\* It stops before that once the handlers have ended: no idle connection and none
\* that never sends a request holds it up.
StopsWhenIdle == (\A c \in Conn : WF_vars(HandlerStep(c)) /\ WF_vars(CloseIdle(c))) => Stops
=============================================================================
