---------------------------- MODULE DaemonProofs ----------------------------
(***************************************************************************)
(* The safety properties of Daemon, for any number of connections.          *)
(***************************************************************************)
EXTENDS Daemon, TLAPS

Returning == {"close", "exit", "exited"}

\* How far the shutdown is fits what Run is doing.
StageInv ==
    /\ main \in {"shutdown", "drain", "receive"} => signalled
    /\ inShutdown => main \in {"drain", "receive"} \cup Returning
    /\ store = "closed" => main \in {"exit", "exited"}
    /\ main = "open" => server = "none" /\ store = "none"
    /\ server = "none" \/ store = "none" => main \in {"open", "exited"}

\* The server stops only when told to, and once it has stopped it cannot fail.
ReturnInv ==
    /\ server = "closed" => inShutdown
    /\ main \in Returning =>
        /\ status = "ok" => signalled /\ server \in {"none", "closed"}
        /\ status = "error" => server = "failed" \/ store = "none"

\* Nobody that Shutdown has waited for comes back.
DrainInv ==
    /\ \A c \in Conn : handler[c] # "none" => conn[c] \in {"active", "dropped"}
    /\ main \in {"receive"} \cup Returning /\ inShutdown /\ ~late => Tracked = {}

IInv == TypeOK /\ StageInv /\ ReturnInv /\ DrainInv

USE DEF Steps, Servers, Conns, Handlers, Returning, stopVars, netVars

LEMMA InitIInv == Init => IInv
  BY DEF Init, IInv, TypeOK, StageInv, ReturnInv, DrainInv

\* The steps of Run and of the listening goroutine leave the connections alone.
LEMMA MainStep ==
    ASSUME IInv, RunStep \/ OpenFails \/ Deadline \/ ServerStep \/ ServerFails \/ Signal
    PROVE  IInv'
<1>1. TypeOK /\ StageInv /\ ReturnInv /\ DrainInv
  BY DEF IInv
<1>2. CASE OpenStore \/ OpenFails
  BY <1>1, <1>2 DEF OpenStore, OpenFails, IInv, TypeOK, StageInv, ReturnInv, DrainInv, Tracked
<1>3. CASE SelectSignal
  BY <1>1, <1>3 DEF SelectSignal, IInv, TypeOK, StageInv, ReturnInv, DrainInv, Tracked
<1>10. CASE BeginShutdown
  BY <1>1, <1>10 DEF BeginShutdown, IInv, TypeOK, StageInv, ReturnInv, DrainInv, Tracked
<1>4. CASE SelectServer
  BY <1>1, <1>4 DEF SelectServer, Return, ReceivedStatus, IInv, TypeOK, StageInv, ReturnInv,
                    DrainInv, Tracked
<1>5. CASE ShutdownReturns \/ Deadline
  BY <1>1, <1>5 DEF ShutdownReturns, Deadline, Draining, IInv, TypeOK, StageInv, ReturnInv,
                    DrainInv, Tracked
<1>6. CASE Receive
  BY <1>1, <1>6 DEF Receive, Return, ReceivedStatus, IInv, TypeOK, StageInv, ReturnInv,
                    DrainInv, Tracked
<1>7. CASE CloseStore \/ Exit
  BY <1>1, <1>7 DEF CloseStore, Exit, IInv, TypeOK, StageInv, ReturnInv, DrainInv, Tracked
<1>8. CASE ServerStep \/ ServerFails
  BY <1>1, <1>8 DEF ServerStep, Listen, AcceptEnds, ServerFails, Up, IInv, TypeOK, StageInv,
                    ReturnInv, DrainInv, Tracked
<1>9. CASE Signal
  BY <1>1, <1>9 DEF Signal, IInv, TypeOK, StageInv, ReturnInv, DrainInv, Tracked
<1> QED BY <1>2, <1>3, <1>4, <1>5, <1>6, <1>7, <1>8, <1>9, <1>10 DEF RunStep

\* The steps of a connection leave Run alone, and after a shutdown none is accepted.
LEMMA ConnectionStep ==
    ASSUME IInv, NEW c \in Conn, ConnStep(c)
    PROVE  IInv'
<1>1. UNCHANGED <<main, server, store, stopVars, status>>
  BY DEF ConnStep, Accept, CloseIdle, Begin, Query, Write, Reply, HangUp
<1>2. TypeOK' /\ StageInv' /\ ReturnInv'
  BY <1>1 DEF IInv, TypeOK, StageInv, ReturnInv, ConnStep, Accept, CloseIdle, Begin, Query, Write,
              Reply, HangUp, Goto
<1>3. \A d \in Conn \ {c} : conn'[d] = conn[d] /\ handler'[d] = handler[d]
  BY DEF ConnStep, Accept, CloseIdle, Begin, Query, Write, Reply, HangUp, Goto, IInv, TypeOK
<1>4. handler'[c] # "none" => conn'[c] \in {"active", "dropped"}
  BY DEF ConnStep, Accept, CloseIdle, Begin, Query, Write, Reply, HangUp, Goto, IInv, TypeOK,
         DrainInv
<1>5. c \in Tracked' => c \in Tracked \/ ~inShutdown
  BY DEF ConnStep, Accept, CloseIdle, Begin, Query, Write, Reply, HangUp, Goto, IInv, TypeOK,
         DrainInv, Tracked
<1>6. DrainInv'
  BY <1>1, <1>3, <1>4, <1>5 DEF IInv, DrainInv, Tracked
<1> QED BY <1>2, <1>6 DEF IInv

LEMMA Invariance == Spec => []IInv
<1>1. IInv /\ UNCHANGED vars => IInv'
  BY DEF vars, IInv, TypeOK, StageInv, ReturnInv, DrainInv, Tracked
<1>2. IInv /\ [Next]_vars => IInv'
  BY <1>1, MainStep, ConnectionStep DEF Next
<1> QED BY InitIInv, <1>2, PTL DEF Spec

\* Every variable keeps its type.
THEOREM TypeCorrect == Spec => []TypeOK
<1>1. IInv => TypeOK
  BY DEF IInv
<1> QED BY Invariance, <1>1, PTL

\* A graceful stop: no handler is at work under a closed store, unless it was out of time.
THEOREM StopIsGraceful == Spec => []Drained
<1>1. IInv => Drained
  BY DEF IInv, StageInv, DrainInv, Drained, Tracked
<1> QED BY Invariance, <1>1, PTL

\* The exit status tells whether the daemon was told to stop or failed.
THEOREM StatusIsTrue == Spec => []StatusTrue
<1>1. IInv => StatusTrue
  BY DEF IInv, ReturnInv, StatusTrue
<1> QED BY Invariance, <1>1, PTL
=============================================================================
