---------------------------- MODULE ClassRegister ----------------------------
(***************************************************************************)
(* What goprecords classify promises of one host (README.md, Host           *)
(* classification): a class in the stats directory and one in the database. *)
(* A command that is given both stores its class in the directory, each at  *)
(* one instant, then in the database, and then reports success; one that    *)
(* fails or dies has done a prefix of that.                                 *)
(***************************************************************************)
CONSTANTS Class, Proc, None

VARIABLES
    value,  \* the class in the directory, or None
    entry,  \* the class in the database, or None
    call    \* per process: what it was asked to do and how far it is; None
            \* if it was asked nothing, has failed, or died

vars == <<value, entry, call>>

States == {"asked", "stored", "ok"}
Call == [state : States, class : Class, dir : BOOLEAN, db : BOOLEAN]

Init ==
    /\ value = None
    /\ entry = None
    /\ call = [p \in Proc |-> None]

Active(p) == call[p] # None /\ call[p].state \in {"asked", "stored"}

Ask(p) ==
    /\ ~Active(p)
    /\ \E c \in Call : c.state = "asked" /\ (c.dir \/ c.db) /\ call' = [call EXCEPT ![p] = c]
    /\ UNCHANGED <<value, entry>>

\* The directory; a command without -db is through.
Store(p) ==
    /\ call[p] # None
    /\ call[p].state = "asked" /\ call[p].dir
    /\ value' = call[p].class
    /\ call' = [call EXCEPT ![p].state = IF call[p].db THEN "stored" ELSE "ok"]
    /\ UNCHANGED entry

\* The database, after the directory if there is one.
Enter(p) ==
    /\ Active(p)
    /\ call[p].db
    /\ call[p].state = IF call[p].dir THEN "stored" ELSE "asked"
    /\ entry' = call[p].class
    /\ call' = [call EXCEPT ![p].state = "ok"]
    /\ UNCHANGED value

\* An error, or the process is killed; what is stored stays.
Fail(p) ==
    /\ Active(p)
    /\ call' = [call EXCEPT ![p] = None]
    /\ UNCHANGED <<value, entry>>

\* The slot is used for a command on another host.
Leave(p) ==
    /\ ~Active(p)
    /\ call' = [call EXCEPT ![p] = None]
    /\ UNCHANGED <<value, entry>>

\* An upload of kind class, and an import.
Put == (\E c \in Class : value' = c) /\ UNCHANGED <<entry, call>>
Mirror == (\E c \in Class : entry' = c) /\ UNCHANGED <<value, call>>

Next ==
    \/ \E p \in Proc : Ask(p) \/ Store(p) \/ Enter(p) \/ Fail(p) \/ Leave(p)
    \/ Put
    \/ Mirror
=============================================================================
