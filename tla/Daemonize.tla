------------------------------ MODULE Daemonize ------------------------------
(***************************************************************************)
(* How yaul -d starts (main, initServer and daemonize_server of            *)
(* src/yaul.c): the parent forks the server and waits at a pipe for the    *)
(* byte that tells it what to exit with, while the child installs its      *)
(* signal handlers one after the other.  Signals reach both processes at   *)
(* any time, for kill $(pidof yaul) of README.md and init.d names both.    *)
(*                                                                         *)
(* A process that ends, however it does, closes its ends of the pipe.      *)
(* Here the files a handler closes are left out: LogServer has them.       *)
(***************************************************************************)
EXTENDS Naturals, FiniteSets

CONSTANT MaxSignals     \* bound: signals sent

ASSUME MaxSignalsAssumption == MaxSignals \in Nat

VARIABLES
    parent, child,      \* what each process does next, or how it ended
    ends,               \* the open ends of the pipe, of each process
    byte,               \* the byte of the child is in the pipe
    handlers,           \* the signals the child handles
    signals             \* signals sent so far

vars == <<parent, child, ends, byte, handlers, signals>>

Signals   == {"HUP", "INT", "TERM"}
Processes == {"parent", "child"}
Ended     == {"success", "failure", "exited", "killed"}

Init ==
    /\ parent = "init" /\ child = "none"
    /\ ends = [p \in Processes |-> {}]
    /\ byte = FALSE /\ handlers = {} /\ signals = 0

Closed(p) == [ends EXCEPT ![p] = {}]
-----------------------------------------------------------------------------
(* The parent.                                                             *)

\* The socket, bind and the connection to Redis: any of them may fail.
InitServer ==
    /\ parent = "init"
    /\ parent' \in {"pipe", "failure"}
    /\ UNCHANGED <<child, ends, byte, handlers, signals>>

Pipe ==
    /\ parent = "pipe"
    /\ \/ parent' = "fork" /\ ends' = [ends EXCEPT !["parent"] = {"read", "write"}]
       \/ parent' = "failure" /\ UNCHANGED ends
    /\ UNCHANGED <<child, byte, handlers, signals>>

Fork ==
    /\ parent = "fork"
    /\ \/ /\ parent' = "close" /\ child' = "close"
          /\ ends' = [ends EXCEPT !["child"] = ends["parent"]]
       \/ /\ parent' = "failure" /\ UNCHANGED child
          /\ ends' = Closed("parent")
    /\ UNCHANGED <<byte, handlers, signals>>

BugParentCloses ==      \* close(comm[1]) is missing
    /\ parent = "close"
    /\ parent' = "read"
    /\ UNCHANGED <<child, ends, byte, handlers, signals>>
ParentCloses ==
    /\ parent = "close"
    /\ ends' = [ends EXCEPT !["parent"] = @ \ {"write"}]
    /\ parent' = "read"
    /\ UNCHANGED <<child, byte, handlers, signals>>

\* read returns the byte, or 0 once nobody can write one.
BugEndOfPipe == ~byte
EndOfPipe    == ~byte /\ \A p \in Processes : "write" \notin ends[p]
ParentReads ==
    /\ parent = "read"
    /\ \/ byte /\ parent' = "success"
       \/ EndOfPipe /\ parent' = "failure"
    /\ byte' = FALSE
    /\ ends' = Closed("parent")
    /\ UNCHANGED <<child, handlers, signals>>
-----------------------------------------------------------------------------
(* The child, which becomes the server.                                    *)

ChildCloses ==
    /\ child = "close"
    /\ ends' = [ends EXCEPT !["child"] = @ \ {"read"}]
    /\ child' = "write"
    /\ UNCHANGED <<parent, byte, handlers, signals>>

\* A write to a pipe nobody can read is answered with SIGPIPE.
ChildWrites ==
    /\ child = "write"
    /\ IF \E p \in Processes : "read" \in ends[p]
       THEN byte' = TRUE /\ child' = "closeWrite" /\ UNCHANGED ends
       ELSE child' = "killed" /\ ends' = Closed("child") /\ UNCHANGED byte
    /\ UNCHANGED <<parent, handlers, signals>>

BugChildClosesWrite ==  \* the server keeps its end of the pipe
    /\ child = "closeWrite"
    /\ child' = "HUP"
    /\ UNCHANGED <<parent, ends, byte, handlers, signals>>
ChildClosesWrite ==
    /\ child = "closeWrite"
    /\ ends' = Closed("child")
    /\ child' = "HUP"
    /\ UNCHANGED <<parent, byte, handlers, signals>>

\* signal() for SIGHUP, SIGINT and SIGTERM, in this order; then serverLoop.
BugAfter == [HUP |-> "INT", INT |-> "serve", TERM |-> "serve"]
After    == [HUP |-> "INT", INT |-> "TERM", TERM |-> "serve"]
InstallHandler ==
    /\ child \in Signals
    /\ \/ handlers' = handlers \union {child} /\ child' = After[child]
       \/ child' = "failure" /\ UNCHANGED handlers
    /\ UNCHANGED <<parent, ends, byte, signals>>
-----------------------------------------------------------------------------
(* Signals: sig_hup goes on, sig_int and sig_term exit, and a signal that  *)
(* is not handled kills.                                                   *)

SignalParent ==
    /\ parent \notin Ended /\ signals < MaxSignals
    /\ parent' = "killed" /\ ends' = Closed("parent")
    /\ signals' = signals + 1
    /\ UNCHANGED <<child, byte, handlers>>

SignalChild(s) ==
    /\ child \notin Ended \union {"none"} /\ signals < MaxSignals
    /\ \/ s \notin handlers /\ child' = "killed" /\ ends' = Closed("child")
       \/ s \in handlers \ {"HUP"} /\ child' = "exited" /\ ends' = Closed("child")
       \/ s \in handlers \cap {"HUP"} /\ UNCHANGED <<child, ends>>
    /\ signals' = signals + 1
    /\ UNCHANGED <<parent, byte, handlers>>

Done == parent \in Ended /\ child \in Ended \union {"none", "serve"} /\ UNCHANGED vars
-----------------------------------------------------------------------------
Parent == InitServer \/ Pipe \/ Fork \/ ParentCloses \/ ParentReads
Child  == ChildCloses \/ ChildWrites \/ ChildClosesWrite \/ InstallHandler

Next == Parent \/ Child \/ SignalParent \/ (\E s \in Signals : SignalChild(s)) \/ Done

\* The kernel runs both processes; signals need never come.
Spec == Init /\ [][Next]_vars /\ WF_vars(Parent) /\ WF_vars(Child)
-----------------------------------------------------------------------------
(* What the start promises.                                                *)

TypeOK ==
    /\ parent \in {"init", "pipe", "fork", "close", "read"} \union Ended
    /\ child \in {"none", "close", "write", "closeWrite", "serve"} \union Signals \union Ended
    /\ ends \in [Processes -> SUBSET {"read", "write"}]
    /\ child \in Signals \union {"serve"} \union Ended => ends["child"] = {}
    /\ byte \in BOOLEAN /\ handlers \subseteq Signals
    /\ signals \in 0..MaxSignals

\* A start that reports failure leaves no server behind: the parent takes the end
\* of the pipe for a failure only when the child has died (lines 192-208).
FailureLeavesNoServer == parent = "failure" => child \in Ended \union {"none"}

\* The server that serves dies of none of its signals but exits through
\* shutdownServer (lines 211-219).
StopIsClean == [][child = "serve" /\ child' # "serve" => child' = "exited"]_vars

\* The start comes to an end: the parent does not wait at the pipe for a child
\* that has died, and the child serves or is gone (lines 188-219).
StartSettles == <>(parent \in Ended /\ child \in Ended \union {"none", "serve"})
=============================================================================
