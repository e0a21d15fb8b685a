--------------------------- MODULE Daemonize_proofs ---------------------------
(***************************************************************************)
(* A start that fails leaves no server, and a server that serves has its   *)
(* handlers, whatever signals are sent and however many.                   *)
(***************************************************************************)
EXTENDS Daemonize, TLAPS

\* Past its write the child has left a byte, and before it an end of the pipe is
\* open: a parent that reads the end of the pipe has lost its child.
PastWrite  == {"closeWrite", "serve"} \union Signals
PipeTells ==
    /\ parent \in {"init", "pipe", "fork"} => child = "none"
    /\ parent = "fork" => "write" \in ends["parent"]
    /\ child \in {"close", "write"} => "write" \in ends["child"]
    /\ parent \in {"close", "read"} /\ child \in PastWrite => byte

\* The handlers are installed in the order of After.
Installed ==
    /\ child \in {"INT", "TERM", "serve"} => "HUP" \in handlers
    /\ child \in {"TERM", "serve"} => "INT" \in handlers
    /\ child = "serve" => "TERM" \in handlers

StartInv == TypeOK /\ PipeTells /\ Installed /\ FailureLeavesNoServer

LEMMA StartInit == Init => StartInv
<1> SUFFICES ASSUME Init PROVE StartInv
  OBVIOUS
<1>1. TypeOK
  <2>1. ends \in [Processes -> SUBSET {"read", "write"}]
    BY DEF Init
  <2>2. signals \in 0..MaxSignals
    BY MaxSignalsAssumption DEF Init
  <2>3. /\ parent = "init" /\ child = "none" /\ child \notin Signals \union Ended
        /\ byte \in BOOLEAN /\ handlers \subseteq Signals
    BY DEF Init, Signals, Ended
  <2> QED BY <2>1, <2>2, <2>3 DEF TypeOK
<1>2. PipeTells /\ Installed /\ FailureLeavesNoServer
  BY DEF Init, PipeTells, Installed, FailureLeavesNoServer, PastWrite, Signals
<1> QED BY <1>1, <1>2 DEF StartInv

LEMMA StartNext == StartInv /\ [Next]_vars => StartInv'
<1> SUFFICES ASSUME StartInv, [Next]_vars PROVE StartInv'
  OBVIOUS
<1> USE MaxSignalsAssumption
    DEF StartInv, TypeOK, PipeTells, Installed, FailureLeavesNoServer, Ended,
        Processes, Signals, PastWrite
<1>1. CASE InitServer
  BY <1>1 DEF InitServer
<1>2. CASE Pipe
  BY <1>2 DEF Pipe
<1>3. CASE Fork
  <2>1. TypeOK'
    BY <1>3 DEF Fork, Closed
  <2>2. PipeTells'
    <3>1. CASE parent' = "close" /\ child' = "close"
      <4>1. ends'["child"] = ends["parent"]
        BY <1>3, <3>1 DEF Fork
      <4>2. "write" \in ends["parent"]
        BY <1>3 DEF Fork
      <4> QED BY <3>1, <4>1, <4>2
    <3>2. CASE parent' = "failure" /\ UNCHANGED child
      BY <1>3, <3>2 DEF Fork
    <3> QED BY <1>3, <3>1, <3>2 DEF Fork
  <2>3. Installed' /\ FailureLeavesNoServer'
    BY <1>3 DEF Fork
  <2> QED BY <2>1, <2>2, <2>3
<1>4. CASE ParentCloses
  BY <1>4 DEF ParentCloses
<1>5. CASE ParentReads
  <2>1. TypeOK' /\ PipeTells' /\ Installed'
    BY <1>5 DEF ParentReads, Closed
  <2>2. FailureLeavesNoServer'
    BY <1>5 DEF ParentReads, EndOfPipe
  <2> QED BY <2>1, <2>2
<1>6. CASE ChildCloses
  BY <1>6 DEF ChildCloses
<1>7. CASE ChildWrites
  BY <1>7 DEF ChildWrites, Closed
<1>8. CASE ChildClosesWrite
  BY <1>8 DEF ChildClosesWrite, Closed
<1>9. CASE InstallHandler
  <2>1. CASE child' = After[child] /\ handlers' = handlers \union {child}
    <3>1. /\ After["HUP"] = "INT" /\ After["INT"] = "TERM" /\ After["TERM"] = "serve"
          /\ child \in Signals
      BY <1>9 DEF After, InstallHandler
    <3> QED BY <1>9, <2>1, <3>1 DEF InstallHandler
  <2>2. CASE child' = "failure" /\ UNCHANGED handlers
    BY <1>9, <2>2 DEF InstallHandler
  <2> QED BY <1>9, <2>1, <2>2 DEF InstallHandler
<1>10. CASE SignalParent
  BY <1>10 DEF SignalParent, Closed
<1>11. ASSUME NEW s \in Signals, SignalChild(s) PROVE StartInv'
  BY <1>11 DEF SignalChild, Closed
<1>12. CASE UNCHANGED vars
  BY <1>12 DEF vars
<1> QED
  BY <1>1, <1>2, <1>3, <1>4, <1>5, <1>6, <1>7, <1>8, <1>9, <1>10, <1>11, <1>12
     DEF Next, Parent, Child, Done

LEMMA StartAlways == Spec => []StartInv
  BY StartInit, StartNext, PTL DEF Spec

\* Both processes keep their types: the order of the calls of lines 188-219.
THEOREM StartTypes == Spec => []TypeOK
  BY StartAlways, PTL DEF StartInv

\* A start that reports failure leaves no server behind (lines 192-208).
THEOREM NoServerAfterFailure == Spec => []FailureLeavesNoServer
  BY StartAlways, PTL DEF StartInv

\* No signal kills the server that serves: it exits through shutdownServer
\* (lines 211-219).
THEOREM StopsCleanly == Spec => StopIsClean
<1>1. StartInv /\ [Next]_vars => [child = "serve" /\ child' # "serve" => child' = "exited"]_vars
  <2> SUFFICES ASSUME StartInv, Next, child = "serve", child' # "serve"
               PROVE child' = "exited"
    BY DEF vars
  <2>1. CASE Parent
    BY <2>1 DEF Parent, InitServer, Pipe, Fork, ParentCloses, ParentReads,
                StartInv, PipeTells
  <2>2. CASE Child
    BY <2>2 DEF Child, ChildCloses, ChildWrites, ChildClosesWrite, InstallHandler, Signals
  <2>3. CASE \E s \in Signals : SignalChild(s)
    BY <2>3 DEF SignalChild, StartInv, Installed, Signals
  <2>4. CASE SignalParent \/ Done
    BY <2>4 DEF SignalParent, Done, vars
  <2> QED BY <2>1, <2>2, <2>3, <2>4 DEF Next
<1> QED BY <1>1, StartAlways, PTL DEF Spec, StopIsClean
=============================================================================
