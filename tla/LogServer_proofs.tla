--------------------------- MODULE LogServer_proofs ---------------------------
(***************************************************************************)
(* Proofs about LogServer for every set of lognames, every choice of       *)
(* options, every width of the counters and every number of datagrams and  *)
(* signals.                                                                *)
(***************************************************************************)
EXTENDS LogServer, FiniteSetTheorems, SequenceTheorems, TLAPS

\* The remainder of the unsigned counters stays within their width.
LEMMA ModRange ==
    ASSUME NEW x \in Nat, NEW m \in Nat \ {0}
    PROVE  x % m \in 0..(m - 1)
  OBVIOUS

\* A sequence cut after k elements is two sequences; k elements leave.
LEMMA SplitType ==
    ASSUME NEW s \in Seq(Nat), NEW k \in 0..Len(s)
    PROVE  /\ SubSeq(s, 1, k) \in Seq(Nat)
           /\ SubSeq(s, k + 1, Len(s)) \in Seq(Nat)
           /\ Len(SubSeq(s, k + 1, Len(s))) = Len(s) - k
  <1>1. Len(s) \in Nat
    OBVIOUS
  <1>2. 1 \in 1..(Len(s) + 1) /\ k \in (1 - 1)..Len(s)
    BY <1>1
  <1>3. k + 1 \in 1..(Len(s) + 1) /\ Len(s) \in (k + 1 - 1)..Len(s)
    BY <1>1
  <1>. QED
    BY <1>1, <1>2, <1>3, SubSeqProperties

\* Draining any set of streams leaves sequences of lines everywhere.
LEMMA DrainType ==
    ASSUME TypeOK, NEW S, Drain(S)
    PROVE  buf' \in [Names -> Seq(Nat)] /\ disk' \in [Names -> Seq(Nat)]
  <1>1. \A n \in Names : buf[n] \in Seq(Nat) /\ disk[n] \in Seq(Nat)
    BY DEF TypeOK
  <1>2. \A n \in Names : disk[n] \o buf[n] \in Seq(Nat)
    BY <1>1
  <1>3. <<>> \in Seq(Nat)
    OBVIOUS
  <1>. QED
    BY <1>1, <1>2, <1>3, Zenon DEF Drain

-----------------------------------------------------------------------------
(* Type correctness.                                                       *)

LEMMA TypeInit == Init => TypeOK
  <1>. SUFFICES ASSUME Init PROVE TypeOK
    OBVIOUS
  <1>1. buf \in [Names -> Seq(Nat)] /\ disk \in [Names -> Seq(Nat)]
    BY DEF Init
  <1>2. received \in [Names -> Nat] /\ lost \in [Names -> SUBSET Nat]
    BY DEF Init
  <1>. QED
    <2>1. 0 \in 0..(UIntMod - 1)
      BY BoundsAssumption
    <2>2. handles \subseteq Names /\ open \subseteq Names
      BY DEF Init
    <2>. QED
      BY <1>1, <1>2, <2>1, <2>2 DEF Init, TypeOK, Running, Ended

LEMMA TypeNext == TypeOK /\ [Next]_vars => TypeOK'
  <1>. SUFFICES ASSUME TypeOK, [Next]_vars PROVE TypeOK'
    OBVIOUS
  <1>. USE NamesAssumption, OptionsAssumption, BoundsAssumption
  <1>0. CASE UNCHANGED vars
    BY <1>0 DEF vars, control, pool, streams, counters, history, TypeOK
  <1>1. ASSUME NEW n \in Names, Recv(n) PROVE TypeOK'
    <2>1. received' \in [Names -> Nat] /\ clients' \in Nat /\ sinceStat' \in Nat
      BY <1>1 DEF Recv, TypeOK
    <2>2. /\ pc' \in Running \union Ended /\ name' \in Names
          /\ caller' \in {"serverLoop", "statistics"}
      BY <1>1 DEF Recv, Running
    <2>. QED
      BY <1>1, <2>1, <2>2 DEF Recv, TypeOK, pool, streams, counters
  <1>2. CASE OpenSame
    BY <1>2 DEF OpenSame, Goto, TypeOK, pool, streams, counters, history, Running, Ended
  <1>3. CASE OpenFound
    <2>1. buf' \in [Names -> Seq(Nat)] /\ disk' \in [Names -> Seq(Nat)]
      BY <1>3, DrainType DEF OpenFound, FlushLast
    <2>. QED
      BY <1>3, <2>1
         DEF OpenFound, Switches, FlushLast, FlushesLast, Goto, TypeOK, history, Running, Ended
  <1>4. CASE OpenMiss
    <2>1. buf' \in [Names -> Seq(Nat)] /\ disk' \in [Names -> Seq(Nat)]
      BY <1>4, DrainType DEF OpenMiss, FlushLast
    <2>. QED
      BY <1>4, <2>1
         DEF OpenMiss, Switches, FlushLast, FlushesLast, Goto, TypeOK, pool, counters, history,
             Running, Ended
  <1>5. ASSUME NEW how \in {"failed", "crashed", "aborted", "killed"}, Die(how)
        PROVE  TypeOK'
    BY <1>5 DEF Die, TypeOK, pool, streams, counters, history, Running, Ended
  <1>6. ASSUME NEW n \in Names, Pick(n) PROVE TypeOK'
    BY <1>6 DEF Pick, Goto, TypeOK, streams, counters, history, Running, Ended
  <1>7. CASE CloseVictim
    <2>1. buf' \in [Names -> Seq(Nat)] /\ disk' \in [Names -> Seq(Nat)]
      BY <1>7, DrainType DEF CloseVictim
    <2>2. stat_files_closed' \in 0..(UIntMod - 1)
      BY <1>7, ModRange DEF CloseVictim, Inc, TypeOK
    <2>3. misuse' \in BOOLEAN
      BY <1>7 DEF CloseVictim
    <2>4. open' \subseteq Names
      BY <1>7 DEF CloseVictim, TypeOK
    <2>. QED
      BY <1>7, <2>1, <2>2, <2>3, <2>4 DEF CloseVictim, Goto, TypeOK, pool, history, Running, Ended
  <1>8. CASE RemoveVictim
    <2>1. dangling' \in BOOLEAN
      BY <1>8 DEF RemoveVictim
    <2>2. handles' \subseteq Names
      BY <1>8 DEF RemoveVictim, TypeOK
    <2>. QED
      BY <1>8, <2>1, <2>2 DEF RemoveVictim, Goto, TypeOK, streams, counters, history, Running, Ended
  <1>9. CASE Fopen
    BY <1>9 DEF Fopen, Goto, TypeOK, pool, counters, history, Running, Ended
  <1>10. CASE FopenFails
    <2>1. buf' \in [Names -> Seq(Nat)] /\ disk' \in [Names -> Seq(Nat)]
      BY <1>10, DrainType DEF FopenFails
    <2>. QED
      BY <1>10, <2>1 DEF FopenFails, Goto, TypeOK, pool, counters, history, Running, Ended
  <1>11. CASE Insert
    <2>1. stat_files_opened' \in 0..(UIntMod - 1)
      BY <1>11, ModRange DEF Insert, Inc, TypeOK
    <2>2. handles' \subseteq Names /\ lastfile' \in Names \union {NoName}
      BY <1>11 DEF Insert, TypeOK, Running
    <2>. QED
      BY <1>11, <2>1, <2>2 DEF Insert, Goto, TypeOK, streams, history, Running, Ended
  <1>12. CASE Fprintf
    <2>1. PICK k \in 0..Len(Append(buf[lastfile], received[name])) :
            LET held == Append(buf[lastfile], received[name])
            IN  /\ disk' = [disk EXCEPT ![lastfile] = @ \o SubSeq(held, 1, k)]
                /\ buf' = [buf EXCEPT ![lastfile] = SubSeq(held, k + 1, Len(held))]
      BY <1>12 DEF Fprintf
    <2>. DEFINE held == Append(buf[lastfile], received[name])
    <2>2. lastfile \in Names /\ name \in Names
      BY <1>12 DEF Fprintf, TypeOK, Running
    <2>3. held \in Seq(Nat) /\ disk[lastfile] \in Seq(Nat)
      BY <2>2 DEF TypeOK
    <2>4. SubSeq(held, 1, k) \in Seq(Nat) /\ SubSeq(held, k + 1, Len(held)) \in Seq(Nat)
      BY <2>1, <2>3, SplitType
    <2>5. disk[lastfile] \o SubSeq(held, 1, k) \in Seq(Nat)
      BY <2>3, <2>4
    <2>6. buf' \in [Names -> Seq(Nat)] /\ disk' \in [Names -> Seq(Nat)]
      BY <2>1, <2>4, <2>5 DEF TypeOK
    <2>7. stat_messages_handled' \in 0..(UIntMod - 1)
      BY <1>12, ModRange DEF Fprintf, Inc, TypeOK
    <2>. QED
      BY <1>12, <2>6, <2>7 DEF Fprintf, Goto, TypeOK, pool, history, Running, Ended
  <1>13. CASE FprintfClosed
    <2>1. stat_messages_handled' \in 0..(UIntMod - 1)
      BY <1>13, ModRange DEF FprintfClosed, Inc, TypeOK
    <2>2. name \in Names /\ received[name] \in Nat
      BY <1>13 DEF FprintfClosed, TypeOK, Running
    <2>3. lost' \in [Names -> SUBSET Nat]
      BY <1>13, <2>2 DEF FprintfClosed, TypeOK
    <2>. QED
      BY <1>13, <2>1, <2>3
         DEF FprintfClosed, Goto, TypeOK, pool, streams, Running, Ended
  <1>14. CASE Fflush
    <2>1. buf' \in [Names -> Seq(Nat)] /\ disk' \in [Names -> Seq(Nat)]
      BY <1>14, DrainType DEF Fflush
    <2>2. misuse' \in BOOLEAN
      BY <1>14 DEF Fflush
    <2>3. received' \in [Names -> Nat] /\ sinceStat' \in Nat
      <3>1. CASE StatsDue
        <4>1. /\ received' = [received EXCEPT ![StatName] = @ + 1]
              /\ sinceStat' = 0
          BY <1>14, <3>1 DEF Fflush, Continue
        <4>. QED
          BY <4>1 DEF TypeOK
      <3>2. CASE ~StatsDue
        BY <1>14, <3>2 DEF Fflush, Continue, TypeOK
      <3>. QED
        BY <3>1, <3>2
    <2>4. /\ pc' \in {"open", "recv"} /\ caller' \in {"serverLoop", "statistics"}
          /\ name' \in Names \union {NoName} /\ (pc' = "open" => name' \in Names)
      BY <1>14 DEF Fflush, Continue
    <2>. QED
      BY <1>14, <2>1, <2>2, <2>3, <2>4
         DEF Fflush, TypeOK, pool, counters, Running, Ended
  <1>15. ASSUME NEW S, CloseAllFiles(S),
                \/ pc' \in Ended /\ UNCHANGED hups
                \/ pc' = pc /\ hups' = hups + 1,
                UNCHANGED <<config, name, caller, received, clients, sinceStat, lost>>
         PROVE  TypeOK'
    <2>1. buf' \in [Names -> Seq(Nat)] /\ disk' \in [Names -> Seq(Nat)]
      BY <1>15, DrainType DEF CloseAllFiles
    <2>2. Cardinality(handles) \in Nat
      BY FS_Subset, FS_CardinalityType DEF TypeOK
    <2>3. stat_files_closed' \in 0..(UIntMod - 1)
      <3>1. stat_files_closed + Cardinality(handles) \in Nat
        BY <2>2 DEF TypeOK
      <3>. QED
        BY <1>15, <3>1, ModRange DEF CloseAllFiles
    <2>4. dangling' \in BOOLEAN /\ misuse' \in BOOLEAN
      BY <1>15 DEF CloseAllFiles
    <2>5. open' \subseteq Names /\ handles' \subseteq Names
      BY <1>15 DEF CloseAllFiles, TypeOK
    <2>6. pc' \in Running \union Ended /\ (pc' \in Running \ {"recv"} => name \in Names)
      BY <1>15 DEF TypeOK, Running, Ended
    <2>7. hups' \in Nat
      BY <1>15 DEF TypeOK
    <2>. QED
      BY <1>15, <2>1, <2>3, <2>4, <2>5, <2>6, <2>7 DEF CloseAllFiles, TypeOK
  <1>16. CASE SigHup
    BY <1>15, <1>16 DEF SigHup, control
  <1>17. CASE ShutdownServer
    BY <1>15, <1>17 DEF ShutdownServer, Goto, history, Ended
  <1>. QED
    BY <1>0, <1>1, <1>2, <1>3, <1>4, <1>5, <1>6, <1>7, <1>8, <1>9, <1>10, <1>11,
       <1>12, <1>13, <1>14, <1>16, <1>17
       DEF Next, Server, OpenLogfile, CloseRandomFile, LogMessageFile, Signal,
           OpenCrash, PickNone, PickAgain, CloseVictimCrash, FopenFailsCrash,
           FprintfClosedCrash, FflushCrash, HandlerCrash, KilledBySignal, Crash, Done

\* Every variable keeps its type: a logname is in hand between two calls of
\* recvfrom, the pool and the open streams are lognames, the counters stay below
\* the width of an unsigned int (yaul.c lines 36-47 and every function after).
THEOREM TypeCorrect == Spec => []TypeOK
  BY TypeInit, TypeNext, PTL DEF Spec

-----------------------------------------------------------------------------
(* The pool.  PoolIsOpen and LastIsPooled are not inductive: an eviction   *)
(* keeps them because its victim is an entry that is not lastfile, and an  *)
(* opening because the table has no entry for the logname in hand, unless  *)
(* SIGHUP emptied the table meanwhile.                                     *)

VictimIsAnother ==
    pc \in {"fclose", "remove"} =>
        victim # lastfile /\ (victim \in handles \/ handles = {})

NameIsMissing ==
    pc \in {"pick", "fclose", "remove", "fopen", "insert"} => name \notin handles

DanglingIsGone == pc \in Running /\ dangling => lastfile \notin handles

PoolInv == /\ PoolIsOpen /\ LastIsPooled
           /\ VictimIsAnother /\ NameIsMissing /\ DanglingIsGone

LEMMA PoolInit == Init => PoolInv
  BY DEF Init, PoolInv, PoolIsOpen, LastIsPooled, VictimIsAnother, NameIsMissing,
         DanglingIsGone, Running

LEMMA PoolNext == TypeOK /\ PoolInv /\ [Next]_vars => PoolInv'
  <1>. SUFFICES ASSUME TypeOK, PoolInv, [Next]_vars PROVE PoolInv'
    OBVIOUS
  <1>. USE DEF PoolInv, PoolIsOpen, LastIsPooled, VictimIsAnother, NameIsMissing,
               DanglingIsGone, Running, Ended
  <1>0. CASE UNCHANGED vars
    BY <1>0 DEF vars, control, pool, streams
  <1>1. ASSUME NEW n \in Names, Recv(n) PROVE PoolInv'
    BY <1>1 DEF Recv, pool, streams
  <1>2. CASE OpenSame
    BY <1>2 DEF OpenSame, Goto, pool, streams
  <1>3. CASE OpenFound
    BY <1>3, NamesAssumption DEF OpenFound, Switches, FlushLast, Goto, TypeOK
  <1>4. CASE OpenMiss
    BY <1>4 DEF OpenMiss, Switches, FlushLast, Goto, pool
  <1>5. ASSUME NEW how \in Ended, Die(how) PROVE PoolInv'
    BY <1>5 DEF Die
  <1>6. ASSUME NEW n \in Names, Pick(n) PROVE PoolInv'
    BY <1>6 DEF Pick, Goto, streams
  <1>7. CASE CloseVictim
    BY <1>7 DEF CloseVictim, Goto, pool
  <1>8. CASE RemoveVictim
    BY <1>8 DEF RemoveVictim, Goto, streams
  <1>9. CASE Fopen
    BY <1>9 DEF Fopen, Goto, pool
  <1>10. CASE FopenFails
    BY <1>10 DEF FopenFails, Goto
  <1>11. CASE Insert
    BY <1>11 DEF Insert, Goto, streams
  <1>12. CASE Fprintf
    BY <1>12 DEF Fprintf, Goto, pool
  <1>13. CASE FprintfClosed
    BY <1>13 DEF FprintfClosed, Goto, pool, streams
  <1>14. CASE Fflush
    <2>1. pc' \in {"open", "recv"}
      BY <1>14 DEF Fflush, Continue
    <2>. QED
      BY <1>14, <2>1 DEF Fflush, pool
  <1>15. CASE SigHup
    BY <1>15 DEF SigHup, CloseAllFiles, control
  <1>16. CASE ShutdownServer
    BY <1>16 DEF ShutdownServer, Goto
  <1>. QED
    BY <1>0, <1>1, <1>2, <1>3, <1>4, <1>5, <1>6, <1>7, <1>8, <1>9, <1>10, <1>11,
       <1>12, <1>13, <1>14, <1>15, <1>16
       DEF Next, Server, OpenLogfile, CloseRandomFile, LogMessageFile, Signal,
           OpenCrash, PickNone, PickAgain, CloseVictimCrash, FopenFailsCrash,
           FprintfClosedCrash, FflushCrash, HandlerCrash, KilledBySignal, Crash, Done

\* Between two calls the table and the open streams differ by the file that is
\* being opened or closed: no stream leaks and no closed stream stays in the
\* table, whatever SIGHUP does between two steps of an eviction or an opening.
THEOREM PoolStaysOpen == Spec => []PoolIsOpen
  <1>1. PoolInv => PoolIsOpen
    BY DEF PoolInv
  <1>. QED
    BY <1>1, TypeInit, TypeNext, PoolInit, PoolNext, PTL DEF Spec

\* Unless SIGHUP freed it, lastfile is an open entry of the table: closeRandomFile
\* never takes the file in use.
THEOREM LastStaysPooled == Spec => []LastIsPooled
  <1>1. PoolInv => LastIsPooled
    BY DEF PoolInv
  <1>. QED
    BY <1>1, TypeInit, TypeNext, PoolInit, PoolNext, PTL DEF Spec

\* Table, open streams and lastfile agree at every call.
THEOREM PoolStaysSound == Spec => []PoolSound
  <1>1. PoolIsOpen /\ LastIsPooled => PoolSound
    BY DEF PoolSound
  <1>. QED
    BY <1>1, PoolStaysOpen, LastStaysPooled, PTL

-----------------------------------------------------------------------------
(* The limit of the pool.  OpenBound needs that an eviction has made room  *)
(* before a file is opened; PoolInv relates the table to the open streams. *)

\* A set of lognames is finite, a part of it is no larger, and one more element
\* adds one at most.
LEMMA LogSets ==
    ASSUME NEW H \in SUBSET Names
    PROVE  /\ Cardinality(H) \in Nat
           /\ \A O \in SUBSET H : Cardinality(O) <= Cardinality(H)
           /\ \A n : Cardinality(H \union {n}) <= Cardinality(H) + 1
           /\ \A n \in H : Cardinality(H \ {n}) = Cardinality(H) - 1
  <1>1. IsFiniteSet(H)
    BY FS_Subset, NamesAssumption
  <1>. QED
    BY <1>1, FS_Subset, FS_CardinalityType, FS_AddElement, FS_RemoveElement

HandlesBound ==
    /\ Cardinality(handles) <= PoolLimit
    /\ pc \in {"fopen", "insert"} => Cardinality(handles) < PoolLimit

RoomInv == HandlesBound /\ OpenBound

LEMMA LimitType == TypeOK => config.maxhandles \in Nat /\ PoolLimit \in Nat
  BY OptionsAssumption DEF TypeOK, Configs, PoolLimit

LEMMA RoomInit == Init => RoomInv
  <1>. SUFFICES ASSUME Init PROVE RoomInv
    OBVIOUS
  <1>1. Cardinality(handles) = 0 /\ Cardinality(open) = 0
    BY FS_EmptySet DEF Init
  <1>2. PoolLimit \in Nat
    BY LimitType, TypeInit
  <1>. QED
    BY <1>1, <1>2 DEF Init, RoomInv, HandlesBound, OpenBound

LEMMA HandlesNext ==
    TypeOK /\ PoolInv /\ HandlesBound /\ [Next]_vars => HandlesBound'
  <1>. SUFFICES ASSUME TypeOK, PoolInv, HandlesBound, [Next]_vars PROVE HandlesBound'
    OBVIOUS
  <1>. USE DEF HandlesBound
  <1>. DEFINE size == Cardinality(handles)
  <1>a. /\ PoolLimit \in Nat /\ PoolLimit >= 2 /\ PoolLimit >= config.maxhandles
        /\ config.maxhandles \in Nat
    BY LimitType DEF PoolLimit
  <1>b. size \in Nat /\ handles \in SUBSET Names
    BY LogSets DEF TypeOK
  <1>c. config' = config => PoolLimit' = PoolLimit
    BY DEF PoolLimit
  <1>1. ASSUME UNCHANGED <<config, handles>>, pc' \notin {"fopen", "insert"} \/ pc' = pc
        PROVE  HandlesBound'
    BY <1>1, <1>c
  <1>2. CASE OpenMiss
    <2>1. pc' = "fopen" => size < PoolLimit
      BY <1>2, <1>a, <1>b DEF OpenMiss, Goto, PoolFull, CanEvict
    <2>2. pc' # "insert"
      BY <1>2 DEF OpenMiss, Goto
    <2>. QED
      BY <1>2, <1>c, <2>1, <2>2 DEF OpenMiss, pool
  <1>3. CASE RemoveVictim
    <2>1. CASE victim \in handles
      BY <1>3, <1>a, <1>b, <1>c, <2>1, LogSets DEF RemoveVictim, Goto
    <2>2. CASE handles = {}
      <3>1. handles' = {} /\ Cardinality(handles') = 0
        BY <1>3, <2>2, FS_EmptySet DEF RemoveVictim
      <3>. QED
        BY <1>3, <1>a, <1>c, <3>1 DEF RemoveVictim
    <2>. QED
      BY <1>3, <2>1, <2>2 DEF RemoveVictim, PoolInv, VictimIsAnother
  <1>4. CASE Fopen
    BY <1>4, <1>c DEF Fopen, Goto, pool
  <1>5. CASE Insert
    <2>1. Cardinality(handles \union {name}) <= size + 1
      BY <1>b, LogSets
    <2>2. Cardinality(handles') \in Nat /\ handles' = handles \union {name}
      <3>1. handles \union {name} \in SUBSET Names
        BY <1>5, <1>b DEF Insert, TypeOK, Running
      <3>. QED
        BY <1>5, <3>1, LogSets DEF Insert
    <2>. QED
      BY <1>5, <1>a, <1>b, <1>c, <2>1, <2>2 DEF Insert, Goto
  <1>6. ASSUME handles' = {}, UNCHANGED config PROVE HandlesBound'
    <2>1. Cardinality(handles') = 0
      BY <1>6, FS_EmptySet
    <2>. QED
      BY <1>6, <1>a, <1>c, <2>1
  <1>7. CASE SigHup \/ ShutdownServer
    BY <1>6, <1>7 DEF SigHup, ShutdownServer, CloseAllFiles
  <1>8. ASSUME NEW how \in Ended, Die(how) PROVE HandlesBound'
    BY <1>1, <1>8 DEF Die, pool, Ended
  <1>9. ASSUME NEW n \in Names, Recv(n) \/ Pick(n) PROVE HandlesBound'
    BY <1>1, <1>9 DEF Recv, Pick, Goto, pool
  <1>10. CASE OpenSame \/ OpenFound \/ CloseVictim \/ FopenFails \/ Fprintf \/ FprintfClosed
    BY <1>1, <1>10
       DEF OpenSame, OpenFound, CloseVictim, FopenFails, Fprintf, FprintfClosed, Goto, pool
  <1>11. CASE Fflush
    <2>1. pc' \in {"open", "recv"} /\ UNCHANGED <<config, handles>>
      BY <1>11 DEF Fflush, Continue, pool
    <2>. QED
      BY <1>1, <2>1
  <1>12. CASE UNCHANGED vars
    BY <1>1, <1>12 DEF vars, control, pool
  <1>. QED
    BY <1>2, <1>3, <1>4, <1>5, <1>7, <1>8, <1>9, <1>10, <1>11, <1>12
       DEF Next, Server, OpenLogfile, CloseRandomFile, LogMessageFile, Signal,
           OpenCrash, PickNone, PickAgain, CloseVictimCrash, FopenFailsCrash,
           FprintfClosedCrash, FflushCrash, HandlerCrash, KilledBySignal, Crash, Done,
           Ended

\* Where the server runs, PoolIsOpen bounds the open streams by the table.
LEMMA OpenFromHandles ==
    TypeOK /\ PoolInv /\ HandlesBound /\ pc \in Running => OpenBound
  <1>. SUFFICES ASSUME TypeOK, PoolInv, HandlesBound, pc \in Running PROVE OpenBound
    OBVIOUS
  <1>1. PoolLimit \in Nat /\ Cardinality(handles) \in Nat /\ handles \in SUBSET Names
    BY LimitType, LogSets DEF TypeOK
  <1>2. CASE pc = "insert"
    <2>1. open = handles \union {name} /\ open \in SUBSET Names
      BY <1>2 DEF PoolInv, PoolIsOpen, TypeOK
    <2>2. Cardinality(open) \in Nat /\ Cardinality(open) <= Cardinality(handles) + 1
      BY <1>1, <2>1, LogSets
    <2>. QED
      BY <1>1, <1>2, <2>2 DEF HandlesBound, OpenBound
  <1>3. CASE pc # "insert"
    <2>1. open \in SUBSET handles
      BY <1>3 DEF PoolInv, PoolIsOpen
    <2>2. Cardinality(open) \in Nat /\ Cardinality(open) <= Cardinality(handles)
      BY <1>1, <2>1, LogSets DEF TypeOK
    <2>. QED
      BY <1>1, <2>2 DEF HandlesBound, OpenBound
  <1>. QED
    BY <1>2, <1>3

\* A step that ends the process opens nothing.
LEMMA EndOpensNothing ==
    TypeOK /\ OpenBound /\ [Next]_vars /\ pc' \in Ended => OpenBound'
  <1>. SUFFICES ASSUME TypeOK, OpenBound, [Next]_vars, pc' \in Ended PROVE OpenBound'
    OBVIOUS
  <1>1. open' \subseteq open /\ config' = config
    <2>1. ASSUME NEW n \in Names PROVE ~Recv(n) /\ ~Pick(n)
      BY DEF Recv, Pick, Goto, Ended
    <2>2. ~OpenSame /\ ~OpenFound /\ ~OpenMiss /\ ~Fopen /\ ~Insert /\ ~Fprintf
      BY DEF OpenSame, OpenFound, OpenMiss, Fopen, Insert, Fprintf, Goto, Ended
    <2>3. ~FprintfClosed /\ ~Fflush /\ ~CloseVictim /\ ~RemoveVictim
      BY DEF FprintfClosed, Fflush, Continue, CloseVictim, RemoveVictim, Goto, Ended
    <2>. QED
      BY <2>1, <2>2, <2>3
         DEF Next, Server, OpenLogfile, CloseRandomFile, LogMessageFile, Signal,
             OpenCrash, PickNone, PickAgain, CloseVictimCrash, FopenFails,
             FopenFailsCrash, FprintfClosedCrash, FflushCrash, HandlerCrash,
             KilledBySignal, Crash, Done, Die, SigHup, ShutdownServer, CloseAllFiles,
             vars, streams
  <1>2. PoolLimit' = PoolLimit /\ PoolLimit \in Nat
    BY <1>1, LimitType DEF PoolLimit
  <1>3. /\ Cardinality(open') <= Cardinality(open)
        /\ Cardinality(open) \in Nat /\ Cardinality(open') \in Nat
    BY <1>1, LogSets DEF TypeOK
  <1>. QED
    BY <1>2, <1>3 DEF OpenBound

\* At most -m files, or two, are open at any time, a file being opened included.
THEOREM OpenStaysBounded == Spec => []OpenBound
  <1>. DEFINE Inv == TypeOK /\ PoolInv /\ RoomInv
  <1>1. Init => Inv
    BY TypeInit, PoolInit, RoomInit
  <1>2. Inv /\ [Next]_vars => HandlesBound' /\ TypeOK' /\ PoolInv'
    BY TypeNext, PoolNext, HandlesNext DEF RoomInv
  <1>3. (TypeOK /\ PoolInv /\ HandlesBound /\ pc \in Running => OpenBound)'
    BY OpenFromHandles, PTL
  <1>4. Inv /\ [Next]_vars => OpenBound'
    BY <1>2, <1>3, EndOpensNothing DEF RoomInv, TypeOK
  <1>5. Inv /\ [Next]_vars => Inv'
    BY <1>2, <1>4 DEF RoomInv
  <1>6. Inv => OpenBound
    BY DEF RoomInv
  <1>. QED
    BY <1>1, <1>5, <1>6, PTL DEF Spec

-----------------------------------------------------------------------------
(* What stdio holds back.  A nonempty buffer is the one of lastfile, which *)
(* is then open; it is empty when another file is opened, and, with -f 1,  *)
(* whenever a line has been flushed.                                       *)

NothingHeld == \A n \in Names : buf[n] = <<>>

UnflushedInv ==
    /\ \A n \in Names : buf[n] # <<>> => n = lastfile /\ (pc \in Running => ~dangling)
    /\ pc \in {"pick", "fclose", "remove", "fopen", "insert"} => NothingHeld
    /\ pc \in {"recv", "open", "fprintf"} /\ config.flush <= 1 => NothingHeld

\* A drained stream holds nothing, the others hold what they held.
LEMMA DrainKeeps ==
    ASSUME NEW S, Drain(S), NEW n \in Names
    PROVE  buf'[n] = IF n \in S THEN <<>> ELSE buf[n]
  BY DEF Drain

\* A remainder modulo 1 is 0.
LEMMA ModOne == \A h \in Nat : h % 1 = 0
  OBVIOUS

LEMMA UnflushedInit == Init => UnflushedInv
  BY DEF Init, UnflushedInv, NothingHeld

\* Before another file is opened nothing is held back: the file left behind is
\* flushed, or -f is 1 and it was flushed before.
LEMMA SwitchDrains ==
    ASSUME TypeOK, UnflushedInv, pc = "open", FlushLast
    PROVE  NothingHeld'
  <1>. SUFFICES ASSUME NEW n \in Names PROVE buf'[n] = <<>>
    BY DEF NothingHeld
  <1>. DEFINE S == IF FlushesLast /\ ~dangling THEN {lastfile} ELSE {}
  <1>1. buf'[n] = IF n \in S THEN <<>> ELSE buf[n]
    BY DrainKeeps DEF FlushLast
  <1>2. CASE buf[n] = <<>>
    BY <1>1, <1>2
  <1>3. CASE buf[n] # <<>>
    <2>1. n = lastfile /\ ~dangling /\ ~(config.flush <= 1)
      BY <1>3 DEF UnflushedInv, NothingHeld, Running
    <2>2. config.flush \in Nat
      BY OptionsAssumption DEF TypeOK, Configs
    <2>3. FlushesLast
      BY <2>1, <2>2, NamesAssumption DEF FlushesLast
    <2>. QED
      BY <1>1, <2>1, <2>3
  <1>. QED
    BY <1>2, <1>3

LEMMA UnflushedNext ==
    TypeOK /\ PoolInv /\ UnflushedInv /\ [Next]_vars => UnflushedInv'
  <1>. SUFFICES ASSUME TypeOK, PoolInv, UnflushedInv, [Next]_vars PROVE UnflushedInv'
    OBVIOUS
  <1>. USE DEF UnflushedInv, NothingHeld, Running, Ended
  <1>0. CASE UNCHANGED vars
    BY <1>0 DEF vars, control, pool, streams
  <1>1. ASSUME NEW n \in Names, Recv(n) PROVE UnflushedInv'
    BY <1>1 DEF Recv, pool, streams
  <1>2. CASE OpenSame
    BY <1>2 DEF OpenSame, Goto, pool, streams
  <1>3. CASE OpenFound \/ OpenMiss
    <2>1. NothingHeld'
      BY <1>3, SwitchDrains DEF OpenFound, OpenMiss, Switches
    <2>. QED
      BY <2>1
  <1>4. ASSUME NEW how \in Ended, Die(how) PROVE UnflushedInv'
    BY <1>4 DEF Die, pool, streams
  <1>5. ASSUME NEW n \in Names, Pick(n) PROVE UnflushedInv'
    BY <1>5 DEF Pick, Goto, streams
  <1>6. CASE CloseVictim
    <2>1. NothingHeld'
      BY <1>6, DrainKeeps DEF CloseVictim
    <2>. QED
      BY <2>1
  <1>7. CASE RemoveVictim \/ Fopen \/ Insert
    <2>1. NothingHeld'
      BY <1>7 DEF RemoveVictim, Fopen, Insert, streams
    <2>. QED
      BY <2>1
  <1>8. CASE FopenFails
    <2>1. NothingHeld'
      BY <1>8, DrainKeeps DEF FopenFails
    <2>. QED
      BY <2>1
  <1>9. CASE Fprintf
    <2>1. \A n \in Names : n # lastfile => buf'[n] = buf[n]
      BY <1>9 DEF Fprintf, TypeOK
    <2>2. ~dangling
      BY <1>9 DEF Fprintf, PoolInv, PoolIsOpen, DanglingIsGone
    <2>3. pc' = "fflush" /\ UNCHANGED <<lastfile, dangling>>
      BY <1>9 DEF Fprintf, Goto, pool
    <2>. QED
      BY <2>1, <2>2, <2>3
  <1>10. CASE FprintfClosed
    BY <1>10 DEF FprintfClosed, Goto, pool, streams
  <1>11. CASE Fflush
    <2>1. pc' \in {"open", "recv"} /\ UNCHANGED <<config, lastfile, dangling>>
      BY <1>11 DEF Fflush, Continue, pool
    <2>. DEFINE S == IF FlushDue THEN {lastfile} \cap open ELSE {}
    <2>2. \A n \in Names : buf'[n] = IF n \in S THEN <<>> ELSE buf[n]
      BY <1>11, DrainKeeps DEF Fflush
    <2>3. ASSUME config.flush <= 1, NEW n \in Names PROVE buf'[n] = <<>>
      <3>1. config.flush = 1
        <4>1. config.flush > 0
          BY <1>11 DEF Fflush
        <4>2. config.flush \in Nat
          BY OptionsAssumption DEF TypeOK, Configs
        <4>. QED
          BY <2>3, <4>1, <4>2
      <3>2. FlushDue
        BY <3>1, ModOne DEF FlushDue, TypeOK
      <3>3. CASE buf[n] # <<>>
        <4>1. n = lastfile /\ lastfile \in open
          BY <1>11, <3>3, NamesAssumption DEF Fflush, PoolInv, LastIsPooled
        <4>. QED
          BY <2>2, <3>2, <4>1
      <3>. QED
        BY <2>2, <3>3
    <2>. QED
      BY <1>11, <2>1, <2>2, <2>3 DEF Fflush
  <1>12. CASE SigHup
    <2>1. \A n \in Names : buf'[n] = IF n \in handles \cap open THEN <<>> ELSE buf[n]
      BY <1>12, DrainKeeps DEF SigHup, CloseAllFiles
    <2>2. ASSUME NEW n \in Names, buf[n] # <<>> PROVE buf'[n] = <<>>
      BY <1>12, <2>1, <2>2, NamesAssumption DEF SigHup, PoolInv, LastIsPooled
    <2>3. NothingHeld'
      BY <2>1, <2>2
    <2>. QED
      BY <2>3
  <1>13. CASE ShutdownServer
    <2>1. \A n \in Names : buf'[n] = IF n \in open THEN <<>> ELSE buf[n]
      BY <1>13, DrainKeeps DEF ShutdownServer, CloseAllFiles
    <2>2. pc' = "exited" /\ lastfile' = lastfile
      BY <1>13 DEF ShutdownServer, CloseAllFiles, Goto
    <2>. QED
      BY <2>1, <2>2
  <1>. QED
    BY <1>0, <1>1, <1>2, <1>3, <1>4, <1>5, <1>6, <1>7, <1>8, <1>9, <1>10, <1>11,
       <1>12, <1>13
       DEF Next, Server, OpenLogfile, CloseRandomFile, LogMessageFile, Signal,
           OpenCrash, PickNone, PickAgain, CloseVictimCrash, FopenFailsCrash,
           FprintfClosedCrash, FflushCrash, HandlerCrash, KilledBySignal, Crash, Done

\* Only the file written last has lines that are not on disk.
THEOREM UnflushedStaysLast == Spec => []UnflushedOnlyLast
  <1>1. UnflushedInv => UnflushedOnlyLast
    BY DEF UnflushedInv, UnflushedOnlyLast
  <1>. QED
    BY <1>1, TypeInit, TypeNext, PoolInit, PoolNext, UnflushedInit, UnflushedNext, PTL
       DEF Spec

-----------------------------------------------------------------------------
(* How much stdio holds back.  Between two calls of fflush the counter     *)
(* modulo -f counts at least the lines held, because it grows by one with  *)
(* each line and a remainder of 0 is what calls fflush.                    *)

LEMMA RemainderRange ==
    ASSUME NEW h \in Nat, NEW f \in Nat \ {0}
    PROVE  /\ h % f \in 0..(f - 1)
           /\ h = f * (h \div f) + (h % f)
           /\ h \div f \in Nat
  OBVIOUS

LEMMA RemainderUnique ==
    ASSUME NEW f \in Nat \ {0}, NEW q \in Nat, NEW r \in 0..(f - 1)
    PROVE  (f * q + r) % f = r
  OBVIOUS

\* The remainder of the next number is 0 or one more.
LEMMA RemainderNext ==
    ASSUME NEW h \in Nat, NEW f \in Nat \ {0}
    PROVE  (h + 1) % f = 0 \/ (h + 1) % f = (h % f) + 1
  <1>. DEFINE q == h \div f
             r == h % f
  <1>1. h = f * q + r /\ r \in 0..(f - 1) /\ q \in Nat
    BY RemainderRange
  <1>2. CASE r + 1 < f
    <2>1. r + 1 \in 0..(f - 1) /\ h + 1 = f * q + (r + 1)
      BY <1>1, <1>2
    <2>. QED
      BY <1>1, <2>1, RemainderUnique
  <1>3. CASE r + 1 = f
    <2>1. f * (q + 1) = f * q + f
      BY <1>1
    <2>2. h + 1 = f * (q + 1) + 0 /\ 0 \in 0..(f - 1) /\ q + 1 \in Nat
      BY <1>1, <1>3, <2>1
    <2>3. (f * (q + 1) + 0) % f = 0
      BY <2>2, RemainderUnique
    <2>. QED
      BY <2>2, <2>3
  <1>. QED
    BY <1>1, <1>2, <1>3

\* So it is with the counter, which wraps to 0.
LEMMA IncRemainder ==
    ASSUME NEW h \in 0..(UIntMod - 1), NEW f \in Nat \ {0}
    PROVE  Inc(h) % f = 0 \/ Inc(h) % f = (h % f) + 1
  <1>1. CASE h + 1 < UIntMod
    <2>1. (h + 1) % UIntMod = h + 1
      BY <1>1, BoundsAssumption
    <2>. QED
      BY <2>1, RemainderNext DEF Inc
  <1>2. CASE h + 1 = UIntMod
    <2>1. (h + 1) % UIntMod = 0
      BY <1>2, BoundsAssumption
    <2>2. 0 % f = 0
      OBVIOUS
    <2>. QED
      BY <2>1, <2>2 DEF Inc
  <1>. QED
    BY <1>1, <1>2, BoundsAssumption

HeldBound ==
    config.flush > 0 =>
        \A n \in Names :
            /\ Len(buf[n]) <= config.flush
            /\ pc \in Running \ {"fflush"} =>
                   Len(buf[n]) <= stat_messages_handled % config.flush
            /\ pc = "fflush" /\ ~FlushDue =>
                   Len(buf[n]) <= stat_messages_handled % config.flush

LEMMA HeldInit == Init => HeldBound
  <1>. SUFFICES ASSUME Init, config.flush > 0, NEW n \in Names
                PROVE  /\ Len(buf[n]) <= config.flush
                       /\ Len(buf[n]) <= stat_messages_handled % config.flush
    BY DEF HeldBound
  <1>1. config.flush \in Nat /\ Len(buf[n]) = 0 /\ stat_messages_handled = 0
    BY OptionsAssumption DEF Init, Configs
  <1>2. 0 % config.flush = 0
    BY <1>1
  <1>. QED
    BY <1>1, <1>2

\* The options never change.
LEMMA OptionsFixed == [Next]_vars => config' = config
  <1>. SUFFICES ASSUME [Next]_vars PROVE config' = config
    OBVIOUS
  <1>1. ASSUME NEW n \in Names, Recv(n) \/ Pick(n) PROVE config' = config
    BY <1>1 DEF Recv, Pick
  <1>2. CASE \/ OpenSame \/ OpenFound \/ OpenMiss \/ CloseVictim \/ RemoveVictim
             \/ Fopen \/ FopenFails \/ Insert
    BY <1>2 DEF OpenSame, OpenFound, OpenMiss, CloseVictim, RemoveVictim, Fopen,
                FopenFails, Insert
  <1>3. CASE Fprintf \/ FprintfClosed \/ Fflush
    BY <1>3 DEF Fprintf, FprintfClosed, Fflush
  <1>4. CASE SigHup \/ ShutdownServer
    BY <1>4 DEF SigHup, ShutdownServer
  <1>5. ASSUME NEW how, Die(how) PROVE config' = config
    BY <1>5 DEF Die
  <1>6. CASE UNCHANGED vars
    BY <1>6 DEF vars
  <1>. QED
    BY <1>1, <1>2, <1>3, <1>4, <1>5, <1>6
       DEF Next, Server, OpenLogfile, CloseRandomFile, LogMessageFile, Signal,
           OpenCrash, PickNone, PickAgain, CloseVictimCrash, FopenFailsCrash,
           FprintfClosedCrash, FflushCrash, HandlerCrash, KilledBySignal, Crash, Done

LEMMA HeldNext ==
    TypeOK /\ PoolInv /\ UnflushedInv /\ HeldBound /\ [Next]_vars => HeldBound'
  <1>. SUFFICES ASSUME TypeOK, PoolInv, UnflushedInv, HeldBound, [Next]_vars
                PROVE  HeldBound'
    OBVIOUS
  <1>z. config' = config
    BY OptionsFixed
  <1>. SUFFICES ASSUME config.flush > 0 PROVE HeldBound'
    BY <1>z DEF HeldBound
  <1>. DEFINE f == config.flush
             h == stat_messages_handled
  <1>a. f \in Nat \ {0} /\ h \in 0..(UIntMod - 1) /\ h \in Nat
    <2>1. config.flush \in Nat
      BY OptionsAssumption DEF TypeOK, Configs
    <2>2. stat_messages_handled \in 0..(UIntMod - 1) /\ UIntMod \in Nat
      BY BoundsAssumption DEF TypeOK
    <2>. QED
      BY <2>1, <2>2
  <1>b. \A n \in Names : buf[n] \in Seq(Nat) /\ Len(buf[n]) \in Nat
    BY DEF TypeOK
  <1>c. h % f \in 0..(f - 1)
    BY <1>a, RemainderRange
  <1>0. CASE UNCHANGED vars
    BY <1>0 DEF vars, control, streams, counters, HeldBound, FlushDue
  \* A step that fills no buffer, outside of fflush.
  <1>1. ASSUME UNCHANGED <<config, stat_messages_handled>>,
               \A n \in Names : buf'[n] \in {<<>>, buf[n]},
               \/ pc' \in Ended
               \/ pc \in Running \ {"fflush"} /\ pc' \in Running \ {"fflush"}
               \/ pc' = pc
        PROVE  HeldBound'
    <2>. SUFFICES ASSUME NEW n \in Names
                  PROVE  /\ Len(buf'[n]) <= f
                         /\ pc' \in Running \ {"fflush"} => Len(buf'[n]) <= h % f
                         /\ pc' = "fflush" /\ ~FlushDue' => Len(buf'[n]) <= h % f
      BY <1>1 DEF HeldBound
    <2>1. Len(buf'[n]) <= Len(buf[n]) /\ Len(buf'[n]) \in Nat
      BY <1>1, <1>b
    <2>2. FlushDue' = FlushDue
      BY <1>1 DEF FlushDue
    <2>. QED
      BY <1>1, <1>a, <1>b, <1>c, <2>1, <2>2 DEF HeldBound, Running, Ended
  <1>2. ASSUME NEW n \in Names, Recv(n) \/ Pick(n) PROVE HeldBound'
    BY <1>1, <1>2 DEF Recv, Pick, Goto, streams, counters, Running
  <1>3. CASE OpenSame \/ RemoveVictim \/ Fopen \/ Insert
    BY <1>1, <1>3 DEF OpenSame, RemoveVictim, Fopen, Insert, Goto, streams, counters, Running
  <1>4. CASE OpenFound \/ OpenMiss
    <2>1. \A n \in Names : buf'[n] = <<>>
      BY <1>4, SwitchDrains DEF OpenFound, OpenMiss, Switches, NothingHeld
    <2>2. UNCHANGED <<config, stat_messages_handled>>
      BY <1>4 DEF OpenFound, OpenMiss, counters
    <2>3. pc \in Running \ {"fflush"} /\ pc' \in Running \ {"fflush"}
      BY <1>4 DEF OpenFound, OpenMiss, Switches, Goto, Running
    <2>. QED
      BY <1>1, <2>1, <2>2, <2>3
  <1>5. ASSUME NEW how \in Ended, Die(how) PROVE HeldBound'
    BY <1>1, <1>5 DEF Die, streams, counters
  <1>6. ASSUME NEW S, Drain(S), UNCHANGED <<config, stat_messages_handled>>,
               \/ pc' \in Ended
               \/ pc \in Running \ {"fflush"} /\ pc' \in Running \ {"fflush"}
               \/ pc' = pc
        PROVE  HeldBound'
    BY <1>1, <1>6, DrainKeeps
  <1>7. CASE CloseVictim \/ FopenFails
    BY <1>6, <1>7 DEF CloseVictim, FopenFails, Goto, counters, Running, Ended
  <1>8. CASE SigHup \/ ShutdownServer
    BY <1>6, <1>8 DEF SigHup, ShutdownServer, CloseAllFiles, Goto, control, Ended
  <1>9. CASE Fprintf
    <2>. DEFINE held == Append(buf[lastfile], received[name])
    <2>1. PICK k \in 0..Len(held) :
            buf' = [buf EXCEPT ![lastfile] = SubSeq(held, k + 1, Len(held))]
      BY <1>9 DEF Fprintf
    <2>2. lastfile \in Names /\ name \in Names /\ received[name] \in Nat
      BY <1>9 DEF Fprintf, TypeOK, Running
    <2>3. held \in Seq(Nat) /\ Len(held) = Len(buf[lastfile]) + 1
      BY <1>b, <2>2
    <2>4. Len(SubSeq(held, k + 1, Len(held))) = Len(held) - k
      BY <2>1, <2>3, SplitType
    <2>5. buf'[lastfile] = SubSeq(held, k + 1, Len(held))
      BY <2>1, <2>2 DEF TypeOK
    <2>6. Len(buf[lastfile]) <= h % f
      BY <1>9, <2>2 DEF Fprintf, HeldBound, Running
    <2>7. Len(buf'[lastfile]) \in Nat /\ Len(buf'[lastfile]) <= (h % f) + 1
      BY <1>b, <1>c, <2>1, <2>2, <2>3, <2>4, <2>5, <2>6
    <2>8. h' = Inc(h) /\ config' = config /\ pc' = "fflush"
      BY <1>9 DEF Fprintf, Goto
    <2>9. h' % f = 0 \/ h' % f = (h % f) + 1
      BY <1>a, <2>8, IncRemainder
    <2>10. \A n \in Names : n # lastfile => buf'[n] = <<>>
      BY <1>9, <2>1 DEF Fprintf, TypeOK, UnflushedInv, Running
    <2>11. ASSUME NEW n \in Names
           PROVE  /\ Len(buf'[n]) <= f
                  /\ ~FlushDue' => Len(buf'[n]) <= h' % f
      <3>1. CASE n = lastfile
        BY <1>a, <1>c, <2>7, <2>8, <2>9, <3>1 DEF FlushDue
      <3>2. CASE n # lastfile
        <4>1. Len(buf'[n]) = 0
          BY <2>10, <3>2
        <4>. QED
          BY <1>a, <1>c, <2>8, <2>9, <4>1 DEF FlushDue
      <3>. QED
        BY <3>1, <3>2
    <2>. QED
      BY <2>8, <2>11 DEF HeldBound
  <1>10. CASE FprintfClosed
    <2>1. \A n \in Names : buf[n] = <<>>
      BY <1>10, NamesAssumption
         DEF FprintfClosed, UnflushedInv, PoolInv, LastIsPooled, Running
    <2>2. \A n \in Names : Len(buf'[n]) = 0
      BY <1>10, <2>1 DEF FprintfClosed, streams
    <2>3. h' = Inc(h) /\ config' = config /\ pc' = "fflush"
      BY <1>10 DEF FprintfClosed, Goto
    <2>4. h' % f \in 0..(f - 1)
      <3>1. h' \in Nat
        BY <1>10, TypeNext DEF TypeOK
      <3>. QED
        BY <1>a, <3>1, RemainderRange
    <2>. QED
      BY <1>a, <2>2, <2>3, <2>4 DEF HeldBound
  <1>11. CASE Fflush
    <2>1. pc' \in Running \ {"fflush"} /\ UNCHANGED <<config, stat_messages_handled>>
      BY <1>11 DEF Fflush, Continue, counters, Running
    <2>. DEFINE S == IF FlushDue THEN {lastfile} \cap open ELSE {}
    <2>2. \A n \in Names : buf'[n] = IF n \in S THEN <<>> ELSE buf[n]
      BY <1>11, DrainKeeps DEF Fflush
    <2>3. ASSUME NEW n \in Names
          PROVE  /\ Len(buf'[n]) <= f
                 /\ Len(buf'[n]) <= h % f
      <3>1. CASE FlushDue
        <4>1. buf[n] # <<>> => n \in S
          BY <1>11, <3>1, NamesAssumption
             DEF Fflush, UnflushedInv, PoolInv, LastIsPooled, Running
        <4>2. Len(buf'[n]) = 0
          BY <2>2, <4>1
        <4>. QED
          BY <1>a, <1>c, <4>2
      <3>2. CASE ~FlushDue
        BY <1>11, <2>2, <3>2 DEF Fflush, HeldBound
      <3>. QED
        BY <3>1, <3>2
    <2>. QED
      BY <2>1, <2>3 DEF HeldBound, Running
  <1>. QED
    BY <1>0, <1>2, <1>3, <1>4, <1>5, <1>7, <1>8, <1>9, <1>10, <1>11
       DEF Next, Server, OpenLogfile, CloseRandomFile, LogMessageFile, Signal,
           OpenCrash, PickNone, PickAgain, CloseVictimCrash, FopenFailsCrash,
           FprintfClosedCrash, FflushCrash, HandlerCrash, KilledBySignal, Crash, Done,
           Ended

\* Fewer than -f lines wait in stdio between two datagrams, and a process that
\* dies loses -f lines at most, for every -f above 0 and every counter width.
THEOREM UnflushedStaysBounded == Spec => []UnflushedBound
  <1>1. UnflushedInv /\ HeldBound /\ TypeOK => UnflushedBound
    BY DEF HeldBound, UnflushedBound
  <1>. QED
    BY <1>1, TypeInit, TypeNext, PoolInit, PoolNext, UnflushedInit, UnflushedNext,
       HeldInit, HeldNext, PTL DEF Spec

\* Flushing keeps up: only the newest lines of one file are at risk, -f at most.
THEOREM FlushingKeepsUp == Spec => []FlushKeepsUp
  <1>1. UnflushedOnlyLast /\ UnflushedBound => FlushKeepsUp
    BY DEF FlushKeepsUp
  <1>. QED
    BY <1>1, UnflushedStaysLast, UnflushedStaysBounded, PTL

-----------------------------------------------------------------------------
(* Without SIGHUP the raw pointers are safe.  The victim of an eviction    *)
(* stays an entry until it is removed, the table the victim is drawn from  *)
(* is not empty, and a line is printed to the file that was asked for.     *)

SafeInv ==
    /\ SoundWithoutHup
    /\ pc \in {"fprintf", "fflush"} => lastfile = name
    /\ hups = 0 /\ pc \in {"fclose", "remove"} => victim \in handles
    /\ hups = 0 /\ pc = "pick" => handles # {}

LEMMA SafeInit == Init => SafeInv
  BY DEF Init, SafeInv, SoundWithoutHup

\* Without SIGHUP no call ends in a crash.
LEMMA NoCrash ==
    ASSUME TypeOK, PoolInv, SafeInv, hups = 0, config.flush > 0
    PROVE  /\ ~OpenCrash /\ ~PickNone /\ ~CloseVictimCrash
           /\ ~FprintfClosedCrash /\ ~FprintfClosed /\ ~FflushCrash
  <1>1. pc \in Running => ~dangling
    BY DEF SafeInv, SoundWithoutHup
  <1>2. ~OpenCrash
    BY <1>1 DEF OpenCrash, Switches, Running
  <1>3. ~PickNone
    BY DEF PickNone, SafeInv
  <1>4. ~CloseVictimCrash
    BY DEF CloseVictimCrash, SafeInv, PoolInv, PoolIsOpen, Running
  <1>5. pc \in {"fprintf", "fflush"} => lastfile \in open
    BY <1>1, NamesAssumption DEF SafeInv, PoolInv, LastIsPooled, TypeOK, Running
  <1>. QED
    BY <1>2, <1>3, <1>4, <1>5
       DEF FprintfClosedCrash, FprintfClosed, FflushCrash

\* A handler finds a closed stream in the table only while closeRandomFile is
\* between its fclose and its remove: the victim's.
LEMMA ClosedTwice ==
    ASSUME TypeOK, PoolInv, SafeInv, hups = 0, pc \in Running, ~(handles \subseteq open)
    PROVE  victim \in handles \ open
  <1>1. pc = "remove" /\ victim \notin open
    BY NamesAssumption DEF PoolInv, PoolIsOpen, TypeOK, VictimIsAnother
  <1>. QED
    BY <1>1 DEF SafeInv

LEMMA SafeNext ==
    TypeOK /\ PoolInv /\ SafeInv /\ [Next]_vars => SafeInv'
  <1>. SUFFICES ASSUME TypeOK, PoolInv, SafeInv, [Next]_vars PROVE SafeInv'
    OBVIOUS
  <1>. USE DEF SafeInv, SoundWithoutHup, Running, Ended
  <1>z. config' = config /\ hups \in Nat
    BY OptionsFixed DEF TypeOK
  <1>0. CASE UNCHANGED vars
    BY <1>0 DEF vars, control, pool, streams, history
  <1>1. ASSUME NEW n \in Names, Recv(n) PROVE SafeInv'
    BY <1>1 DEF Recv, pool
  <1>2. CASE OpenSame
    BY <1>2 DEF OpenSame, Goto, pool, history
  <1>3. CASE OpenFound
    BY <1>3, <1>z DEF OpenFound, Switches, FlushLast, Goto, history
  <1>4. CASE OpenMiss
    <2>1. CanEvict => handles # {}
      BY FS_EmptySet DEF CanEvict
    <2>. QED
      BY <1>4, <1>z, <2>1 DEF OpenMiss, Switches, FlushLast, Goto, pool, history
  <1>5. CASE FopenFailsCrash \/ KilledBySignal
    <2>1. /\ pc' \in {"failed", "killed"} /\ pc \in Running
          /\ UNCHANGED <<config, dangling, misuse, lost, hups>>
      BY <1>5 DEF FopenFailsCrash, KilledBySignal, Die, pool, history
    <2>. QED
      BY <2>1
  <1>17. CASE HandlerCrash
    <2>1. /\ pc' = "aborted" /\ pc \in Running /\ ~(handles \subseteq open)
          /\ UNCHANGED <<config, handles, victim, open, dangling, misuse, lost, hups>>
      BY <1>17 DEF HandlerCrash, Die, pool, history, streams
    <2>2. hups = 0 => victim \in handles \ open
      BY <2>1, ClosedTwice
    <2>. QED
      BY <2>1, <2>2
  <1>6. CASE \/ OpenCrash \/ PickNone \/ CloseVictimCrash \/ FprintfClosedCrash
             \/ FprintfClosed \/ FflushCrash
    <2>1. ~(hups = 0 /\ config.flush > 0)
      BY <1>6, NoCrash
    <2>2. hups' = hups
      BY <1>6 DEF OpenCrash, PickNone, CloseVictimCrash, FprintfClosedCrash,
                  FprintfClosed, FflushCrash, Crash, Die, history
    <2>3. /\ pc' \in {"crashed", "fflush"}
          /\ pc' = "fflush" => lastfile' = name'
      BY <1>6 DEF OpenCrash, PickNone, CloseVictimCrash, FprintfClosedCrash,
                  FprintfClosed, FflushCrash, Crash, Die, Goto, pool
    <2>. QED
      BY <1>z, <2>1, <2>2, <2>3
  <1>7. ASSUME NEW n \in Names, Pick(n) PROVE SafeInv'
    BY <1>7 DEF Pick, Goto, history
  <1>8. CASE CloseVictim
    BY <1>8, <1>z DEF CloseVictim, Goto, pool, history, PoolInv, PoolIsOpen
  <1>9. CASE RemoveVictim
    BY <1>9, <1>z DEF RemoveVictim, Goto, history, PoolInv, VictimIsAnother
  <1>10. CASE Fopen
    BY <1>10 DEF Fopen, Goto, pool, history
  <1>11. CASE FopenFails
    BY <1>11 DEF FopenFails, Goto, pool, history
  <1>12. CASE Insert
    BY <1>12 DEF Insert, Goto, history
  <1>13. CASE Fprintf
    BY <1>13 DEF Fprintf, Goto, pool, history
  <1>14. CASE Fflush
    <2>1. hups = 0 => lastfile \in open
      BY <1>14, NamesAssumption DEF Fflush, PoolInv, LastIsPooled, TypeOK
    <2>2. pc' \in {"open", "recv"} /\ UNCHANGED <<config, dangling, lost, hups>>
      BY <1>14 DEF Fflush, Continue, pool
    <2>3. hups = 0 => (misuse' <=> misuse)
      BY <1>14, <2>1 DEF Fflush
    <2>. QED
      BY <1>14, <2>2, <2>3 DEF Fflush
  <1>15. CASE SigHup
    <2>1. hups' # 0 /\ UNCHANGED <<pc, name, lastfile>>
      BY <1>15, <1>z DEF SigHup, CloseAllFiles, control
    <2>. QED
      BY <2>1
  <1>16. CASE ShutdownServer
    <2>1. /\ pc' = "exited" /\ pc \in Running
          /\ misuse' = (misuse \/ ~(handles \subseteq open))
          /\ UNCHANGED <<config, victim, lost, hups>>
      BY <1>16 DEF ShutdownServer, CloseAllFiles, Goto, history
    <2>2. hups = 0 /\ ~(handles \subseteq open) => victim # NoName
      BY <2>1, ClosedTwice, NamesAssumption DEF TypeOK
    <2>. QED
      BY <2>1, <2>2
  <1>. QED
    BY <1>0, <1>1, <1>2, <1>3, <1>4, <1>5, <1>6, <1>7, <1>8, <1>9, <1>10, <1>11,
       <1>12, <1>13, <1>14, <1>15, <1>16, <1>17
       DEF Next, Server, OpenLogfile, CloseRandomFile, LogMessageFile, Signal,
           PickAgain, Done

\* As long as no SIGHUP came, evictions and reopenings alone never leave a stale
\* pointer to a server with -f above 0: while it runs no freed buffer is pointed to
\* and no closed stream used, no line ever meets one, no call but a failing fopen
\* crashes, and only a SIGTERM inside closeRandomFile closes a stream twice.
THEOREM SoundUntilHup == Spec => []SoundWithoutHup
  <1>1. SafeInv => SoundWithoutHup
    BY DEF SafeInv
  <1>. QED
    BY <1>1, TypeInit, TypeNext, PoolInit, PoolNext, SafeInit, SafeNext, PTL DEF Spec

-----------------------------------------------------------------------------
(***************************************************************************)
(* What becomes of the lines: each is written once and in order, what is   *)
(* written before SIGTERM is on disk after it, and the statistics count    *)
(* the files and the datagrams right.                                      *)
(***************************************************************************)

(* Each line once, in order.  Between its arrival and fprintf a line is in *)
(* hand, the newest of its log and lost to no stream yet; SafeInv says     *)
(* that fprintf writes to the log the line is for.                         *)

LinesInv ==
    /\ WrittenOnce
    /\ \A n \in Names : lost[n] \subseteq 1..received[n]
    /\ pc \in Running \ {"recv", "fflush"} =>
           received[name] > 0 /\ received[name] \notin lost[name]

\* Closing or flushing streams moves lines and keeps their order.
LEMMA DrainOrder ==
    ASSUME TypeOK, NEW S, Drain(S), NEW n \in Names
    PROVE  Written(n)' = Written(n)
  <1>1. disk[n] \in Seq(Nat) /\ buf[n] \in Seq(Nat) /\ disk[n] \o buf[n] \in Seq(Nat)
    BY DEF TypeOK
  <1>2. /\ disk'[n] = IF n \in S THEN disk[n] \o buf[n] ELSE disk[n]
        /\ buf'[n] = IF n \in S THEN <<>> ELSE buf[n]
    BY DEF Drain
  <1>3. (disk[n] \o buf[n]) \o <<>> = disk[n] \o buf[n]
    BY <1>1, ConcatEmptySeq
  <1>. QED
    BY <1>2, <1>3 DEF Written

LEMMA LinesType ==
    ASSUME TypeOK, NEW n \in Names
    PROVE  Written(n) \in Seq(Nat) /\ received[n] \in Nat /\ lost[n] \subseteq Nat
  BY DEF TypeOK, Written

\* A step that neither receives nor writes a line.
LEMMA SameLines ==
    ASSUME TypeOK, LinesInv, UNCHANGED <<received, lost>>,
           \A n \in Names : Written(n)' = Written(n),
           \/ pc' \in Ended /\ name' = name
           \/ /\ {pc, pc'} \subseteq Running \ {"recv", "fflush"}
              /\ name' = name
           \/ UNCHANGED <<pc, name>>
           \/ pc = "fflush" /\ pc' = "recv"
    PROVE  LinesInv'
  <1>. USE DEF Running, Ended
  <1>1. \A n \in Names : Increasing(Written(n)')
    BY DEF LinesInv, WrittenOnce
  <1>2. \A n \in Names : Elements(Written(n)') = Elements(Written(n)) /\ Kept(n)' = Kept(n)
    BY DEF Kept
  <1>3. ASSUME NEW n \in Names
        PROVE  \/ Elements(Written(n)') = Kept(n)' \ InHand(n)'
               \/ pc' \in Ended /\ Elements(Written(n)') = Kept(n)'
    <2>1. \/ Elements(Written(n)) = Kept(n) \ InHand(n)
          \/ pc \in Ended /\ Elements(Written(n)) = Kept(n)
      BY DEF LinesInv, WrittenOnce
    <2>2. CASE pc \in {"recv", "fflush"}
      <3>1. Elements(Written(n)) = Kept(n)
        BY <2>1, <2>2 DEF InHand
      <3>. QED
        BY <1>2, <2>2, <3>1 DEF InHand
    <2>3. CASE pc \notin {"recv", "fflush"}
      <3>1. InHand(n)' = InHand(n) /\ (pc \in Ended => pc' \in Ended)
        BY <2>3 DEF InHand
      <3>. QED
        BY <1>2, <2>1, <3>1
    <2>. QED
      BY <2>2, <2>3
  <1>4. WrittenOnce'
    BY <1>1, <1>3 DEF WrittenOnce, Increasing, Elements
  <1>. QED
    BY <1>4 DEF LinesInv

\* One more line is in hand.
LEMMA OneMoreLine ==
    ASSUME TypeOK, LinesInv, pc \in {"recv", "fflush"}, UNCHANGED lost,
           \A n \in Names : Written(n)' = Written(n),
           NEW m \in Names, received' = [received EXCEPT ![m] = @ + 1],
           name' = m, pc' = "open"
    PROVE  LinesInv'
  <1>1. \A n \in Names : received[n] \in Nat /\ lost[n] \subseteq 1..received[n]
    BY DEF LinesInv, TypeOK
  <1>2. \A n \in Names : received'[n] = IF n = m THEN received[n] + 1 ELSE received[n]
    BY DEF TypeOK
  <1>3. \A n \in Names : Elements(Written(n)) = Kept(n)
    BY DEF LinesInv, WrittenOnce, InHand, Ended
  <1>4. ASSUME NEW n \in Names PROVE Kept(n)' \ InHand(n)' = Kept(n)
    <2>1. CASE n = m
      <3>1. InHand(n)' = {received[n] + 1} /\ Kept(n)' = (1..(received[n] + 1)) \ lost[n]
        BY <1>2, <2>1 DEF InHand, Kept
      <3>2. received[n] + 1 \notin 1..received[n]
            /\ 1..(received[n] + 1) = (1..received[n]) \union {received[n] + 1}
        BY <1>1
      <3>. QED
        BY <3>1, <3>2 DEF Kept
    <2>2. CASE n # m
      BY <1>2, <2>2 DEF InHand, Kept
    <2>. QED
      BY <2>1, <2>2
  <1>5. WrittenOnce'
    BY <1>3, <1>4 DEF LinesInv, WrittenOnce, Increasing, Elements
  <1>6. \A n \in Names : lost'[n] \subseteq 1..received'[n]
    BY <1>1, <1>2
  <1>7. received'[name'] > 0 /\ received'[name'] \notin lost'[name']
    <2>1. received[m] + 1 > 0 /\ received[m] + 1 \notin lost[m]
      BY <1>1
    <2>. QED
      BY <1>2, <2>1
  <1>. QED
    BY <1>5, <1>6, <1>7 DEF LinesInv
\* fprintf writes out any number of lines first: the order stays.
LEMMA PrintedOrder ==
    ASSUME NEW d \in Seq(Nat), NEW b \in Seq(Nat), NEW x \in Nat,
           NEW k \in 0..Len(Append(b, x))
    PROVE  LET held == Append(b, x)
           IN  (d \o SubSeq(held, 1, k)) \o SubSeq(held, k + 1, Len(held))
                 = Append(d \o b, x)
  <1>. DEFINE held == Append(b, x)
  <1>1. held \in Seq(Nat) /\ Len(held) = Len(b) + 1 /\ Len(b) \in Nat
    OBVIOUS
  <1>2. /\ 1 \in 1..(Len(held) + 1) /\ k \in (1 - 1)..Len(held)
        /\ Len(held) \in k..Len(held) /\ k \in 0..Len(held)
    BY <1>1
  <1>3. SubSeq(held, 1, k) \o SubSeq(held, k + 1, Len(held)) = SubSeq(held, 1, Len(held))
    BY <1>1, <1>2, ConcatAdjacentSubSeq
  <1>4. SubSeq(held, 1, Len(held)) = held
    BY <1>1, SubSeqFull
  <1>5. SubSeq(held, 1, k) \in Seq(Nat) /\ SubSeq(held, k + 1, Len(held)) \in Seq(Nat)
    BY <1>1, <1>2, SplitType
  <1>6. ASSUME NEW a \in Seq(Nat), NEW c \in Seq(Nat)
        PROVE  (d \o a) \o c = d \o (a \o c)
    BY ConcatAssociative, SMTT(30)
  <1>7. held = b \o <<x>> /\ Append(d \o b, x) = (d \o b) \o <<x>>
    BY AppendIsConcat
  <1>8. (d \o b) \o <<x>> = d \o (b \o <<x>>)
    BY ConcatAssociative, SMTT(30)
  <1>. QED
    <2>. DEFINE a == SubSeq(held, 1, k)
               c == SubSeq(held, k + 1, Len(held))
    <2>1. (d \o a) \o c = d \o (a \o c)
      BY <1>5, <1>6
    <2>2. d \o (a \o c) = d \o held
      BY <1>3, <1>4
    <2>. QED
      BY <1>7, <1>8, <2>1, <2>2, Zenon

LEMMA AppendLine ==
    ASSUME NEW q \in Seq(Nat), NEW x \in Nat, Increasing(q),
           \A y \in Elements(q) : y < x
    PROVE  /\ Increasing(Append(q, x))
           /\ Elements(Append(q, x)) = Elements(q) \union {x}
  <1>1. /\ Len(Append(q, x)) = Len(q) + 1 /\ Len(q) \in Nat
        /\ \A i \in 1..Len(q) : Append(q, x)[i] = q[i]
        /\ Append(q, x)[Len(q) + 1] = x
    BY AppendProperties
  <1>2. \A i \in 1..Len(q) : q[i] < x
    BY DEF Elements
  <1>3. Increasing(Append(q, x))
    BY <1>1, <1>2 DEF Increasing
  <1>4. 1..(Len(q) + 1) = (1..Len(q)) \union {Len(q) + 1}
    BY <1>1
  <1>5. Elements(Append(q, x)) = Elements(q) \union {x}
    BY <1>1, <1>4 DEF Elements
  <1>. QED
    BY <1>3, <1>5

LEMMA FprintfLines ==
    ASSUME TypeOK, SafeInv, LinesInv, Fprintf
    PROVE  LinesInv'
  <1>. DEFINE held == Append(buf[name], received[name])
  <1>1. /\ lastfile = name /\ name \in Names /\ pc = "fprintf" /\ pc' = "fflush"
        /\ UNCHANGED <<received, lost, name>>
    BY DEF Fprintf, Goto, history, SafeInv, TypeOK, Running
  <1>2. /\ \A n \in Names : disk[n] \in Seq(Nat) /\ buf[n] \in Seq(Nat) /\ received[n] \in Nat
        /\ received[name] \in Nat /\ held \in Seq(Nat)
    BY <1>1 DEF TypeOK
  <1>3. PICK k \in 0..Len(held) :
          /\ disk' = [disk EXCEPT ![name] = @ \o SubSeq(held, 1, k)]
          /\ buf' = [buf EXCEPT ![name] = SubSeq(held, k + 1, Len(held))]
    BY <1>1 DEF Fprintf
  <1>4. Written(name)' = Append(Written(name), received[name])
    <2>1. /\ disk'[name] = disk[name] \o SubSeq(held, 1, k)
          /\ buf'[name] = SubSeq(held, k + 1, Len(held))
      BY <1>1, <1>3 DEF TypeOK
    <2>2. (disk[name] \o SubSeq(held, 1, k)) \o SubSeq(held, k + 1, Len(held))
            = Append(disk[name] \o buf[name], received[name])
      BY <1>1, <1>2, <1>3, PrintedOrder
    <2>. QED
      BY <1>1, <2>1, <2>2, Zenon DEF Written
  <1>5. \A n \in Names : n # name => Written(n)' = Written(n)
    BY <1>3 DEF Written, TypeOK
  <1>6. /\ Elements(Written(name)) = Kept(name) \ {received[name]}
        /\ received[name] > 0 /\ received[name] \notin lost[name]
    BY <1>1 DEF LinesInv, WrittenOnce, InHand, Ended, Running
  <1>7. \A y \in Elements(Written(name)) : y < received[name]
    BY <1>2, <1>6 DEF Kept
  <1>8. received[name] \in Kept(name)
    BY <1>2, <1>6 DEF Kept
  <1>9. ASSUME NEW n \in Names
        PROVE  Increasing(Written(n)') /\ Elements(Written(n)') = Kept(n)
    <2>1. CASE n = name
      <3>1. Written(name) \in Seq(Nat) /\ Increasing(Written(name))
        BY <1>1, LinesType DEF LinesInv, WrittenOnce
      <3>2. /\ Increasing(Append(Written(name), received[name]))
            /\ Elements(Append(Written(name), received[name]))
                 = Elements(Written(name)) \union {received[name]}
        BY <1>2, <1>7, <3>1, AppendLine
      <3>3. Elements(Written(name)) \union {received[name]} = Kept(name)
        BY <1>6, <1>8
      <3>. QED
        BY <1>1, <1>4, <2>1, <3>2, <3>3 DEF Written
    <2>2. CASE n # name
      <3>1. Elements(Written(n)) = Kept(n) /\ Increasing(Written(n))
        BY <1>1, <2>2 DEF LinesInv, WrittenOnce, InHand, Ended
      <3>. QED
        BY <1>5, <2>2, <3>1
    <2>. QED
      BY <2>1, <2>2
  <1>10. WrittenOnce'
    <2>1. \A n \in Names : InHand(n)' = {} /\ Kept(n)' = Kept(n)
      BY <1>1 DEF InHand, Kept
    <2>. QED
      BY <1>9, <2>1 DEF WrittenOnce, Increasing, Elements
  <1>. QED
    BY <1>1, <1>10 DEF LinesInv

\* The stream is closed: the line is lost, and no other.
LEMMA FprintfClosedLines ==
    ASSUME TypeOK, LinesInv, FprintfClosed
    PROVE  LinesInv'
  <1>1. /\ pc = "fprintf" /\ pc' = "fflush" /\ name \in Names
        /\ lost' = [lost EXCEPT ![name] = @ \union {received[name]}]
        /\ UNCHANGED <<received, buf, disk, name>>
    BY DEF FprintfClosed, Goto, streams, TypeOK, Running
  <1>2. \A n \in Names : lost'[n] = IF n = name THEN lost[n] \union {received[n]} ELSE lost[n]
    BY <1>1 DEF TypeOK
  <1>3. ASSUME NEW n \in Names PROVE Elements(Written(n)) = Kept(n)' /\ InHand(n)' = {}
    BY <1>1, <1>2 DEF LinesInv, WrittenOnce, InHand, Kept, Ended
  <1>4. WrittenOnce'
    BY <1>1, <1>3 DEF LinesInv, WrittenOnce, Increasing, Elements, Written
  <1>5. \A n \in Names : lost'[n] \subseteq 1..received'[n]
    <2>1. received[name] \in Nat /\ received[name] > 0
      BY <1>1 DEF LinesInv, TypeOK, Running
    <2>. QED
      BY <1>1, <1>2, <2>1 DEF LinesInv
  <1>. QED
    BY <1>1, <1>4, <1>5 DEF LinesInv

LEMMA LinesInit == Init => LinesInv
  <1>. SUFFICES ASSUME Init PROVE LinesInv
    OBVIOUS
  <1>1. ASSUME NEW n \in Names
        PROVE  Written(n) = <<>> /\ Kept(n) = {} /\ InHand(n) = {} /\ lost[n] = {}
    BY DEF Init, Written, Kept, InHand
  <1>2. Increasing(<<>>) /\ Elements(<<>>) = {}
    BY DEF Increasing, Elements
  <1>3. WrittenOnce
    BY <1>1, <1>2 DEF WrittenOnce
  <1>. QED
    BY <1>1, <1>3 DEF LinesInv, Init

LEMMA LinesNext == TypeOK /\ SafeInv /\ LinesInv /\ [Next]_vars => LinesInv'
  <1>. SUFFICES ASSUME TypeOK, SafeInv, LinesInv, [Next]_vars PROVE LinesInv'
    OBVIOUS
  <1>. USE DEF Running, Ended
  <1>0. ASSUME UNCHANGED <<buf, disk>>
        PROVE  \A n \in Names : Written(n)' = Written(n)
    BY <1>0 DEF Written
  <1>1. CASE UNCHANGED vars
    BY <1>0, <1>1, SameLines DEF vars, control, streams, history
  <1>2. ASSUME NEW n \in Names, Recv(n) PROVE LinesInv'
    BY <1>0, <1>2, OneMoreLine DEF Recv, streams
  <1>3. CASE \/ OpenSame \/ RemoveVictim \/ Fopen \/ Insert
    BY <1>0, <1>3, SameLines DEF OpenSame, RemoveVictim, Fopen, Insert, Goto, streams, history
  <1>4. ASSUME NEW n \in Names, Pick(n) PROVE LinesInv'
    BY <1>0, <1>4, SameLines DEF Pick, Goto, streams, history
  <1>5. CASE OpenFound \/ OpenMiss \/ CloseVictim
    <2>1. \A n \in Names : Written(n)' = Written(n)
      BY <1>5, DrainOrder DEF OpenFound, OpenMiss, CloseVictim, FlushLast
    <2>2. /\ {pc, pc'} \subseteq Running \ {"recv", "fflush"}
          /\ UNCHANGED <<name, received, lost>>
      BY <1>5 DEF OpenFound, OpenMiss, CloseVictim, Switches, Goto, history
    <2>. QED
      BY <2>1, <2>2, SameLines
  <1>6. CASE FopenFails \/ ShutdownServer
    <2>1. \A n \in Names : Written(n)' = Written(n)
      BY <1>6, DrainOrder DEF FopenFails, ShutdownServer, CloseAllFiles
    <2>2. pc' \in Ended /\ UNCHANGED <<name, received, lost>>
      BY <1>6 DEF FopenFails, ShutdownServer, Goto, history
    <2>. QED
      BY <2>1, <2>2, SameLines
  <1>7. ASSUME NEW how \in Ended, Die(how) PROVE LinesInv'
    BY <1>0, <1>7, SameLines DEF Die, streams, history
  <1>8. CASE Fprintf
    BY <1>8, FprintfLines
  <1>9. CASE FprintfClosed
    BY <1>9, FprintfClosedLines
  <1>10. CASE Fflush
    <2>1. \A n \in Names : Written(n)' = Written(n)
      BY <1>10, DrainOrder DEF Fflush
    <2>2. pc = "fflush" /\ UNCHANGED lost /\ Continue
      BY <1>10 DEF Fflush
    <2>3. CASE StatsDue
      BY <2>1, <2>2, <2>3, OneMoreLine, NamesAssumption DEF Continue
    <2>4. CASE ~StatsDue
      BY <2>1, <2>2, <2>4, SameLines DEF Continue
    <2>. QED
      BY <2>3, <2>4
  <1>11. CASE SigHup
    <2>1. \A n \in Names : Written(n)' = Written(n)
      BY <1>11, DrainOrder DEF SigHup, CloseAllFiles
    <2>2. UNCHANGED <<pc, name, received, lost>>
      BY <1>11 DEF SigHup, control
    <2>. QED
      BY <2>1, <2>2, SameLines
  <1>. QED
    BY <1>1, <1>2, <1>3, <1>4, <1>5, <1>6, <1>7, <1>8, <1>9, <1>10, <1>11
       DEF Next, Server, OpenLogfile, CloseRandomFile, LogMessageFile, Signal,
           OpenCrash, PickNone, PickAgain, CloseVictimCrash, FopenFailsCrash,
           FprintfClosedCrash, FflushCrash, HandlerCrash, KilledBySignal, Crash, Done

\* Every line is written once and in order, to the log it is for, whatever is
\* evicted, closed and opened again around it; only a stream that SIGHUP closed
\* takes a line away.
THEOREM LinesWrittenOnce == Spec => []WrittenOnce
  <1>1. LinesInv => WrittenOnce
    BY DEF LinesInv
  <1>. QED
    BY <1>1, TypeInit, TypeNext, PoolInit, PoolNext, SafeInit, SafeNext, LinesInit,
       LinesNext, PTL DEF Spec

-----------------------------------------------------------------------------
(* SIGTERM.  What stdio holds back belongs to a stream that is open, and   *)
(* exit() flushes every open stream.                                       *)

ExitInv == /\ pc \in Running => \A n \in Names : buf[n] # <<>> => n \in open
           /\ pc = "exited" => \A n \in Names : buf[n] = <<>>

LEMMA ExitInit == Init => ExitInv
  BY DEF Init, ExitInv

LEMMA ExitNext == TypeOK /\ ExitInv /\ [Next]_vars => ExitInv'
  <1>. SUFFICES ASSUME TypeOK, ExitInv, [Next]_vars PROVE ExitInv'
    OBVIOUS
  <1>. USE DEF ExitInv, Running, Ended
  <1>1. CASE UNCHANGED vars
    BY <1>1 DEF vars, control, streams
  <1>2. ASSUME NEW n \in Names, Recv(n) \/ Pick(n) PROVE ExitInv'
    BY <1>2 DEF Recv, Pick, Goto, streams
  <1>3. CASE \/ OpenSame \/ RemoveVictim \/ Fopen \/ Insert \/ FprintfClosed
    BY <1>3 DEF OpenSame, RemoveVictim, Fopen, Insert, FprintfClosed, Goto, streams
  <1>4. ASSUME NEW S, Drain(S), NEW n \in Names, buf'[n] # <<>>
        PROVE  n \notin S /\ buf[n] # <<>>
    BY <1>4, DrainKeeps
  <1>5. CASE OpenFound \/ OpenMiss
    <2>1. pc' # "exited" /\ open' = open /\ pc = "open"
      BY <1>5 DEF OpenFound, OpenMiss, FlushLast, Switches, Goto
    <2>. QED
      BY <1>4, <1>5, <2>1 DEF OpenFound, OpenMiss, FlushLast
  <1>6. CASE CloseVictim
    BY <1>4, <1>6 DEF CloseVictim, Goto
  <1>7. CASE FopenFails
    BY <1>7 DEF FopenFails, Goto
  <1>8. ASSUME NEW how \in Ended \ {"exited"}, Die(how) PROVE ExitInv'
    BY <1>8 DEF Die
  <1>9. CASE Fprintf
    <2>1. \A n \in Names : n # lastfile => buf'[n] = buf[n]
      BY <1>9 DEF Fprintf, TypeOK
    <2>. QED
      BY <1>9, <2>1 DEF Fprintf, Goto
  <1>10. CASE Fflush
    <2>1. pc' \in {"open", "recv"} /\ pc = "fflush" /\ open' = open
      BY <1>10 DEF Fflush, Continue
    <2>. QED
      BY <1>4, <1>10, <2>1 DEF Fflush
  <1>11. CASE SigHup
    <2>1. pc \in Running /\ pc' = pc /\ open' = open \ (handles \cap open)
      BY <1>11 DEF SigHup, CloseAllFiles, control
    <2>. QED
      BY <1>4, <1>11, <2>1 DEF SigHup, CloseAllFiles
  <1>12. CASE ShutdownServer
    <2>1. pc \in Running /\ pc' = "exited"
      BY <1>12 DEF ShutdownServer, Goto
    <2>. QED
      BY <1>4, <1>12, <2>1 DEF ShutdownServer, CloseAllFiles
  <1>. QED
    BY <1>1, <1>2, <1>3, <1>5, <1>6, <1>7, <1>8, <1>9, <1>10, <1>11, <1>12
       DEF Next, Server, OpenLogfile, CloseRandomFile, LogMessageFile, Signal,
           OpenCrash, PickNone, PickAgain, CloseVictimCrash, FopenFailsCrash,
           FprintfClosedCrash, FflushCrash, HandlerCrash, KilledBySignal, Crash, Done

\* A server that SIGTERM ended has every line on disk but the one in hand and
\* those a SIGHUP lost before.
THEOREM ExitKeepsLines == Spec => []ExitSavesAll
  <1>1. TypeOK /\ LinesInv /\ ExitInv => ExitSavesAll
    <2>. SUFFICES ASSUME TypeOK, LinesInv, ExitInv, pc = "exited", NEW n \in Names
                  PROVE  /\ buf[n] = <<>>
                         /\ Kept(n) \ InHand(n) \subseteq Elements(disk[n])
      BY DEF ExitSavesAll
    <2>1. buf[n] = <<>>
      BY DEF ExitInv
    <2>2. Written(n) = disk[n]
      BY <2>1, ConcatEmptySeq DEF Written, TypeOK
    <2>3. Kept(n) \ InHand(n) \subseteq Elements(Written(n))
      BY DEF LinesInv, WrittenOnce
    <2>. QED
      BY <2>1, <2>2, <2>3
  <1>. QED
    BY <1>1, TypeInit, TypeNext, PoolInit, PoolNext, SafeInit, SafeNext, LinesInit,
       LinesNext, ExitInit, ExitNext, PTL DEF Spec

-----------------------------------------------------------------------------
(* The statistics.  They count an entry of the table as open, but for the  *)
(* one that closeRandomFile has closed and not yet removed; and they are   *)
(* due when a remainder that grows with each datagram is 0 again.          *)

Settled    == handles \ (IF pc = "remove" THEN {victim} ELSE {})
AccountInv ==
    pc \in Running /\ ~misuse =>
        stat_files_opened = (stat_files_closed + Cardinality(Settled)) % UIntMod

\* Adding to a counter that wrapped is adding to one that did not.
LEMMA ModAdd ==
    ASSUME NEW x \in Nat, NEW k \in Nat, NEW m \in Nat \ {0}
    PROVE  ((x % m) + k) % m = (x + k) % m
  <1>1. ASSUME NEW y \in Nat
        PROVE  \E q \in Nat, r \in 0..(m - 1) : y = m * q + r /\ y % m = r
    BY RemainderRange
  <1>2. PICK q1 \in Nat, r1 \in 0..(m - 1) : x = m * q1 + r1 /\ x % m = r1
    BY <1>1
  <1>3. r1 + k \in Nat
    OBVIOUS
  <1>4. PICK q2 \in Nat, r2 \in 0..(m - 1) : r1 + k = m * q2 + r2 /\ (r1 + k) % m = r2
    BY <1>1, <1>3
  <1>5. m * (q1 + q2) = m * q1 + m * q2
    OBVIOUS
  <1>6. x + k = m * (q1 + q2) + r2 /\ q1 + q2 \in Nat
    BY <1>2, <1>4, <1>5
  <1>7. (m * (q1 + q2) + r2) % m = r2
    BY <1>6, RemainderUnique
  <1>. QED
    BY <1>2, <1>4, <1>6, <1>7

\* A counter within its width is its own remainder.
LEMMA ModSame ==
    ASSUME NEW m \in Nat \ {0}, NEW x \in 0..(m - 1)
    PROVE  x % m = x
  <1>1. m * 0 + x = x
    OBVIOUS
  <1>2. (m * 0 + x) % m = x
    BY RemainderUnique
  <1>. QED
    BY <1>1, <1>2

LEMMA AccountInit == Init => AccountInv
  <1>. SUFFICES ASSUME Init PROVE 0 = (0 + Cardinality(Settled)) % UIntMod
    BY DEF AccountInv, Init
  <1>1. Settled = {} /\ Cardinality({}) = 0
    BY FS_EmptySet DEF Init, Settled
  <1>2. 0 % UIntMod = 0
    BY BoundsAssumption
  <1>. QED
    BY <1>1, <1>2

LEMMA AccountNext ==
    TypeOK /\ PoolInv /\ AccountInv /\ [Next]_vars => AccountInv'
  <1>. SUFFICES ASSUME TypeOK, PoolInv, AccountInv, [Next]_vars, pc' \in Running, ~misuse'
                PROVE  stat_files_opened' = (stat_files_closed' + Cardinality(Settled')) % UIntMod
    BY DEF AccountInv
  <1>. USE BoundsAssumption DEF Running, Ended
  <1>a. /\ stat_files_opened \in Nat /\ stat_files_closed \in Nat
        /\ stat_files_opened % UIntMod = stat_files_opened
    <2>1. stat_files_opened \in 0..(UIntMod - 1) /\ stat_files_closed \in 0..(UIntMod - 1)
      BY DEF TypeOK
    <2>. QED
      BY <2>1, ModSame
  <1>b. IsFiniteSet(handles) /\ IsFiniteSet(Settled) /\ Cardinality(Settled) \in Nat
    <2>1. handles \subseteq Names /\ Settled \subseteq Names
      BY DEF TypeOK, Settled
    <2>2. IsFiniteSet(handles) /\ IsFiniteSet(Settled)
      BY <2>1, NamesAssumption, FS_Subset
    <2>. QED
      BY <2>2, FS_CardinalityType
  \* Steps that leave the count and the table alone.
  <1>1. ASSUME UNCHANGED <<handles, stat_files_opened, stat_files_closed>>,
               pc \in Running, ~misuse, Settled' = Settled
        PROVE  stat_files_opened' = (stat_files_closed' + Cardinality(Settled')) % UIntMod
    BY <1>1 DEF AccountInv
  <1>2. CASE UNCHANGED vars
    BY <1>1, <1>2 DEF vars, control, pool, counters, Settled
  <1>3. ASSUME NEW n \in Names, Recv(n) \/ Pick(n)
        PROVE  stat_files_opened' = (stat_files_closed' + Cardinality(Settled')) % UIntMod
    BY <1>1, <1>3 DEF Recv, Pick, Goto, pool, counters, Settled
  <1>4. CASE OpenSame \/ OpenFound \/ OpenMiss \/ Fopen
    BY <1>1, <1>4 DEF OpenSame, OpenFound, OpenMiss, Fopen, Switches, FlushLast, Goto, pool,
                      counters, Settled
  <1>5. CASE Fprintf \/ Fflush
    BY <1>1, <1>5 DEF Fprintf, Fflush, Continue, Goto, pool, counters, Settled
  <1>6. CASE FprintfClosed \/ FopenFails \/ ShutdownServer
    BY <1>6 DEF FprintfClosed, FopenFails, ShutdownServer, Goto
  <1>7. ASSUME NEW how \in Ended, Die(how)
        PROVE  stat_files_opened' = (stat_files_closed' + Cardinality(Settled')) % UIntMod
    BY <1>7 DEF Die
  <1>8. CASE CloseVictim
    <2>1. /\ pc = "fclose" /\ pc' = "remove" /\ ~misuse /\ victim \in open
          /\ UNCHANGED <<handles, victim, stat_files_opened>>
          /\ stat_files_closed' = (stat_files_closed + 1) % UIntMod
      BY <1>8 DEF CloseVictim, Goto, Inc, pool
    <2>2. Settled = handles /\ Settled' = handles \ {victim} /\ victim \in handles
      BY <2>1 DEF Settled, PoolInv, PoolIsOpen
    <2>3. /\ Cardinality(Settled') = Cardinality(handles) - 1
          /\ Cardinality(handles) \in Nat /\ Cardinality(Settled') \in Nat
      <3>1. IsFiniteSet(handles \ {victim})
        BY <1>b, FS_RemoveElement
      <3>. QED
        BY <1>b, <2>2, <3>1, FS_RemoveElement, FS_CardinalityType
    <2>4. stat_files_opened = (stat_files_closed + Cardinality(handles)) % UIntMod
      BY <2>1, <2>2 DEF AccountInv
    <2>5. (((stat_files_closed + 1) % UIntMod) + Cardinality(Settled')) % UIntMod
            = (stat_files_closed + 1 + Cardinality(Settled')) % UIntMod
      <3>1. stat_files_closed + 1 \in Nat
        BY <1>a
      <3>. QED
        BY <2>3, <3>1, ModAdd, Zenon
    <2>6. stat_files_closed + 1 + Cardinality(Settled') = stat_files_closed + Cardinality(handles)
      BY <1>a, <2>3
    <2>. QED
      BY <2>1, <2>4, <2>5, <2>6
  <1>9. CASE RemoveVictim
    <2>1. Settled' = Settled
      BY <1>9 DEF RemoveVictim, Goto, Settled
    <2>. QED
      BY <1>9, <2>1 DEF RemoveVictim, AccountInv, counters
  <1>10. CASE Insert
    <2>1. /\ pc = "insert" /\ pc' = "fprintf" /\ ~misuse
          /\ handles' = handles \union {name} /\ UNCHANGED stat_files_closed
          /\ stat_files_opened' = (stat_files_opened + 1) % UIntMod
      BY <1>10 DEF Insert, Goto, Inc
    <2>2. Settled = handles /\ Settled' = handles \union {name} /\ name \notin handles
      BY <2>1 DEF Settled, PoolInv, NameIsMissing
    <2>3. Cardinality(Settled') = Cardinality(Settled) + 1
      BY <1>b, <2>2, FS_AddElement
    <2>4. stat_files_opened = (stat_files_closed + Cardinality(Settled)) % UIntMod
      BY <2>1 DEF AccountInv
    <2>5. (((stat_files_closed + Cardinality(Settled)) % UIntMod) + 1) % UIntMod
            = (stat_files_closed + Cardinality(Settled) + 1) % UIntMod
      <3>1. stat_files_closed + Cardinality(Settled) \in Nat /\ 1 \in Nat
        BY <1>a, <1>b
      <3>. QED
        BY <3>1, ModAdd, Zenon
    <2>6. stat_files_closed + Cardinality(Settled) + 1 = stat_files_closed + Cardinality(Settled')
      BY <1>a, <1>b, <2>3
    <2>. QED
      BY <2>1, <2>4, <2>5, <2>6
  <1>11. CASE SigHup
    <2>1. /\ pc \in Running /\ ~misuse /\ handles \subseteq open /\ handles' = {}
          /\ UNCHANGED <<stat_files_opened, pc>>
          /\ stat_files_closed' = (stat_files_closed + Cardinality(handles)) % UIntMod
      BY <1>11 DEF SigHup, CloseAllFiles, control
    <2>2. Settled = handles /\ Settled' = {}
      BY <2>1 DEF Settled, PoolInv, PoolIsOpen
    <2>3. Cardinality(Settled') = 0
      BY <2>2, FS_EmptySet
    <2>4. stat_files_opened = stat_files_closed'
      BY <2>1, <2>2 DEF AccountInv
    <2>5. stat_files_opened + 0 = stat_files_opened
      BY <1>a
    <2>. QED
      BY <1>a, <2>1, <2>3, <2>4, <2>5, Zenon
  <1>. QED
    BY <1>2, <1>3, <1>4, <1>5, <1>6, <1>7, <1>8, <1>9, <1>10, <1>11
       DEF Next, Server, OpenLogfile, CloseRandomFile, LogMessageFile, Signal,
           OpenCrash, PickNone, PickAgain, CloseVictimCrash, FopenFailsCrash,
           FprintfClosedCrash, FflushCrash, HandlerCrash, KilledBySignal, Crash, Done

\* The datagrams since the last statistics line are no more than the remainder of
\* the counter, but for the one in hand.
EveryInv ==
    config.stats > 0 =>
        /\ pc = "recv" => sinceStat <= stat_messages_handled % config.stats
        /\ pc \in Running \ {"recv", "fflush"} =>
               IF caller = "statistics" THEN sinceStat = 0
               ELSE sinceStat <= (stat_messages_handled % config.stats) + 1
        /\ pc = "fflush" =>
               IF caller = "statistics" THEN sinceStat = 0
               ELSE StatsDue \/ sinceStat <= stat_messages_handled % config.stats

LEMMA EveryInit == Init => EveryInv
  <1>. SUFFICES ASSUME Init, config.stats > 0
                PROVE  sinceStat <= stat_messages_handled % config.stats
    BY DEF EveryInv, Init
  <1>1. config.stats \in Nat \ {0} /\ sinceStat = 0 /\ stat_messages_handled = 0
    <2>1. config.stats \in Nat
      BY OptionsAssumption DEF Init, Configs
    <2>2. sinceStat = 0 /\ stat_messages_handled = 0
      BY DEF Init
    <2>. QED
      BY <2>1, <2>2
  <1>2. 0 % config.stats = 0
    BY <1>1
  <1>. QED
    BY <1>1, <1>2

LEMMA EveryNext == TypeOK /\ EveryInv /\ [Next]_vars => EveryInv'
  <1>. SUFFICES ASSUME TypeOK, EveryInv, [Next]_vars PROVE EveryInv'
    OBVIOUS
  <1>z. config' = config
    BY OptionsFixed
  <1>. SUFFICES ASSUME config.stats > 0 PROVE EveryInv'
    BY <1>z DEF EveryInv
  <1>. DEFINE f == config.stats
             h == stat_messages_handled
  <1>. USE DEF Running, Ended
  <1>a. f \in Nat \ {0} /\ h \in 0..(UIntMod - 1) /\ h \in Nat /\ sinceStat \in Nat
    <2>1. config.stats \in Nat
      BY OptionsAssumption DEF TypeOK, Configs
    <2>2. stat_messages_handled \in 0..(UIntMod - 1) /\ UIntMod \in Nat
      BY BoundsAssumption DEF TypeOK
    <2>. QED
      BY <2>1, <2>2 DEF TypeOK
  <1>b. h % f \in 0..(f - 1)
    BY <1>a, RemainderRange
  \* A step on the way from recvfrom to fprintf, or one that ends the process.
  <1>1. ASSUME UNCHANGED <<stat_messages_handled, sinceStat>>,
               \/ pc' \in Ended
               \/ UNCHANGED <<pc, caller>>
               \/ /\ {pc, pc'} \subseteq Running \ {"recv", "fflush"}
                  /\ UNCHANGED caller
        PROVE  EveryInv'
    BY <1>1, <1>z DEF EveryInv, StatsDue
  <1>2. CASE UNCHANGED vars
    BY <1>1, <1>2 DEF vars, control, counters, history
  <1>3. ASSUME NEW n \in Names, Recv(n) PROVE EveryInv'
    <2>1. /\ pc = "recv" /\ pc' = "open" /\ caller' = "serverLoop"
          /\ sinceStat' = sinceStat + 1 /\ h' = h
      BY <1>3 DEF Recv, counters
    <2>2. sinceStat <= h % f
      BY <2>1 DEF EveryInv
    <2>. QED
      BY <1>a, <1>b, <1>z, <2>1, <2>2 DEF EveryInv
  <1>4. CASE OpenSame \/ OpenFound \/ OpenMiss \/ CloseVictim \/ RemoveVictim
    BY <1>1, <1>4 DEF OpenSame, OpenFound, OpenMiss, CloseVictim, RemoveVictim, Switches,
                      Goto, counters, history
  <1>5. CASE Fopen \/ FopenFails \/ Insert
    BY <1>1, <1>5 DEF Fopen, FopenFails, Insert, Goto, counters, history
  <1>6. ASSUME NEW n \in Names, Pick(n) PROVE EveryInv'
    BY <1>1, <1>6 DEF Pick, Goto, counters, history
  <1>7. ASSUME NEW how \in Ended, Die(how) PROVE EveryInv'
    BY <1>1, <1>7 DEF Die, counters, history
  <1>8. CASE SigHup \/ ShutdownServer
    BY <1>1, <1>8 DEF SigHup, ShutdownServer, CloseAllFiles, Goto, control, history
  <1>9. CASE Fprintf \/ FprintfClosed
    <2>1. /\ pc = "fprintf" /\ pc' = "fflush" /\ UNCHANGED <<caller, sinceStat>>
          /\ h' = Inc(h)
      BY <1>9 DEF Fprintf, FprintfClosed, Goto, history
    <2>2. h' % f = 0 \/ h' % f = (h % f) + 1
      BY <1>a, <2>1, IncRemainder
    <2>3. CASE caller = "statistics"
      BY <1>a, <2>1, <2>3 DEF EveryInv
    <2>4. CASE caller # "statistics"
      <3>1. caller = "serverLoop" /\ sinceStat <= (h % f) + 1
        BY <2>1, <2>4 DEF EveryInv, TypeOK
      <3>2. StatsDue' <=> h' % f = 0
        BY <1>a, <1>z, <2>1, <3>1 DEF StatsDue
      <3>3. StatsDue' \/ sinceStat <= h' % f
        BY <2>2, <3>1, <3>2
      <3>. QED
        BY <1>z, <2>1, <2>4, <3>3 DEF EveryInv
    <2>. QED
      BY <2>3, <2>4
  <1>10. CASE Fflush
    <2>1. pc = "fflush" /\ h' = h /\ Continue
      BY <1>10 DEF Fflush, counters
    <2>2. CASE StatsDue
      <3>1. pc' = "open" /\ caller' = "statistics" /\ sinceStat' = 0
        BY <2>1, <2>2 DEF Continue
      <3>. QED
        BY <3>1 DEF EveryInv
    <2>3. CASE ~StatsDue
      <3>1. pc' = "recv" /\ sinceStat' = sinceStat
        BY <2>1, <2>3 DEF Continue
      <3>2. sinceStat <= h % f
        BY <1>a, <1>b, <2>1, <2>3 DEF EveryInv
      <3>. QED
        BY <1>z, <2>1, <3>1, <3>2 DEF EveryInv
    <2>. QED
      BY <2>2, <2>3
  <1>. QED
    BY <1>2, <1>3, <1>4, <1>5, <1>6, <1>7, <1>8, <1>9, <1>10
       DEF Next, Server, OpenLogfile, CloseRandomFile, LogMessageFile, Signal,
           OpenCrash, PickNone, PickAgain, CloseVictimCrash, FopenFailsCrash,
           FprintfClosedCrash, FflushCrash, HandlerCrash, KilledBySignal, Crash, Done

\* The statistics tell the open files, modulo the width of the counters, as long
\* as no stream was closed twice, and come after at most -s datagrams.
THEOREM StatisticsRight == Spec => []StatsRight
  <1>1. TypeOK /\ PoolInv /\ AccountInv => StatsAccount
    <2>. SUFFICES ASSUME TypeOK, PoolInv, AccountInv, pc = "recv", ~misuse
                  PROVE  stat_files_opened = (stat_files_closed + Cardinality(open)) % UIntMod
      BY DEF StatsAccount
    <2>1. open = handles /\ Settled = handles
      BY DEF PoolInv, PoolIsOpen, Settled, Running
    <2>. QED
      BY <2>1 DEF AccountInv, Running
  <1>2. TypeOK /\ EveryInv => StatsEveryN
    <2>. SUFFICES ASSUME TypeOK, EveryInv, config.stats > 0, pc = "recv"
                  PROVE  sinceStat < config.stats
      BY DEF StatsEveryN
    <2>1. config.stats \in Nat \ {0} /\ stat_messages_handled \in Nat /\ sinceStat \in Nat
      <3>1. config.stats \in Nat
        BY OptionsAssumption DEF TypeOK, Configs
      <3>2. stat_messages_handled \in 0..(UIntMod - 1) /\ UIntMod \in Nat
        BY BoundsAssumption DEF TypeOK
      <3>. QED
        BY <3>1, <3>2 DEF TypeOK
    <2>2. stat_messages_handled % config.stats \in 0..(config.stats - 1)
      BY <2>1, RemainderRange
    <2>3. sinceStat <= stat_messages_handled % config.stats
      BY DEF EveryInv
    <2>. QED
      BY <2>1, <2>2, <2>3
  <1>. QED
    BY <1>1, <1>2, TypeInit, TypeNext, PoolInit, PoolNext, AccountInit, AccountNext,
       EveryInit, EveryNext, PTL DEF Spec, StatsRight

=============================================================================
