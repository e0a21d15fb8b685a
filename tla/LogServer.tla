------------------------------ MODULE LogServer ------------------------------
(***************************************************************************)
(* The yaul server logging to files (src/yaul.c without -r): the receive   *)
(* loop, the pool of open log files, stdio's buffers between the server    *)
(* and the disk, and the signal handlers that interrupt the loop.          *)
(*                                                                         *)
(* The server is one thread.  Its program counter names the library call   *)
(* it makes next, and a signal handler runs to its end between two such    *)
(* calls.  A struct handlebuffer is the key, the value and the owner of    *)
(* one hashtable entry, so handles is the set of lognames with an entry.   *)
(* A stream is named by its logname: fopen follows a failed search, so two *)
(* streams on one log are never open together.                             *)
(*                                                                         *)
(* lastfile is a raw pointer.  dangling says that the buffer it points to  *)
(* was freed; what a read of it returns is then a choice of the model.  A  *)
(* call on a stream that is closed already either kills the process or has *)
(* no effect, and misuse records it.                                       *)
(*                                                                         *)
(* stat_files_switched only feeds the text of the statistics: left out.    *)
(*                                                                         *)
(* A definition named Bug... is a mistake one could make in the definition *)
(* that follows it; no specification uses it, and a run shows that the     *)
(* properties would notice.                                                *)
(***************************************************************************)
EXTENDS Integers, Sequences, FiniteSets

CONSTANTS
    Names,        \* the lognames clients use, with the one of the statistics
    StatName,     \* "yaul.stat"
    NoName,       \* the NULL of lastfile
    Flushes,      \* values of -f (opt_flush)
    Frequencies,  \* values of -s (opt_statistics)
    PoolSizes,    \* values of -m (maxhandles)
    UIntMod,      \* one more than UINT_MAX: the counters wrap here
    MaxMsgs,      \* bound: datagrams the clients send
    MaxHups       \* bound: SIGHUPs delivered to the daemon

ASSUME NamesAssumption == IsFiniteSet(Names) /\ StatName \in Names /\ NoName \notin Names
ASSUME OptionsAssumption ==
    /\ Flushes \subseteq Nat
    /\ Frequencies \subseteq Nat
    /\ PoolSizes \subseteq Nat
ASSUME BoundsAssumption == UIntMod \in Nat \ {0} /\ MaxMsgs \in Nat /\ MaxHups \in Nat

VARIABLES
    config,                 \* the command line options, never changed
    pc, name, caller,       \* next call, logname in hand, who called logMessage
    handles,                \* lognames with an entry in the hashtable
    lastfile, dangling,     \* the buffer used last, and whether it was freed
    victim,                 \* handle of closeRandomFile
    open, buf, disk,        \* open streams, what they hold back, the log files
    stat_messages_handled, stat_files_opened, stat_files_closed,
    received,               \* lines given to logMessage, per logname
    clients,                \* datagrams received
    sinceStat,              \* datagrams since the last statistics line
    lost,                   \* the lines given to a closed stream, per logname
    hups,                   \* SIGHUPs handled
    misuse                  \* a closed stream was used

control  == <<pc, name, caller>>
pool     == <<handles, lastfile, dangling, victim>>
streams  == <<open, buf, disk>>
counters == <<stat_messages_handled, stat_files_opened, stat_files_closed>>
history  == <<received, clients, sinceStat, lost, hups>>
vars     == <<config, control, pool, streams, counters, history, misuse>>

Ended   == {"exited", "failed", "crashed", "aborted", "killed"}
Running == {"recv", "open", "pick", "fclose", "remove", "fopen", "insert",
            "fprintf", "fflush"}
Configs == [flush: Flushes, stats: Frequencies, maxhandles: PoolSizes,
            daemonize: BOOLEAN]

BugInc(counter) == counter + 1
Inc(counter) == (counter + 1) % UIntMod
Goto(label)  == pc' = label /\ UNCHANGED <<name, caller>>

\* The process dies where it stands: what stdio holds back is lost.
Die(how) == /\ pc' = how
            /\ UNCHANGED <<config, name, caller, pool, streams, counters,
                           history, misuse>>
Crash == Die("crashed")

\* What every stream of S holds back reaches its file.
Drain(S) ==
    /\ disk' = [n \in Names |-> IF n \in S THEN disk[n] \o buf[n] ELSE disk[n]]
    /\ buf'  = [n \in Names |-> IF n \in S THEN <<>> ELSE buf[n]]

Init ==
    /\ config \in Configs
    /\ pc = "recv" /\ name = NoName /\ caller = "serverLoop"
    /\ handles = {} /\ lastfile = NoName /\ dangling = FALSE /\ victim = NoName
    /\ open = {}
    /\ buf = [n \in Names |-> <<>>] /\ disk = [n \in Names |-> <<>>]
    /\ stat_messages_handled = 0 /\ stat_files_opened = 0
    /\ stat_files_closed = 0
    /\ received = [n \in Names |-> 0] /\ clients = 0 /\ sinceStat = 0
    /\ lost = [n \in Names |-> {}] /\ hups = 0 /\ misuse = FALSE
-----------------------------------------------------------------------------
(* serverLoop and openLogfile.                                             *)

Recv(n) ==
    /\ pc = "recv" /\ clients < MaxMsgs
    /\ pc' = "open" /\ name' = n /\ caller' = "serverLoop"
    /\ received' = [received EXCEPT ![n] = @ + 1]
    /\ clients' = clients + 1 /\ sinceStat' = sinceStat + 1
    /\ UNCHANGED <<config, pool, streams, counters, lost, hups, misuse>>

\* The comparison of line 302 finds the logname in the buffer of lastfile; a
\* freed buffer may still hold it.
OpenSame ==
    /\ pc = "open" /\ lastfile = name
    /\ Goto("fprintf")
    /\ UNCHANGED <<config, pool, streams, counters, history, misuse>>

\* Lines 304-306: the file left behind is flushed when flushing is rare.  A
\* stream that SIGHUP closed is flushed to no effect, if the process survives.
BugFlushesLast == lastfile # NoName /\ config.flush > 2
FlushesLast    == lastfile # NoName /\ config.flush > 1
FlushLast ==
    /\ Drain(IF FlushesLast /\ ~dangling THEN {lastfile} ELSE {})
    /\ misuse' = (misuse \/ (FlushesLast /\ dangling))
    /\ UNCHANGED open
Switches == pc = "open" /\ (lastfile # name \/ dangling)

BugOpenFound ==        \* lastfile keeps its value
    /\ Switches /\ name \in handles
    /\ FlushLast
    /\ Goto("fprintf")
    /\ UNCHANGED <<config, pool, counters, history>>
OpenFound ==
    /\ Switches /\ name \in handles
    /\ FlushLast
    /\ lastfile' = name /\ dangling' = FALSE
    /\ Goto("fprintf")
    /\ UNCHANGED <<config, handles, victim, stat_messages_handled,
                   stat_files_opened, stat_files_closed, history>>

BugPoolFull == Cardinality(handles) > config.maxhandles
PoolFull    == Cardinality(handles) >= config.maxhandles
BugCanEvict == Cardinality(handles) > 0
CanEvict    == Cardinality(handles) > 1

OpenMiss ==
    /\ Switches /\ name \notin handles
    /\ FlushLast
    /\ Goto(IF PoolFull /\ CanEvict THEN "pick" ELSE "fopen")
    /\ UNCHANGED <<config, pool, counters, history>>

OpenCrash == Switches /\ FlushesLast /\ dangling /\ Crash
-----------------------------------------------------------------------------
(* closeRandomFile: a file other than lastfile leaves the pool.            *)

BugPick(n) ==          \* the comparison with lastfile is missing
    /\ pc = "pick" /\ n \in handles
    /\ victim' = n
    /\ Goto("fclose")
    /\ UNCHANGED <<config, handles, lastfile, dangling, streams, counters,
                   history, misuse>>
Pick(n) ==
    /\ pc = "pick" /\ n \in handles /\ n # lastfile
    /\ victim' = n
    /\ Goto("fclose")
    /\ UNCHANGED <<config, handles, lastfile, dangling, streams, counters,
                   history, misuse>>

PickAgain ==
    /\ pc = "pick" /\ lastfile \in handles
    /\ UNCHANGED vars

\* rand() % 0, once SIGHUP has emptied the table.  The calls of lines 95-103 on the
\* iterator are one step with rand(): no signal comes between them.
PickNone == pc = "pick" /\ handles = {} /\ Crash

\* The stream was closed by SIGHUP: closed twice, or the process crashes.
CloseVictim ==
    /\ pc = "fclose"
    /\ Drain({victim} \cap open)
    /\ open' = open \ {victim}
    /\ misuse' = (misuse \/ victim \notin open)
    /\ stat_files_closed' = Inc(stat_files_closed)
    /\ Goto("remove")
    /\ UNCHANGED <<config, pool, stat_messages_handled, stat_files_opened, history>>

CloseVictimCrash == pc = "fclose" /\ victim \notin open /\ Crash

BugRemoveVictim ==     \* hashtable_remove is missing
    /\ pc = "remove"
    /\ Goto("fopen")
    /\ UNCHANGED <<config, pool, streams, counters, history, misuse>>
RemoveVictim ==
    /\ pc = "remove"
    /\ handles' = handles \ {victim}
    /\ dangling' = (dangling \/ victim = lastfile)
    /\ victim' = NoName
    /\ Goto("fopen")
    /\ UNCHANGED <<config, lastfile, streams, counters, history, misuse>>
-----------------------------------------------------------------------------
(* openLogfile opens the file and puts it in the pool.                     *)

Fopen ==
    /\ pc = "fopen"
    /\ open' = open \union {name}
    /\ Goto("insert")
    /\ UNCHANGED <<config, pool, buf, disk, counters, history, misuse>>

\* Lines 327-337 free newfile and lastfile, and read newfile: it still holds the
\* NULL of fopen and logMessageFile exits, stdio flushing every stream; or its
\* memory was written over, or lastfile was freed before, and the process dies.
FopenFails ==
    /\ pc = "fopen"
    /\ Drain(open) /\ open' = {}
    /\ Goto("failed")
    /\ UNCHANGED <<config, pool, counters, history, misuse>>

FopenFailsCrash == pc = "fopen" /\ Die("failed")

Insert ==
    /\ pc = "insert"
    /\ handles' = handles \union {name}
    /\ lastfile' = name /\ dangling' = FALSE
    /\ stat_files_opened' = Inc(stat_files_opened)
    /\ Goto("fprintf")
    /\ UNCHANGED <<config, victim, streams, stat_messages_handled,
                   stat_files_closed, history, misuse>>
-----------------------------------------------------------------------------
(* logMessageFile: the line goes to the stream of lastfile.                *)

\* stdio writes a part of the buffer when it is full: the first k lines.
Fprintf ==
    /\ pc = "fprintf" /\ lastfile \in open
    /\ LET held == Append(buf[lastfile], received[name])
       IN  \E k \in 0..Len(held) :
             /\ disk' = [disk EXCEPT ![lastfile] = @ \o SubSeq(held, 1, k)]
             /\ buf'  = [buf EXCEPT ![lastfile] = SubSeq(held, k + 1, Len(held))]
    /\ stat_messages_handled' = Inc(stat_messages_handled)
    /\ Goto("fflush")
    /\ UNCHANGED <<config, pool, open, stat_files_opened, stat_files_closed,
                   history, misuse>>

\* The stream was closed by SIGHUP: the line is lost, or the process crashes.
FprintfClosed ==
    /\ pc = "fprintf" /\ lastfile \notin open
    /\ misuse' = TRUE
    /\ lost' = [lost EXCEPT ![name] = @ \union {received[name]}]
    /\ stat_messages_handled' = Inc(stat_messages_handled)
    /\ Goto("fflush")
    /\ UNCHANGED <<config, pool, streams, stat_files_opened, stat_files_closed,
                   received, clients, sinceStat, hups>>

FprintfClosedCrash == pc = "fprintf" /\ lastfile \notin open /\ Crash

BugStatsDue == /\ caller = "serverLoop" /\ config.stats > 1
               /\ stat_messages_handled % config.stats = 0
StatsDue    == /\ caller = "serverLoop" /\ config.stats > 0
               /\ stat_messages_handled % config.stats = 0

\* Back in serverLoop: wait for the next datagram, or log the statistics.
Continue ==
    IF StatsDue
    THEN /\ pc' = "open" /\ name' = StatName /\ caller' = "statistics"
         /\ received' = [received EXCEPT ![StatName] = @ + 1]
         /\ sinceStat' = 0
    ELSE /\ pc' = "recv" /\ name' = NoName /\ caller' = "serverLoop"
         /\ UNCHANGED <<received, sinceStat>>

BugFlushDue == stat_messages_handled % (config.flush + 1) = 0
FlushDue    == stat_messages_handled % config.flush = 0

Fflush ==
    /\ pc = "fflush" /\ config.flush > 0
    /\ Drain(IF FlushDue THEN {lastfile} \cap open ELSE {})
    /\ misuse' = (misuse \/ (FlushDue /\ lastfile \notin open))
    /\ Continue
    /\ UNCHANGED <<config, pool, open, counters, clients, lost, hups>>

\* A remainder modulo 0, or a closed stream flushed.
FflushCrash ==
    /\ pc = "fflush"
    /\ \/ config.flush = 0
       \/ config.flush > 0 /\ FlushDue /\ lastfile \notin open
    /\ Crash
-----------------------------------------------------------------------------
(* Signals.  The handlers are installed by daemonize_server only; without  *)
(* -d every one of the three signals kills the process.                    *)

CloseAllFiles(S) ==
    /\ Drain(S)
    /\ open' = open \ S
    /\ stat_files_closed' = (stat_files_closed + Cardinality(handles)) % UIntMod
    /\ handles' = {}
    /\ dangling' = (dangling \/ lastfile \in handles)
    /\ misuse' = (misuse \/ ~(handles \subseteq open))
    /\ UNCHANGED <<lastfile, victim, stat_messages_handled, stat_files_opened>>

SigHup ==
    /\ pc \in Running /\ config.daemonize /\ hups < MaxHups
    /\ CloseAllFiles(handles \cap open)
    /\ hups' = hups + 1
    /\ UNCHANGED <<config, control, received, clients, sinceStat, lost>>

BugShutdownServer ==   \* _exit, and the files are not closed
    /\ pc \in Running /\ config.daemonize
    /\ Die("exited")
\* exit() closes the streams closeAllFiles did not find in the table.
ShutdownServer ==
    /\ pc \in Running /\ config.daemonize
    /\ CloseAllFiles(open)
    /\ Goto("exited")
    /\ UNCHANGED <<config, history>>

\* A handler closes again the stream that closeRandomFile has closed already.
HandlerCrash ==
    /\ pc \in Running /\ config.daemonize /\ ~(handles \subseteq open)
    /\ Die("aborted")

KilledBySignal ==
    /\ pc \in Running /\ ~config.daemonize
    /\ Die("killed")

Done == pc \in Ended /\ UNCHANGED vars
-----------------------------------------------------------------------------
OpenLogfile == \/ OpenSame \/ OpenFound \/ OpenMiss \/ OpenCrash
               \/ Fopen \/ FopenFails \/ FopenFailsCrash \/ Insert
CloseRandomFile == \/ \E n \in Names : Pick(n)
                   \/ PickAgain \/ PickNone
                   \/ CloseVictim \/ CloseVictimCrash \/ RemoveVictim
LogMessageFile == \/ Fprintf \/ FprintfClosed \/ FprintfClosedCrash
                  \/ Fflush \/ FflushCrash

Server == OpenLogfile \/ CloseRandomFile \/ LogMessageFile
Signal == SigHup \/ ShutdownServer \/ HandlerCrash \/ KilledBySignal

Next == (\E n \in Names : Recv(n)) \/ Server \/ Signal \/ Done

Spec == Init /\ [][Next]_vars

\* The kernel keeps running the server, and rand() does not return the entry of
\* lastfile for ever.  Datagrams and signals need never come.
Fairness == /\ WF_vars(Server)
            /\ SF_vars(\E n \in Names : Pick(n))

FairSpec == Spec /\ Fairness
-----------------------------------------------------------------------------
(* What the server promises.                                               *)

TypeOK ==
    /\ config \in Configs
    /\ pc \in Running \union Ended
    /\ name \in Names \union {NoName}
    /\ pc \in Running \ {"recv"} => name \in Names
    /\ caller \in {"serverLoop", "statistics"}
    /\ handles \subseteq Names /\ open \subseteq Names
    /\ lastfile \in Names \union {NoName} /\ victim \in Names \union {NoName}
    /\ dangling \in BOOLEAN /\ misuse \in BOOLEAN
    /\ buf \in [Names -> Seq(Nat)] /\ disk \in [Names -> Seq(Nat)]
    /\ stat_messages_handled \in 0..(UIntMod - 1)
    /\ stat_files_opened \in 0..(UIntMod - 1)
    /\ stat_files_closed \in 0..(UIntMod - 1)
    /\ received \in [Names -> Nat] /\ lost \in [Names -> SUBSET Nat]
    /\ clients \in Nat /\ sinceStat \in Nat /\ hups \in Nat

\* The pool keeps its limit: -m files are open at most, or 2 where -m asks for
\* less, the file being opened included (openLogfile lines 314-323 with
\* closeRandomFile), whatever signals interrupt the opening.
PoolLimit == IF config.maxhandles > 2 THEN config.maxhandles ELSE 2
OpenBound == Cardinality(open) <= PoolLimit

\* No stream leaks and none is pooled closed: between two calls the table and
\* the open streams differ by the file being opened or closed, whatever SIGHUP
\* did meanwhile (closeRandomFile lines 105-107, openLogfile 320-323,
\* closeAllFiles 122-126).
PoolIsOpen ==
    pc \in Running =>
        open = (handles \ (IF pc = "remove" THEN {victim} ELSE {}))
                 \union (IF pc = "insert" THEN {name} ELSE {})

\* The file in use is never evicted: unless SIGHUP freed it, lastfile points to
\* an entry of the table whose stream is open (closeRandomFile line 103).
LastIsPooled ==
    pc \in Running /\ lastfile # NoName /\ ~dangling =>
        lastfile \in handles /\ lastfile \in open

\* The two together: the pool, the open streams and lastfile agree at every call.
PoolSound == PoolIsOpen /\ LastIsPooled

\* Only the file written last has unflushed lines (openLogfile lines 303-306 for
\* -f above 1, logMessageFile 356-359 for 1), so one fflush per N lines is enough.
UnflushedOnlyLast == \A n \in Names : buf[n] # <<>> => n = lastfile

\* Fewer than -f lines wait in stdio between two datagrams, all of them counted
\* since the counter last was a multiple of -f, also where the counter wraps; a
\* process that dies loses -f lines at most (logMessageFile lines 354-359).
UnflushedBound ==
    config.flush > 0 =>
        \A n \in Names :
            Len(buf[n]) <= IF pc \in Running \ {"fflush"}
                           THEN stat_messages_handled % config.flush
                           ELSE config.flush

\* Flushing keeps up with writing: what a crash can cost is the newest lines of
\* one file, -f of them at most.
FlushKeepsUp == UnflushedOnlyLast /\ UnflushedBound

\* Every line is written once, in order: the log file and the buffer of a stream
\* hold the lines given to logMessage but the one in hand and those that met a
\* stream closed by SIGHUP (the whole of logMessageFile and openLogfile).
Written(n)    == disk[n] \o buf[n]
Elements(s)   == {s[i] : i \in 1..Len(s)}
Increasing(s) == \A i, j \in 1..Len(s) : i < j => s[i] < s[j]
Kept(n)       == (1..received[n]) \ lost[n]
InHand(n)     == IF n = name /\ pc \notin {"recv", "fflush"} THEN {received[n]} ELSE {}
WrittenOnce ==
    \A n \in Names :
        /\ Increasing(Written(n))
        /\ \/ Elements(Written(n)) = Kept(n) \ InHand(n)
           \/ pc \in Ended /\ Elements(Written(n)) = Kept(n)

\* Evictions alone leave no stale handle behind.  While no SIGHUP has come and the
\* server runs, with a -f above 0, lastfile points to no freed buffer, no closed
\* stream was used and no line given to one, and none of its own calls but a
\* failing fopen crashes it (closeRandomFile lines 85-110, openLogfile 297-338).
\* What may still end it is SIGTERM; SIGTERM between lines 105 and 107, which closes
\* the victim's stream a second time; a signal that has no handler; or a failing
\* fopen, which reads freed buffers.  The last three may cost what stdio holds back.
SoundWithoutHup ==
    hups = 0 /\ config.flush > 0 =>
        /\ pc \in Running => ~dangling /\ ~misuse
        /\ \A n \in Names : lost[n] = {}
        /\ pc # "crashed"
        /\ pc = "aborted" => victim \in handles \ open
        /\ misuse => pc = "exited" /\ victim # NoName

\* SIGTERM loses the datagram in hand and nothing else: every line written before
\* is on disk when the process has exited (shutdownServer lines 135-141).
ExitSavesAll ==
    pc = "exited" =>
        \A n \in Names :
            /\ buf[n] = <<>>
            /\ Kept(n) \ InHand(n) \subseteq Elements(disk[n])

\* The statistics tell the open files: opened minus closed, modulo the width of
\* the counters, as long as no stream was closed twice (lines 106, 125 and 324).
StatsAccount ==
    pc = "recv" /\ ~misuse =>
        stat_files_opened = (stat_files_closed + Cardinality(open)) % UIntMod

\* A statistics line comes after at most -s datagrams, its own line being counted
\* like any other and the counter wrapping (serverLoop line 478).
StatsEveryN == config.stats > 0 /\ pc = "recv" => sinceStat < config.stats

\* A statistics line tells the truth and comes when it is due.
StatsRight == StatsAccount /\ StatsEveryN

\* openLogfile and closeRandomFile return: whatever is received, the server comes
\* back to recvfrom or is gone (the do-while of lines 95-103).
BackToRecv == pc # "recv" ~> pc \in Ended \union {"recv"}

\* With -f 1 a line that is received reaches its file, or is lost to a closed
\* stream, or the process is gone (README.md:31).
LineReachesDisk ==
    \A n \in Names :
        config.flush = 1 /\ pc = "open" /\ name = n
            ~> \/ pc \in Ended
               \/ received[n] \in lost[n]
               \/ buf[n] = <<>> /\ Len(disk[n]) + Cardinality(lost[n]) = received[n]
-----------------------------------------------------------------------------
(* What comments and documents say and the code does not do.               *)

\* yaul.c:293 "return filehandle if file allready opened and in handles".
ReturnsPooledHandle ==
    [][pc = "open" /\ pc' = "fprintf" => name \in handles']_vars
=============================================================================
