------------------------------ MODULE RedisLog ------------------------------
(***************************************************************************)
(* The yaul server logging to Redis (src/yaul.c with -r): logMessageRedis  *)
(* and openRedis, the blocking connection of hiredis under them, and a     *)
(* Redis server that may be stopped, started or cut off at any time.       *)
(*                                                                         *)
(* Commands and replies travel on the connection in order.  What hiredis   *)
(* does with them is in one step each: redisCommand writes a command, or   *)
(* fails at once on a context that has an error; then it waits until there *)
(* is a reply to read or the connection is at its end.  A list is named by *)
(* its logname, the day that is part of its key being left out.  A reply   *)
(* is the command it answers: yaul does not look whether it is an error.   *)
(*                                                                         *)
(* In this mode closeAllFiles does nothing, so SIGHUP only interrupts the  *)
(* poll of a connect, which then fails.                                    *)
(*                                                                         *)
(* A definition named Bug... is a mistake one could make in the definition *)
(* that follows it; no specification uses it.                              *)
(***************************************************************************)
EXTENDS Integers, Sequences, FiniteSets

CONSTANTS
    Names, StatName, NoName,
    TTLs,           \* values of -t (redis_ttl)
    Frequencies,    \* values of -s (opt_statistics)
    UIntMod,        \* one more than UINT_MAX
    MaxSockets,     \* sockets the process may hold open
    MaxMsgs,        \* bound: datagrams the clients send
    MaxFaults       \* bound: times the server stops or the connection breaks

ASSUME NamesAssumption == StatName \in Names /\ NoName \notin Names
ASSUME OptionsAssumption == TTLs \subseteq Nat /\ Frequencies \subseteq Nat
ASSUME BoundsAssumption ==
    UIntMod \in Nat \ {0} /\ MaxSockets \in Nat \ {0} /\ MaxMsgs \in Nat /\ MaxFaults \in Nat

VARIABLES
    config,
    pc, name, caller,       \* next call, logname in hand, who called logMessage
    line,                   \* lines given to logMessageRedis
    err,                    \* redis_context->err
    fd,                     \* redis_context has a socket
    dropped,                \* sockets of contexts openRedis replaced
    stat_messages_handled,
    up, link,               \* the server runs; it holds its end of the connection
    requests, replies,      \* on the connection
    lists, expiring,        \* the lists of the server, those with a TTL
    clients, faults,        \* datagrams received, faults so far
    acked,                  \* lines yaul takes for stored: LPUSH had a reply
    refused,                \* lines whose LPUSH Redis answered with an error
    unanswered              \* LPUSHs without a reply since the last fault, failed
                            \* connect or start of the server

control == <<pc, name, caller>>
context == <<err, fd, dropped>>
wire    == <<requests, replies>>
server  == <<up, lists, expiring>>
history == <<clients, faults, acked, refused, unanswered>>
vars    == <<config, control, line, context, stat_messages_handled, link, wire,
             server, history>>

Ended == {"exited", "crashed"}
Lpush(n, l) == [op |-> "LPUSH", name |-> n, line |-> l]
Expire(n)   == [op |-> "EXPIRE", name |-> n, line |-> 0]

Init ==
    /\ config \in [ttl: TTLs, stats: Frequencies]
    /\ pc = "recv" /\ name = NoName /\ caller = "serverLoop"
    /\ line = 0 /\ err = FALSE /\ fd = TRUE /\ dropped = 0
    /\ stat_messages_handled = 0
    /\ up = TRUE /\ link = TRUE /\ requests = <<>> /\ replies = <<>>
    /\ lists = [n \in Names |-> <<>>] /\ expiring = {}
    /\ clients = 0 /\ faults = 0 /\ acked = {} /\ refused = {} /\ unanswered = 0

Goto(label) == pc' = label /\ UNCHANGED <<name, caller>>

\* logMessage is given a line for log n.
Handle(n, by) ==
    /\ pc' = "lpush" /\ name' = n /\ caller' = by
    /\ line' = line + 1

\* Back in serverLoop: the statistics are due, or the next datagram.
StatsDue == /\ caller = "serverLoop" /\ config.stats > 0
            /\ stat_messages_handled' % config.stats = 0
Continue ==
    IF StatsDue
    THEN Handle(StatName, "statistics")
    ELSE /\ pc' = "recv" /\ name' = NoName /\ caller' = "serverLoop"
         /\ UNCHANGED line
-----------------------------------------------------------------------------
(* redisCommand.                                                           *)

\* The command is written: a socket whose other end is gone takes it or gives
\* an error, a context that has an error writes nothing.
Send(cmd) ==
    \/ /\ ~err /\ link
       /\ requests' = Append(requests, cmd)
       /\ UNCHANGED err
    \/ /\ err \/ ~link
       /\ err' \in {err, TRUE}
       /\ UNCHANGED requests

HasReply  == ~err /\ replies # <<>>
NullReply == err \/ (replies = <<>> /\ ~link)
-----------------------------------------------------------------------------
(* serverLoop and logMessageRedis.                                         *)

Recv(n) ==
    /\ pc = "recv" /\ clients < MaxMsgs
    /\ Handle(n, "serverLoop")
    /\ clients' = clients + 1
    /\ UNCHANGED <<config, context, stat_messages_handled, link, wire, server,
                   faults, acked, refused, unanswered>>

SendLpush ==
    /\ pc = "lpush"
    /\ Send(Lpush(name, line))
    /\ Goto("lpushed")
    /\ UNCHANGED <<config, line, fd, dropped, stat_messages_handled, link, replies,
                   server, history>>

BugInc(counter) == counter + 1
Inc(counter) == (counter + 1) % UIntMod

\* A reply, be it an error, is freed, the line is counted and the TTL is set.
LpushReply ==
    /\ pc = "lpushed" /\ HasReply
    /\ replies' = Tail(replies)
    /\ acked' = acked \union {line}
    /\ stat_messages_handled' = Inc(stat_messages_handled)
    /\ IF config.ttl > 0 THEN Goto("expire") /\ UNCHANGED line ELSE Continue
    /\ UNCHANGED <<config, context, link, requests, server, clients,
                   faults, refused, unanswered>>

BugLpushNull ==         \* no openRedis
    /\ pc = "lpushed" /\ NullReply
    /\ err' = TRUE
    /\ unanswered' = unanswered + 1
    /\ stat_messages_handled' = Inc(stat_messages_handled)
    /\ Continue
    /\ UNCHANGED <<config, fd, dropped, link, wire, server, clients, faults, acked,
                   refused>>
LpushNull ==
    /\ pc = "lpushed" /\ NullReply
    /\ err' = TRUE
    /\ unanswered' = unanswered + 1
    /\ stat_messages_handled' = Inc(stat_messages_handled)
    /\ Goto("openRedis")
    /\ UNCHANGED <<config, line, fd, dropped, link, wire, server, clients, faults, acked,
                   refused>>

BugSendExpire ==        \* appended to the pipeline, its reply not read
    /\ pc = "expire"
    /\ Send(Expire(name))
    /\ stat_messages_handled' = stat_messages_handled
    /\ Continue
    /\ UNCHANGED <<config, fd, dropped, link, replies, server, history>>
SendExpire ==
    /\ pc = "expire"
    /\ Send(Expire(name))
    /\ Goto("expired")
    /\ UNCHANGED <<config, line, fd, dropped, stat_messages_handled, link, replies,
                   server, history>>

ExpireReply ==
    /\ pc = "expired" /\ HasReply
    /\ replies' = Tail(replies)
    /\ stat_messages_handled' = stat_messages_handled
    /\ Continue
    /\ UNCHANGED <<config, context, link, requests, server, history>>

\* freeReplyObject reads the type of a NULL reply.
ExpireNull ==
    /\ pc = "expired" /\ NullReply
    /\ Goto("crashed")
    /\ UNCHANGED <<config, line, context, stat_messages_handled, link, wire, server, history>>

\* A new context takes the place of the old one, whose socket stays open.
Replaced == dropped + (IF fd THEN 1 ELSE 0)
Drop     == dropped' = Replaced
OpenRedis ==
    /\ pc = "openRedis" /\ up
    /\ Drop /\ dropped' < MaxSockets
    /\ err' = FALSE /\ fd' = TRUE /\ link' = TRUE
    /\ requests' = <<>> /\ replies' = <<>>
    /\ stat_messages_handled' = stat_messages_handled
    /\ Continue
    /\ UNCHANGED <<config, server, history>>

\* The server does not run, the poll times out or is interrupted, or there is no
\* socket left.
OpenRedisFails ==
    /\ pc = "openRedis"
    /\ Drop
    /\ up => faults < MaxFaults \/ dropped' >= MaxSockets
    /\ err' = TRUE /\ fd' = FALSE /\ link' = FALSE
    /\ requests' = <<>> /\ replies' = <<>>
    /\ stat_messages_handled' = stat_messages_handled
    /\ faults' = IF up /\ faults < MaxFaults THEN faults + 1 ELSE faults
    /\ unanswered' = 0
    /\ Continue
    /\ UNCHANGED <<config, server, clients, acked, refused>>

\* sig_int and sig_term; closeAllFiles does nothing.
ShutdownServer ==
    /\ pc \notin Ended
    /\ Goto("exited")
    /\ UNCHANGED <<config, line, context, stat_messages_handled, link, wire, server, history>>
-----------------------------------------------------------------------------
(* The Redis server and the network.                                       *)

Respond ==
    /\ requests' = Tail(requests)
    /\ replies' = Append(replies, Head(requests))

Execute ==
    /\ up /\ link /\ requests # <<>>
    /\ LET cmd == Head(requests)
       IN  IF cmd.op = "LPUSH"
           THEN /\ lists' = [lists EXCEPT ![cmd.name] = <<cmd.line>> \o @]
                /\ UNCHANGED expiring
           ELSE /\ expiring' = expiring \union {cmd.name}
                /\ UNCHANGED lists
    /\ Respond
    /\ UNCHANGED <<config, control, line, context, stat_messages_handled, link, up, history>>

\* The server is out of memory, say, and answers with an error.
Refuse ==
    /\ up /\ link /\ requests # <<>>
    /\ Respond
    /\ refused' = IF Head(requests).op = "LPUSH" THEN refused \union {Head(requests).line}
                  ELSE refused
    /\ UNCHANGED <<config, control, line, context, stat_messages_handled, link, server,
                   clients, faults, acked, unanswered>>

\* The connection ends: what the server has not executed it never will, and
\* replies on their way may arrive or not.
Break ==
    /\ link' = FALSE /\ requests' = <<>>
    /\ replies' \in {replies, <<>>}
    /\ faults' = faults + 1 /\ unanswered' = 0

LinkBreaks ==
    /\ link /\ faults < MaxFaults
    /\ Break
    /\ UNCHANGED <<config, control, line, context, stat_messages_handled, server,
                   clients, acked, refused>>

\* Its lists survive the server.
ServerStops ==
    /\ up /\ faults < MaxFaults
    /\ up' = FALSE
    /\ Break
    /\ UNCHANGED <<config, control, line, context, stat_messages_handled, lists,
                   expiring, clients, acked, refused>>

ServerStarts ==
    /\ ~up
    /\ up' = TRUE
    /\ unanswered' = 0
    /\ UNCHANGED <<config, control, line, context, stat_messages_handled, link, wire,
                   lists, expiring, clients, faults, acked, refused>>

Done == pc \in Ended \union {"recv"} /\ UNCHANGED vars
-----------------------------------------------------------------------------
Yaul == \/ \E n \in Names : Recv(n)
        \/ SendLpush \/ LpushReply \/ LpushNull
        \/ SendExpire \/ ExpireReply \/ ExpireNull
        \/ OpenRedis \/ OpenRedisFails \/ ShutdownServer
Environment == Execute \/ Refuse \/ LinkBreaks \/ ServerStops \/ ServerStarts

Next == Yaul \/ Environment \/ Done

Spec == Init /\ [][Next]_vars
-----------------------------------------------------------------------------
(* What the server promises.                                               *)

Command == {Lpush(n, l) : n \in Names, l \in 1..line} \union {Expire(n) : n \in Names}
TypeOK ==
    /\ config \in [ttl: TTLs, stats: Frequencies]
    /\ pc \in {"recv", "lpush", "lpushed", "expire", "expired", "openRedis"} \union Ended
    /\ name \in Names \union {NoName}
    /\ pc \notin Ended \union {"recv"} => name \in Names
    /\ caller \in {"serverLoop", "statistics"}
    /\ line \in Nat /\ clients \in 0..MaxMsgs /\ faults \in 0..MaxFaults
    /\ err \in BOOLEAN /\ fd \in BOOLEAN /\ up \in BOOLEAN /\ link \in BOOLEAN
    /\ dropped \in 0..MaxSockets
    /\ stat_messages_handled \in 0..(UIntMod - 1)
    /\ requests \in Seq(Command) /\ replies \in Seq(Command)
    /\ lists \in [Names -> Seq(1..line)] /\ expiring \subseteq Names
    /\ acked \subseteq 1..line /\ refused \subseteq 1..line /\ unanswered \in Nat

\* A list holds each line once and the newest first, whatever breaks and however
\* often yaul connects again (logMessageRedis lines 386-399 sends a line once).
NewestFirst ==
    \A n \in Names : \A i, j \in 1..Len(lists[n]) : i < j => lists[n][i] > lists[n][j]

\* A line that yaul takes for stored, because its LPUSH was answered at all, is in
\* its list, unless the answer was an error, which line 389 does not tell from
\* success: the reply one reads is the reply to the command one sent, for the reply
\* to EXPIRE is read before the next LPUSH and a context with an error is never
\* read again (lines 386-398).
Stored(l) == \E n \in Names : \E i \in 1..Len(lists[n]) : lists[n][i] = l
AckedIsStored == \A l \in acked : Stored(l) \/ l \in refused

\* What one reads back is what was logged: no line doubled, and of those that yaul
\* took for stored none missing but what Redis refused.
ListsTrue == NewestFirst /\ AckedIsStored

\* After a fault the connection is made anew: one LPUSH at most goes without an
\* answer once the server runs, as long as there is a socket to connect with.  Lines
\* answered with an error are not counted: they connect nothing anew, and are lost in
\* any number (logMessageRedis lines 387-398).
OneUnanswered == up /\ Replaced < MaxSockets => unanswered <= 1

\* A socket leaks where a connection broke, and nowhere else: the lines that meet a
\* server which is down cost none (openRedis line 232 with the connect that fails).
LeaksPerFault == dropped <= faults

\* What a fault costs: the answer to one LPUSH, and one socket.
FaultCostsOne == OneUnanswered /\ LeaksPerFault

\* yaul.c:227 "Errors are handled outside to keep server running if connection
\* fails".
KeepsRunning == pc # "crashed"
=============================================================================
