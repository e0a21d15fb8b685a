---------------------------- MODULE RedisConnect ----------------------------
(***************************************************************************)
(* Connecting to Redis (src/hiredis/net.c), blocking with or without a     *)
(* timeout or not blocking, over TCP or a Unix socket, and the end of the  *)
(* context: which descriptors are open after each way this may fail.       *)
(*                                                                         *)
(* Each system call is an action.  The rest of the process opens           *)
(* descriptors too, and the kernel gives the lowest number that is free.   *)
(***************************************************************************)
EXTENDS Integers

CONSTANTS
    Timeouts,       \* records [sec, usec]
    LongMax, IntMax,
    MaxAddresses,   \* addresses a name resolves to
    MaxFd           \* descriptors of the process: 0..MaxFd

ASSUME ConnectAssumption ==
    /\ Timeouts \subseteq [sec: Int, usec: Int]
    /\ IntMax \in Nat /\ LongMax \in Nat /\ IntMax <= LongMax
    /\ MaxAddresses \in Nat \ {0} /\ MaxFd \in Nat

VARIABLES
    kind, block, limit,     \* "tcp" or "unix", REDIS_BLOCK, {} or {timeout}
    pc,                     \* next call
    left,                   \* addresses not tried yet
    s, msec,                \* the socket, the timeout of poll
    fd, err, connected,     \* of the context: 0 is no descriptor
    open, others,           \* descriptors of hiredis, of the rest
    late,                   \* a connection was refused after connect returned
    foreign                 \* hiredis closed a descriptor not its own

how     == <<kind, block, limit>>
context == <<fd, err, connected>>
files   == <<open, others, foreign>>
vars    == <<how, pc, left, s, msec, context, files, late>>

Init ==
    /\ kind \in {"tcp", "unix"} /\ block \in BOOLEAN
    /\ limit \in {{}} \union {{t} : t \in Timeouts}
    /\ ~block => limit = {}
    /\ pc = IF kind = "tcp" THEN "getaddrinfo" ELSE "socket"
    /\ left = 1 /\ s = 0 /\ msec = -1
    /\ fd = 0 /\ err = FALSE /\ connected = FALSE
    /\ open = {} /\ others \in SUBSET (0..MaxFd) /\ late = FALSE /\ foreign = FALSE

Lowest(d) ==
    /\ d \in (0..MaxFd) \ (open \union others)
    /\ \A e \in 0..MaxFd : e < d => e \in open \union others

Close(d) ==
    /\ open' = open \ {d} /\ others' = others \ {d}
    /\ foreign' = (foreign \/ d \notin open)

\* err is set, the socket closed, and connecting is given up.
BugFail ==
    /\ err' = TRUE /\ pc' = "failed"
    /\ UNCHANGED <<how, left, s, msec, fd, connected, files, late>>
Fail ==
    /\ err' = TRUE /\ pc' = "failed"
    /\ Close(s)
    /\ UNCHANGED <<how, left, s, msec, fd, connected, late>>
Goto(label) ==
    /\ pc' = label
    /\ UNCHANGED <<how, left, s, msec, context, files, late>>
-----------------------------------------------------------------------------
(* redisContextConnectTcp and redisContextConnectUnix.                     *)

GetAddrInfo ==
    /\ pc = "getaddrinfo"
    /\ \/ /\ left' \in 1..MaxAddresses /\ pc' = "socket"
          /\ UNCHANGED <<how, s, msec, context, files, late>>
       \/ /\ err' = TRUE /\ pc' = "failed"
          /\ UNCHANGED <<how, left, s, msec, fd, connected, files, late>>

Socket ==
    /\ pc = "socket" /\ left > 0
    /\ \E d \in 0..MaxFd :
        /\ Lowest(d)
        /\ s' = d /\ open' = open \union {d}
    /\ left' = left - 1
    /\ pc' = "nonblock"
    /\ UNCHANGED <<how, msec, context, others, foreign, late>>
BugSocketFails ==
    /\ pc = "socket" /\ left > 0
    /\ left' = left - 1
    /\ pc' = IF kind = "unix" THEN "failed" ELSE "socket"
    /\ UNCHANGED <<how, s, msec, context, files, late>>
SocketFails ==      \* TCP goes on with the next address
    /\ pc = "socket" /\ left > 0
    /\ left' = left - 1
    /\ err' = (kind = "unix")
    /\ pc' = IF kind = "unix" THEN "failed" ELSE "socket"
    /\ UNCHANGED <<how, s, msec, fd, connected, files, late>>
NoAddressLeft ==
    /\ pc = "socket" /\ left = 0
    /\ err' = TRUE /\ pc' = "failed"
    /\ UNCHANGED <<how, left, s, msec, fd, connected, files, late>>

NonBlock ==
    /\ pc = "nonblock"
    /\ Goto("connect") \/ Fail

Connect == pc = "connect" /\ Goto("blocking")
ConnectInProgress ==
    /\ pc = "connect"
    /\ Goto(IF block THEN "wait" ELSE "blocking")
HostUnreachable ==
    /\ pc = "connect" /\ kind = "tcp"
    /\ Close(s)
    /\ pc' = "socket"
    /\ UNCHANGED <<how, left, s, msec, context, late>>
-----------------------------------------------------------------------------
(* redisContextWaitReady.                                                  *)

\* Long arithmetic, of a value that leaves its range by less than it is wide.
Long(n) == IF n > LongMax THEN n - 2 * (LongMax + 1)
           ELSE IF n < -LongMax - 1 THEN n + 2 * (LongMax + 1) ELSE n

BadTimeout(t) == t.usec > 1000000 \/ t.sec > (LongMax - 999) \div 1000

\* A division of a long cuts towards zero; that of a negative tv_usec only
\* lets the sum be too long by one.
BugSum(t) == Long(t.sec * 1000 + t.usec \div 1000)
Sum(t) == Long(t.sec * 1000 + (t.usec + 999) \div 1000)
BugMsec(t) == IF Sum(t) > IntMax THEN IntMax ELSE Sum(t)
Msec(t) == IF Sum(t) < 0 \/ Sum(t) > IntMax THEN IntMax ELSE Sum(t)

\* A timeout that is refused closes the socket and leaves err alone.
RefuseTimeout ==
    /\ Close(s)
    /\ pc' = "failed"
    /\ UNCHANGED <<how, left, s, msec, context, late>>
ConnectFails ==
    /\ pc = "connect"
    /\ IF \E t \in limit : BadTimeout(t) THEN RefuseTimeout ELSE Fail
WaitReady ==
    /\ pc = "wait"
    /\ IF \E t \in limit : BadTimeout(t) THEN RefuseTimeout
       ELSE /\ msec' \in IF limit = {} THEN {-1} ELSE {Msec(t) : t \in limit}
            /\ pc' = "poll"
            /\ UNCHANGED <<how, left, s, context, files, late>>
Poll ==     \* ready, or failed or timed out
    /\ pc = "poll"
    /\ Goto("check") \/ Fail
Check ==
    /\ pc = "check"
    /\ Goto("blocking") \/ Fail

Blocking ==
    /\ pc = "blocking"
    /\ Goto("nodelay") \/ (block /\ Fail)
NoDelay ==
    /\ pc = "nodelay"
    /\ \/ /\ fd' = s /\ connected' = TRUE /\ pc' = "connected"
          /\ UNCHANGED <<how, left, s, msec, err, files, late>>
       \/ kind = "tcp" /\ Fail
-----------------------------------------------------------------------------
(* The context and its client.                                             *)

\* redisSetTimeout of a blocking context.
SetTimeoutFails ==
    /\ pc = "connected" /\ block
    /\ err' = TRUE
    /\ UNCHANGED <<how, pc, left, s, msec, fd, connected, files, late>>

\* __redisAsyncHandleConnect: redisCheckSocketError closes the socket of a
\* connection that failed, and fd keeps its number.
HandleConnectFails ==
    /\ pc = "connected" /\ ~block /\ ~late /\ ~err
    /\ Close(fd)
    /\ err' = TRUE /\ connected' = FALSE /\ late' = TRUE
    /\ UNCHANGED <<how, pc, left, s, msec, fd>>

\* The rest of the process opens a descriptor, in the connect callback too.
OthersOpen ==
    /\ pc \in {"connected", "failed"}
    /\ \E d \in 0..MaxFd : Lowest(d) /\ others' = others \union {d}
    /\ UNCHANGED <<how, pc, left, s, msec, context, open, foreign, late>>

RedisFree ==
    /\ pc \in {"connected", "failed"}
    /\ IF fd > 0 THEN Close(fd) ELSE UNCHANGED files
    /\ pc' = "freed"
    /\ UNCHANGED <<how, left, s, msec, context, late>>

Connecting ==
    \/ GetAddrInfo \/ Socket \/ SocketFails \/ NoAddressLeft \/ NonBlock
    \/ Connect \/ ConnectInProgress \/ HostUnreachable \/ ConnectFails
    \/ WaitReady \/ Poll \/ Check \/ Blocking \/ NoDelay
Next == Connecting \/ SetTimeoutFails \/ HandleConnectFails \/ OthersOpen \/ RedisFree

Spec == Init /\ [][Next]_vars
-----------------------------------------------------------------------------
(* Properties.                                                             *)

WithSocket == {"nonblock", "connect", "wait", "poll", "check", "blocking", "nodelay"}
TypeOK ==
    /\ kind \in {"tcp", "unix"} /\ block \in BOOLEAN
    /\ limit \subseteq Timeouts
    /\ pc \in WithSocket \union {"getaddrinfo", "socket", "connected", "failed", "freed"}
    /\ left \in 0..MaxAddresses /\ s \in 0..MaxFd /\ msec \in -1..IntMax
    /\ fd \in 0..MaxFd /\ err \in BOOLEAN /\ connected \in BOOLEAN
    /\ open \subseteq 0..MaxFd /\ others \subseteq 0..MaxFd
    /\ late \in BOOLEAN /\ foreign \in BOOLEAN

\* Whichever call fails, exactly the socket in use is open: none after a
\* failure, and none after redisFree but descriptor 0, which it takes for no
\* descriptor (net.c lines 57-291, hiredis.c line 1004).
InUse(d) == \/ pc \in WithSocket /\ d = s
            \/ pc = "connected" /\ ~late /\ d = fd
            \/ pc = "freed" /\ ~late /\ connected /\ fd = 0 /\ d = 0
NoSocketLeaks == open = {d \in 0..MaxFd : InUse(d)}

\* A descriptor is closed once, but for a connection that is refused after
\* connect returned: redisCheckSocketError closes it, redisFree again, and by
\* then it may be another file's (net.c lines 175-193, async.c lines 442-453).
ClosesItsOwn == foreign => late

\* The two together: each socket is closed, once, by whoever made it.
DescriptorsSound == NoSocketLeaks /\ ClosesItsOwn

\* A context without err is connected, unless its timeout was refused (net.c
\* lines 138-141), and is connected on the socket that was made for it.
ErrTellsFailure ==
    /\ pc = "failed" /\ ~err => \E t \in limit : BadTimeout(t)
    /\ pc = "connected" /\ ~err => connected /\ fd = s

\* poll does not give up before the timeout asked for, or before INT_MAX milliseconds
\* where it is longer, and waits for ever only if none was: not on a rounding and not
\* on an overflow (net.c lines 126-148).
Micro(t)   == t.sec * 1000000 + t.usec
Min2(a, b) == IF a < b THEN a ELSE b
WaitsLongEnough ==
    pc = "poll" =>
        IF limit = {} THEN msec = -1
        ELSE \A t \in limit :
                msec >= 0 /\ msec * 1000 >= Min2(Micro(t), IntMax * 1000)
=============================================================================
