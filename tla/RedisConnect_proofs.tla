------------------------- MODULE RedisConnect_proofs -------------------------
(***************************************************************************)
(* Connecting closes what it opens, tells when it fails and waits as long  *)
(* as it was asked to, for every timeout, width of a long and of an int,   *)
(* number of addresses and number of descriptors.                          *)
(***************************************************************************)
EXTENDS RedisConnect, TLAPS

\* Nothing of the context is set before it is connected, there is one timeout at
\* most, and a connection is late only once it was made.
Stages ==
    /\ limit = {} \/ \E t \in Timeouts : limit = {t}
    /\ pc \notin {"connected", "freed"} => fd = 0 /\ ~connected
    /\ late => pc \in {"connected", "freed"}
    /\ pc = "connected" /\ ~late => connected

ConnectInv ==
    TypeOK /\ Stages /\ NoSocketLeaks /\ ClosesItsOwn /\ ErrTellsFailure /\ WaitsLongEnough

\* The milliseconds given to poll fit an int, and are no fewer than were asked
\* for: neither the rounding nor an overflow of the long cuts the wait short
\* (redisContextWaitReady lines 138-147).
LEMMA MsecEnough ==
    ASSUME NEW t \in [sec: Int, usec: Int], ~BadTimeout(t)
    PROVE  /\ Msec(t) \in 0..IntMax
           /\ Msec(t) * 1000 >= Min2(Micro(t), IntMax * 1000)
<1> DEFINE up == (t.usec + 999) \div 1000
           n  == t.sec * 1000 + up
<1>1. IntMax \in Nat /\ LongMax \in Nat /\ IntMax <= LongMax
  BY SMT, ConnectAssumption DEF ConnectAssumption
<1>2. t.sec \in Int /\ t.usec \in Int /\ up \in Int /\ n \in Int
  BY SMT
<1>3. t.usec <= 1000 * up /\ (t.usec <= 1000000 => up <= 1000)
  BY SMT, <1>2
<1>4. t.usec <= 1000000 /\ 1000 * t.sec <= LongMax - 999
  BY SMT, <1>1, <1>2 DEF BadTimeout
<1>5. n <= LongMax + 1 /\ Micro(t) \in Int /\ Micro(t) <= 1000 * n
  BY SMT, <1>1, <1>2, <1>3, <1>4 DEF Micro
<1>6. Sum(t) = Long(n)
  BY DEF Sum
<1> HIDE DEF up, n
<1>7. Long(n) \in Int /\ (0 <= n /\ n <= LongMax => Long(n) = n)
      /\ (n = LongMax + 1 => Long(n) < 0)
  BY SMT, <1>1, <1>2, <1>5 DEF Long
<1>8. Msec(t) \in 0..IntMax
  BY SMT, <1>1, <1>6, <1>7 DEF Msec
<1>9. CASE n < 0
  BY SMT, <1>1, <1>2, <1>5, <1>8, <1>9 DEF Min2
<1>10. CASE 0 <= n /\ n <= LongMax
  <2>1. Msec(t) = n \/ Msec(t) = IntMax
    BY SMT, <1>1, <1>2, <1>6, <1>7, <1>10 DEF Msec
  <2> QED BY SMT, <2>1, <1>1, <1>2, <1>5, <1>8 DEF Min2
<1>11. CASE n = LongMax + 1
  <2>1. Msec(t) = IntMax
    BY SMT, <1>6, <1>7, <1>11 DEF Msec
  <2> QED BY SMT, <2>1, <1>1, <1>2, <1>5, <1>8 DEF Min2
<1> QED BY SMT, <1>1, <1>2, <1>5, <1>8, <1>9, <1>10, <1>11

LEMMA ConnectInit == Init => ConnectInv
<1> SUFFICES ASSUME Init PROVE ConnectInv
  OBVIOUS
<1>1. TypeOK
  <2>1. /\ left \in 0..MaxAddresses /\ s \in 0..MaxFd /\ msec \in -1..IntMax /\ fd \in 0..MaxFd
    BY SMT, ConnectAssumption DEF Init, ConnectAssumption
  <2>2. limit \subseteq Timeouts
    BY DEF Init
  <2>3. pc \in {"getaddrinfo", "socket"}
    BY DEF Init
  <2>4. /\ kind \in {"tcp", "unix"} /\ block \in BOOLEAN /\ err \in BOOLEAN /\ connected \in BOOLEAN
        /\ open \subseteq 0..MaxFd /\ others \subseteq 0..MaxFd
        /\ late \in BOOLEAN /\ foreign \in BOOLEAN
    BY DEF Init
  <2> QED BY <2>1, <2>2, <2>3, <2>4 DEF TypeOK
<1>2. Stages /\ ClosesItsOwn /\ ErrTellsFailure /\ WaitsLongEnough
  BY DEF Init, Stages, ClosesItsOwn, ErrTellsFailure, WaitsLongEnough
<1>3. NoSocketLeaks
  BY DEF Init, NoSocketLeaks, InUse, WithSocket
<1> QED BY <1>1, <1>2, <1>3 DEF ConnectInv

\* Giving up in a function that has a socket, whether or not err is set.
LEMMA GivesUp ==
    ASSUME ConnectInv, pc \in WithSocket, Close(s), pc' = "failed",
           err' = TRUE \/ \E t \in limit : BadTimeout(t),
           err' \in BOOLEAN,
           UNCHANGED <<how, left, s, msec, fd, connected, late>>
    PROVE  ConnectInv'
<1> USE DEF ConnectInv, how
<1>1. TypeOK'
  BY DEF TypeOK, Close, WithSocket
<1>2. Stages' /\ ClosesItsOwn' /\ WaitsLongEnough'
  BY DEF Stages, ClosesItsOwn, WaitsLongEnough, Close, WithSocket, NoSocketLeaks, InUse, TypeOK
<1>3. NoSocketLeaks'
  BY DEF Stages, NoSocketLeaks, InUse, Close, WithSocket, TypeOK
<1>4. ErrTellsFailure'
  BY DEF ErrTellsFailure
<1> QED BY <1>1, <1>2, <1>3, <1>4

\* A step within the library that leaves the files and the context alone.
LEMMA GoesOn ==
    ASSUME ConnectInv, pc \in WithSocket, NEW label \in WithSocket \ {"poll"}, Goto(label)
    PROVE  ConnectInv'
  BY DEF ConnectInv, Goto, how, files, context, TypeOK, Stages, NoSocketLeaks, InUse,
         ClosesItsOwn, ErrTellsFailure, WaitsLongEnough, WithSocket

LEMMA ConnectNext == ConnectInv /\ [Next]_vars => ConnectInv'
<1> SUFFICES ASSUME ConnectInv, [Next]_vars PROVE ConnectInv'
  OBVIOUS
<1>f. ASSUME pc \in WithSocket, Fail PROVE ConnectInv'
  BY <1>f, GivesUp DEF Fail
<1>r. ASSUME pc \in WithSocket, RefuseTimeout, \E t \in limit : BadTimeout(t) PROVE ConnectInv'
  <2>1. err' = err /\ err \in BOOLEAN
    BY <1>r DEF RefuseTimeout, context, ConnectInv, TypeOK
  <2> QED BY <1>r, <2>1, GivesUp DEF RefuseTimeout, context
<1>1. CASE GetAddrInfo
  <2>1. left' \in 0..MaxAddresses
    BY <1>1, SMT, ConnectAssumption DEF GetAddrInfo, ConnectInv, TypeOK, ConnectAssumption
  <2>a. TypeOK'
    BY <1>1, <2>1 DEF GetAddrInfo, how, context, files, ConnectInv, TypeOK, WithSocket
  <2>b. Stages' /\ ClosesItsOwn' /\ ErrTellsFailure'
    BY <1>1 DEF GetAddrInfo, how, context, files, ConnectInv, TypeOK, WithSocket, Stages,
       ClosesItsOwn, ErrTellsFailure, NoSocketLeaks, InUse
  <2>c. NoSocketLeaks'
    BY <1>1 DEF GetAddrInfo, how, context, files, ConnectInv, TypeOK, WithSocket, Stages,
       NoSocketLeaks, InUse
  <2>d. WaitsLongEnough'
    BY <1>1 DEF GetAddrInfo, how, context, files, WaitsLongEnough
  <2> QED BY <2>a, <2>b, <2>c, <2>d DEF ConnectInv
<1>2. CASE Socket
  <2>1. PICK d \in 0..MaxFd : Lowest(d) /\ s' = d /\ open' = open \union {d}
    BY <1>2 DEF Socket
  <2>2. open = {}
    BY <1>2 DEF Socket, ConnectInv, NoSocketLeaks, InUse, WithSocket
  <2>3. left' \in 0..MaxAddresses
    BY <1>2, SMT, ConnectAssumption DEF Socket, ConnectInv, TypeOK, ConnectAssumption
  <2> QED
    BY <1>2, <2>1, <2>2, <2>3 DEF Socket, ConnectInv, how, context, files, TypeOK, Stages,
       NoSocketLeaks, InUse, ClosesItsOwn, ErrTellsFailure, WaitsLongEnough, WithSocket
<1>3. CASE SocketFails
  <2>1. left' \in 0..MaxAddresses
    BY <1>3, SMT, ConnectAssumption DEF SocketFails, ConnectInv, TypeOK, ConnectAssumption
  <2>a. TypeOK'
    BY <1>3, <2>1 DEF SocketFails, how, files, ConnectInv, TypeOK, WithSocket
  <2>b. Stages' /\ ClosesItsOwn' /\ ErrTellsFailure'
    BY <1>3, <2>1 DEF SocketFails, how, files, ConnectInv, TypeOK, WithSocket, Stages,
       ClosesItsOwn, ErrTellsFailure, NoSocketLeaks, InUse
  <2>c. NoSocketLeaks'
    BY <1>3, <2>1 DEF SocketFails, how, files, ConnectInv, TypeOK, WithSocket, Stages,
       NoSocketLeaks, InUse
  <2>d. WaitsLongEnough'
    BY <1>3, <2>1 DEF SocketFails, how, files, WaitsLongEnough
  <2> QED BY <2>a, <2>b, <2>c, <2>d DEF ConnectInv
<1>4. CASE NoAddressLeft
  BY <1>4 DEF NoAddressLeft, ConnectInv, how, context, files, TypeOK, Stages, NoSocketLeaks,
     InUse, ClosesItsOwn, ErrTellsFailure, WaitsLongEnough, WithSocket
<1>5. CASE NonBlock
  BY <1>5, <1>f, GoesOn DEF NonBlock, WithSocket
<1>6. CASE Connect
  BY <1>6, GoesOn DEF Connect, WithSocket
<1>7. CASE ConnectInProgress
  BY <1>7, GoesOn DEF ConnectInProgress, WithSocket
<1>8. CASE HostUnreachable
  BY <1>8 DEF HostUnreachable, Close, ConnectInv, how, context, files, TypeOK, Stages,
     NoSocketLeaks, InUse, ClosesItsOwn, ErrTellsFailure, WaitsLongEnough, WithSocket
<1>9. CASE ConnectFails
  BY <1>9, <1>f, <1>r DEF ConnectFails, WithSocket
<1>10. CASE WaitReady
  <2>1. CASE \E t \in limit : BadTimeout(t)
    BY <1>10, <2>1, <1>r DEF WaitReady, WithSocket
  <2>2. CASE \A t \in limit : ~BadTimeout(t)
    <3>1. /\ msec' \in -1..IntMax
          /\ IF limit = {} THEN msec' = -1
             ELSE \A t \in limit :
                    msec' >= 0 /\ msec' * 1000 >= Min2(Micro(t), IntMax * 1000)
      <4>1. CASE limit = {}
        BY <1>10, <2>2, <4>1, SMT, ConnectAssumption DEF WaitReady, ConnectAssumption
      <4>2. ASSUME NEW t \in Timeouts, limit = {t} 
            PROVE  /\ msec' \in 0..IntMax
                   /\ msec' * 1000 >= Min2(Micro(t), IntMax * 1000)
        <5>1. t \in [sec: Int, usec: Int] /\ ~BadTimeout(t)
          BY <2>2, <4>2, ConnectAssumption DEF ConnectAssumption
        <5>2. msec' = Msec(t)
          BY <1>10, <2>2, <4>2 DEF WaitReady
        <5> QED BY <5>1, <5>2, MsecEnough
      <4>3. CASE limit # {}
        <5>1. PICK t \in Timeouts : limit = {t}
          BY <4>3 DEF ConnectInv, Stages
        <5>2. /\ msec' \in 0..IntMax
              /\ msec' * 1000 >= Min2(Micro(t), IntMax * 1000)
          BY <4>2, <5>1
        <5>3. msec' >= 0 /\ msec' \in -1..IntMax
          BY <5>2, SMT, ConnectAssumption DEF ConnectAssumption
        <5> QED BY <5>1, <5>2, <5>3
      <4> QED BY <4>1, <4>3
    <3>2. WaitsLongEnough'
      BY <1>10, <2>2, <3>1 DEF WaitReady, how, WaitsLongEnough
    <3>3. msec' \in -1..IntMax
      BY <3>1
    <3>a. TypeOK'
      BY <1>10, <2>2, <3>3 DEF WaitReady, how, context, files, ConnectInv, TypeOK, WithSocket
    <3>b. Stages' /\ ClosesItsOwn' /\ ErrTellsFailure'
      BY <1>10, <2>2 DEF WaitReady, how, context, files, ConnectInv, TypeOK, WithSocket, Stages,
         ClosesItsOwn, ErrTellsFailure, NoSocketLeaks, InUse
    <3>c. NoSocketLeaks'
      BY <1>10, <2>2 DEF WaitReady, how, context, files, ConnectInv, TypeOK, WithSocket, Stages,
         NoSocketLeaks, InUse
    <3> QED BY <3>a, <3>b, <3>c, <3>2 DEF ConnectInv
  <2> QED BY <2>1, <2>2
<1>11. CASE Poll
  BY <1>11, <1>f, GoesOn DEF Poll, WithSocket
<1>12. CASE Check
  BY <1>12, <1>f, GoesOn DEF Check, WithSocket
<1>13. CASE Blocking
  BY <1>13, <1>f, GoesOn DEF Blocking, WithSocket
<1>14. CASE NoDelay
  <2>1. CASE fd' = s /\ connected' = TRUE /\ pc' = "connected"
             /\ UNCHANGED <<how, left, s, msec, err, files, late>>
    BY <1>14, <2>1 DEF NoDelay, ConnectInv, how, files, TypeOK, Stages, NoSocketLeaks, InUse,
       ClosesItsOwn, ErrTellsFailure, WaitsLongEnough, WithSocket
  <2> QED BY <1>14, <2>1, <1>f DEF NoDelay, WithSocket
<1>15. CASE SetTimeoutFails
  BY <1>15 DEF SetTimeoutFails, ConnectInv, how, files, TypeOK, Stages, NoSocketLeaks, InUse,
     ClosesItsOwn, ErrTellsFailure, WaitsLongEnough, WithSocket
<1>16. CASE HandleConnectFails
  <2>a. TypeOK'
    BY <1>16 DEF HandleConnectFails, Close, how, ConnectInv, TypeOK, WithSocket
  <2>b. Stages' /\ ClosesItsOwn' /\ ErrTellsFailure'
    BY <1>16 DEF HandleConnectFails, Close, how, ConnectInv, TypeOK, WithSocket, Stages,
       ClosesItsOwn, ErrTellsFailure, NoSocketLeaks, InUse
  <2>c. NoSocketLeaks'
    BY <1>16 DEF HandleConnectFails, Close, how, ConnectInv, TypeOK, WithSocket, Stages,
       NoSocketLeaks, InUse
  <2>d. WaitsLongEnough'
    BY <1>16 DEF HandleConnectFails, Close, how, WaitsLongEnough
  <2> QED BY <2>a, <2>b, <2>c, <2>d DEF ConnectInv
<1>17. CASE OthersOpen
  BY <1>17 DEF OthersOpen, ConnectInv, how, context, TypeOK, Stages, NoSocketLeaks, InUse,
     ClosesItsOwn, ErrTellsFailure, WaitsLongEnough, WithSocket
<1>18. CASE RedisFree
  <2>1. fd \in Int
    BY SMT, ConnectAssumption DEF ConnectInv, TypeOK, ConnectAssumption
  <2>2. CASE fd > 0
    <3>a. TypeOK'
      BY <1>18, <2>1, <2>2 DEF RedisFree, Close, how, context, ConnectInv, TypeOK, WithSocket
    <3>b. Stages' /\ ClosesItsOwn' /\ ErrTellsFailure'
      BY <1>18, <2>1, <2>2 DEF RedisFree, Close, how, context, ConnectInv, TypeOK, WithSocket, Stages,
         ClosesItsOwn, ErrTellsFailure, NoSocketLeaks, InUse
    <3>c. NoSocketLeaks'
      BY <1>18, <2>1, <2>2 DEF RedisFree, Close, how, context, ConnectInv, TypeOK, WithSocket, Stages,
         NoSocketLeaks, InUse
    <3>d. WaitsLongEnough'
      BY <1>18, <2>1, <2>2 DEF RedisFree, Close, how, context, WaitsLongEnough
    <3> QED BY <3>a, <3>b, <3>c, <3>d DEF ConnectInv
  <2>3. CASE ~(fd > 0)
    <3>1. fd = 0
      BY <2>3, SMT, ConnectAssumption DEF ConnectInv, TypeOK, ConnectAssumption
    <3>a. TypeOK'
      BY <1>18, <3>1, <2>3 DEF RedisFree, how, context, files, ConnectInv, TypeOK, WithSocket
    <3>b. Stages' /\ ClosesItsOwn' /\ ErrTellsFailure'
      BY <1>18, <3>1, <2>3 DEF RedisFree, how, context, files, ConnectInv, TypeOK, WithSocket, Stages,
         ClosesItsOwn, ErrTellsFailure, NoSocketLeaks, InUse
    <3>c. NoSocketLeaks'
      BY <1>18, <3>1, <2>3 DEF RedisFree, how, context, files, ConnectInv, TypeOK, WithSocket, Stages,
         NoSocketLeaks, InUse
    <3>d. WaitsLongEnough'
      BY <1>18, <3>1, <2>3 DEF RedisFree, how, context, files, WaitsLongEnough
    <3> QED BY <3>a, <3>b, <3>c, <3>d DEF ConnectInv
  <2> QED BY <2>2, <2>3
<1>19. CASE UNCHANGED vars
  BY <1>19 DEF vars, ConnectInv, how, context, files, TypeOK, Stages, NoSocketLeaks, InUse,
     ClosesItsOwn, ErrTellsFailure, WaitsLongEnough, WithSocket
<1> QED
  BY <1>1, <1>2, <1>3, <1>4, <1>5, <1>6, <1>7, <1>8, <1>9, <1>10, <1>11, <1>12, <1>13, <1>14,
     <1>15, <1>16, <1>17, <1>18, <1>19 DEF Next, Connecting

LEMMA ConnectAlways == Spec => []ConnectInv
  BY ConnectInit, ConnectNext, PTL DEF Spec

\* Every variable keeps its type: the timeout of poll fits an int (net.c lines 128-291).
THEOREM ConnectTypes == Spec => []TypeOK
  BY ConnectAlways, PTL DEF ConnectInv

\* Whichever call fails, no socket is left open and none is closed that is not
\* its own, but for a connection refused late (lines 57-291).
THEOREM DescriptorsStaySound == Spec => []DescriptorsSound
  BY ConnectAlways, PTL DEF ConnectInv, DescriptorsSound

\* err tells every failure but a refused timeout (lines 138-141).
THEOREM FailuresAreTold == Spec => []ErrTellsFailure
  BY ConnectAlways, PTL DEF ConnectInv

\* poll waits as long as the client asked for (lines 137-148).
THEOREM WaitsAsAsked == Spec => []WaitsLongEnough
  BY ConnectAlways, PTL DEF ConnectInv
=============================================================================
