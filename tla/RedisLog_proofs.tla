--------------------------- MODULE RedisLog_proofs ---------------------------
(***************************************************************************)
(* What a list in Redis holds is what was logged, and the log recovers,    *)
(* for any number of lognames, datagrams, faults and sockets.              *)
(***************************************************************************)
EXTENDS RedisLog, TLAPS

(* The connection carries one command or its reply: the reply to a command *)
(* is read before the next one is sent, and a connection that is given up  *)
(* is empty.                                                               *)

Wire(cmd) == \/ requests = <<>> /\ replies = <<>>
             \/ requests = <<cmd>> /\ replies = <<>>
             \/ requests = <<>> /\ replies = <<cmd>>
Quiet == requests = <<>> /\ replies = <<>>
OneCommand ==
    /\ err => ~link /\ replies = <<>>
    /\ ~link => requests = <<>>
    /\ pc = "lpushed" => Wire(Lpush(name, line))
    /\ pc = "expired" => Wire(Expire(name))
    /\ pc \in Ended => Wire(Lpush(name, line)) \/ Wire(Expire(name))
    /\ pc \in {"recv", "lpush", "expire", "openRedis"} => Quiet
    /\ ~Quiet => name \in Names /\ line > 0

\* A line on its way is newer than any line in a list, and is in its list once
\* it is answered, or refused.
Settled(l) == Stored(l) \/ l \in refused
LineIsNew == \A n \in Names : \A i \in 1..Len(lists[n]) : lists[n][i] < line
InFlight ==
    /\ pc = "lpush" \/ requests = <<Lpush(name, line)>> => LineIsNew
    /\ replies = <<Lpush(name, line)>> => Settled(line)

\* Sockets are counted, and there is a line in hand between two datagrams' waits.
Sockets == Replaced <= MaxSockets
InHand  == pc \notin Ended \union {"recv"} => line > 0

LogInv == TypeOK /\ OneCommand /\ InFlight /\ Sockets /\ InHand /\ ListsTrue

-----------------------------------------------------------------------------
(* A wire of one element, and the two ways back to serverLoop.             *)

LEMMA OneElement ==
    ASSUME NEW x
    PROVE  /\ <<x>> # <<>> /\ Head(<<x>>) = x /\ Tail(<<x>>) = <<>>
           /\ Append(<<>>, x) = <<x>>
  OBVIOUS

\* The two commands differ, and are told apart by what is sent.
LEMMA Commands ==
    ASSUME NEW n, NEW l
    PROVE  /\ Lpush(n, l).op = "LPUSH" /\ Lpush(n, l).name = n /\ Lpush(n, l).line = l
           /\ Expire(n).op = "EXPIRE" /\ Lpush(n, l) # Expire(n)
  BY DEF Lpush, Expire

LEMMA ContinueGoes ==
    ASSUME Continue
    PROVE  \/ pc' = "lpush" /\ name' = StatName /\ line' = line + 1 /\ caller' = "statistics"
           \/ pc' = "recv" /\ name' = NoName /\ line' = line /\ caller' = "serverLoop"
  BY DEF Continue, Handle

\* What holds of the lines so far holds when one more is logged.
LEMMA MoreLines ==
    ASSUME NEW l \in Nat, NEW m \in Nat, l <= m
    PROVE  /\ \A f \in [Names -> Seq(1..l)] : f \in [Names -> Seq(1..m)]
           /\ \A A \in SUBSET (1..l) : A \in SUBSET (1..m)
  <1>1. 1..l \subseteq 1..m
    OBVIOUS
  <1>2. Seq(1..l) \subseteq Seq(1..m)
    BY <1>1
  <1>. QED
    BY <1>1, <1>2

-----------------------------------------------------------------------------
(* The invariant.                                                          *)

LEMMA LogInit == Init => LogInv
  <1>. SUFFICES ASSUME Init PROVE LogInv
    OBVIOUS
  <1>. USE NamesAssumption, OptionsAssumption, BoundsAssumption
  <1>1. /\ lists \in [Names -> Seq(1..line)]
        /\ requests \in Seq(Command) /\ replies \in Seq(Command)
    BY DEF Init
  <1>2. TypeOK
    <2>1. clients \in 0..MaxMsgs /\ faults \in 0..MaxFaults /\ dropped \in 0..MaxSockets
      BY DEF Init
    <2>2. stat_messages_handled \in 0..(UIntMod - 1) /\ line \in Nat /\ unanswered \in Nat
      BY DEF Init
    <2>3. acked \subseteq 1..line /\ refused \subseteq 1..line /\ expiring \subseteq Names
      BY DEF Init
    <2>4. err \in BOOLEAN /\ fd \in BOOLEAN /\ up \in BOOLEAN /\ link \in BOOLEAN
      BY DEF Init
    <2>. QED
      BY <1>1, <2>1, <2>2, <2>3, <2>4 DEF Init, TypeOK, Ended
  <1>3. OneCommand /\ Sockets /\ InHand
    BY DEF Init, OneCommand, Quiet, Sockets, Replaced, InHand, Ended
  <1>4. InFlight
    BY OneElement DEF Init, InFlight
  <1>5. ListsTrue
    BY DEF Init, ListsTrue, NewestFirst, AckedIsStored
  <1>. QED
    BY <1>2, <1>3, <1>4, <1>5 DEF LogInv

\* Sending leaves the command on the wire, or marks a context whose wire is empty.
LEMMA SendType ==
    ASSUME OneCommand, Quiet, err \in BOOLEAN, NEW cmd, Send(cmd)
    PROVE  /\ err' \in BOOLEAN /\ (err' => ~link)
           /\ \/ requests' = <<cmd>> /\ err' = FALSE /\ link
              \/ requests' = <<>>
  <1>1. CASE ~err /\ link /\ requests' = Append(requests, cmd) /\ err' = err
    BY <1>1, OneElement DEF Quiet
  <1>2. CASE (err \/ ~link) /\ err' \in {err, TRUE} /\ requests' = requests
    <2>1. ~link /\ requests' = <<>>
      BY <1>2 DEF OneCommand, Quiet
    <2>. QED
      BY <1>2, <2>1
  <1>. QED
    BY <1>1, <1>2, Zenon DEF Send

\* A step that leaves lists and lines alone keeps what is true of them.
LEMMA ListsKept ==
    ASSUME ListsTrue, UNCHANGED <<lists, acked>>, refused \subseteq refused'
    PROVE  ListsTrue'
  BY DEF ListsTrue, NewestFirst, AckedIsStored, Stored

\* The next line is newer than those in the lists.
LEMMA NextIsNew ==
    ASSUME TypeOK, UNCHANGED lists, line' = line + 1
    PROVE  LineIsNew'
  <1>1. SUFFICES ASSUME NEW n \in Names, NEW i \in 1..Len(lists[n])
                 PROVE  lists[n][i] < line + 1
    BY DEF LineIsNew
  <1>2. lists[n] \in Seq(1..line) /\ line \in Nat
    BY DEF TypeOK
  <1>3. lists[n][i] \in 1..line
    BY <1>2
  <1>. QED
    BY <1>2, <1>3

\* Back to serverLoop: with nothing on the wire, either way keeps the invariant.
LEMMA BackToLoop ==
    ASSUME LogInv, Continue, requests' = <<>>, replies' = <<>>,
           UNCHANGED <<config, lists, expiring, up, refused>>,
           acked' \subseteq 1..line, \A l \in acked' : Settled(l),
           stat_messages_handled' \in 0..(UIntMod - 1),
           clients' \in 0..MaxMsgs, faults' \in 0..MaxFaults, unanswered' \in Nat,
           err' \in BOOLEAN, fd' \in BOOLEAN, link' \in BOOLEAN,
           err' => ~link', dropped' \in 0..MaxSockets, Sockets'
    PROVE  LogInv'
  <1>. USE NamesAssumption
  <1>1. /\ \/ pc' = "lpush" /\ line' = line + 1 /\ name' \in Names
           \/ pc' = "recv" /\ line' = line /\ name' = NoName
        /\ caller' \in {"serverLoop", "statistics"}
    BY ContinueGoes
  <1>2. line \in Nat /\ line' \in Nat /\ line <= line'
    <2>1. line \in Nat
      BY DEF LogInv, TypeOK
    <2>2. line' = line + 1 \/ line' = line
      BY <1>1
    <2>. QED
      BY <2>1, <2>2
  <1>3. /\ lists' \in [Names -> Seq(1..line')]
        /\ acked' \subseteq 1..line' /\ refused' \subseteq 1..line'
    <2>1. lists \in [Names -> Seq(1..line)] /\ refused \in SUBSET (1..line)
      BY DEF LogInv, TypeOK
    <2>. QED
      BY <1>2, <2>1, MoreLines
  <1>4. requests' \in Seq(Command') /\ replies' \in Seq(Command')
    OBVIOUS
  <1>5. TypeOK'
    BY <1>1, <1>2, <1>3, <1>4 DEF LogInv, TypeOK, Ended
  <1>6. OneCommand'
    BY <1>1 DEF OneCommand, Quiet, Ended
  <1>7. InFlight'
    BY <1>1, NextIsNew, OneElement DEF InFlight, LogInv
  <1>8. InHand'
    BY <1>1, <1>2 DEF InHand, Ended
  <1>9. ListsTrue'
    BY DEF LogInv, ListsTrue, NewestFirst, AckedIsStored, Settled, Stored
  <1>. QED
    BY <1>5, <1>6, <1>7, <1>8, <1>9 DEF LogInv
\* A command on the wire, or its reply, is one of the server's own.
LEMMA OnTheWire ==
    ASSUME TypeOK, OneCommand, ~Quiet
    PROVE  /\ pc \in {"lpushed", "expired"} \union Ended
           /\ \E cmd \in {Lpush(name, line), Expire(name)} :
                /\ pc = "lpushed" => cmd = Lpush(name, line)
                /\ pc = "expired" => cmd = Expire(name)
                /\ \/ requests = <<cmd>> /\ replies = <<>>
                   \/ requests = <<>> /\ replies = <<cmd>>
  <1>1. pc \in {"lpushed", "expired"} \union Ended
    BY DEF OneCommand, TypeOK
  <1>2. CASE pc = "lpushed"
    BY <1>2 DEF OneCommand, Quiet, Wire
  <1>3. CASE pc = "expired"
    BY <1>3 DEF OneCommand, Quiet, Wire
  <1>4. CASE pc \in Ended
    BY <1>4 DEF OneCommand, Quiet, Wire, Ended
  <1>. QED
    BY <1>1, <1>2, <1>3, <1>4

\* The types of a wire with one command or reply.
LEMMA WireType ==
    ASSUME NEW C, NEW cmd \in C, NEW q, NEW r, q \in {<<>>, <<cmd>>}, r \in {<<>>, <<cmd>>}
    PROVE  q \in Seq(C) /\ r \in Seq(C)
  <1>1. <<>> \in Seq(C) /\ <<cmd>> \in Seq(C)
    OBVIOUS
  <1>. QED
    BY <1>1, Zenon

LEMMA CommandType ==
    ASSUME TypeOK, InHand, pc \notin Ended \union {"recv"}
    PROVE  Lpush(name, line) \in Command /\ Expire(name) \in Command
  <1>1. name \in Names /\ line \in 1..line
    BY DEF TypeOK, InHand
  <1>. QED
    BY <1>1 DEF Command

LEMMA SendLpushKeeps ==
    ASSUME LogInv, SendLpush
    PROVE  LogInv'
  <1>. USE DEF LogInv
  <1>1. Quiet /\ err \in BOOLEAN
    BY DEF OneCommand, SendLpush, TypeOK
  <1>2. /\ err' \in BOOLEAN /\ (err' => ~link)
        /\ \/ requests' = <<Lpush(name, line)>> /\ err' = FALSE /\ link
           \/ requests' = <<>>
    BY <1>1, SendType DEF SendLpush
  <1>3. /\ pc = "lpush" /\ pc' = "lpushed" /\ replies' = <<>>
        /\ UNCHANGED <<config, name, caller, line, fd, dropped, stat_messages_handled, link,
                       up, lists, expiring, clients, faults, acked, refused, unanswered>>
    BY <1>1 DEF SendLpush, Goto, server, history, Quiet
  <1>4. Wire(Lpush(name, line))'
    BY <1>2, <1>3 DEF Wire, Lpush
  <1>5. name \in Names /\ line > 0
    BY <1>3 DEF TypeOK, InHand, Ended
  <1>6. TypeOK'
    <2>1. Lpush(name, line) \in Command' /\ Command' = Command
      BY <1>3, CommandType DEF Command, Ended
    <2>2. requests' \in Seq(Command') /\ replies' \in Seq(Command')
      BY <1>2, <1>3, <2>1, WireType
    <2>. QED
      BY <1>2, <1>3, <1>5, <2>2 DEF TypeOK
  <1>7. OneCommand'
    BY <1>1, <1>2, <1>3, <1>4, <1>5 DEF OneCommand, Ended, Quiet
  <1>8. InFlight'
    <2>1. LineIsNew
      BY <1>3 DEF InFlight
    <2>. QED
      BY <1>3, <2>1, OneElement DEF InFlight, LineIsNew
  <1>9. Sockets' /\ InHand' /\ ListsTrue'
    BY <1>3, <1>5, ListsKept DEF Sockets, Replaced, InHand
  <1>. QED
    BY <1>6, <1>7, <1>8, <1>9

LEMMA SendExpireKeeps ==
    ASSUME LogInv, SendExpire
    PROVE  LogInv'
  <1>. USE DEF LogInv
  <1>1. Quiet /\ err \in BOOLEAN
    BY DEF OneCommand, SendExpire, TypeOK
  <1>2. /\ err' \in BOOLEAN /\ (err' => ~link)
        /\ \/ requests' = <<Expire(name)>> /\ err' = FALSE /\ link
           \/ requests' = <<>>
    BY <1>1, SendType DEF SendExpire
  <1>3. /\ pc = "expire" /\ pc' = "expired" /\ replies' = <<>>
        /\ UNCHANGED <<config, name, caller, line, fd, dropped, stat_messages_handled, link,
                       up, lists, expiring, clients, faults, acked, refused, unanswered>>
    BY <1>1 DEF SendExpire, Goto, server, history, Quiet
  <1>4. Wire(Expire(name))'
    BY <1>2, <1>3 DEF Wire, Expire
  <1>5. name \in Names /\ line > 0
    BY <1>3 DEF TypeOK, InHand, Ended
  <1>6. TypeOK'
    <2>1. Expire(name) \in Command' /\ Command' = Command
      BY <1>3, CommandType DEF Command, Ended
    <2>2. requests' \in Seq(Command') /\ replies' \in Seq(Command')
      BY <1>2, <1>3, <2>1, WireType
    <2>. QED
      BY <1>2, <1>3, <1>5, <2>2 DEF TypeOK
  <1>7. OneCommand'
    BY <1>1, <1>2, <1>3, <1>4, <1>5 DEF OneCommand, Ended, Quiet
  <1>8. InFlight'
    BY <1>2, <1>3, Commands, OneElement DEF InFlight
  <1>9. Sockets' /\ InHand' /\ ListsTrue'
    BY <1>3, <1>5, ListsKept DEF Sockets, Replaced, InHand
  <1>. QED
    BY <1>6, <1>7, <1>8, <1>9

\* A reply is read: it is that of the command in hand, and the wire is empty.
LEMMA ReplyRead ==
    ASSUME NEW cmd, Wire(cmd), HasReply
    PROVE  requests = <<>> /\ replies = <<cmd>> /\ Tail(replies) = <<>>
  BY OneElement DEF Wire, HasReply

LEMMA LpushReplyKeeps ==
    ASSUME LogInv, LpushReply
    PROVE  LogInv'
  <1>. USE DEF LogInv
  <1>1. /\ pc = "lpushed" /\ Wire(Lpush(name, line)) /\ HasReply
        /\ line \in Nat /\ line > 0
    BY DEF LpushReply, OneCommand, InHand, TypeOK, Ended
  <1>2. /\ requests' = <<>> /\ replies' = <<>>
        /\ acked' = acked \union {line}
        /\ UNCHANGED <<config, err, fd, dropped, link, up, lists, expiring, clients,
                       faults, refused, unanswered>>
    BY <1>1, ReplyRead DEF LpushReply, context, server
  <1>3. Settled(line)
    BY <1>1, ReplyRead DEF InFlight
  <1>4. \A l \in acked' : Settled(l)
    BY <1>3 DEF LpushReply, ListsTrue, AckedIsStored, Settled
  <1>5. acked' \subseteq 1..line
    <2>1. acked \subseteq 1..line
      BY DEF TypeOK
    <2>. QED
      BY <1>1, <1>2, <2>1
  <1>6. stat_messages_handled' \in 0..(UIntMod - 1)
    BY BoundsAssumption DEF LpushReply, Inc, TypeOK
  <1>7. Sockets' /\ (err' => ~link')
    BY <1>2 DEF Sockets, Replaced, OneCommand
  <1>8. CASE config.ttl > 0
    <2>1. pc' = "expire" /\ UNCHANGED <<name, caller, line>>
      BY <1>8 DEF LpushReply, Goto
    <2>2. requests' \in Seq(Command') /\ replies' \in Seq(Command')
      BY <1>2
    <2>3. TypeOK'
      BY <1>1, <1>2, <1>5, <1>6, <2>1, <2>2 DEF TypeOK, Ended
    <2>4. OneCommand' /\ InHand'
      BY <1>1, <1>2, <1>7, <2>1 DEF OneCommand, Quiet, InHand, Ended
    <2>5. InFlight'
      BY <1>2, <2>1, OneElement DEF InFlight
    <2>6. ListsTrue'
      BY <1>2, <1>4 DEF ListsTrue, NewestFirst, AckedIsStored, Settled, Stored
    <2>. QED
      BY <1>7, <2>3, <2>4, <2>5, <2>6
  <1>9. CASE ~(config.ttl > 0)
    <2>1. Continue
      BY <1>9 DEF LpushReply
    <2>2. /\ clients' \in 0..MaxMsgs /\ faults' \in 0..MaxFaults /\ unanswered' \in Nat
          /\ err' \in BOOLEAN /\ fd' \in BOOLEAN /\ link' \in BOOLEAN
          /\ dropped' \in 0..MaxSockets
      BY <1>2 DEF TypeOK
    <2>3. UNCHANGED <<config, lists, expiring, up, refused>>
      BY <1>2
    <2>. QED
      BY <1>2, <1>4, <1>5, <1>6, <1>7, <2>1, <2>2, <2>3, BackToLoop
  <1>. QED
    BY <1>8, <1>9

LEMMA LpushNullKeeps ==
    ASSUME LogInv, LpushNull
    PROVE  LogInv'
  <1>. USE DEF LogInv
  <1>1. pc = "lpushed" /\ Wire(Lpush(name, line)) /\ NullReply
    BY DEF LpushNull, OneCommand
  <1>2. ~link /\ Quiet
    BY <1>1 DEF NullReply, OneCommand, Quiet
  <1>3. /\ pc' = "openRedis" /\ err' = TRUE /\ unanswered' = unanswered + 1
        /\ UNCHANGED <<config, name, caller, line, fd, dropped, link, requests, replies,
                       up, lists, expiring, clients, faults, acked, refused>>
    BY DEF LpushNull, Goto, wire, server
  <1>4. stat_messages_handled' \in 0..(UIntMod - 1)
    BY BoundsAssumption DEF LpushNull, Inc, TypeOK
  <1>5. TypeOK'
    <2>1. Command' = Command /\ unanswered' \in Nat
      BY <1>3 DEF Command, TypeOK
    <2>. QED
      BY <1>1, <1>3, <1>4, <2>1 DEF TypeOK, Ended
  <1>6. OneCommand' /\ InHand' /\ Sockets'
    BY <1>1, <1>2, <1>3 DEF OneCommand, Quiet, InHand, Sockets, Replaced, Ended
  <1>7. InFlight'
    BY <1>2, <1>3, OneElement DEF InFlight, Quiet
  <1>. QED
    BY <1>3, <1>5, <1>6, <1>7, ListsKept

LEMMA ExpireReplyKeeps ==
    ASSUME LogInv, ExpireReply
    PROVE  LogInv'
  <1>. USE DEF LogInv
  <1>1. Wire(Expire(name)) /\ HasReply
    BY DEF ExpireReply, OneCommand
  <1>2. /\ requests' = <<>> /\ replies' = <<>> /\ Continue
        /\ UNCHANGED <<config, err, fd, dropped, link, stat_messages_handled, up, lists,
                       expiring, clients, faults, acked, refused, unanswered>>
    BY <1>1, ReplyRead DEF ExpireReply, context, server, history
  <1>3. acked' \subseteq 1..line /\ \A l \in acked' : Settled(l)
    BY <1>2 DEF TypeOK, ListsTrue, AckedIsStored, Settled
  <1>4. /\ clients' \in 0..MaxMsgs /\ faults' \in 0..MaxFaults /\ unanswered' \in Nat
        /\ err' \in BOOLEAN /\ fd' \in BOOLEAN /\ link' \in BOOLEAN
        /\ dropped' \in 0..MaxSockets /\ stat_messages_handled' \in 0..(UIntMod - 1)
    BY <1>2 DEF TypeOK
  <1>5. Sockets' /\ (err' => ~link')
    BY <1>2 DEF Sockets, Replaced, OneCommand
  <1>6. UNCHANGED <<config, lists, expiring, up, refused>>
    BY <1>2
  <1>. QED
    BY <1>2, <1>3, <1>4, <1>5, <1>6, BackToLoop

LEMMA OpenRedisKeeps ==
    ASSUME LogInv, OpenRedis \/ OpenRedisFails
    PROVE  LogInv'
  <1>. USE DEF LogInv
  <1>1. /\ requests' = <<>> /\ replies' = <<>> /\ Continue
        /\ dropped' = Replaced
        /\ UNCHANGED <<config, stat_messages_handled, up, lists, expiring, clients, acked, refused>>
    BY DEF OpenRedis, OpenRedisFails, Drop, server, history
  <1>2. dropped \in Nat /\ fd \in BOOLEAN /\ Replaced \in Nat /\ Replaced <= MaxSockets
    BY BoundsAssumption DEF TypeOK, Replaced, Sockets
  <1>3. /\ err' \in BOOLEAN /\ fd' \in BOOLEAN /\ link' \in BOOLEAN
        /\ (err' => ~link') /\ Sockets'
    <2>1. CASE OpenRedis
      <3>1. err' = FALSE /\ fd' = TRUE /\ link' = TRUE /\ dropped' < MaxSockets
        BY <2>1 DEF OpenRedis
      <3>2. dropped' \in Nat /\ dropped' + 1 <= MaxSockets
        BY <1>1, <1>2, <3>1, BoundsAssumption
      <3>3. Sockets'
        BY <3>1, <3>2 DEF Sockets, Replaced
      <3>. QED
        BY <3>1, <3>3
    <2>2. CASE OpenRedisFails
      <3>1. err' = TRUE /\ fd' = FALSE /\ link' = FALSE
        BY <2>2 DEF OpenRedisFails
      <3>2. Sockets'
        BY <1>1, <1>2, <3>1 DEF Sockets, Replaced
      <3>. QED
        BY <3>1, <3>2
    <2>. QED
      BY <2>1, <2>2
  <1>4. faults' \in 0..MaxFaults /\ unanswered' \in Nat
    <2>1. CASE OpenRedis
      BY <2>1 DEF OpenRedis, history, TypeOK
    <2>2. CASE OpenRedisFails
      BY <2>2, BoundsAssumption DEF OpenRedisFails, TypeOK
    <2>. QED
      BY <2>1, <2>2
  <1>5. acked' \subseteq 1..line /\ \A l \in acked' : Settled(l)
    BY <1>1 DEF TypeOK, ListsTrue, AckedIsStored, Settled
  <1>6. /\ clients' \in 0..MaxMsgs /\ dropped' \in 0..MaxSockets
        /\ stat_messages_handled' \in 0..(UIntMod - 1)
    BY <1>1, <1>2, BoundsAssumption DEF TypeOK
  <1>7. UNCHANGED <<config, lists, expiring, up, refused>>
    BY <1>1
  <1>. QED
    BY <1>1, <1>3, <1>4, <1>5, <1>6, <1>7, BackToLoop

LEMMA RecvKeeps ==
    ASSUME LogInv, NEW n \in Names, Recv(n)
    PROVE  LogInv'
  <1>. USE DEF LogInv
  <1>1. /\ pc = "recv" /\ pc' = "lpush" /\ name' = n /\ caller' = "serverLoop"
        /\ line' = line + 1 /\ clients < MaxMsgs /\ clients' = clients + 1
        /\ UNCHANGED <<config, err, fd, dropped, stat_messages_handled, link, requests,
                       replies, up, lists, expiring, faults, acked, refused, unanswered>>
    BY DEF Recv, Handle, context, wire, server
  <1>2. Quiet
    BY <1>1 DEF OneCommand
  <1>3. TypeOK'
    <2>1. /\ line \in Nat /\ lists \in [Names -> Seq(1..line)]
          /\ acked \in SUBSET (1..line) /\ refused \in SUBSET (1..line)
      BY DEF TypeOK
    <2>2. /\ line' \in Nat /\ lists' \in [Names -> Seq(1..line')]
          /\ acked' \subseteq 1..line' /\ refused' \subseteq 1..line'
      BY <1>1, <2>1, MoreLines
    <2>3. requests' \in Seq(Command') /\ replies' \in Seq(Command')
      BY <1>1, <1>2 DEF Quiet
    <2>4. clients' \in 0..MaxMsgs
      BY <1>1, BoundsAssumption DEF TypeOK
    <2>. QED
      BY <1>1, <2>2, <2>3, <2>4 DEF TypeOK, Ended
  <1>4. OneCommand' /\ InHand' /\ Sockets'
    BY <1>1, <1>2 DEF OneCommand, Quiet, InHand, Sockets, Replaced, Ended, TypeOK
  <1>5. InFlight'
    BY <1>1, <1>2, NextIsNew, OneElement DEF InFlight, Quiet
  <1>. QED
    BY <1>1, <1>3, <1>4, <1>5, ListsKept

\* The process ends where it stands, and the server goes on with the wire.
LEMMA EndKeeps ==
    ASSUME LogInv, ExpireNull \/ ShutdownServer
    PROVE  LogInv'
  <1>. USE DEF LogInv
  <1>1. /\ pc' \in Ended
        /\ UNCHANGED <<config, name, caller, line, err, fd, dropped, stat_messages_handled,
                       link, requests, replies, up, lists, expiring, clients, faults, acked,
                       refused, unanswered>>
    BY DEF ExpireNull, ShutdownServer, Goto, Ended, context, wire, server, history
  <1>2. TypeOK'
    <2>1. Command' = Command
      BY <1>1 DEF Command
    <2>. QED
      BY <1>1, <2>1 DEF TypeOK
  <1>3. OneCommand'
    <2>1. Wire(Lpush(name, line)) \/ Wire(Expire(name))
      BY OnTheWire DEF Quiet, Wire
    <2>2. (Wire(Lpush(name, line)) \/ Wire(Expire(name)))'
      BY <1>1, <2>1 DEF Wire, Lpush, Expire
    <2>. QED
      BY <1>1, <2>2 DEF OneCommand, Quiet, Ended
  <1>4. InFlight' /\ InHand' /\ Sockets'
    BY <1>1 DEF InFlight, LineIsNew, Settled, Stored, Lpush, InHand, Sockets, Replaced, Ended
  <1>. QED
    BY <1>1, <1>2, <1>3, <1>4, ListsKept

\* What the server does with the command at the head of the wire.
LEMMA Responds ==
    ASSUME TypeOK, OneCommand, requests # <<>>, Respond
    PROVE  \E cmd \in {Lpush(name, line), Expire(name)} :
             /\ requests = <<cmd>> /\ Head(requests) = cmd
             /\ requests' = <<>> /\ replies' = <<cmd>>
             /\ pc = "lpushed" => cmd = Lpush(name, line)
             /\ pc = "expired" => cmd = Expire(name)
             /\ pc \in {"lpushed", "expired"} \union Ended
  <1>1. ~Quiet
    BY DEF Quiet
  <1>2. PICK cmd \in {Lpush(name, line), Expire(name)} :
          /\ requests = <<cmd>> /\ replies = <<>>
          /\ pc = "lpushed" => cmd = Lpush(name, line)
          /\ pc = "expired" => cmd = Expire(name)
    BY <1>1, OnTheWire
  <1>3. Head(requests) = cmd /\ Tail(requests) = <<>>
    BY <1>2, OneElement
  <1>4. requests' = <<>> /\ replies' = <<cmd>>
    BY <1>2, <1>3, OneElement DEF Respond
  <1>. QED
    BY <1>1, <1>2, <1>3, <1>4, OnTheWire

\* The types and the wire after the server answered.
LEMMA RespondKeeps ==
    ASSUME LogInv, requests # <<>>, Respond, link,
           lists' \in [Names -> Seq(1..line)], expiring' \subseteq Names,
           refused' \subseteq 1..line,
           UNCHANGED <<config, control, line, context, stat_messages_handled, link, up>>,
           UNCHANGED <<clients, faults, acked, unanswered>>
    PROVE  TypeOK' /\ OneCommand' /\ Sockets' /\ InHand'
  <1>. USE DEF LogInv
  <1>1. PICK cmd \in {Lpush(name, line), Expire(name)} :
          /\ requests = <<cmd>>
          /\ requests' = <<>> /\ replies' = <<cmd>>
          /\ pc = "lpushed" => cmd = Lpush(name, line)
          /\ pc = "expired" => cmd = Expire(name)
          /\ pc \in {"lpushed", "expired"} \union Ended
    BY Responds
  <1>2. /\ UNCHANGED <<config, pc, name, caller, line, err, fd, dropped, link, up>>
        /\ UNCHANGED <<stat_messages_handled, clients, faults, acked, unanswered>>
    BY DEF control, context
  <1>3. name \in Names /\ line > 0 /\ ~err
    BY DEF OneCommand, Quiet
  <1>4. Wire(cmd)'
    BY <1>1, <1>2, Zenon DEF Wire
  <1>5. TypeOK'
    <2>1. cmd \in Command /\ Command' = Command
      <3>1. line \in 1..line
        BY <1>3 DEF TypeOK
      <3>. QED
        BY <1>2, <1>3, <3>1 DEF Command
    <2>2. requests' \in Seq(Command') /\ replies' \in Seq(Command')
      BY <1>1, <2>1, WireType
    <2>. QED
      BY <1>2, <2>2 DEF TypeOK
  <1>6. OneCommand'
    <2>1. pc' = "lpushed" => Wire(Lpush(name, line))'
      BY <1>1, <1>2, Zenon DEF Wire, Lpush
    <2>2. pc' = "expired" => Wire(Expire(name))'
      BY <1>1, <1>2, Zenon DEF Wire, Expire
    <2>3. Wire(Lpush(name, line))' \/ Wire(Expire(name))'
      BY <1>1, <1>2, Zenon DEF Wire, Lpush, Expire
    <2>. QED
      BY <1>1, <1>2, <1>3, <2>1, <2>2, <2>3 DEF OneCommand, Ended
  <1>. QED
    BY <1>2, <1>5, <1>6 DEF Sockets, Replaced, InHand

\* LPUSH puts a line before the others.
LEMMA Pushed ==
    ASSUME NEW S, NEW q \in Seq(S), NEW x \in S
    PROVE  /\ <<x>> \o q \in Seq(S) /\ Len(<<x>> \o q) = Len(q) + 1
           /\ (<<x>> \o q)[1] = x
           /\ \A i \in 2..(Len(q) + 1) : (<<x>> \o q)[i] = q[i - 1]
  OBVIOUS

\* The answer to an EXPIRE is none to a line.
LEMMA NoLineAnswered ==
    ASSUME requests' = <<>>, replies' = <<Expire(name)>>, UNCHANGED <<pc, name, line>>,
           pc \in {"lpushed", "expired"} \union Ended
    PROVE  InFlight'
  <1>1. pc' # "lpush" /\ \A d : requests' # <<d>>
    BY OneElement DEF Ended
  <1>2. replies' # <<Lpush(name, line)'>>
    <2>1. Head(replies') = Expire(name)
      BY OneElement
    <2>2. Lpush(name, line)' # Expire(name)
      BY DEF Lpush, Expire
    <2>. QED
      BY <2>1, <2>2, OneElement
  <1>. QED
    BY <1>1, <1>2 DEF InFlight

LEMMA ExecuteKeeps ==
    ASSUME LogInv, Execute
    PROVE  LogInv'
  <1>. USE DEF LogInv
  <1>1. /\ requests # <<>> /\ Respond /\ link
        /\ UNCHANGED <<config, control, line, context, stat_messages_handled, link, up>>
        /\ UNCHANGED <<pc, name, line, clients, faults, acked, refused, unanswered>>
    BY DEF Execute, control, history
  <1>2. PICK c \in {Lpush(name, line), Expire(name)} :
          /\ requests = <<c>> /\ Head(requests) = c
          /\ requests' = <<>> /\ replies' = <<c>>
          /\ pc \in {"lpushed", "expired"} \union Ended
    BY <1>1, Responds
  <1>3. name \in Names /\ line \in 1..line
    BY <1>1 DEF OneCommand, Quiet, TypeOK
  <1>4. lists \in [Names -> Seq(1..line)] /\ expiring \subseteq Names
    BY DEF TypeOK
  <1>7. refused' \subseteq 1..line
    BY <1>1 DEF TypeOK
  <1>5. CASE c = Lpush(name, line)
    <2>1. /\ lists' = [lists EXCEPT ![name] = <<line>> \o @]
          /\ expiring' = expiring
      BY <1>2, <1>5, Commands DEF Execute
    <2>2. LineIsNew
      BY <1>2, <1>5 DEF InFlight
    <2>3. /\ <<line>> \o lists[name] \in Seq(1..line)
          /\ Len(<<line>> \o lists[name]) = Len(lists[name]) + 1
          /\ (<<line>> \o lists[name])[1] = line
          /\ \A i \in 2..(Len(lists[name]) + 1) :
                (<<line>> \o lists[name])[i] = lists[name][i - 1]
          /\ Len(lists[name]) \in Nat
      BY <1>3, <1>4, Pushed
    <2>4. lists' \in [Names -> Seq(1..line)]
      BY <1>3, <1>4, <2>1, <2>3
    <2>5. Stored(line)'
      <3>1. 1 \in 1..Len(lists'[name]) /\ lists'[name][1] = line
        BY <1>3, <1>4, <2>1, <2>3
      <3>. QED
        BY <1>1, <1>3, <3>1 DEF Stored
    <2>6. ASSUME NEW l, Stored(l) PROVE Stored(l)'
      <3>1. PICK n \in Names : \E i \in 1..Len(lists[n]) : lists[n][i] = l
        BY <2>6 DEF Stored
      <3>2. PICK i \in 1..Len(lists[n]) : lists[n][i] = l
        BY <3>1
      <3>3. CASE n = name
        <4>1. i + 1 \in 2..(Len(lists[name]) + 1) /\ (i + 1) - 1 = i
          BY <2>3, <3>2, <3>3
        <4>2. lists'[name][i + 1] = l /\ i + 1 \in 1..Len(lists'[name])
          BY <1>3, <1>4, <2>1, <2>3, <3>2, <3>3, <4>1
        <4>. QED
          BY <1>3, <4>2 DEF Stored
      <3>4. CASE n # name
        BY <1>4, <2>1, <3>2, <3>4 DEF Stored
      <3>. QED
        BY <3>3, <3>4
    <2>7. NewestFirst'
      <3>1. SUFFICES ASSUME NEW n \in Names, NEW i \in 1..Len(lists'[n]),
                            NEW j \in 1..Len(lists'[n]), i < j
                     PROVE  lists'[n][i] > lists'[n][j]
        BY DEF NewestFirst
      <3>2. CASE n # name
        BY <1>4, <2>1, <3>1, <3>2 DEF ListsTrue, NewestFirst
      <3>3. CASE n = name
        <4>1. lists'[n] = <<line>> \o lists[name]
          BY <1>3, <1>4, <2>1, <3>3
        <4>2. j \in 2..(Len(lists[name]) + 1) /\ j - 1 \in 1..Len(lists[name])
          BY <2>3, <3>1, <4>1
        <4>3. CASE i = 1
          BY <1>3, <2>2, <2>3, <4>1, <4>2, <4>3 DEF LineIsNew
        <4>4. CASE i # 1
          <5>1. i \in 2..(Len(lists[name]) + 1) /\ i - 1 \in 1..Len(lists[name]) /\ i - 1 < j - 1
            BY <2>3, <3>1, <4>1, <4>4
          <5>2. lists[name][i - 1] > lists[name][j - 1]
            BY <1>3, <4>2, <5>1 DEF ListsTrue, NewestFirst
          <5>. QED
            BY <2>3, <4>1, <4>2, <5>1, <5>2
        <4>. QED
          BY <4>3, <4>4
      <3>. QED
        BY <3>2, <3>3
    <2>8. ListsTrue'
      BY <1>1, <2>6, <2>7 DEF ListsTrue, AckedIsStored
    <2>9. InFlight'
      BY <1>1, <1>2, <2>5, OneElement DEF InFlight, Settled, Ended
    <2>. QED
      BY <1>1, <1>4, <1>7, <2>1, <2>4, <2>8, <2>9, RespondKeeps
  <1>6. CASE c = Expire(name)
    <2>1. lists' = lists /\ expiring' = expiring \union {name}
      <3>1. Head(requests).op # "LPUSH" /\ Head(requests).name = name
        BY <1>2, <1>6 DEF Expire
      <3>. QED
        BY <3>1 DEF Execute
    <2>2. ListsTrue'
      BY <1>1, <2>1, ListsKept
    <2>4. InFlight'
      BY <1>1, <1>2, <1>6, NoLineAnswered
    <2>. QED
      BY <1>1, <1>3, <1>4, <1>7, <2>1, <2>2, <2>4, RespondKeeps
  <1>. QED
    BY <1>5, <1>6

LEMMA RefuseKeeps ==
    ASSUME LogInv, Refuse
    PROVE  LogInv'
  <1>. USE DEF LogInv
  <1>1. /\ requests # <<>> /\ Respond /\ link
        /\ UNCHANGED <<config, control, line, context, stat_messages_handled, link, up>>
        /\ UNCHANGED <<pc, name, line, lists, expiring, clients, faults, acked, unanswered>>
    BY DEF Refuse, control, server
  <1>2. PICK c \in {Lpush(name, line), Expire(name)} :
          /\ requests = <<c>> /\ Head(requests) = c
          /\ requests' = <<>> /\ replies' = <<c>>
          /\ pc \in {"lpushed", "expired"} \union Ended
    BY <1>1, Responds
  <1>3. line \in 1..line
    BY <1>1 DEF OneCommand, Quiet, TypeOK
  <1>4. refused' = IF c = Lpush(name, line) THEN refused \union {line} ELSE refused
    <2>1. c = Lpush(name, line) => Head(requests).op = "LPUSH" /\ Head(requests).line = line
      BY <1>2, Commands
    <2>2. c # Lpush(name, line) => Head(requests).op # "LPUSH"
      BY <1>2 DEF Expire
    <2>. QED
      BY <2>1, <2>2 DEF Refuse
  <1>5. TypeOK' /\ OneCommand' /\ Sockets' /\ InHand'
    <2>1. /\ lists' \in [Names -> Seq(1..line)] /\ expiring' \subseteq Names
          /\ refused' \subseteq 1..line
      BY <1>1, <1>3, <1>4 DEF TypeOK
    <2>. QED
      BY <1>1, <2>1, RespondKeeps
  <1>6. InFlight'
    <2>1. CASE c = Lpush(name, line)
      <3>1. line' \in refused' /\ pc' # "lpush" /\ \A d : requests' # <<d>>
        BY <1>1, <1>2, <1>4, <2>1, OneElement DEF Ended
      <3>. QED
        BY <3>1 DEF InFlight, Settled
    <2>2. CASE c = Expire(name)
      BY <1>1, <1>2, <2>2, NoLineAnswered
    <2>. QED
      BY <2>1, <2>2
  <1>7. ListsTrue'
    BY <1>1, <1>4, ListsKept
  <1>. QED
    BY <1>5, <1>6, <1>7

LEMMA BreakKeeps ==
    ASSUME LogInv, LinkBreaks \/ ServerStops
    PROVE  LogInv'
  <1>. USE DEF LogInv
  <1>1. /\ link' = FALSE /\ requests' = <<>> /\ replies' \in {replies, <<>>}
        /\ faults < MaxFaults /\ faults' = faults + 1 /\ unanswered' = 0 /\ up' \in {up, FALSE}
        /\ UNCHANGED <<config, pc, name, caller, line, err, fd, dropped,
                       stat_messages_handled, lists, expiring, clients, acked, refused>>
    BY DEF LinkBreaks, ServerStops, Break, control, context, server
  <1>2. TypeOK'
    <2>1. Command' = Command
      BY <1>1 DEF Command
    <2>2. requests' \in Seq(Command') /\ replies' \in Seq(Command')
      <3>1. /\ requests \in Seq(Command) /\ replies \in Seq(Command)
            /\ <<>> \in Seq(Command)
        BY DEF TypeOK
      <3>. QED
        BY <1>1, <2>1, <3>1, Zenon
    <2>3. faults' \in 0..MaxFaults /\ unanswered' \in Nat
      BY <1>1, BoundsAssumption DEF TypeOK
    <2>. QED
      BY <1>1, <2>2, <2>3 DEF TypeOK
  <1>3. ASSUME NEW c, Wire(c)
        PROVE  \/ requests' = <<>> /\ replies' = <<>>
               \/ requests' = <<>> /\ replies' = <<c>>
    BY <1>1, <1>3, Zenon DEF Wire
  <1>4. /\ Wire(Lpush(name, line)) => Wire(Lpush(name, line))'
        /\ Wire(Expire(name)) => Wire(Expire(name))'
    BY <1>1, <1>3, Zenon DEF Wire, Lpush, Expire
  <1>5. Quiet => Quiet'
    BY <1>1 DEF Quiet
  <1>6. OneCommand'
    BY <1>1, <1>4, <1>5 DEF OneCommand, Ended
  <1>7. InFlight'
    <2>1. \A d : requests' # <<d>>
      BY <1>1, OneElement
    <2>2. replies' = <<Lpush(name, line)>> => Settled(line)
      BY <1>1, OneElement DEF InFlight
    <2>. QED
      BY <1>1, <2>1, <2>2 DEF InFlight, LineIsNew, Settled, Stored, Lpush
  <1>. QED
    BY <1>1, <1>2, <1>6, <1>7, ListsKept DEF InHand, Sockets, Replaced

LEMMA RestKeeps ==
    ASSUME LogInv, ServerStarts \/ UNCHANGED vars
    PROVE  LogInv'
  <1>. USE DEF LogInv
  <1>1. /\ up' \in BOOLEAN /\ unanswered' \in Nat
        /\ UNCHANGED <<config, pc, name, caller, line, err, fd, dropped,
                       stat_messages_handled, link, requests, replies, lists, expiring,
                       clients, faults, acked, refused>>
    <2>1. CASE ServerStarts
      BY <2>1 DEF ServerStarts, control, context, wire
    <2>2. CASE UNCHANGED vars
      BY <2>2 DEF vars, control, context, wire, server, history, TypeOK
    <2>. QED
      BY <2>1, <2>2
  <1>2. TypeOK'
    <2>1. Command' = Command
      BY <1>1 DEF Command
    <2>. QED
      BY <1>1, <2>1 DEF TypeOK
  <1>3. OneCommand' /\ InFlight'
    BY <1>1 DEF OneCommand, Quiet, Wire, InFlight, LineIsNew, Settled, Stored, Lpush, Expire
  <1>. QED
    BY <1>1, <1>2, <1>3, ListsKept DEF InHand, Sockets, Replaced

LEMMA LogNext == LogInv /\ [Next]_vars => LogInv'
  BY SendLpushKeeps, SendExpireKeeps, LpushReplyKeeps, LpushNullKeeps, ExpireReplyKeeps,
     OpenRedisKeeps, RecvKeeps, EndKeeps, ExecuteKeeps, RefuseKeeps, BreakKeeps, RestKeeps
     DEF Next, Yaul, Environment, Done

LEMMA LogAlways == Spec => []LogInv
  BY LogInit, LogNext, PTL DEF Spec

\* Every variable keeps its type, the counter of lines modulo its width and the
\* sockets within their number.
THEOREM LogTypes == Spec => []TypeOK
  <1>1. LogInv => TypeOK
    BY DEF LogInv
  <1>. QED
    BY <1>1, LogAlways, PTL

\* No list holds a line twice or out of order, and a line whose LPUSH had any reply,
\* which is what yaul takes for stored, is in its list or was refused by Redis,
\* whatever breaks between logMessageRedis and Redis.
THEOREM ListsStayTrue == Spec => []ListsTrue
  <1>1. LogInv => ListsTrue
    BY DEF LogInv
  <1>. QED
    BY <1>1, LogAlways, PTL

-----------------------------------------------------------------------------
(* What a fault costs.  Once an LPUSH went without an answer, the connection is *)
(* new or about to be: the next one goes so only for another fault, or for want *)
(* of a socket.  A socket that leaked, or is about to, is that of a fault.      *)

Recovering ==
    up /\ Replaced < MaxSockets =>
        \/ unanswered = 0
        \/ unanswered = 1 /\ (link \/ pc \in Ended \union {"openRedis"})

Broken == IF fd /\ ~link THEN dropped + 1 ELSE dropped
CostInv == Recovering /\ Broken <= faults /\ (pc = "openRedis" => ~link)

LEMMA CostInit == Init => CostInv
  BY BoundsAssumption DEF Init, Recovering, CostInv, Broken

LEMMA CostNext == LogInv /\ CostInv /\ [Next]_vars => CostInv'
  <1>. SUFFICES ASSUME LogInv, CostInv, [Next]_vars PROVE CostInv'
    OBVIOUS
  <1>. USE DEF CostInv
  <1>0. /\ dropped \in Nat /\ faults \in Nat /\ fd \in BOOLEAN /\ link \in BOOLEAN
        /\ Replaced = IF fd THEN dropped + 1 ELSE dropped
    BY BoundsAssumption DEF LogInv, TypeOK, Replaced
  <1>1. CASE ServerStarts
    BY <1>1 DEF ServerStarts, Recovering, Broken, control, context
  <1>2. CASE LinkBreaks \/ ServerStops
    <2>1. /\ link' = FALSE /\ faults' = faults + 1 /\ unanswered' = 0
          /\ UNCHANGED <<fd, dropped>>
      BY <1>2 DEF LinkBreaks, ServerStops, Break, context
    <2>2. CASE link
      BY <1>0, <2>1, <2>2 DEF Recovering, Broken
    <2>3. CASE ~link
      BY <1>0, <2>1, <2>3 DEF Recovering, Broken
    <2>. QED
      BY <2>2, <2>3
  <1>3. CASE OpenRedisFails
    <2>1. /\ pc = "openRedis" /\ fd' = FALSE /\ link' = FALSE /\ dropped' = Replaced
          /\ unanswered' = 0 /\ faults' \in {faults, faults + 1}
      BY <1>3 DEF OpenRedisFails, Drop
    <2>. QED
      BY <1>0, <2>1 DEF Recovering, Broken
  <1>4. CASE LpushNull
    <2>1. pc = "lpushed" /\ ~link
      BY <1>4 DEF LpushNull, NullReply, LogInv, OneCommand
    <2>2. /\ pc' = "openRedis" /\ unanswered' = unanswered + 1
          /\ UNCHANGED <<up, fd, dropped, link, faults>>
      BY <1>4 DEF LpushNull, Goto, server
    <2>. QED
      BY <2>1, <2>2 DEF Recovering, Replaced, Ended, Broken
  <1>5. CASE OpenRedis
    <2>1. /\ pc = "openRedis" /\ link' = TRUE /\ fd' = TRUE /\ dropped' = Replaced
          /\ UNCHANGED <<up, unanswered, faults>>
      BY <1>5 DEF OpenRedis, Drop, server, history
    <2>2. Replaced \in Nat /\ MaxSockets \in Nat
      BY <1>0, BoundsAssumption
    <2>3. Replaced' = Replaced + 1
      BY <2>1 DEF Replaced
    <2>4. Recovering'
      BY <2>1, <2>2, <2>3 DEF Recovering
    <2>5. pc' # "openRedis"
      BY <1>5 DEF OpenRedis, Continue, Handle
    <2>6. Broken' = dropped + (IF fd THEN 1 ELSE 0)
      BY <2>1 DEF Broken, Replaced
    <2>7. Broken' <= faults'
      BY <1>0, <2>1, <2>6 DEF Broken
    <2>. QED
      BY <2>4, <2>5, <2>7
  <1>6. CASE ExpireNull \/ ShutdownServer
    <2>1. pc' \in Ended /\ UNCHANGED <<up, fd, dropped, unanswered, link, faults>>
      BY <1>6 DEF ExpireNull, ShutdownServer, Goto, Ended, server, history, context
    <2>. QED
      BY <2>1 DEF Recovering, Replaced, Broken, Ended
  <1>7. CASE \/ \E n \in Names : Recv(n)
             \/ SendLpush \/ LpushReply \/ SendExpire \/ ExpireReply
    <2>1. /\ pc \notin Ended \union {"openRedis"}
          /\ UNCHANGED <<up, fd, dropped, unanswered, link, faults>>
      BY <1>7 DEF Recv, SendLpush, LpushReply, SendExpire, ExpireReply, Ended, server,
                  history, context
    <2>2. pc' # "openRedis"
      BY <1>7 DEF Recv, SendLpush, LpushReply, SendExpire, ExpireReply, Continue, Handle, Goto
    <2>. QED
      BY <2>1, <2>2 DEF Recovering, Replaced, Broken
  <1>8. CASE Execute \/ Refuse \/ UNCHANGED vars
    <2>1. UNCHANGED <<pc, up, fd, dropped, unanswered, link, faults>>
      BY <1>8 DEF Execute, Refuse, vars, control, server, history, context
    <2>. QED
      BY <2>1 DEF Recovering, Replaced, Broken
  <1>. QED
    BY <1>1, <1>2, <1>3, <1>4, <1>5, <1>6, <1>7, <1>8 DEF Next, Yaul, Environment, Done

\* While Redis runs and a socket is left to connect with, one LPUSH at most goes
\* without an answer since the last fault; and no more sockets leak than faults
\* broke a connection (logMessageRedis lines 387-398, openRedis line 232).
THEOREM FaultsCostOne == Spec => []FaultCostsOne
  <1>1. LogInv /\ CostInv => FaultCostsOne
    <2>1. ASSUME LogInv, CostInv PROVE OneUnanswered
      BY <2>1 DEF CostInv, Recovering, OneUnanswered
    <2>2. ASSUME LogInv, CostInv PROVE dropped <= faults
      <3>1. dropped \in Nat /\ faults \in Nat
        BY <2>2, BoundsAssumption DEF LogInv, TypeOK
      <3>. QED
        BY <2>2, <3>1 DEF CostInv, Broken
    <2>. QED
      BY <2>1, <2>2 DEF FaultCostsOne, LeaksPerFault
  <1>. QED
    BY <1>1, CostInit, CostNext, LogInit, LogNext, PTL DEF Spec
=============================================================================
