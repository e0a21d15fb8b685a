----------------------------- MODULE RedisAsync -----------------------------
(***************************************************************************)
(* The asynchronous API of hiredis (src/hiredis/async.c): commands with    *)
(* callbacks, subscriptions, and the ends of a context, that a client may  *)
(* ask for anywhere, its callbacks included.                               *)
(*                                                                         *)
(* Replies are whole here (RedisContext has their bytes): wire holds those *)
(* the server sent, inbox those fed to the reader.  A callback is the      *)
(* number of the command it was given with.                                *)
(*                                                                         *)
(* pc is "loop" outside the library; "process" at the top of the loop of   *)
(* redisProcessCallbacks and "callback" in one it runs; "freeing" in       *)
(* __redisAsyncFree and "nullreply" in a callback that runs; "freed",      *)
(* "aborted" by an assertion, or "undefined", running a callback nobody    *)
(* gave.  MONITOR is left out.                                             *)
(*                                                                         *)
(* The client leaves a subscription as the code needs it: it issues        *)
(* nothing between an UNSUBSCRIBE and its last reply, and unsubscribes     *)
(* only what it subscribed to, naming each once: UNSUBSCRIBE without       *)
(* arguments, which leaves all (line 566), is left out.  It does not end   *)
(* the context in onConnect or onDisconnect.                               *)
(***************************************************************************)
EXTENDS Dict, Functions

CONSTANTS
    Lists,          \* argument lists of SUBSCRIBE and UNSUBSCRIBE
    MaxCommands,    \* bound: commands accepted
    MaxMessages,    \* bound: messages published
    MaxFaults       \* bound: connections refused, broken or closed

ASSUME AsyncAssumption ==
    /\ {MaxCommands, MaxMessages, MaxFaults} \subseteq Nat
    /\ IsFiniteSet(Lists) /\ \A list \in Lists : list \in Seq(Keys) /\ list # <<>>

VARIABLES
    pc,
    connected, disconnecting, freeing, subscribed,  \* flags
    err, wantRead, wantWrite,       \* the event library's interest
    replies, invalid, subs,         \* callbacks; subs has the two dictionaries
    obuf, requests, wire, inbox,    \* the connection
    closed, serving,                \* the server's end, its subscriptions
    messages, faults,
    cmds,                           \* commands accepted
    ran,                            \* what the callback of each was given
    owner                           \* who subscribed last to what

flags  == <<connected, disconnecting, freeing, subscribed>>
events == <<err, wantRead, wantWrite>>
cbs    == <<replies, invalid, subs>>
server == <<requests, wire, closed, serving>>
counts == <<messages, faults>>
record == <<cmds, ran, owner>>
vars   == <<pc, flags, events, cbs, obuf, server, inbox, counts, record>>

Variants == {"channels", "patterns"}
Channels == UNION {Range(l) : l \in Lists}
Cmd(op, v, list) == [op |-> op, id |-> Len(cmds) + 1, v |-> v, list |-> list]
Reply(type, id, v, channel, left) ==
    [type |-> type, id |-> id, v |-> v, channel |-> channel, left |-> left]
NullReply == Reply("null", 0, "", "", 0)

Init ==
    /\ pc = "loop"
    /\ connected = FALSE /\ disconnecting = FALSE /\ freeing = FALSE /\ subscribed = FALSE
    /\ err = FALSE /\ wantRead = FALSE /\ wantWrite = TRUE
    /\ replies = <<>> /\ invalid = <<>> /\ subs = [v \in Variants |-> dictCreate]
    /\ obuf = <<>> /\ requests = <<>> /\ wire = <<>> /\ inbox = <<>>
    /\ closed = FALSE /\ serving = {} /\ messages = 0 /\ faults = 0
    /\ cmds = <<>> /\ ran = <<>> /\ owner = [v \in Variants |-> [c \in Channels |-> 0]]

\* The callback is run with a reply; the client acts at label.
Run(cb, reply, label) ==
    /\ ran' = [ran EXCEPT ![cb] = Append(@, reply)]
    /\ pc' = label

\* __redisAsyncDisconnect, for a context that is in error or not.
Disconnect(error) ==
    /\ err' = error
    /\ disconnecting' = (disconnecting \/ error)
    /\ pc' = IF ~error /\ replies # <<>> THEN "aborted" ELSE "freeing"
-----------------------------------------------------------------------------
(* The client, between events and in callbacks.                            *)

InCallback   == pc \in {"callback", "nullreply"}
ClientsTurn  == pc = "loop" \/ InCallback
CanIssue     == ClientsTurn /\ ~disconnecting /\ ~freeing
NothingLeaving ==
    /\ \A i \in DOMAIN (obuf \o requests) : (obuf \o requests)[i].op # "unsubscribe"
    /\ \A i \in DOMAIN (wire \o inbox) : (wire \o inbox)[i].type # "unsubscribe"

Accept(cmd) ==
    /\ CanIssue /\ NothingLeaving
    /\ Len(cmds) < MaxCommands
    /\ cmds' = Append(cmds, cmd) /\ ran' = Append(ran, <<>>)
    /\ obuf' = Append(obuf, cmd)
    /\ wantWrite' = TRUE
    /\ UNCHANGED <<pc, connected, disconnecting, freeing, err, wantRead, server, inbox, counts>>

\* A command whose error reply is to be expected has a list of its own.
Command ==
    /\ Accept(Cmd("command", "", <<>>))
    /\ IF subscribed
       THEN invalid' = Append(invalid, Len(cmds) + 1) /\ UNCHANGED replies
       ELSE replies' = Append(replies, Len(cmds) + 1) /\ UNCHANGED invalid
    /\ UNCHANGED <<subscribed, subs, owner>>

\* Every channel of the list is bound to the callback.
Bound(d, list, cb) ==
    LET bound[n \in 0..Len(list)] == IF n = 0 THEN d ELSE dictReplace(bound[n - 1], list[n], cb)
    IN  bound[Len(list)]
Subscribe(v, list) ==
    /\ Accept(Cmd("subscribe", v, list))
    /\ subscribed' = TRUE
    /\ subs' = [subs EXCEPT ![v] = Bound(@, list, Len(cmds) + 1)]
    /\ owner' = [owner EXCEPT ![v] =
                  [c \in Channels |-> IF c \in Range(list) THEN Len(cmds) + 1 ELSE @[c]]]
    /\ UNCHANGED <<replies, invalid>>

Unsubscribe(v, list) ==
    /\ subscribed
    /\ \A i, j \in DOMAIN list : owner[v][list[i]] # 0 /\ (list[i] = list[j] => i = j)
    /\ Accept(Cmd("unsubscribe", v, list))
    /\ UNCHANGED <<subscribed, cbs, owner>>

\* redisAsyncDisconnect
ClientDisconnects ==
    /\ ClientsTurn
    /\ IF ~InCallback /\ replies = <<>>
       THEN err' = FALSE /\ pc' = "freeing"
       ELSE UNCHANGED <<err, pc>>
    /\ disconnecting' = TRUE
    /\ UNCHANGED <<connected, freeing, subscribed, wantRead, wantWrite, cbs, obuf, server, inbox,
                   counts, record>>

\* redisAsyncFree
ClientFrees ==
    /\ ClientsTurn
    /\ freeing' = TRUE
    /\ pc' = IF InCallback THEN pc ELSE "freeing"
    /\ UNCHANGED <<connected, disconnecting, subscribed, events, cbs, obuf, server, inbox,
                   counts, record>>
-----------------------------------------------------------------------------
(* Events.  The first one looks whether the connection was made; the rest  *)
(* of its handler is a later event here, which may write or read nothing.  *)

Fault == faults < MaxFaults /\ faults' = faults + 1

HandleConnect ==
    /\ pc = "loop" /\ ~connected /\ (wantRead \/ wantWrite)
    /\ \/ connected' = TRUE /\ UNCHANGED <<pc, err, disconnecting, faults>>
       \/ Fault /\ Disconnect(TRUE) /\ UNCHANGED connected
    /\ UNCHANGED <<freeing, subscribed, wantRead, wantWrite, cbs, obuf, server, inbox, messages,
                   record>>

Read(n) ==
    /\ pc = "loop" /\ connected /\ wantRead
    /\ wire # <<>> /\ n \in 0..Len(wire)    \* 0: a part of a reply
    /\ inbox' = inbox \o SubSeq(wire, 1, n)
    /\ wire' = SubSeq(wire, n + 1, Len(wire))
    /\ pc' = "process"
    /\ UNCHANGED <<flags, events, cbs, obuf, requests, closed, serving, counts, record>>
ReadEnd ==
    /\ pc = "loop" /\ connected /\ wantRead
    /\ closed /\ wire = <<>>
    /\ Disconnect(TRUE)
    /\ UNCHANGED <<connected, freeing, subscribed, wantRead, wantWrite, cbs, obuf, server, inbox,
                   counts, record>>

Write(n) ==
    /\ pc = "loop" /\ connected /\ wantWrite
    /\ n \in 0..Len(obuf)
    /\ requests' = requests \o SubSeq(obuf, 1, n)
    /\ obuf' = SubSeq(obuf, n + 1, Len(obuf))
    /\ wantWrite' = (obuf' # <<>>) /\ wantRead' = TRUE
    /\ UNCHANGED <<pc, flags, err, cbs, wire, closed, serving, inbox, counts, record>>

\* A read, a write or the reader fails.
IOFails ==
    /\ (pc = "loop" /\ connected) \/ (pc = "process" /\ inbox # <<>>)
    /\ Fault /\ Disconnect(TRUE)
    /\ UNCHANGED <<connected, freeing, subscribed, wantRead, wantWrite, cbs, obuf, server, inbox,
                   messages, record>>
-----------------------------------------------------------------------------
(* redisProcessCallbacks.                                                  *)

\* No more replies: the cue to disconnect, or to wait for the next event.
BugProcessNone ==       \* only waits
    /\ pc = "process" /\ inbox = <<>>
    /\ pc' = "loop"
    /\ UNCHANGED <<flags, events, cbs, obuf, server, inbox, counts, record>>
ProcessNone ==
    /\ pc = "process" /\ inbox = <<>>
    /\ IF disconnecting /\ obuf = <<>>
       THEN Disconnect(FALSE)
       ELSE pc' = "loop" /\ UNCHANGED <<err, disconnecting>>
    /\ UNCHANGED <<connected, freeing, subscribed, wantRead, wantWrite, cbs, obuf, server, inbox,
                   counts, record>>

Taken ==
    /\ pc = "process" /\ inbox # <<>>
    /\ inbox' = Tail(inbox)
    /\ UNCHANGED <<connected, freeing, wantRead, wantWrite, obuf, server, counts, cmds>>

BugNext(list) == list[Len(list)]
NextCallback(list) == Head(list)
ProcessReply ==
    /\ Taken /\ replies # <<>>
    /\ Run(NextCallback(replies), Head(inbox), "callback")
    /\ replies' = Tail(replies)
    /\ UNCHANGED <<disconnecting, subscribed, err, invalid, subs, owner>>

\* An error reply that no callback waits for ends the connection.
ProcessError ==
    /\ Taken /\ replies = <<>> /\ Head(inbox).type = "error"
    /\ Disconnect(TRUE)
    /\ UNCHANGED <<subscribed, cbs, ran, owner>>

\* __redisGetSubscribeCallback, for a context that must be subscribed.
BugLastUnsubscribe(reply) == reply.type = "unsubscribe"
LastUnsubscribe(reply) == reply.type = "unsubscribe" /\ reply.left = 0
ProcessMessage ==
    /\ Taken /\ replies = <<>> /\ Head(inbox).type # "error"
    /\ LET reply == Head(inbox)
           v     == reply.v
           c     == reply.channel
           stray == reply.type = "reply"
           cb    == CASE subscribed /\ stray /\ invalid # <<>> -> Head(invalid)
                      [] subscribed /\ ~stray -> dictFind(subs[v], c)
                      [] OTHER -> 0
       IN  IF cb = 0
           THEN /\ pc' = IF subscribed THEN "undefined" ELSE "aborted"
                /\ UNCHANGED <<subscribed, invalid, subs, ran, owner>>
           ELSE /\ Run(cb, reply, "callback")
                /\ invalid' = IF stray THEN Tail(invalid) ELSE invalid
                /\ subscribed' = ~LastUnsubscribe(reply)
                /\ IF reply.type = "unsubscribe"
                   THEN /\ subs' = [subs EXCEPT ![v] = dictDelete(@, c)]
                        /\ owner' = [owner EXCEPT ![v][c] = 0]
                   ELSE UNCHANGED <<subs, owner>>
    /\ UNCHANGED <<disconnecting, err, replies>>

CallbackReturns ==
    /\ InCallback
    /\ pc' = IF pc = "nullreply" \/ freeing THEN "freeing" ELSE "process"
    /\ UNCHANGED <<flags, events, cbs, obuf, server, inbox, counts, record>>
-----------------------------------------------------------------------------
(* __redisAsyncFree.  An entry of a dictionary leaves it when it is passed *)
(* here: dictRelease frees them all after the last, and until then no      *)
(* command can change them.                                                *)

FreeReply ==
    /\ pc = "freeing" /\ replies \o invalid # <<>>
    /\ Run(Head(replies \o invalid), NullReply, "nullreply")
    /\ IF replies # <<>> THEN replies' = Tail(replies) /\ UNCHANGED invalid
                        ELSE invalid' = Tail(invalid) /\ UNCHANGED replies
    /\ UNCHANGED <<flags, events, subs, obuf, server, inbox, counts, cmds, owner>>

FreeSubscription ==
    /\ pc = "freeing" /\ replies \o invalid = <<>>
    /\ \E v \in Variants :
        /\ Entries(subs[v]) # <<>>
        /\ v = "patterns" => Entries(subs["channels"]) = <<>>
        /\ LET entry == Head(Entries(subs[v]))
           IN  /\ Run(entry.val, NullReply, "nullreply")
               /\ subs' = [subs EXCEPT ![v] = dictDelete(@, entry.key)]
    /\ UNCHANGED <<flags, events, replies, invalid, obuf, server, inbox, counts, cmds, owner>>

Freed ==
    /\ pc = "freeing" /\ replies \o invalid = <<>>
    /\ \A v \in Variants : Entries(subs[v]) = <<>>
    /\ pc' = "freed"
    /\ UNCHANGED <<flags, events, cbs, obuf, server, inbox, counts, record>>
-----------------------------------------------------------------------------
(* The Redis server.                                                       *)

Client == <<pc, flags, events, cbs, obuf, inbox, record>>

\* One reply to a command, and one for each argument of a subscription.
Acks(cmd, still) ==
    [i \in DOMAIN cmd.list |->
        Reply(cmd.op, cmd.id, cmd.v, cmd.list[i],
              Cardinality(still \union
                  IF cmd.op = "subscribe" THEN {<<cmd.v, cmd.list[j]>> : j \in 1..i}
                  ELSE {<<cmd.v, cmd.list[j]>> : j \in i + 1 .. Len(cmd.list)}))]
Execute ==
    /\ ~closed /\ requests # <<>>
    /\ requests' = Tail(requests)
    /\ LET cmd  == Head(requests)
           args == {<<cmd.v, c>> : c \in Range(cmd.list)}
       IN  \/ /\ cmd.op = "command"
              /\ \E type \in IF serving = {} THEN {"reply", "error"} ELSE {"error"} :
                      wire' = Append(wire, Reply(type, cmd.id, "", "", 0))
              /\ UNCHANGED serving
           \/ /\ cmd.op # "command"
              /\ wire' = wire \o Acks(cmd, IF cmd.op = "subscribe" THEN serving ELSE serving \ args)
              /\ serving' = IF cmd.op = "subscribe" THEN serving \union args ELSE serving \ args
    /\ UNCHANGED <<Client, closed, counts>>

Publish ==
    /\ ~closed /\ messages < MaxMessages
    /\ \E s \in serving : wire' = Append(wire, Reply("message", 0, s[1], s[2], 0))
    /\ messages' = messages + 1
    /\ UNCHANGED <<Client, requests, closed, serving, faults>>

\* The server ends the connection, or refuses it with an error.
Close ==
    /\ ~closed /\ Fault
    /\ closed' = TRUE
    /\ wire' \in {wire} \union
           IF requests \o wire = <<>> THEN {<<Reply("error", 0, "", "", 0)>>} ELSE {}
    /\ UNCHANGED <<Client, requests, serving, messages>>

Library ==
    \/ ProcessNone \/ ProcessReply \/ ProcessError \/ ProcessMessage
    \/ CallbackReturns \/ FreeReply \/ FreeSubscription \/ Freed
Next ==
    \/ Command \/ ClientDisconnects \/ ClientFrees
    \/ \E v \in Variants, list \in Lists : Subscribe(v, list) \/ Unsubscribe(v, list)
    \/ HandleConnect \/ IOFails \/ ReadEnd
    \/ \E n \in 0..Len(wire) : Read(n)
    \/ \E n \in 0..Len(obuf) : Write(n)
    \/ Library \/ Execute \/ Publish \/ Close

\* Callbacks return, the server answers, and an event loop whose socket is ready
\* again and again handles one that gets on: a write, a whole reply or the end.
Event ==
    \/ HandleConnect \/ ReadEnd \/ Write(Len(obuf))
    \/ \E n \in 1..Len(wire) : Read(n)
FairSpec == Init /\ [][Next]_vars /\ WF_vars(Library) /\ WF_vars(Execute) /\ SF_vars(Event)
-----------------------------------------------------------------------------
(* Properties.                                                             *)

Ids == DOMAIN cmds
TypeOK ==
    /\ pc \in {"loop", "process", "callback", "freeing", "nullreply", "freed", "aborted", "undefined"}
    /\ {connected, disconnecting, freeing, subscribed, err, wantRead, wantWrite, closed} \subseteq BOOLEAN
    /\ Range(replies) \subseteq Ids /\ Range(invalid) \subseteq Ids
    /\ \A v \in Variants : DictOK(subs[v])
    /\ DOMAIN ran = Ids /\ serving \subseteq Variants \X Channels
    /\ messages \in 0..MaxMessages /\ faults \in 0..MaxFaults

\* Every command's callback is run once, with its own reply, the server's refusal
\* of the connection or, when the context ends first, none: no callback is lost,
\* run twice or given another's reply, wherever the client disconnects or frees (async.c lines 225-437).
AnsweredOnce ==
    \A id \in Ids : cmds[id].op = "command" =>
        LET waiting == {i \in DOMAIN (replies \o invalid) : (replies \o invalid)[i] = id}
        IN  /\ Cardinality(waiting) + Len(ran[id]) = 1
            /\ \A i \in DOMAIN ran[id] : ran[id][i].id \in {id, 0}
            /\ pc = "freed" => ran[id] # <<>>

\* The dictionaries bind what the client subscribed to, and nothing else, to the
\* callback given last (lines 555-565 and 336-352, dict.c lines 88-256).
BoundToLast ==
    pc \notin {"freeing", "nullreply", "freed"} =>
        \A v \in Variants, c \in Channels : dictFind(subs[v], c) = owner[v][c]

\* A context that is freed tells each subscription left of it, once (lines 238-250).
SubscriptionsEnd ==
    pc = "freed" => \A id \in Ids :
        cmds[id].op = "subscribe" =>
            Cardinality({i \in DOMAIN ran[id] : ran[id][i].type = "null"})
                = Cardinality({s \in Variants \X Channels : owner[s[1]][s[2]] = id})

\* The two together: each callback is called as often as it was promised.
CallbacksOnce == AnsweredOnce /\ SubscriptionsEnd

\* For a client that leaves a subscription with care the assertion of line 411
\* holds and no reply is without a callback; what is left is that of line 289.
RepliesExpected ==
    /\ pc # "undefined"
    /\ pc = "aborted" => disconnecting /\ replies # <<>>

\* What a client ends is freed, or aborted (lines 273-312 and 371-374).
DisconnectEnds == (disconnecting \/ freeing) ~> (pc \in {"freed", "aborted"})

\* "For clean disconnects, there should be no pending callbacks" (line 288).
CleanDisconnect == pc # "aborted"
=============================================================================
