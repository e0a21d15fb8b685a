---------------------------- MODULE RedisContext ----------------------------
(***************************************************************************)
(* The context of hiredis (src/hiredis/hiredis.c): commands are appended   *)
(* to an output buffer and written in parts, replies are read in parts and *)
(* given to the reader, and redisGetReply ties the two together, for a     *)
(* blocking context and for one that is not.                               *)
(*                                                                         *)
(* A command is CmdLen units <<k, part>> of the output buffer.  requests   *)
(* and wire are the two directions of the connection; the server answers a *)
(* command once it is complete, with one of Replies: the bytes it sends    *)
(* and the value they stand for.                                           *)
(*                                                                         *)
(* pc is "client" outside the library, and in redisGetReply "pending"      *)
(* (lines 1151-1155), "write", "read" and "awaited" (lines 1157-1168).     *)
(* The model ends "miscounted", with an array whose elements are not those *)
(* it counts.                                                              *)
(***************************************************************************)
EXTENDS RedisReader, SequencesExt

CONSTANTS
    Replies,        \* records [bytes, value]
    CmdLen,         \* units of a command
    MaxCommands,    \* bound: commands the client issues
    MaxFaults       \* bound: calls that fail, and the server closing

ASSUME ContextAssumption ==
    /\ CmdLen \in Nat \ {0} /\ MaxCommands \in Nat /\ MaxFaults \in Nat
    /\ \A r \in Replies : r.bytes \in Seq(STRING)

VARIABLES
    block,          \* REDIS_BLOCK
    pc, err, obuf,
    requests, wire, closed,
    issued, served, returned,   \* commands appended, replies sent, values returned
    faults

net  == <<requests, wire, closed, served>>
vars == <<reader, block, pc, err, obuf, net, issued, returned, faults>>

Parsing == {"pending", "awaited"}

Init ==
    /\ ReaderInit
    /\ block \in BOOLEAN /\ pc = "client" /\ err = FALSE /\ obuf = <<>>
    /\ requests = <<>> /\ wire = <<>> /\ closed = FALSE
    /\ issued = 0 /\ served = <<>> /\ returned = <<>> /\ faults = 0

\* A call fails or not.
MayFail(fails) ==
    /\ fails => faults < MaxFaults
    /\ faults' = IF fails THEN faults + 1 ELSE faults
-----------------------------------------------------------------------------
(* Commands.                                                               *)

Units(k) == [i \in 1..CmdLen |-> <<k, i>>]

\* redisvAppendCommand, also on a context that has an error.  Memory may run out.
AppendCommand ==
    /\ pc = "client" /\ issued < MaxCommands
    /\ \E oom \in BOOLEAN :
        /\ MayFail(oom)
        /\ err' = (err \/ oom)
        /\ obuf' = IF oom THEN obuf ELSE obuf \o Units(issued + 1)
        /\ issued' = IF oom THEN issued ELSE issued + 1
    /\ UNCHANGED <<reader, block, pc, net, returned>>

\* What is left of the output buffer once n units are written.
BugRest(n) == SubSeq(obuf, n + 2, Len(obuf))
Rest(n) == SubSeq(obuf, n + 1, Len(obuf))

\* A socket whose other end is gone may still take what is written.
BufferWrite ==
    \/ /\ err
       /\ UNCHANGED <<err, obuf, requests, faults>>
    \/ /\ ~err
       /\ \E n \in 0..Len(obuf) :
            /\ n = 0 <=> obuf = <<>>
            /\ requests' = requests \o SubSeq(obuf, 1, n)
            /\ obuf' = Rest(n)
       /\ UNCHANGED <<err, faults>>
    \/ /\ ~err /\ obuf # <<>>
       /\ MayFail(~closed)
       /\ err' = TRUE
       /\ UNCHANGED <<obuf, requests>>

\* A reader in error takes no bytes; its context is in error then.
BufferRead ==
    \/ /\ err
       /\ UNCHANGED <<reader, err, wire, faults>>
    \/ /\ ~err /\ wire # <<>>
       /\ \E n \in 1..Len(wire), oom \in BOOLEAN :
            /\ MayFail(oom)
            /\ wire' = SubSeq(wire, n + 1, Len(wire))
            /\ err' = oom
            /\ IF oom THEN SetReaderError ELSE Feed(SubSeq(wire, 1, n))
    \/ /\ ~err
       /\ MayFail(~(closed /\ wire = <<>>))
       /\ err' = TRUE
       /\ UNCHANGED <<reader, wire>>
-----------------------------------------------------------------------------
(* redisGetReply.  A blocking client asks for the replies it is owed.      *)

GetReply ==
    /\ pc = "client"
    /\ block => Len(returned) < issued
    /\ pc' = "pending"
    /\ UNCHANGED <<reader, block, err, obuf, net, issued, returned, faults>>

Parse ==
    /\ pc \in Parsing /\ ~rerr
    /\ \/ StartTask /\ UNCHANGED faults
       \/ /\ rstack # <<>>
          /\ \/ (ReadType \/ ReadTypeFails \/ ProcessTooDeep) /\ UNCHANGED faults
             \/ \E oom \in BOOLEAN : MayFail(oom) /\ Item(oom)
    /\ UNCHANGED <<block, pc, err, obuf, net, issued, returned>>

ParseMiscounts ==
    /\ pc \in Parsing /\ ~rerr /\ rstack # <<>>
    /\ Miscounted
    /\ pc' = "miscounted"
    /\ UNCHANGED <<reader, block, err, obuf, net, issued, returned, faults>>

ReaderFails ==
    /\ pc \in Parsing /\ rerr
    /\ err' = TRUE
    /\ pc' = "client"
    /\ UNCHANGED <<reader, block, obuf, net, issued, returned, faults>>

ReturnReply ==
    /\ pc \in Parsing /\ rstack = <<>> /\ reply # NULL
    /\ EmitReply
    /\ returned' = Append(returned, Value[reply])
    /\ pc' = "client"
    /\ UNCHANGED <<block, err, obuf, net, issued, faults>>

\* No reply yet: read on, flush the commands first, or return without one.
NoReply ==
    /\ pc \in Parsing /\ ~rerr
    /\ IF rstack = <<>> THEN buf = <<>> ELSE Incomplete
    /\ KeepReply
    /\ pc' = CASE pc = "awaited" -> "read"
               [] pc = "pending" /\ block -> "write"
               [] OTHER -> "client"
    /\ UNCHANGED <<block, err, obuf, net, issued, returned, faults>>

\* do redisBufferWrite while not done
BugWrite ==     \* once
    /\ pc = "write"
    /\ BufferWrite
    /\ pc' = IF err' THEN "client" ELSE "read"
    /\ UNCHANGED <<reader, block, wire, closed, served, issued, returned>>
Write ==
    /\ pc = "write"
    /\ BufferWrite
    /\ pc' = IF err' THEN "client" ELSE IF obuf' = <<>> THEN "read" ELSE "write"
    /\ UNCHANGED <<reader, block, wire, closed, served, issued, returned>>

Read ==
    /\ pc = "read"
    /\ BufferRead
    /\ pc' = IF err' THEN "client" ELSE "awaited"
    /\ UNCHANGED <<block, obuf, requests, closed, served, issued, returned>>

\* A client that does not block writes and reads when it likes.
ClientWrites ==
    /\ pc = "client" /\ ~block
    /\ BufferWrite
    /\ UNCHANGED <<reader, block, pc, wire, closed, served, issued, returned>>
ClientReads ==
    /\ pc = "client" /\ ~block
    /\ BufferRead
    /\ UNCHANGED <<block, pc, obuf, requests, closed, served, issued, returned>>
-----------------------------------------------------------------------------
(* The Redis server.                                                       *)

Execute ==
    /\ ~closed /\ Len(requests) >= CmdLen
    /\ requests' = SubSeq(requests, CmdLen + 1, Len(requests))
    /\ \E r \in Replies : served' = Append(served, r) /\ wire' = wire \o r.bytes
    /\ UNCHANGED <<reader, block, pc, err, obuf, closed, issued, returned, faults>>

Close ==
    /\ ~closed /\ MayFail(TRUE)
    /\ closed' = TRUE
    /\ UNCHANGED <<reader, block, pc, err, obuf, requests, wire, issued, served, returned>>

Library == Parse \/ ParseMiscounts \/ ReaderFails \/ ReturnReply \/ NoReply \/ Write \/ Read
Next ==
    \/ AppendCommand \/ GetReply \/ ClientWrites \/ ClientReads
    \/ Library \/ Execute \/ Close

\* The kernel runs the client, the server answers or closes, and no call has to fail.
FairSpec ==
    Init /\ [][Next]_vars /\ WF_vars(Library /\ faults' = faults) /\ WF_vars(Execute)
-----------------------------------------------------------------------------
(* Properties.                                                             *)

TypeOK ==
    /\ ReaderTypeOK
    /\ block \in BOOLEAN /\ err \in BOOLEAN /\ closed \in BOOLEAN
    /\ rerr => err \/ pc \in Parsing
    /\ pc \in Parsing \union {"client", "write", "read", "miscounted"}
    /\ issued \in 0..MaxCommands /\ faults \in 0..MaxFaults
    /\ served \in Seq(Replies) /\ Len(served) <= issued

\* Whatever the sizes of the writes and the appends between them, the commands
\* reach the server whole, once and in order (redisBufferWrite lines 1115-1129).
CommandsIntact ==
    LET pending == requests \o obuf
        waiting == issued - Len(served)
    IN  /\ Len(pending) = CmdLen * waiting
        /\ \A k \in 1..waiting, part \in 1..CmdLen :
               pending[CmdLen * (k - 1) + part] = <<Len(served) + k, part>>

\* redisGetReply goes on without a reply, or blocks, only if the bytes of the
\* next reply have not all arrived (processItem's early returns).
ReplyBytes(n) == FlattenSeq([i \in 1..n |-> served[i].bytes])
NextArrived ==
    /\ Len(returned) < Len(served)
    /\ Len(ReplyBytes(Len(returned) + 1)) + Len(wire) <= Len(ReplyBytes(Len(served)))
NoReplyOverlooked ==
    [][NoReply => ~NextArrived]_vars

\* The values returned are those the server sent, in the order of the commands,
\* also after an error and whatever the sizes of the reads (lines 1146-1174).
Queue == INSTANCE ReplyQueue WITH
    Values <- {r.value : r \in Replies},
    answers <- [i \in DOMAIN served |-> served[i].value]
Implements == Queue!Spec

\* A call comes back: no reply that was sent is waited for (lines 1157-1168).  Only
\* an array that counts what no int holds, or less than -1, may end it otherwise.
GetReplyReturns == (pc = "pending") ~> (pc \in {"client", "miscounted"})
=============================================================================
