----------------------------- MODULE RedisReader -----------------------------
(***************************************************************************)
(* The reply reader of hiredis (src/hiredis/hiredis.c): the buffer it is   *)
(* fed, the stack of tasks that survives from one call to the next while a *)
(* reply is incomplete, and the reply object under construction.           *)
(*                                                                         *)
(* An sds string is a sequence of bytes, one string of one letter each, CR *)
(* and LF apart; its spare room is left out.  rstack holds the tasks from  *)
(* 0 to ridx, so ridx is Len(rstack) - 1.  An object is named by its place *)
(* in heap, NULL is 0, and an array points to its elements.                *)
(*                                                                         *)
(* The number of a line is read without overflow.  What an array counts is *)
(* stored in an int.                                                       *)
(*                                                                         *)
(* The definitions are the parts of redisReaderFeed and                    *)
(* redisReaderGetReply; RedisContext calls them.  A definition named Bug...*)
(* is a mistake one could make in the one that follows it.                 *)
(***************************************************************************)
EXTENDS CInt, Sequences, FiniteSets, FiniteSetsExt

CONSTANTS
    StackSize,      \* the tasks of rstack: 9
    DiscardAt       \* bytes consumed before they are cut off: 1024

ASSUME ReaderAssumption == StackSize \in Nat \ {0, 1} /\ DiscardAt \in Nat \ {0}

VARIABLES
    rerr,           \* err of the reader
    buf, pos,       \* bytes fed, and how many of them are consumed
    rstack,         \* tasks: type, elements, idx in the parent's array, obj
    reply, heap     \* the root object, the objects allocated

reader == <<rerr, buf, pos, rstack, reply, heap>>

NULL  == 0
Digit == LET ten == <<"0", "1", "2", "3", "4", "5", "6", "7", "8", "9">>
         IN  [d \in {ten[i] : i \in 1..10} |-> CHOOSE v \in 0..9 : ten[v + 1] = d]
TypeOf == [t \in {"-", "+", ":", "$", "*"} |->
            CASE t = "-" -> "error"  [] t = "+" -> "status" [] t = ":" -> "integer"
              [] t = "$" -> "string" [] t = "*" -> "array"]
Task == [type |-> "none", elements |-> -1, idx |-> 0, obj |-> NULL]
Object(type, str, integer, n) ==
    [type |-> type, str |-> str, integer |-> integer, element |-> [i \in 1..n |-> NULL]]
Nil == Object("nil", <<>>, 0, 0)

ReaderInit ==
    /\ rerr = FALSE /\ buf = <<>> /\ pos = 0
    /\ rstack = <<>> /\ reply = NULL /\ heap = <<>>

\* Frees what was built and stops reading for good.
SetReaderError ==
    /\ rerr' = TRUE
    /\ reply' = NULL /\ heap' = <<>>
    /\ buf' = <<>> /\ pos' = 0 /\ rstack' = <<>>
-----------------------------------------------------------------------------
(* Bytes.                                                                  *)

\* The first CR that an LF follows.
BugNewlines == {i \in pos + 1 .. Len(buf) - 1 : buf[i] = "CR"}
Newlines == {i \in pos + 1 .. Len(buf) - 1 : buf[i] = "CR" /\ buf[i + 1] = "LF"}
HasLine  == Newlines # {}
LineEnd  == Min(Newlines)
Line     == SubSeq(buf, pos + 1, LineEnd - 1)

\* -1 for what is no number; it ends at the first CR.
ReadLongLong(s) ==
    LET signed   == s # <<>> /\ s[1] \in {"-", "+"}
        last     == Min({i \in DOMAIN s : s[i] = "CR"} \union {Len(s) + 1}) - 1
        digits   == SubSeq(s, IF signed THEN 2 ELSE 1, last)
        value[i \in 0..Len(digits)] ==
            IF i = 0 THEN 0 ELSE 10 * value[i - 1] + Digit[digits[i]]
    IN  IF \E i \in 1..Len(digits) : digits[i] \notin DOMAIN Digit THEN -1
        ELSE IF signed /\ s[1] = "-" THEN -value[Len(digits)] ELSE value[Len(digits)]
-----------------------------------------------------------------------------
(* Tasks.                                                                  *)

Cur    == rstack[Len(rstack)]
IsRoot == Len(rstack) = 1

\* The tasks whose array is full are left; the next one reads any type.
BugMoveToNextTask(stack) ==     \* leaves one array only
    LET k == IF Len(stack) > 1 /\ stack[Len(stack)].idx = stack[Len(stack) - 1].elements - 1
             THEN Len(stack) - 1 ELSE Len(stack)
    IN  IF k < 2 THEN <<>>
        ELSE Append(SubSeq(stack, 1, k - 1), [Task EXCEPT !.idx = stack[k].idx + 1])
MoveToNextTask(stack) ==
    LET unfinished == {k \in 2..Len(stack) : stack[k].idx # stack[k - 1].elements - 1}
    IN  IF unfinished = {} THEN <<>>
        ELSE LET k == Max(unfinished)
             IN  Append(SubSeq(stack, 1, k - 1), [Task EXCEPT !.idx = stack[k].idx + 1])

\* create...Object: a new object becomes an element of the array it is part of.
Created(obj) ==
    LET grown == Append(heap, obj)
    IN  IF IsRoot THEN grown
        ELSE [grown EXCEPT ![rstack[Len(rstack) - 1].obj].element[Cur.idx + 1] = Len(grown)]

Build(obj, next, stack) ==
    /\ heap' = Created(obj)
    /\ reply' = IF IsRoot THEN Len(heap) + 1 ELSE reply
    /\ pos' = next
    /\ rstack' = stack
    /\ UNCHANGED <<rerr, buf>>
Done(obj, next) == Build(obj, next, MoveToNextTask(rstack))
-----------------------------------------------------------------------------
(* processItem, in two steps: the type byte, then the item.  oom says that *)
(* an object cannot be allocated.                                          *)

ReadType ==
    /\ Cur.type = "none" /\ pos < Len(buf)
    /\ buf[pos + 1] \in DOMAIN TypeOf
    /\ pos' = pos + 1
    /\ rstack' = [rstack EXCEPT ![Len(rstack)].type = TypeOf[buf[pos + 1]]]
    /\ UNCHANGED <<rerr, buf, reply, heap>>
ReadTypeFails ==
    /\ Cur.type = "none" /\ pos < Len(buf)
    /\ buf[pos + 1] \notin DOMAIN TypeOf
    /\ SetReaderError

ProcessLineItem(oom) ==
    /\ Cur.type \in {"error", "status", "integer"} /\ HasLine
    /\ IF oom THEN SetReaderError
       ELSE Done(IF Cur.type = "integer"
                 THEN Object("integer", <<>>, ReadLongLong(Line), 0)
                 ELSE Object(Cur.type, Line, 0, 0),
                 LineEnd + 1)

\* A string counts its bytes, so it may hold CR and LF.
BulkEnd == LineEnd + 1 + ReadLongLong(Line) + 2
BugHasBulk == HasLine /\ (ReadLongLong(Line) < 0 \/ BulkEnd < Len(buf))
HasBulk == HasLine /\ (ReadLongLong(Line) < 0 \/ BulkEnd <= Len(buf))
ProcessBulkItem(oom) ==
    /\ Cur.type = "string" /\ HasBulk
    /\ IF oom THEN SetReaderError
       ELSE IF ReadLongLong(Line) < 0 THEN Done(Nil, LineEnd + 1)
       ELSE Done(Object("string", SubSeq(buf, LineEnd + 2, BulkEnd - 2), 0, 0), BulkEnd)

BugTooDeep == Cur.type = "array" /\ Len(rstack) = StackSize + 1
TooDeep == Cur.type = "array" /\ Len(rstack) = StackSize
ProcessTooDeep == TooDeep /\ SetReaderError

\* An array with elements stays on the stack, below the task of its first.
Push(n) == Append([rstack EXCEPT ![Len(rstack)].elements = n,
                                 ![Len(rstack)].obj = Len(heap) + 1], Task)
HasCount == Cur.type = "array" /\ ~TooDeep /\ HasLine
Count    == ReadLongLong(Line)
\* The array has as many elements as an int holds of the count.
ProcessMultiBulkItem(oom) ==
    /\ HasCount
    /\ \/ oom /\ SetReaderError
       \/ ~oom /\ Count = -1 /\ Done(Nil, LineEnd + 1)
       \/ ~oom /\ Count = 0  /\ Done(Object("array", <<>>, 0, 0), LineEnd + 1)
       \/ ~oom /\ Count > 0  /\ ToInt(Count) > 0
          /\ Build(Object("array", <<>>, 0, ToInt(Count)), LineEnd + 1, Push(ToInt(Count)))

\* The array has no elements to point to, or not those it counts: the first one
\* is stored through NULL, or the client is given an array that is none.
Miscounted == HasCount /\ (Count < -1 \/ (Count > 0 /\ ToInt(Count) <= 0))

Item(oom) == ProcessLineItem(oom) \/ ProcessBulkItem(oom) \/ ProcessMultiBulkItem(oom)

\* The bytes of the item have not arrived.
Incomplete ==
    CASE Cur.type = "none"   -> pos = Len(buf)
      [] Cur.type = "string" -> ~HasBulk
      [] Cur.type = "array"  -> ~TooDeep /\ ~HasLine
      [] OTHER               -> ~HasLine
-----------------------------------------------------------------------------
(* redisReaderFeed and the ends of redisReaderGetReply.                    *)

Feed(bytes) ==
    /\ buf' = buf \o bytes
    /\ UNCHANGED <<rerr, pos, rstack, reply, heap>>

\* A task is set up when none is left over from the call before.
StartTask ==
    /\ rstack = <<>> /\ reply = NULL /\ buf # <<>>
    /\ rstack' = <<Task>>
    /\ UNCHANGED <<rerr, buf, pos, reply, heap>>

Discard ==
    /\ buf' = IF pos >= DiscardAt THEN SubSeq(buf, pos + 1, Len(buf)) ELSE buf
    /\ pos' = IF pos >= DiscardAt THEN 0 ELSE pos
KeepReply == Discard /\ UNCHANGED <<rerr, rstack, reply, heap>>
EmitReply ==
    /\ Discard
    /\ reply' = NULL /\ heap' = <<>>
    /\ UNCHANGED <<rerr, rstack>>

Value[id \in DOMAIN heap] ==
    LET obj == heap[id]
    IN  [type |-> obj.type, str |-> obj.str, integer |-> obj.integer,
         element |-> [i \in DOMAIN obj.element |-> Value[obj.element[i]]]]
-----------------------------------------------------------------------------
(* What the reader promises between any two steps.                         *)

ReaderTypeOK ==
    /\ rerr \in BOOLEAN /\ pos \in 0..Len(buf)
    /\ Len(rstack) <= StackSize
    /\ reply \in 0..Len(heap)
    /\ \A i \in DOMAIN heap : \A j \in DOMAIN heap[i].element :
            heap[i].element[j] \in 0..Len(heap)

\* Of the arrays under construction, the elements before the one a task is at
\* are there and those after it are not, whatever calls the reply is spread over
\* (moveToNextTask lines 330-353, and the parent pointers of create...Object).
BuiltInOrder ==
    \A k \in 2..Len(rstack) :
        LET elements == heap[rstack[k - 1].obj].element
        IN  /\ rstack[k].idx \in 0 .. rstack[k - 1].elements - 1
            /\ Len(elements) = rstack[k - 1].elements
            /\ \A j \in DOMAIN elements : elements[j] # NULL <=>
                   \/ j <= rstack[k].idx
                   \/ j = rstack[k].idx + 1 /\ rstack[k].obj # NULL

\* An array that is not under construction has all its elements, a reply that is
\* returned among them (moveToNextTask lines 338-346).
FinishedAreFull ==
    \A id \in DOMAIN heap :
        (\A k \in 1 .. Len(rstack) - 1 : rstack[k].obj # id) =>
            \A j \in DOMAIN heap[id].element : heap[id].element[j] # NULL

\* Every object belongs to the reply, at one place of it: its root is the oldest,
\* and the others are elements of one older array each.  So freeing the root frees
\* them all and none twice, also when an allocation or the protocol fails in the
\* middle (lines 186-210).
Places == UNION {{id} \X DOMAIN heap[id].element : id \in DOMAIN heap}
At(p)  == heap[p[1]].element[p[2]]
NoObjectLost ==
    /\ reply = IF heap = <<>> THEN NULL ELSE 1
    /\ \A id \in 2..Len(heap) : \E p \in Places : At(p) = id
    /\ \A p \in Places : At(p) # NULL =>
            p[1] < At(p) /\ \A q \in Places : At(q) = At(p) => q = p

\* The half-built reply is a whole: in order, and nothing beside it.  It does not
\* speak of an array that is Miscounted, which is not built.
ReplySound == BuiltInOrder /\ FinishedAreFull /\ NoObjectLost
=============================================================================
