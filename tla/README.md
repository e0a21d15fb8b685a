# A verification of yaul

[yaul](../src/README.md) is a UDP logging daemon: one datagram `[logname]message`
becomes one line of `<logpath>/<logname>.log`, or one element of a Redis list. This
directory holds TLA+ models of its code and of hiredis, the Redis client it carries, the
runs of TLC that check them, and proofs that TLAPS checks.

## The system

| part | state | operations |
|---|---|---|
| server, file logging (`yaul.c`) | `handles` (logname to stream), `lastfile`, four counters, stdio's buffers | `serverLoop`, `logMessage`, `logMessageFile`, `openLogfile`, `closeRandomFile`, `closeAllFiles`, `statistics`, `sig_hup`, `sig_int`, `sig_term` |
| start (`yaul.c`) | two processes, a pipe, the installed handlers | `main`, `initServer`, `daemonize_server` |
| server, Redis logging (`yaul.c`) | `redis_context` | `openRedis`, `logMessageRedis` |
| hash table (`hashtable/`) | buckets, chains of entries, size, count | create, insert (with expand), search, remove, change, count, destroy |
| its iterator | entry, entry before it, bucket | create, advance, remove, search |
| hiredis connection (`net.c`) | descriptor, `err`, flags | connect over TCP or a Unix socket, with a timeout, blocking or not; `redisFree` |
| hiredis context (`hiredis.c`) | output buffer, connection, `err` | append, write, read, `redisGetReply`, `redisCommand` |
| hiredis reader (`hiredis.c`) | input buffer, position, stack of tasks, reply under construction | feed, get reply |
| hiredis formatting (`hiredis.c`) | none between calls | `redisvFormatCommand`, `redisFormatCommandArgv` |
| hiredis asynchronous API (`async.c`) | flags, three lists of callbacks, two dictionaries of subscriptions | commands, subscriptions, event handlers, disconnect, free |
| hiredis dictionary (`dict.c`) | buckets and chains | add, replace, delete, find, expand |
| options, hash functions (`config.c`, `hash.c`) | none after the start | |

How they interact. The server is one thread: `serverLoop` waits in `recvfrom`, and
everything else is a call below it. `openLogfile` finds the stream of a logname through
three levels: `lastfile`, the hash table, and `fopen`. A `struct handlebuffer` is the
key, the value and the owner of one entry of the table, and `lastfile` is a second, raw
pointer to one of them. The signal handlers run inside any call of the loop and change
the same table. `daemonize_server` is the only place that installs them, so without `-d`
each of the three signals kills the server. With `-r` a line is two blocking commands of
hiredis, LPUSH and EXPIRE; a NULL for the first makes `openRedis` connect again.
`redisCommand` appends to the context's output buffer, `redisGetReply` writes it out, and
reads into the reader until a reply is whole. The asynchronous API sits on the same context
and reader and is driven by an event library; yaul does not use it.

What is hard. There is no lock and no blocked signal: the handler of SIGHUP frees
handles the loop is using. Eviction, the switch between files, flushing by a counter of
all files, and a statistics line that is itself a logged line interact over long
sequences of datagrams. Allocation and `fopen` fail in the middle of an operation. The
hash table moves entries between arrays, and the iterator removes under itself. Replies
come in pieces, and the reader's stack must survive each cut. A connection breaks between
two commands, or between a command and its reply. A client of the asynchronous API may
disconnect, free, subscribe and unsubscribe inside the callbacks that `async.c` runs.

## The modules

| module | models | states it keeps |
|---|---|---|
| `LogServer` | file logging with its signals | program counter, pool, streams with buffer and disk, counters |
| `Daemonize` | the start with `-d` | parent, child, pipe, handlers |
| `KeyMap` | what a table promises: a partial map (abstract) | the map |
| `HashTable` | the table and its iterator by their pointers; implements `KeyMap` | buckets, next fields, allocated entries, iterator |
| `RedisLog` | Redis logging, the connection, a Redis server that fails | program counter, context, both directions of the connection, lists |
| `CInt` | the type `int`: what a larger number becomes in one | |
| `RedisReader` | the reply reader: its actions, which `RedisContext` calls | buffer, position, stack of tasks, objects |
| `ReplyQueue` | what a connection promises: answers in the order of commands (abstract) | commands, answers, values returned |
| `RedisContext` | the context composed with the reader and a Redis server; implements `ReplyQueue` | output buffer, bytes on the wire, the reader |
| `RedisConnect` | connecting, and the end of a context | descriptors of the process, the context's fields |
| `Dict` | the dictionary: functions from one to the next | |
| `RedisAsync` | the asynchronous API composed with `Dict` and a Redis server | flags, lists of callbacks, dictionaries, connection |
| `RedisFormat` | the formatting of a command | position in the format, arguments, bytes laid out |
| `LogServer_proofs`, `Daemonize_proofs`, `HashTable_proofs`, `RedisLog_proofs`, `RedisContext_proofs`, `RedisConnect_proofs`, `RedisAsync_proofs`, `RedisFormat_proofs` | theorems | |
| `MC...` | instances for TLC | |

Definitions whose name starts with `Bug` are mistakes one could make in the definition
below them. No specification uses them; each was put in place of the correct definition
to see that a property notices.

### LogServer

`pc` names the library call the server makes next, in the order of the code:
`recv`; `open` (the comparison with `lastfile`, the flush of the file left behind and the
search); `pick`, `fclose`, `remove` (`closeRandomFile`); `fopen`, `insert`; `fprintf`;
`fflush`, with the decision on statistics that follows. Each call is an action, but for the
iterator and `rand()` in the loop of `closeRandomFile` (94-103), which are one. A signal
handler is one action between two calls: `closeAllFiles` as a whole, as the signal mask
of one handler does not matter to the state it leaves. `caller` tells a client's line from
the statistics, for `statistics` returns to the loop without a second test.

- A stream is named by its logname: `fopen` follows a failed search, so no two streams on
  one name are open together. `open`, `buf` and `disk` are the stream, what stdio holds
  back, and the file. `Fprintf` may write any prefix of the buffer: stdio's buffer fills
  when it likes.
- `lastfile` is a name, and `dangling` says that the `handlebuffer` behind it was freed.
  A comparison with freed memory may go either way (`OpenSame`, `Switches`), and a call on
  a closed stream crashes or has no effect (the `...Crash` actions); `misuse` records it.
- The options are constants' sets, one configuration per behaviour: `-f`, `-s`, `-m`, `-d`.
- The counters wrap at `UIntMod`. The number 2^32 is too large for TLC; the runs use a
  small modulus, and the theorems hold for every one.
- `received`, `clients`, `sinceStat`, `lost` and `hups` are history, for the properties.

Left out: times and formats of lines, `stat_files_switched` (it feeds only the text of the
statistics), an error of `recvfrom` (the loop continues: a stutter), parsing of the
logname, signals inside a library call or inside a handler, and running out of memory.

### Daemonize

The parent's `initServer`, `pipe`, `fork`, `close`, `read`, the child's `close`, `write`,
`close` and three calls of `signal`, one action each, every one that can fail may fail. A
process that ends closes its ends of the pipe; a write nobody can read is SIGPIPE. A
signal reaches either process at any moment, because `kill $(pidof yaul)` names both.

### HashTable and KeyMap

An entry is named by its key, because the client inserts a key only after a search missed
it. `table` maps buckets to the head of their chain, `next` is the field of an entry,
`entries` are the allocated ones. `hashtable_insert` is split into counting, expansion (one
step per entry moved), allocation and linking; `hashtable_remove` into finding, unlinking
and freeing. An allocation of an insertion may fail at each place that allocates; those of
`create_hashtable` and of the iterator succeed. `hashtable_destroy` is one step. `hashOf` gives the keys
any distribution over a set of hashes. `owed` and `seen` are the keys an iteration must
reach and has reached. A chain is what `Reachable` follows from a bucket's head: the smallest
set of entries that has the head and, with an entry, the next one.

`Implements` is the refinement: with `map` the value of every key in the chains of the
old and the new buckets, each step is a step of `KeyMap` or changes nothing; linking is
the insertion and unlinking the removal.

### RedisLog

The loop with `-r`: `lpush` and `expire` write a command, `lpushed` and `expired` wait for
its reply, `openRedis` connects again. `err` and `fd` are fields of `redis_context`;
`dropped` counts the sockets of contexts that `openRedis` replaced without `redisFree`. A
`redisCommand` on a context with an error fails at once (`Send`, `NullReply`). Commands and
replies are sequences, one per direction. The Redis server executes a command, refuses it
with an error reply, stops with its lists intact and starts again; the connection may break
with replies on their way, which then arrive or do not. A SIGHUP closes no file here, and
the kernel restarts the calls it interrupts, but for the `poll` of a connect, which then
fails like a timeout (`OpenRedisFails`). That the commands of a blocking context are whole and
their replies in order is what `RedisContext` shows of the layer below.

`acked` are the lines yaul takes for stored: those whose LPUSH got a reply, for line 389 tests
only that it is not NULL. `refused` are those Redis answered with an error, and `unanswered`
counts the LPUSHs without a reply since the last fault.

Left out: the day in a key, the time a TTL lasts, replies that are no protocol, memory that
runs out, a command the server reads from a connection that yaul has given up, and SIGPIPE,
for yaul writes once to a connection that has ended and reads its end before it writes
again.

### RedisReader, RedisContext and ReplyQueue

`RedisReader` works on bytes, because what can go wrong is where a reply is cut: `buf` and
`pos` are the reader's buffer, `rstack` its tasks, and `reply` and `heap` the object under
construction, an array pointing to its elements. `ReadType`, `ProcessLineItem`,
`ProcessBulkItem` and `ProcessMultiBulkItem` are the two halves of `processItem`;
`MoveToNextTask` leaves every array that is full. `SetReaderError` frees what was built.
A payload stands for any of its length; the spare room of an sds string is left out, and so is
a number that overflows a long. What an array counts is a long that `createArrayObject` and
the task take as an int: `ToInt` is that conversion, and where it leaves no elements to store
the first one in, or the count was negative, the model ends (`ParseMiscounts`).

`RedisContext` adds the output buffer, in units of a command's parts, and the two directions
of the connection. `redisBufferWrite` and `redisBufferRead` take any number of units or bytes
and may fail; `redisGetReply` is a small machine: parse what is there, write until all is
written, read and parse until a reply is whole. A context is blocking or not, chosen at the
start; memory may run out at each object; the server may close at any time, and answers with
any of `Replies`, of which some are refused: arrays deeper than the stack, and a byte that
starts no reply. `ReplyQueue` is the promise: the client is given the answers in the order of
its commands, none twice and none before it was sent. `Implements` shows that the context
keeps it, comparing the value built from the bytes with the value the server meant.

### RedisConnect

One action per system call of `redisContextConnectTcp` and `redisContextConnectUnix`, each of
which may fail: resolving, `socket`, `fcntl`, `connect` (at once, in progress, unreachable
or failing), the computation of the timeout, `poll`, `getsockopt`, `fcntl` again and
`setsockopt`. Then the client's part: `redisSetTimeout`, the late failure that
`__redisAsyncHandleConnect` finds, and `redisFree`. `open` are the descriptors hiredis made,
`others` those of the rest of the process; a number is given out as the lowest one free, so
that closing a number twice closes somebody else's file (`foreign`). The arithmetic of
`redisContextWaitReady` wraps at `LongMax`. `SO_REUSEADDR` and the other options of the
socket do not exist here.

### RedisAsync and Dict

`Dict` has the dictionary as a record and its functions as operators: chains with their head
first, replacing in place, growing by linking every entry anew in the order of the old
table. `RedisAsync` has the flags and the lists of `redisAsyncContext`. Replies are whole; `wire`
are those sent, `inbox` those the reader holds. A callback is the number of the command it came
with, and `ran` collects what it was given, NULL included. `callback` and `nullreply` are the
states in which a callback is running and the client may call every function again: there
`redisAsyncDisconnect` and `redisAsyncFree` only set a flag, and the code looks at it once
the callback returns. `freeing` runs the callbacks that are left, lists first. Assertions
are the state `aborted`, and `undefined` is a call through a callback nobody gave.

Two rules bind the client, as the code needs both: it issues nothing between an UNSUBSCRIBE
and its last reply, and unsubscribes only what it subscribed to, naming nothing twice. Without
the first, the assertion of `async.c:411` fails for a command whose reply comes after the last
unsubscription; without the second, a reply names a channel that is in no dictionary, and
`async.c:339` leaves `cb` as it was. MONITOR, UNSUBSCRIBE without
arguments (`async.c:566`) and an event library with a bug are left out.

### RedisFormat

A format is a sequence of tokens: a byte, a space, a specifier with the bytes that replace it,
or an invalid specifier. The scan moves a word from `curarg` to `argv` at a space that
follows something (`touched`), adds up `totlen` as it goes, and the copy fills the buffer.
`redisFormatCommandArgv` counts its arguments first (`Count`). `intlen` and `totlen` are ints, as
in the code, whatever `size_t` or `%zu` goes through them: a command longer than an int may
find too small a buffer, which ends in `overrun`, or miss the assertion at the end, where the
model stops. `live` counts the strings allocated; memory may run out at each allocation. Left out: which
characters a specifier of `printf` consists of, one that the format ends in, and one that is
longer than the code's buffer for it.

## The runs

| run | question | bounds | expected |
|---|---|---|---|
| `logserver` | all the safety properties of file logging | 4 lognames (three alike and `yaul.stat`), 4 datagrams, 2 SIGHUPs, `-f` 0..3, `-s` 0..2, `-m` 0..2, with and without `-d`, counters modulo 5 | pass, 1.2 million states |
| `logserver_live` | the server comes back to `recvfrom`; with `-f 1` a line reaches its file | 4 lognames, 3 datagrams, 1 SIGHUP, `-f` 1 and 2, `-s` 0 and 2, `-m` 1 and 2, no symmetry | pass, 95 thousand states |
| `stale_handle` | does `openLogfile` return a stream of the table? | 3 datagrams, 1 SIGHUP or none, one value of each option | violated |
| `hashtable` | pointers, count, iterator, and the map | 4 keys, 3 hashes, sizes 1, 2 and 5 | pass, 66 thousand states |
| `daemonize` | the start ends, and tells the truth | 4 signals | pass, 187 states |
| `redis_log` | lines on a Redis server that fails: not doubled, not taken for stored unless refused, one unanswered and one socket lost per fault | 2 lognames, 3 datagrams, 3 faults, 3 sockets, `-t` 0 and 1, `-s` 0 and 2 | pass, 2.1 million states |
| `keeps_running` | does the server outlive its connection? | as `redis_log`, 1 fault | violated |
| `redis_context` | replies cut anywhere are parsed, returned in order and not waited for twice | 2 commands of 2 units, 9 kinds of reply, 1 fault, a stack of 3, an int to 2, bytes cut off at 6, blocking and not | pass, 139 thousand states |
| `redis_connect` | descriptors, errors and the wait | 2 addresses, 3 descriptors, 27 timeouts, a long to 9999, an int to 5000 | pass, 16 thousand states |
| `redis_async` | every callback runs as often as it should | 2 commands or subscriptions, 3 channels and patterns, 1 message, 1 fault | pass, 493 thousand states |
| `clean_disconnect` | has a clean disconnect no callback pending? | as `redis_async`, no fault, no message | violated |
| `redis_format` | words, size and memory of a command | formats of 4 tokens, up to 10 arguments, lengths of 0 to 100, an int to 127 | pass, 38 thousand states |

Why the bounds are enough. Three lognames of clients and a pool of two are what it takes to evict a
file that is neither the one in use nor the one wanted, and to want it again; four
datagrams with their statistics lines open, evict, open again and go back. `-f` 3 leaves a
line waiting while the file is switched and the counter wraps. Two SIGHUPs hit the same
stream twice. In the table, the load limits of 1, 2 and 5 buckets are 1, 2 and 4, so four
keys make it grow twice and once more fail to; hashes 0, 1 and 5 collide in one size and
part in another; a chain of four has a head, a middle and an end. The start has no data,
and four signals can reach each process at two points of it. For Redis, one fault loses a
connection, the second the server it connects to again, the third meets the line after
the recovery; three sockets are what two reconnections need, so that the third fails.

For the reader, the replies hold a CR alone in a line, a string with a line end in it, nil, an
empty array, and an array whose two elements are arrays, so that the end of the first leaves
one level and the end of the second leaves two, a count of 3 where an int ends at 2, and a
negative one; the longer replies pass the point where consumed bytes are cut off, inside a reply and with a part of
the next one behind it. Two units
per command are what a partial write needs. For the connection, the timeouts lie around a
whole millisecond and at both ends of a long and an int. For the asynchronous API, two
subscriptions share channels, one list makes the dictionary grow twice with a bucket of two
entries on the way; a command and a subscription put one callback in each kind of list, and
the message and the fault may come before, between and after their replies. For formats, four tokens have an empty value, a value with a space and a value that makes a length
of three digits next to each other, and ten arguments make their number two digits; commands of more than 127 bytes are
too long for the int of the instance.

### Fairness

- `LogServer`: `FairSpec` assumes that the kernel keeps running the server (weak fairness of its own
  steps) and that `rand()` does not name the entry of `lastfile` for ever although another is
  in the table (strong fairness of `Pick`: the turn that picks again leaves the state alone,
  and a draw that can succeed again and again does). Nothing is assumed of clients or signals.
- `Daemonize`: weak fairness of both processes.
- `RedisContext`: weak fairness of the library's steps that are no fault, and of the server's
  answer, which a server that closed does not owe. No call has to fail.
- `RedisAsync`: weak fairness of the library, of callbacks that return, and of the server; strong
  fairness of the events, because reading and writing take turns and an event loop whose
  socket is ready again and again handles it. Only an event that gets on counts: writing all
  there is, or reading a whole reply.
- `RedisConnect`, `RedisFormat`, `HashTable` and `RedisLog` assume nothing. The last claims no liveness:
  `redisSetTimeout` is never called, so a Redis server that hangs blocks yaul for as long as
  it likes.

## What the code does not do

Three runs end in a violation of something the repository says:

- `stale_handle` (`yaul.c:302`): after a SIGHUP, which logrotate sends (`README.md:72`),
  the next datagram for the file used last is written to a closed stream of a freed buffer.
- `keeps_running` (`yaul.c:393`): the connection ends between LPUSH and EXPIRE, and
  `freeReplyObject` reads a NULL reply. `yaul.c:227` says errors are handled "to keep server
  running if connection fails".
- `clean_disconnect` (`async.c:371`): after `redisAsyncDisconnect`, a read that completes no reply,
  or some of several, finds the output buffer empty and disconnects at once, into the
  assertion of line 289 that no callback is pending.

What else the models show of the code, each in a guard, a premise or an exception of a
property:

- a SIGTERM between lines 105 and 107 of `yaul.c` closes the victim's stream a second time, which may
  abort the process with lines in stdio (`HandlerCrash`, an exception of `SoundWithoutHup`);
- when `fopen` fails, lines 327-337 free `newfile` and `lastfile` and read them: what stdio holds may
  be lost (`FopenFailsCrash`, another exception);
- without `-d` any of the three signals kills the server, and costs the lines that `-f` above 1
  holds back (`KilledBySignal`), so `ExitSavesAll` speaks of a server with `-d`;
- a SIGHUP inside `closeRandomFile` makes `yaul.c:97` divide by zero (`PickNone`), and one inside
  a function of the hash table frees entries which that function goes on to use;
- "Process daemonized" is printed before the handlers are installed (`yaul.c:194`), so a SIGHUP in
  between kills a server that was said to run (`StopIsClean` speaks of one that serves);
- `OpenBound` allows two files where `-m` asks for one or none: `closeRandomFile` evicts nothing
  while one file is open;
- a list whose LPUSH was executed but not answered, or whose EXPIRE was refused, has no TTL
  (`yaul.c:391`), which `README.md:34` counts from the last line on;
- an error reply to LPUSH is taken for success (`yaul.c:389`): such lines, while Redis loads its
  data for example, are counted and lost in any number (`refused` in `ListsTrue`);
- each reconnection leaks a socket (`yaul.c:232`): `FaultCostsOne` allows one per fault, and promises
  a connection only while there is one left;
- the count of an array goes through an int (`hiredis.c:474`, 485, `hiredis.h:107`) and may be negative
  (`hiredis.c:144`): the first element is then stored through NULL, or the client is given an array
  that is none (`ParseMiscounts`; `ReplySound` does not speak of it);
- the size of a command is an int (`hiredis.c:668`, 694, 943), though its lengths are `size_t`: a
  longer one may leave its buffer (`Overrun`; `FitsBuffer` speaks of lengths that an int holds);
- the fallback of `hashtable_expand` (`hashtable.c:106`) clears memory through an uninitialised
  pointer (`ExpandRealloc`);
- a timeout that `net.c:138` refuses leaves `err` unset, although `hiredis.c:1013` says
  that it is set on an error (the exception of `ErrTellsFailure`);
- a connection refused after `connect` returned is closed by `redisCheckSocketError` and again by
  `redisFree`, when the number may be another file's (the exception of `ClosesItsOwn`), and
  `redisFree` takes descriptor 0 for none (`hiredis.c:1004`, the exception of `NoSocketLeaks`);
- in subscribed mode the error reply to a command the server does not allow there ends the
  connection: the callback that `async.c:580` put aside for it gets NULL only (`ProcessError`).

## What is proved

Every theorem is of the whole specification, for every value of the constants that its module's
assumptions allow: any finite set of lognames, any options, any width of the counters, any
number of datagrams, signals, faults, sockets, addresses and descriptors.

| module | theorem | property | inductive invariant |
|---|---|---|---|
| `LogServer_proofs` | `TypeCorrect` | `TypeOK` | itself |
| | `PoolStaysOpen`, `LastStaysPooled`, `PoolStaysSound` | `PoolIsOpen`, `LastIsPooled`, `PoolSound` | `PoolInv`: besides the two, the victim of an eviction is in the table and is not the file wanted, the name being opened is not in it, and a dangling `lastfile` is no entry |
| | `OpenStaysBounded` | `OpenBound` | `RoomInv`: at the calls before `fopen` there is room for one more file, for eviction removed one or the table held at most one |
| | `UnflushedStaysLast`, `UnflushedStaysBounded`, `FlushingKeepsUp` | `UnflushedOnlyLast`, `UnflushedBound`, `FlushKeepsUp` | `UnflushedInv`: on the way from `open` to `fprintf` no other file keeps lines; `HeldBound`: the lines held by the last file are at most the remainder of the counter, which wraps to 0 |
| | `SoundUntilHup` | `SoundWithoutHup` | `SafeInv`: while no SIGHUP came, the victim of an eviction is an entry until it is removed, and the file written to is that of the line in hand |
| | `LinesWrittenOnce` | `WrittenOnce` | `LinesInv`: the line in hand is the newest of its log and lost to no stream yet; `SafeInv` says that the stream it goes to is that log's |
| | `ExitKeepsLines` | `ExitSavesAll` | `ExitInv`: a stream that holds lines back is open while the server runs, and after `exit` none holds any |
| | `StatisticsRight` | `StatsRight` | `AccountInv`: the difference of the counters is the table but for the victim already closed, between any two calls; `EveryInv`: the datagrams since the last statistics line are at most the remainder of the counter, but for the one in hand |
| `Daemonize_proofs` | `StartTypes`, `NoServerAfterFailure`, `StopsCleanly` | `TypeOK`, `FailureLeavesNoServer`, `StopIsClean` | `StartInv`: before its write the child holds an end of the pipe that can be written, after it the byte is in the pipe until the parent reads it, and the handlers are installed in the order of the calls |
| `HashTable_proofs` | `HashTypeCorrect`, `HashChainsSound` | `TypeOK`, `ChainsSound` | `HashInv`: every allocated entry is in one chain, of the bucket of its hash, in the old or the new buckets, or in hand (`BucketsInv`, `EntriesInv`); no chain runs into itself (`StraightInv`); the count is exact but for an insertion under way (`CountInv`); what a call knows of its arguments at each step still holds (`StagesInv`) |
| | `HashIteratorSound`, `HashReachesOnce` | `IteratorSound`, `ReachesOnce` | `IteratorInv`: the iterator's entry, the one before it and its bucket agree; what it owes is what it has seen and what lies ahead, in its chain and in later buckets, and of that it has seen its own entry only |
| | `HashImplementsMap` | `Implements` | with `HashInv`, linking is the insertion, unlinking the removal, and any other step leaves the map |
| `RedisLog_proofs` | `LogTypes`, `ListsStayTrue` | `TypeOK`, `ListsTrue` | `LogInv`: the connection carries one command or its reply (`OneCommand`), and nothing once it is given up; a line on its way is newer than all that are stored, and stored or refused once it is answered (`InFlight`) |
| | `FaultsCostOne` | `FaultCostsOne` | `CostInv`: once an LPUSH went unanswered the connection is new or about to be (`Recovering`), and a broken socket that is still held is one of those the faults account for |
| `RedisContext_proofs` | `ContextTypeCorrect`, `ContextReplySound` | `TypeOK`, `ReplySound` | `ReaderInv`: the tasks on the stack are a tower, each an element of the array of the task below, which holds as many elements as were read; every object is held at one place, the arrays left behind are full |
| | `ContextCommandsIntact` | `CommandsIntact` | itself, with the types: what was read, what is on its way and the output buffer, put together, are the commands that follow those served |
| `RedisConnect_proofs` | `ConnectTypes`, `DescriptorsStaySound`, `FailuresAreTold`, `WaitsAsAsked` | `TypeOK`, `DescriptorsSound`, `ErrTellsFailure`, `WaitsLongEnough` | `ConnectInv`: the properties and `Stages`, what is set before and after the context is connected; `MsecEnough` is the arithmetic |
| `RedisAsync_proofs` | `ReplaceSound`, `DeleteSound` | what `dictReplace` and `dictDelete` do to any dictionary that `DictOK` holds of | none: they are facts of functions, from what moving the entries one by one keeps |
| | `TypesCorrect`, `BoundCorrect`, `CallbacksCorrect`, `RepliesCorrect` | `TypeOK`, `BoundToLast`, `CallbacksOnce`, `RepliesExpected` | `Consistent`: the callbacks wait in the order of their commands, each for a reply or a request under way (`Queue`, `Awaited`); of two replies under way the later is that of a later command, and what is pushed comes after the answers of the commands issued before the subscription (`InOrder`); the client is subscribed to what the server serves, to what it asked for, and to what it does not know yet that it left (`Subscriptions`); at the end, what a subscription was told and what is still bound to it add up to its subscriptions (`Ended`) |
| `RedisFormat_proofs` | `FormatWords` | `WordsOfFormat` | `Parsed`: the arguments are the words that end before the token in hand, and `curarg` is the text since the last space |
| | `FormatFitsBuffer` | `FitsBuffer` | `Sized`: `totlen` is the size of the arguments collected, then of the command, and the bytes laid out are the header and the first `j` of them, all as long as the command fits an int; `IntlenIsDigits` is the arithmetic |
| | `FormatAllFreed` | `AllFreed` | `Owned`: the strings allocated are the word in hand and the arguments not yet copied |

The properties alone are not inductive. `PoolIsOpen`, for example, survives `RemoveVictim`
only because the victim is an entry, and `Insert` only because the name was not one; the
search and the insertion are several calls apart, and SIGHUP may come between them. `ListsTrue`
survives `LpushReply` only because the line answered is in its list or was refused, which was
settled steps before by the server, and only because no other reply can be first in the connection. In the
table, an insertion links its entry several steps after the search that missed the key, and
`StagesInv` is what keeps it missing; in the reader, a level of the stack is left only when its
array is full, which needs `Tower` to say how full each one below is. `AnsweredOnce` survives
`ProcessReply` only if the reply in hand is that of the callback at the head of the list, which
is a fact of the requests and replies on both directions of the connection: no reply
carries the name of its command, and only the order of the two queues joins them.

What is defined by recursion is proved about by induction on the natural numbers, which
`LeastNatural` and `Induction` (or `InductionOnNat`) derive from the well-foundedness of `<`;
`Steps` in `RedisAsync_proofs` does so for a set that has 0 and with a number the next one.
`RecursionOnNat` and `StepByStep` say that a function defined from its values at smaller numbers
exists. So a resize keeps every entry of a dictionary of any size, `intlen` and `Digits` agree
for every number an int holds, and `readLongLong` ends for every line.

Only model-checked:

- liveness (`BackToRecv`, `LineReachesDisk`, `StartSettles`, `GetReplyReturns`, `DisconnectEnds`),
  which needs fairness and is beyond the prover;
- `RedisContext`'s `Implements` and `NoReplyOverlooked`: they compare the bytes of a reply with the value
  the server meant, for the replies of the instance; the theorems above take any bytes.

## Not modelled

- Parsing of a datagram: the `sscanf` of `logMessage` splits bytes into a logname and a text and
  keeps no state; its result is the input of `Recv`. So `yaul.c:423`, which leaves the newline
  in the text when less than two parts are found, is in no property.
- Options (`config.c`) are assigned once, and `LogServer` takes every combination; hash functions
  (`hash.c`) are arithmetic, and `HashTable` and `Dict` take the hashes as constants.
- The composition of the pool with a `hashtable_insert` that runs out of memory (`yaul.c:323`):
  `LogServer` takes the insertion to succeed.
- The walk of `hashtable_destroy`, failing mallocs of `create_hashtable` and of the iterator, and
  what `hashtable_expand` does after line 106.
- In hiredis: a number that overflows a long, and an input buffer of 2 GB or more, whose positions
  `seekNewline` keeps in an int.
- MONITOR, UNSUBSCRIBE without arguments, the adapters to event libraries, and the rest of `sds.c`: strings without state of their own.
- The init script, `hashtable_powers.c` (which no target builds), the examples and the test
  programs; `SO_REUSEADDR`, which lets two servers bind one port (the kernel's behaviour).
