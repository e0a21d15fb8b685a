----------------------------- MODULE RedisFormat -----------------------------
(***************************************************************************)
(* The formatting of a command (src/hiredis/hiredis.c):                    *)
(* redisvFormatCommand collects the words of a format with the values of   *)
(* its specifiers put in, redisFormatCommandArgv is given them, and both   *)
(* lay them out in a buffer whose size was computed before.                *)
(*                                                                         *)
(* A format is a sequence of tokens: a byte, a space, a specifier that is  *)
(* valid, with what it is replaced by (%s, %b, %% or a conversion of       *)
(* printf), or one that is not.  Bytes are strings, a digit is a number.   *)
(* A string pointer is a sequence of one string, or empty for NULL.  Sizes *)
(* are computed in ints, and the model ends in pc "overrun" where a        *)
(* command for which they are too small has left its buffer.               *)
(***************************************************************************)
EXTENDS CInt, Sequences, FiniteSets

CONSTANTS Formats, Arguments    \* sequences of tokens, of words

Tokens == [kind : {"byte", "space", "specifier", "invalid"}, value : Seq(STRING)]
ASSUME FormatAssumption ==
    Formats \subseteq Seq(Tokens) /\ Arguments \subseteq Seq(Seq(STRING))

VARIABLES
    pc,             \* "scan" or "count", "alloc", "copy", "done" or "overrun";
                    \* "err", "failed"
    format, words,  \* input: a format, or <<words>>
    c,              \* next token
    curarg, touched, argv, totlen,
    cmd, j,         \* bytes laid out, arguments counted or copied
    live            \* strings allocated

input == <<format, words>>
vars  == <<pc, input, c, curarg, touched, argv, totlen, cmd, j, live>>

Digits(n) ==    \* sprintf
    LET digits[i \in 0..n] == IF i < 10 THEN <<i>> ELSE Append(digits[i \div 10], i % 10)
    IN  digits[n]
EOL == <<"CR", "LF">>

BugIntlen(n) == IF n <= 10 THEN 1 ELSE Len(Digits(n))
Divisions(n) == \* by 10 until nothing is left
    LET len[i \in 0..n] == IF i < 10 THEN 1 ELSE 1 + len[i \div 10] IN len[n]
intlen(n) ==    \* of an int, with its sign
    IF ToInt(n) < 0 THEN 1 + Divisions(-ToInt(n)) ELSE Divisions(ToInt(n))
bulklen(len) == 1 + intlen(len) + 2 + len + 2

Init ==
    /\ \/ format \in Formats /\ words = <<>>
       \/ format = <<>> /\ words \in {<<a>> : a \in Arguments}
    /\ c = 1 /\ touched = FALSE /\ cmd = <<>> /\ j = 0
    /\ IF words = <<>>
       THEN pc = "scan" /\ curarg = <<<<>>>> /\ argv = <<>> /\ totlen = 0 /\ live = 1
       ELSE /\ pc = "count" /\ curarg = <<>> /\ argv = words[1] /\ live = 0
            /\ totlen = ToInt(1 + intlen(Len(argv)) + 2)

Token == format[c]
Scanning == pc = "scan" /\ c <= Len(format)
-----------------------------------------------------------------------------
(* redisvFormatCommand: the loop over the format.                          *)

NoMemory ==     \* goto err, with what was allocated in place
    /\ pc' = "err"
    /\ UNCHANGED <<input, c, curarg, touched, argv, totlen, cmd, j, live>>

\* A word is complete: it moves from curarg to argv.
PutArgument ==
    /\ argv' = Append(argv, curarg[1])
    /\ totlen' = ToInt(totlen + bulklen(Len(curarg[1])))

ScanSpace ==
    /\ Scanning /\ Token.kind = "space"
    /\ IF ~touched
       THEN c' = c + 1 /\ UNCHANGED <<pc, curarg, touched, argv, totlen, live>>
       ELSE /\ PutArgument
            /\ \/ /\ curarg' = <<<<>>>> /\ live' = live + 1
                  /\ touched' = FALSE /\ c' = c + 1 /\ UNCHANGED pc
               \/ /\ curarg' = <<>> /\ pc' = "err"          \* sdsempty fails
                  /\ UNCHANGED <<touched, c, live>>
    /\ UNCHANGED <<input, cmd, j>>

\* A byte, or the value of a specifier, which counts also when it is empty.
BugScanText ==
    /\ Scanning /\ Token.kind \in {"byte", "specifier"}
    /\ curarg' = <<curarg[1] \o Token.value>>
    /\ touched' = (touched \/ Token.value # <<>>) /\ c' = c + 1
    /\ UNCHANGED <<pc, input, argv, totlen, cmd, j, live>>
ScanText ==
    /\ Scanning /\ Token.kind \in {"byte", "specifier"}
    /\ curarg' = <<curarg[1] \o Token.value>>
    /\ touched' = TRUE /\ c' = c + 1
    /\ UNCHANGED <<pc, input, argv, totlen, cmd, j, live>>

ScanFails ==
    /\ Scanning
    /\ \/ Token.kind = "space" /\ touched       \* realloc
       \/ Token.kind = "invalid"
       \/ Token.kind \in {"byte", "specifier"} /\ Token.value # <<>>
    /\ NoMemory

ScanEnd ==
    /\ pc = "scan" /\ c > Len(format)
    /\ IF touched THEN PutArgument /\ UNCHANGED live
                  ELSE live' = live - 1 /\ UNCHANGED <<argv, totlen>>
    /\ curarg' = <<>>
    /\ pc' = "alloc"
    /\ UNCHANGED <<input, c, touched, cmd, j>>
ScanEndFails ==
    /\ pc = "scan" /\ c > Len(format) /\ touched
    /\ NoMemory
-----------------------------------------------------------------------------
(* The buffer.                                                             *)

\* redisFormatCommandArgv: the loop over the lengths.
Count ==
    /\ pc = "count" /\ j < Len(argv)
    /\ totlen' = ToInt(totlen + bulklen(Len(argv[j + 1])))
    /\ j' = j + 1
    /\ UNCHANGED <<pc, input, c, curarg, touched, argv, cmd, live>>
CountEnd ==
    /\ pc = "count" /\ j = Len(argv)
    /\ pc' = "alloc" /\ j' = 0
    /\ UNCHANGED <<input, c, curarg, touched, argv, totlen, cmd, live>>

\* The size of a format's command is complete only here.  malloc takes a negative
\* one for more than there is.
Alloc ==
    /\ pc = "alloc"
    /\ totlen' = IF words = <<>> THEN ToInt(totlen + 1 + intlen(Len(argv)) + 2) ELSE totlen
    /\ \/ /\ totlen' >= -1
          /\ cmd' = <<"*">> \o Digits(Len(argv)) \o EOL
          /\ pc' = "copy"
       \/ pc' = "err" /\ UNCHANGED cmd
    /\ UNCHANGED <<input, c, curarg, touched, argv, j, live>>

\* An argument of a format is freed once it is copied.
Copy ==
    /\ pc = "copy" /\ j < Len(argv) /\ Len(cmd) <= totlen
    /\ LET arg == argv[j + 1]
       IN  cmd' = cmd \o <<"$">> \o Digits(Len(arg)) \o EOL \o arg \o EOL
    /\ j' = j + 1
    /\ live' = IF words = <<>> THEN live - 1 ELSE live
    /\ UNCHANGED <<pc, input, c, curarg, touched, argv, totlen>>
Return ==       \* assert(pos == totlen)
    /\ pc = "copy" /\ j = Len(argv) /\ Len(cmd) = totlen
    /\ pc' = "done"
    /\ UNCHANGED <<input, c, curarg, touched, argv, totlen, cmd, j, live>>

\* What was copied last left the buffer.
Overrun ==
    /\ pc = "copy" /\ Len(cmd) > totlen
    /\ pc' = "overrun"
    /\ UNCHANGED <<input, c, curarg, touched, argv, totlen, cmd, j, live>>

BugErr ==       \* the word in hand is forgotten
    /\ pc = "err" /\ pc' = "failed"
    /\ live' = IF words = <<>> THEN live - Len(argv) ELSE live
    /\ UNCHANGED <<input, c, curarg, touched, argv, totlen, cmd, j>>
Err ==
    /\ pc = "err" /\ pc' = "failed"
    /\ live' = IF words = <<>> THEN live - Len(argv) - Len(curarg) ELSE live
    /\ UNCHANGED <<input, c, curarg, touched, argv, totlen, cmd, j>>

Next ==
    \/ ScanSpace \/ ScanText \/ ScanFails \/ ScanEnd \/ ScanEndFails
    \/ Count \/ CountEnd \/ Alloc \/ Copy \/ Return \/ Overrun \/ Err
Spec == Init /\ [][Next]_vars
-----------------------------------------------------------------------------
(* Properties.                                                             *)

\* The arguments are the words of the format: what stands between its spaces,
\* spaces in values counting as bytes (lines 706-869).
IsSpace(i) == i < 1 \/ i > Len(format) \/ format[i].kind = "space"
Text ==         \* since the last space
    LET text[i \in 0..Len(format)] == IF IsSpace(i) THEN <<>> ELSE text[i - 1] \o format[i].value
    IN  text
Ends == {i \in DOMAIN format : ~IsSpace(i) /\ IsSpace(i + 1)}     \* of words
Words(i) == Cardinality({e \in Ends : e <= i})
WordsOfFormat ==
    pc = "done" /\ words = <<>> =>
        Len(argv) = Cardinality(Ends) /\ \A i \in Ends : argv[Words(i)] = Text[i]

Bulk(n) == 1 + Len(Digits(n)) + 2 + n + 2
Laid(a) ==      \* bytes the first k arguments of a take
    LET laid[k \in 0..Len(a)] == IF k = 0 THEN 0 ELSE laid[k - 1] + Bulk(Len(a[k])) IN laid
CommandLen == 1 + Len(Digits(Len(argv))) + 2 + Laid(argv)[Len(argv)]

\* The buffer is filled to its last byte and not beyond: lengths of one, two and
\* three digits, no argument, empty ones.  That is promised of a command whose
\* length is an int; a longer one may leave its buffer (lines 667-684 and 877-890,
\* 945-966).
FitsBuffer ==
    pc \in {"copy", "done", "overrun"} /\ CommandLen <= IntMax =>
        /\ Len(cmd) <= totlen
        /\ j = Len(argv) => Len(cmd) = totlen

\* No string outlives the call, whatever fails (lines 871-908).
AllFreed == pc \in {"done", "failed"} => live = 0
=============================================================================
