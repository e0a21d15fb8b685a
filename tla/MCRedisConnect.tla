--------------------------- MODULE MCRedisConnect ---------------------------
EXTENDS RedisConnect

\* Around a whole millisecond, the largest long and int, and what is refused.
MCTimeouts ==
    [sec: {0, 1, 5, 9}, usec: {0, 1, 999, 1000, 999001, 1000000}]
    \union {[sec |-> 10, usec |-> 0], [sec |-> 0, usec |-> 1000001], [sec |-> -1, usec |-> 0]}
=============================================================================
