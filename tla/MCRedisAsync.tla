---------------------------- MODULE MCRedisAsync ----------------------------
EXTENDS RedisAsync

\* With one bucket at first, y and x meet in one of two when z makes them four.
MCHash  == [c \in {"x", "y", "z"} |-> CASE c = "x" -> 1 [] c = "y" -> 3 [] c = "z" -> 2]
MCLists == {<<"x">>, <<"y", "x", "z">>}
=============================================================================
