--------------------------- MODULE MCRedisContext ---------------------------
EXTENDS RedisContext

Simple(type, str, integer) == [type |-> type, str |-> str, integer |-> integer, element |-> <<>>]
Array(elements) == [type |-> "array", str |-> <<>>, integer |-> 0, element |-> elements]
EOL == <<"CR", "LF">>
Of1 == <<"*", "1">> \o EOL
One == [bytes |-> <<":", "1">> \o EOL, value |-> Simple("integer", <<>>, 1)]
Nothing == [bytes |-> <<"$", "-", "1">> \o EOL, value |-> Simple("nil", <<>>, 0)]

\* A line that holds a CR, a string that holds a line end, arrays in an array, what is refused:
\* arrays as deep as the stack, and a byte that starts no reply; and arrays of more elements
\* than an int counts, and of a negative number.
MCReplies == {
    [bytes |-> <<"-", "E", "CR">> \o EOL, value |-> Simple("error", <<"E", "CR">>, 0)],
    [bytes |-> <<"$", "2">> \o EOL \o EOL \o EOL, value |-> Simple("string", EOL, 0)],
    Nothing,
    [bytes |-> <<"*", "0">> \o EOL, value |-> Array(<<>>)],
    [bytes |-> <<"*", "2">> \o EOL \o Of1 \o One.bytes \o Of1 \o Nothing.bytes,
     value |-> Array(<<Array(<<One.value>>), Array(<<Nothing.value>>)>>)],
    [bytes |-> Of1 \o Of1 \o Of1, value |-> Simple("refused", <<>>, 0)],
    [bytes |-> <<"x">>, value |-> Simple("refused", <<>>, 0)],
    [bytes |-> <<"*", "3">> \o EOL, value |-> Simple("refused", <<>>, 0)],
    [bytes |-> <<"*", "-", "2">> \o EOL, value |-> Simple("refused", <<>>, 0)]}
=============================================================================
