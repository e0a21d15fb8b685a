---------------------------- MODULE MCRedisFormat ----------------------------
EXTENDS RedisFormat

Token1(kind, value) == [kind |-> kind, value |-> value]
Bytes(n) == [i \in 1..n |-> "b"]

\* Values that are empty, hold a space, or have lengths of one to three digits.
MCTokens == {
    Token1("byte", <<"a">>), Token1("space", <<>>), Token1("invalid", <<>>),
    Token1("specifier", <<>>), Token1("specifier", <<"b", " ">>),
    Token1("specifier", Bytes(8)), Token1("specifier", Bytes(91))}
MCFormats   == UNION {[1..n -> MCTokens] : n \in 0..4}
MCArguments == UNION {[1..n -> {<<>>, Bytes(9), Bytes(10), Bytes(100)}] : n \in 0..2}
                 \union {[i \in 1..10 |-> <<"a">>]}
=============================================================================
