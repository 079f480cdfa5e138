------------------------------ MODULE MCValues ------------------------------
EXTENDS Values, TLC

CONSTANTS k1, k2, text, object, b

Integer(n) == [type |-> "int", of |-> n]
Str == [type |-> "str", of |-> text]
Object == [type |-> "object", of |-> object]
ByteArray == [type |-> "bytearray", of |-> b]
Tuple(items) == [type |-> "tuple", of |-> items]

\* All statements of up to two parameters, and of three: numbers with gaps, out
\* of order, jumping back to a nameless or a named parameter, repeated names.
MCTokens ==
    {Nameless, Numbered(1), Numbered(2), Numbered(3), Named(":", k1), Named("$", k1),
     Named(":", k2)}
MCSqls ==
    UNION {[1 .. n -> MCTokens] : n \in 1 .. 2} \cup
    {<<Nameless, Nameless, Nameless>>, <<Numbered(2), Nameless, Numbered(1)>>,
     <<Nameless, Numbered(1), Nameless>>, <<Numbered(3), Numbered(1), Numbered(2)>>,
     <<Named(":", k1), Named(":", k2), Named(":", k1)>>,
     <<Named(":", k1), Numbered(1), Named(":", k2)>>}

\* An integer that fits, one that is cut, one that is refused, and the rest.
MCItems == {Integer(1), Integer(IntLimit), Object}
MCArguments ==
    {NoValues, NoneValue, Str, Integer(-WordLimit), Integer(WordLimit), ByteArray}
      \cup {Tuple(items) : items \in UNION {[1 .. n -> MCItems] : n \in 0 .. 2}}
      \cup {Tuple(<<Str, Integer(2), ByteArray>>),
            [type |-> "list", of |-> <<ByteArray, Integer(1), NoneValue>>],
            [type |-> "dict", of |-> [key \in {k1} |-> ByteArray]]}
      \cup {[type |-> "dict", of |-> d] :
                d \in UNION {[keys -> MCItems \cup {Str}] : keys \in {{k2}, Key}}}
=============================================================================
