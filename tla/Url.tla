-------------------------------- MODULE Url --------------------------------
(***************************************************************************)
(* URLs: classes Url and UrlQuery (url.cc).  A string is a sequence of     *)
(* character codes.                                                        *)
(***************************************************************************)
EXTENDS Integers, Sequences, SequencesExt

Byte == 0..255
Percent == 37   Ampersand == 38   Plus == 43    Slash == 47
Colon   == 58   Equals    == 61   Question == 63   At == 64

IsAlNum(c) == c \in (48..57) \cup (65..90) \cup (97..122)
IsUnreserved(c) == IsAlNum(c) \/ c \in {45, 46, 95, 126}                 \* - . _ ~
IsSubDelim(c) == c \in {33, 36, 38, 39, 40, 41, 42, 43, 44, 59, 61}      \* !$&'()*+,;=
IsPathChar(c) == IsUnreserved(c) \/ IsSubDelim(c) \/ c \in {Percent, Slash, Colon, At}
IsQueryChar(c) == IsPathChar(c) \/ c = Question

---------------------------------------------------------------------------
\* Percent encoding

HexDigit(n) == IF n < 10 THEN 48 + n ELSE 55 + n

HexDigits == (48..57) \cup (65..70) \cup (97..102)
HexToDecimal(c) == CASE c \in 48..57 -> c - 48 [] c \in 65..70 -> c - 55 [] OTHER -> c - 87

EncodeImpl(raw, shouldEncode) ==
    FlattenSeq([i \in DOMAIN raw |->
                   IF raw[i] \in shouldEncode
                   THEN <<Percent, HexDigit(raw[i] \div 16), HexDigit(raw[i] % 16)>>
                   ELSE <<raw[i]>>])

EncodePath(s) == EncodeImpl(s, {c \in ToSet(s) : ~IsPathChar(c) \/ c \in {Percent, Plus}})

\* Mutant: "%" is a legal character of a query.
EncodeQueryLegal(s) == EncodeImpl(s, {c \in ToSet(s) : ~IsQueryChar(c) \/ c = Plus})

EncodeQuery(s) == EncodeImpl(s, {c \in ToSet(s) : ~IsQueryChar(c) \/ c \in {Percent, Plus}})

\* Decode() succeeds: all ASCII, and two hexadecimal digits follow each "%".
Decodable(s) ==
    \A i \in DOMAIN s :
        /\ s[i] <= 127
        /\ s[i] = Percent => i + 2 <= Len(s) /\ s[i+1] \in HexDigits /\ s[i+2] \in HexDigits

Decode(s) ==
    LET from[i \in 1..Len(s) + 1] ==
            IF i > Len(s) THEN <<>>
            ELSE IF s[i] = Percent
                 THEN <<16 * HexToDecimal(s[i+1]) + HexToDecimal(s[i+2])>> \o from[i+3]
                 ELSE <<s[i]>> \o from[i+1]
    IN  from[1]

DecodeUnsafe(s) == IF Decodable(s) THEN Decode(s) ELSE s

---------------------------------------------------------------------------
\* The parts of a URL

\* find(), 0 for npos
Find(s, c) == SelectInSeq(s, LAMBDA d : d = c)
FindString(s, t) ==
    SelectInSeq([i \in DOMAIN s |-> i + Len(t) - 1 <= Len(s)
                                    /\ SubSeq(s, i, i + Len(t) - 1) = t], LAMBDA b : b)

Before(s, i) == SubSeq(s, 1, i - 1)
From(s, i) == SubSeq(s, i, Len(s))

SchemeEnd == <<Colon, Slash, Slash>>

\* Url::Parse
Parse(str) ==
    LET p      == FindString(str, SchemeEnd)
        rest   == IF p = 0 THEN str ELSE From(str, p + 3)
        slash  == Find(rest, Slash)
        end    == IF slash # 0 THEN slash ELSE Find(rest, Question)
        server == IF end = 0 THEN rest ELSE Before(rest, end)
        tail   == IF end = 0 THEN <<>> ELSE From(rest, end)
        q      == Find(tail, Question)
        colon  == Find(server, Colon)
    IN  [scheme |-> IF p = 0 THEN <<>> ELSE Before(str, p),
         host   |-> IF colon = 0 THEN server ELSE Before(server, colon),
         port   |-> IF colon = 0 THEN <<>> ELSE From(server, colon + 1),
         path   |-> IF q = 0 THEN tail ELSE Before(tail, q),
         query  |-> IF q = 0 THEN <<>> ELSE From(tail, q + 1)]

AppendPath(path, piece, encode) ==
    LET text == IF encode THEN EncodePath(piece) ELSE piece IN
    CASE piece \in {<<>>, <<Slash>>} -> path
      [] path \in {<<>>, <<Slash>>} /\ piece \notin {<<>>, <<Slash>>} ->
             (IF Head(piece) = Slash THEN <<>> ELSE <<Slash>>) \o text
      [] OTHER ->
             CASE Last(path) = Slash /\ Head(piece) = Slash -> Front(path) \o text
               [] Last(path) # Slash /\ Head(piece) # Slash -> path \o <<Slash>> \o text
               [] OTHER -> path \o text

AppendQuery(query, key, value) ==
    (IF query = <<>> THEN <<>> ELSE query \o <<Ampersand>>)
        \o EncodeQuery(key) \o <<Equals>> \o EncodeQuery(value)

---------------------------------------------------------------------------
\* Query parameters

\* find_first_of() from position i on; the end for npos
FindFrom(s, c, i) ==
    LET j == SelectInSubSeq(s, i, Len(s), LAMBDA d : d = c)
    IN  IF j = 0 THEN Len(s) + 1 ELSE j

HasKey(kv)    == Find(kv, Equals) # 0
Parameter(kv) == [key   |-> DecodeUnsafe(Before(kv, Find(kv, Equals))),
                  value |-> DecodeUnsafe(From(kv, Find(kv, Equals) + 1))]

\* UrlQuery(query): the parameters, in order; what has no "=" is left out.
UrlQuery(query) ==
    LET from[i \in 1..Len(query) + 2] ==
            IF i > Len(query) + 1 THEN <<>>
            ELSE LET j  == FindFrom(query, Ampersand, i)
                     kv == SubSeq(query, i, j - 1)
                 IN  (IF HasKey(kv) THEN <<Parameter(kv)>> ELSE <<>>) \o from[j + 1]
    IN  from[1]

\* UrlQuery::Get
Get(parameters, key) ==
    LET i == SelectInSeq(parameters, LAMBDA p : p.key = key)
    IN  IF i = 0 THEN <<>> ELSE parameters[i].value
=============================================================================
