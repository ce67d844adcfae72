------------------------ MODULE RequestParserProofs ------------------------
(***************************************************************************)
(* The parser on a connection whose peer sends well-formed requests, any   *)
(* number of them, of any length, cut into reads anywhere but within a     *)
(* chunk-size line or the last CRLF of a chunked body: every request is    *)
(* handed on whole, in order and as soon as its last byte has come.        *)
(***************************************************************************)
EXTENDS RequestParser, SequenceLemmas

---------------------------------------------------------------------------
(* Well-formed requests                                                    *)

\* The bytes of a request; those called "x" mean nothing to the parser.
Names == {"CR", "LF", "size", "length", "start", "unknown", "chunked", "multipart",
          "disposition", "boundary", "final", "alike", "x"}
AnyByte == Names \X Nat

\* A line of the data p of a part is one of these bytes, and no more.
HasLineOf(p, bytes) ==
    \E i \in 1..Len(p) : /\ p[i] \in bytes
                         /\ i = 1 \/ (i > 2 /\ p[i - 2] = CR /\ p[i - 1] = LF)
                         /\ (p \o CRLF)[i + 1] = CR /\ (p \o CRLF)[i + 2] = LF

\* A chunk has data, and so does a part of a form.  A boundary is not found in
\* the data, and no line of it looks like the final one, the last part's
\* excepted.
ValidChunks(r) == \A i \in DOMAIN r.parts : r.parts[i] # <<>>
ValidForm(r) ==
    /\ r.parts # <<>>
    /\ \A i \in DOMAIN r.parts :
          /\ r.parts[i] # <<>>
          /\ ~HasLineOf(r.parts[i], {Boundary, Final})
          /\ i < Len(r.parts) => ~HasLineOf(r.parts[i], {Alike})

Valid(r) ==
    /\ r.form \in {"none", "unknown", "fixed", "chunked", "multipart"}
    /\ r.parts \in Seq(Seq(AnyByte))
    /\ r.form = "chunked" => ValidChunks(r)
    /\ r.form = "multipart" => ValidForm(r)

\* At most one form per connection: step_ and form_parts_ are not reset.
WellFormed ==
    /\ requests \in Seq(Range(requests))
    /\ \A i \in DOMAIN requests : Valid(requests[i])
    /\ \A i, j \in DOMAIN requests :
          requests[i].form = "multipart" /\ requests[j].form = "multipart" => i = j

---------------------------------------------------------------------------
(* The place of the parser in the request that is on its way               *)

Current == requests[Len(parsed) + 1]
Encoded == Encode(Current)
Before  == Len(Bytes(requests, Len(parsed)))  \* the requests before it
Come    == pos - Before                       \* how much of it was read
Used    == Come - Len(pending)                \* and how much was erased

Parsing == pc \in {"reading", "headers", "content"}
More    == Len(parsed) < Len(requests)

\* The pending data is what follows the used bytes.
InPlace ==
    /\ Used \in Nat /\ Come =< Len(Encoded) /\ pending \in Seq(AnyByte)
    /\ \A i \in 1..Len(pending) : pending[i] = Encoded[Used + i]

\* No read ends within a size line or the last CRLF of the encoding e.
Cuts(e, i) == \/ \E k \in 0..1 : i > k /\ e[i - k][1] = "size"
              \/ \E k \in 2..3 : i > k /\ e[i - k] = Size(0)

\* The lines of a request before the empty one
Lines(r) == CASE r.form = "multipart" -> 3
              [] r.form \in {"fixed", "chunked"} -> 2
              [] OTHER -> 1
DataLength(r) == Len(Encode(r)) - (3 * Lines(r) + 2)

\* The next line is the one after h others.
AtLine(h) ==
    /\ Used = 3 * h
    /\ start_line = IF h = 0 THEN NotParsed ELSE Encoded[1]
    /\ chunked <=> Current.form = "chunked" /\ h = 2
    /\ multipart <=> Current.form = "multipart" /\ h >= 2
    /\ content_length = IF \/ Current.form = "fixed" /\ h = 2
                           \/ Current.form = "multipart" /\ h = 3
                        THEN DataLength(Current) ELSE kInvalidLength

HeaderPhase ==
    /\ ~header_ended /\ pc \in {"reading", "headers"}
    /\ chunk_size = kInvalidLength /\ content = <<>>
    /\ \E h \in 0..Lines(Current) : AtLine(h)

HeadersParsed ==
    /\ header_ended /\ pc \in {"reading", "content"} /\ start_line = Start
    /\ chunked <=> Current.form = "chunked"
    /\ multipart <=> Current.form = "multipart"
    /\ content_length = IF Current.form \in {"fixed", "multipart"}
                        THEN DataLength(Current) ELSE kInvalidLength

NoBody == Current.form = "none" /\ pc = "content" /\ Used = 5

\* content is the data used so far.
FixedBody ==
    /\ Current.form = "fixed" /\ chunk_size = kInvalidLength
    /\ content \in Seq(AnyByte) /\ Used = 8 + Len(content)
    /\ \A i \in 1..Len(content) : content[i] = Content(Current)[i]

\* Where the encodings of the first n chunks and parts end
ChunksEnd(r, n) == 8 + Len(First([i \in DOMAIN r.parts |-> EncodeChunk(r.parts[i])], n))
PartsEnd(r, n) == 11 + Len(First([i \in DOMAIN r.parts |-> EncodePart(r.parts[i])], n))

AtSize(n) ==
    /\ chunk_size = kInvalidLength /\ Used = ChunksEnd(Current, n)
    /\ content = First(Current.parts, n)
InChunk(n) ==
    LET chunk == Current.parts[n + 1] IN
    /\ chunk_size \in 1..Len(chunk)
    /\ Used = ChunksEnd(Current, n) + 3 + Len(chunk) - chunk_size
    /\ content = First(Current.parts, n) \o SubSeq(chunk, 1, Len(chunk) - chunk_size)
AtLast ==
    /\ chunk_size = 0 /\ Used = ChunksEnd(Current, Len(Current.parts)) + 3
    /\ content = First(Current.parts, Len(Current.parts))
ChunkedBody ==
    /\ Current.form = "chunked"
    /\ \/ \E n \in 0..Len(Current.parts) : AtSize(n)
       \/ \E n \in 0..Len(Current.parts) - 1 : InChunk(n)
       \/ AtLast

FirstLine == step = "start" /\ Used = 11 /\ form_parts = <<>>
InPart(n) ==
    /\ form_parts = SubSeq(Current.parts, 1, n)
    /\ \/ step = "boundary" /\ Used = PartsEnd(Current, n) + 3
       \/ step = "boundary" /\ Used = PartsEnd(Current, n) + 6
       \/ step = "headers" /\ Used = PartsEnd(Current, n) + 8
FormBody ==
    /\ Current.form = "multipart" /\ chunk_size = kInvalidLength
    /\ FirstLine \/ (\E n \in 0..Len(Current.parts) - 1 : InPart(n))

Body == NoBody \/ FixedBody \/ ChunkedBody \/ FormBody

\* A peer that has sent all of a request has not been kept waiting.
PlaceInv ==
    Parsing /\ More =>
        /\ InPlace
        /\ IF pc = "reading" THEN Come < Len(Encoded) ELSE ~Cuts(Encoded, Come)
        /\ HeaderPhase \/ (HeadersParsed /\ Body)

\* Between two requests, after the last one, and after one that nothing matches
EndInv ==
    /\ pc # "terminated"
    /\ pc = "bad" => More /\ Current.form = "unknown" /\ Come =< Len(Encoded)
    /\ (pc = "finished" \/ (Parsing /\ ~More)) => pos = Before
    /\ Parsing /\ ~More => pc = "reading"

\* The requests handed on so far
ParsedInv ==
    /\ parsed \in Seq(Seq(Seq(AnyByte))) /\ Len(parsed) =< Len(requests)
    /\ \A i \in 1..Len(parsed) : /\ requests[i].form # "unknown"
                                 /\ parsed[i] = Meant(requests[i])

\* What is left of a form is left by the connection's only one.
FormInv ==
    \/ pc = "bad" \/ \E i \in 1..Len(parsed) : requests[i].form = "multipart"
    \/ Parsing /\ More /\ header_ended /\ Current.form = "multipart"
    \/ step = "start" /\ form_parts = <<>>

FieldsInv ==
    /\ pc \in {"reading", "headers", "content", "finished", "bad", "terminated"}
    /\ header_ended \in BOOLEAN /\ chunked \in BOOLEAN /\ multipart \in BOOLEAN
    /\ content_length \in 0..kInvalidLength /\ chunk_size \in 0..kInvalidLength
    /\ step \in {"start", "boundary", "headers", "ended"}
    /\ pos \in Nat /\ requests \in Streams

ParserInv == PlaceInv /\ EndInv /\ ParsedInv /\ FormInv /\ FieldsInv

---------------------------------------------------------------------------
(* Bytes                                                                   *)

LEMMA BytesAre ==
    /\ CR \in AnyByte /\ LF \in AnyByte /\ Start \in AnyByte /\ Unknown \in AnyByte
    /\ Chunked \in AnyByte /\ Multipart \in AnyByte /\ Disposition \in AnyByte
    /\ Boundary \in AnyByte /\ Final \in AnyByte
    /\ \A n \in Nat : Size(n) \in AnyByte /\ Length(n) \in AnyByte
  <1>1. \A name \in Names : \A n \in Nat : <<name, n>> \in AnyByte
    BY DEF AnyByte
  <1>2. /\ {"CR", "LF", "start", "unknown", "chunked", "multipart"} \subseteq Names
        /\ {"disposition", "boundary", "final", "size", "length"} \subseteq Names
    BY DEF Names
  <1>3. QED  BY <1>1, <1>2 DEF CR, LF, Start, Unknown, Chunked, Multipart, Disposition,
                               Boundary, Final, Byte, Size, Length

LEMMA BytesDiffer ==
    /\ CR \notin {LF, Start, Unknown, Chunked, Multipart, Disposition, Boundary, Final, Alike}
    /\ \A n \in Nat : CR \notin {Size(n), Length(n)} /\ \A m \in Nat : Size(n) = Size(m) => n = m
    /\ LF \notin {Boundary, Final, Alike} /\ Boundary \notin {Final, Alike}
    /\ Disposition \notin {Boundary, Final} /\ NotParsed \notin {Start, Unknown}
    /\ Start # Unknown /\ Chunked # Multipart
    /\ \A n \in Nat : Length(n) \notin {Chunked, Multipart}
  BY DEF CR, LF, Start, Unknown, Chunked, Multipart, Disposition, Boundary, Final, Alike,
         NotParsed, Byte, Size, Length

LEMMA BytesSay ==
    /\ Chunked[1] # "length" /\ Multipart[1] # "length" /\ CR[1] # "size" /\ LF[1] # "size"
    /\ \A n \in Nat : /\ Length(n)[1] = "length" /\ Length(n)[2] = n
                      /\ Size(n)[1] = "size" /\ Size(n)[2] = n
  BY DEF CR, LF, Chunked, Multipart, Byte, Size, Length

---------------------------------------------------------------------------
(* What is where in a concatenation                                        *)

LEMMA Join2 ==
    ASSUME NEW a \in Seq(AnyByte), NEW b \in Seq(AnyByte)
    PROVE  /\ a \o b \in Seq(AnyByte) /\ Len(a \o b) = Len(a) + Len(b)
           /\ Len(a) \in Nat /\ Len(b) \in Nat
           /\ Holds(a \o b, 0, a) /\ Holds(a \o b, Len(a), b)
  <1>1. /\ a \o b \in Seq(AnyByte) /\ Len(a \o b) = Len(a) + Len(b)
        /\ Len(a) \in Nat /\ Len(b) \in Nat
        /\ \A i \in 1..Len(a) + Len(b) :
              (a \o b)[i] = IF i =< Len(a) THEN a[i] ELSE b[i - Len(a)]
    BY ConcatProperties
  <1> DEFINE c == a \o b
  <1> HIDE DEF c
  <1>2. \A i \in 1..Len(a) : c[i] = a[i] /\ 0 + i = i
    BY <1>1 DEF c
  <1>3. \A i \in 1..Len(b) : c[Len(a) + i] = b[i]
    <2>1. TAKE i \in 1..Len(b)
    <2>2. /\ Len(a) + i \in 1..Len(a) + Len(b) /\ ~(Len(a) + i =< Len(a))
          /\ (Len(a) + i) - Len(a) = i
      BY <1>1
    <2>3. QED  BY <1>1, <2>2 DEF c
  <1>4. Holds(c, 0, a) /\ Holds(c, Len(a), b)
    BY <1>1, <1>2, <1>3 DEF c, Holds
  <1>5. QED  BY <1>1, <1>4 DEF c

LEMMA HoldsWithin ==
    ASSUME NEW e, NEW o, NEW s, NEW p, NEW t, Holds(e, o, s), Holds(s, p, t)
    PROVE  Holds(e, o + p, t)
  <1>1. /\ o \in Nat /\ p \in Nat /\ Len(e) \in Nat /\ Len(s) \in Nat /\ Len(t) \in Nat
        /\ o + Len(s) =< Len(e) /\ p + Len(t) =< Len(s)
    BY DEF Holds
  <1>2. ASSUME NEW i \in 1..Len(t) PROVE e[(o + p) + i] = t[i]
    <2>1. p + i \in 1..Len(s) /\ o + (p + i) = (o + p) + i
      BY <1>1
    <2>2. e[o + (p + i)] = s[p + i] /\ s[p + i] = t[i]
      BY <2>1 DEF Holds
    <2>3. QED  BY <2>1, <2>2
  <1>3. QED  BY <1>1, <1>2 DEF Holds

LEMMA Join3 ==
    ASSUME NEW a \in Seq(AnyByte), NEW b \in Seq(AnyByte), NEW c \in Seq(AnyByte)
    PROVE  /\ a \o b \o c \in Seq(AnyByte) /\ Len(a \o b \o c) = Len(a) + Len(b) + Len(c)
           /\ Len(a) \in Nat /\ Len(b) \in Nat /\ Len(c) \in Nat
           /\ Holds(a \o b \o c, 0, a) /\ Holds(a \o b \o c, Len(a), b)
           /\ Holds(a \o b \o c, Len(a) + Len(b), c)
  <1> DEFINE d == a \o b
  <1>1. /\ d \in Seq(AnyByte) /\ Len(d) = Len(a) + Len(b) /\ Len(a) \in Nat /\ Len(b) \in Nat
        /\ Holds(d, 0, a) /\ Holds(d, Len(a), b)
    BY Join2
  <1> HIDE DEF d
  <1>2. /\ d \o c \in Seq(AnyByte) /\ Len(d \o c) = Len(d) + Len(c) /\ Len(c) \in Nat
        /\ Holds(d \o c, 0, d) /\ Holds(d \o c, Len(d), c)
    BY <1>1, Join2
  <1>3. Holds(d \o c, 0 + 0, a) /\ Holds(d \o c, 0 + Len(a), b)
    BY <1>1, <1>2, HoldsWithin, Zenon
  <1>4. 0 + 0 = 0 /\ 0 + Len(a) = Len(a)
    BY <1>1
  <1>5. Holds(d \o c, 0, a) /\ Holds(d \o c, Len(a), b) /\ Holds(d \o c, Len(a) + Len(b), c)
    BY <1>1, <1>2, <1>3, <1>4, Zenon
  <1>6. QED  BY <1>1, <1>2, <1>5 DEF d

LEMMA LineIs ==
    ASSUME NEW b \in AnyByte
    PROVE  /\ Line(b) \in Seq(AnyByte) /\ Len(Line(b)) = 3
           /\ Line(b)[1] = b /\ Line(b)[2] = CR /\ Line(b)[3] = LF
           /\ CRLF \in Seq(AnyByte) /\ Len(CRLF) = 2 /\ CRLF[1] = CR /\ CRLF[2] = LF
  <1>1. CR \in AnyByte /\ LF \in AnyByte
    BY BytesAre
  <1>2. /\ CRLF \in Seq(AnyByte) /\ Len(CRLF) = 2 /\ CRLF[1] = CR /\ CRLF[2] = LF
    BY <1>1 DEF CRLF
  <1>3. <<b>> \in Seq(AnyByte) /\ Len(<<b>>) = 1 /\ <<b>>[1] = b
    OBVIOUS
  <1> DEFINE s == <<b>>  l == s \o CRLF
  <1>4. /\ l \in Seq(AnyByte) /\ Len(l) = Len(s) + Len(CRLF)
        /\ Holds(l, 0, s) /\ Holds(l, Len(s), CRLF)
    BY <1>2, <1>3, Join2
  <1> HIDE DEF s
  <1>5. l[0 + 1] = s[1] /\ l[1 + 1] = CRLF[1] /\ l[1 + 2] = CRLF[2]
    <2> HIDE DEF l
    <2>1. 1 \in 1..Len(s) /\ 1 \in 1..Len(CRLF) /\ 2 \in 1..Len(CRLF) /\ Len(s) = 1
      BY <1>2, <1>3 DEF s
    <2>2. QED  BY <1>4, <2>1, Zenon DEF Holds
  <1>6. QED  BY <1>2, <1>3, <1>4, <1>5 DEF s, Line

---------------------------------------------------------------------------
(* What is where in a request                                              *)

LineAt(e, o, b) == e[o + 1] = b /\ e[o + 2] = CR /\ e[o + 3] = LF
EmptyLineAt(e, o) == e[o + 1] = CR /\ e[o + 2] = LF

LEMMA LineHeld ==
    ASSUME NEW e, NEW o, NEW b \in AnyByte, Holds(e, o, Line(b))
    PROVE  LineAt(e, o, b)
  <1>1. /\ Len(Line(b)) = 3 /\ Line(b)[1] = b /\ Line(b)[2] = CR /\ Line(b)[3] = LF
    BY LineIs
  <1> DEFINE s == Line(b)
  <1> HIDE DEF s
  <1>2. 1 \in 1..Len(s) /\ 2 \in 1..Len(s) /\ 3 \in 1..Len(s)
    BY <1>1 DEF s
  <1>3. e[o + 1] = s[1] /\ e[o + 2] = s[2] /\ e[o + 3] = s[3]
    BY <1>2, Zenon DEF Holds, s
  <1>4. QED  BY <1>1, <1>3, Zenon DEF s, LineAt

LEMMA EmptyLineHeld ==
    ASSUME NEW e, NEW o, Holds(e, o, CRLF)
    PROVE  EmptyLineAt(e, o)
  <1>1. Len(CRLF) = 2 /\ CRLF[1] = CR /\ CRLF[2] = LF
    BY DEF CRLF
  <1> DEFINE s == CRLF
  <1> HIDE DEF s
  <1>2. 1 \in 1..Len(s) /\ 2 \in 1..Len(s)
    BY <1>1 DEF s
  <1>3. e[o + 1] = s[1] /\ e[o + 2] = s[2]
    BY <1>2, Zenon DEF Holds, s
  <1>4. QED  BY <1>1, <1>3, Zenon DEF s, EmptyLineAt

LEMMA CRLFIs == CRLF \in Seq(AnyByte) /\ Len(CRLF) = 2
  BY BytesAre DEF CRLF

\* The contents of a request
LEMMA PartsAre ==
    ASSUME NEW r, Valid(r)
    PROVE  /\ Sequences(r.parts, Len(r.parts), AnyByte) /\ Len(r.parts) \in Nat
           /\ DOMAIN r.parts = 1..Len(r.parts)
           /\ Content(r) = First(r.parts, Len(r.parts)) /\ Content(r) \in Seq(AnyByte)
  <1> DEFINE s == r.parts  n == Len(s)
  <1>1. s \in Seq(Seq(AnyByte))
    BY Zenon DEF Valid
  <1> HIDE DEF s
  <1>2. /\ n \in Nat /\ DOMAIN s = 1..n /\ s = [i \in 1..n |-> s[i]]
        /\ \A i \in 1..n : s[i] \in Seq(AnyByte)
    BY <1>1
  <1>3. Sequences(s, n, AnyByte)
    BY <1>2 DEF Sequences
  <1>4. First(s, n) = FlattenSeq(s)
    BY <1>2, Zenon DEF First
  <1>5. First(s, n) \in Seq(AnyByte)
    <2>1. n \in 0..n
      BY <1>2
    <2>2. QED  BY <1>3, <2>1, FirstStep, Zenon
  <1>6. QED  BY <1>2, <1>3, <1>4, <1>5, Zenon DEF s, Content

\* Encodings one after the other
LEMMA EncodingsAre ==
    ASSUME NEW n \in Nat, NEW s, Sequences(s, n, AnyByte)
    PROVE  /\ First(s, n) \in Seq(AnyByte)
           /\ Len(First(s, 0)) = 0
           /\ \A m \in 0..n : Len(First(s, m)) \in Nat /\ Len(First(s, m)) =< Len(First(s, n))
           /\ \A m \in 0..n - 1 :
                 /\ Holds(First(s, n), Len(First(s, m)), s[m + 1])
                 /\ Len(First(s, m + 1)) = Len(First(s, m)) + Len(s[m + 1])
  <1>2. \A m \in 0..n : First(s, m) \in Seq(AnyByte)
    BY FirstStep, Zenon
  <1>3. Len(First(s, 0)) = 0
    <2>1. First(s, 0) = <<>>
      BY FirstStep, Zenon
    <2>2. QED  BY <2>1
  <1>4. ASSUME NEW m \in 0..n
        PROVE  Len(First(s, m)) \in Nat /\ Len(First(s, m)) =< Len(First(s, n))
    <2>1. n \in m..n
      OBVIOUS
    <2>2. Begins(First(s, n), First(s, m))
      BY <2>1, FirstBegins, Zenon
    <2>3. QED  BY <1>2, <2>2 DEF Begins
  <1>5. ASSUME NEW m \in 0..n - 1
        PROVE  /\ Holds(First(s, n), Len(First(s, m)), s[m + 1])
               /\ Len(First(s, m + 1)) = Len(First(s, m)) + Len(s[m + 1])
    BY FirstAt, Zenon
  <1>6. n \in 0..n
    OBVIOUS
  <1>7. QED  BY <1>2, <1>3, <1>4, <1>5, <1>6, Zenon

LEMMA ChunkIs ==
    ASSUME NEW c \in Seq(AnyByte)
    PROVE  /\ EncodeChunk(c) \in Seq(AnyByte) /\ Len(EncodeChunk(c)) = Len(c) + 5
           /\ Holds(EncodeChunk(c), 0, Line(Size(Len(c)))) /\ Holds(EncodeChunk(c), 3, c)
           /\ Holds(EncodeChunk(c), Len(c) + 3, CRLF)
  <1>1. Len(c) \in Nat
    OBVIOUS
  <1>2. Line(Size(Len(c))) \in Seq(AnyByte) /\ Len(Line(Size(Len(c)))) = 3
    BY <1>1, BytesAre, LineIs
  <1>3. CRLF \in Seq(AnyByte) /\ Len(CRLF) = 2
    BY CRLFIs
  <1> DEFINE l == Line(Size(Len(c)))  e == l \o c \o CRLF
  <1>4. l \in Seq(AnyByte) /\ Len(l) = 3
    BY <1>2
  <1> HIDE DEF l
  <1>5. /\ e \in Seq(AnyByte) /\ Len(e) = Len(l) + Len(c) + Len(CRLF)
        /\ Holds(e, 0, l) /\ Holds(e, Len(l), c) /\ Holds(e, Len(l) + Len(c), CRLF)
    BY <1>3, <1>4, Join3, Zenon
  <1> HIDE DEF e
  <1>6. Len(l) + Len(c) = Len(c) + 3 /\ Len(e) = Len(c) + 5
    BY <1>1, <1>3, <1>4, <1>5
  <1>7. e = EncodeChunk(c)
    BY Zenon DEF e, l, EncodeChunk
  <1>8. QED  BY <1>4, <1>5, <1>6, <1>7, Zenon DEF l

LEMMA PartIs ==
    ASSUME NEW p \in Seq(AnyByte)
    PROVE  /\ EncodePart(p) \in Seq(AnyByte) /\ Len(EncodePart(p)) = Len(p) + 10
           /\ Holds(EncodePart(p), 0, Line(Boundary)) /\ Holds(EncodePart(p), 3, Line(Disposition))
           /\ Holds(EncodePart(p), 6, CRLF)
           /\ Holds(EncodePart(p), 8, p) /\ Holds(EncodePart(p), Len(p) + 8, CRLF)
  <1>1. Len(p) \in Nat
    OBVIOUS
  <1>2. /\ Line(Boundary) \in Seq(AnyByte) /\ Len(Line(Boundary)) = 3
        /\ Line(Disposition) \in Seq(AnyByte) /\ Len(Line(Disposition)) = 3
    BY BytesAre, LineIs
  <1>3. CRLF \in Seq(AnyByte) /\ Len(CRLF) = 2
    BY CRLFIs
  <1> DEFINE h == Line(Boundary) \o Line(Disposition) \o CRLF
             e == h \o p \o CRLF
  <1>4. /\ h \in Seq(AnyByte) /\ Len(h) = 8 /\ Holds(h, 0, Line(Boundary))
        /\ Holds(h, 3, Line(Disposition)) /\ Holds(h, 6, CRLF)
    <2>1. /\ h \in Seq(AnyByte) /\ Len(h) = Len(Line(Boundary)) + Len(Line(Disposition)) + Len(CRLF)
          /\ Holds(h, 0, Line(Boundary)) /\ Holds(h, Len(Line(Boundary)), Line(Disposition))
          /\ Holds(h, Len(Line(Boundary)) + Len(Line(Disposition)), CRLF)
      BY <1>2, <1>3, Join3, Zenon
    <2> HIDE DEF h
    <2>2. Len(Line(Boundary)) + Len(Line(Disposition)) = 6 /\ Len(h) = 8
      BY <1>2, <1>3, <2>1
    <2>3. QED  BY <1>2, <2>1, <2>2, Zenon
  <1> HIDE DEF h
  <1>5. /\ e \in Seq(AnyByte) /\ Len(e) = Len(h) + Len(p) + Len(CRLF)
        /\ Holds(e, 0, h) /\ Holds(e, Len(h), p) /\ Holds(e, Len(h) + Len(p), CRLF)
    BY <1>3, <1>4, Join3, Zenon
  <1> HIDE DEF e
  <1>6. Len(h) + Len(p) = Len(p) + 8 /\ Len(e) = Len(p) + 10 /\ 0 + 0 = 0 /\ 0 + 3 = 3 /\ 0 + 6 = 6
    BY <1>1, <1>3, <1>4, <1>5
  <1>7. Holds(e, 0 + 0, Line(Boundary)) /\ Holds(e, 0 + 3, Line(Disposition)) /\ Holds(e, 0 + 6, CRLF)
    BY <1>4, <1>5, HoldsWithin, Zenon
  <1>8. e = EncodePart(p)
    BY Zenon DEF e, h, EncodePart
  <1>9. QED  BY <1>4, <1>5, <1>6, <1>7, <1>8, Zenon

\* Fixed content
LEMMA NoBodyShape ==
    ASSUME NEW r, Valid(r), r.form \in {"none", "unknown"}
    PROVE  /\ Encode(r) \in Seq(AnyByte) /\ Len(Encode(r)) = 5
           /\ LineAt(Encode(r), 0, IF r.form = "unknown" THEN Unknown ELSE Start)
           /\ EmptyLineAt(Encode(r), 3)
  <1> DEFINE b == IF r.form = "unknown" THEN Unknown ELSE Start
             e == Line(b) \o CRLF
  <1>1. b \in AnyByte
    BY BytesAre
  <1>2. e = Encode(r)
    BY DEF Encode
  <1> HIDE DEF b
  <1>3. Line(b) \in Seq(AnyByte) /\ Len(Line(b)) = 3
    BY <1>1, LineIs
  <1>4. /\ e \in Seq(AnyByte) /\ Len(e) = Len(Line(b)) + Len(CRLF)
        /\ Holds(e, 0, Line(b)) /\ Holds(e, Len(Line(b)), CRLF)
    BY <1>3, CRLFIs, Join2, Zenon
  <1> HIDE DEF e
  <1>5. Len(e) = 5
    BY <1>3, <1>4, CRLFIs
  <1>6. LineAt(e, 0, b) /\ EmptyLineAt(e, 3)
    BY <1>1, <1>3, <1>4, LineHeld, EmptyLineHeld
  <1>7. QED  BY <1>2, <1>4, <1>5, <1>6 DEF b

\* The headers of a request with two header lines
LEMMA TwoHeaders ==
    ASSUME NEW b \in AnyByte, NEW h, h = Line(Start) \o Line(b) \o CRLF
    PROVE  /\ h \in Seq(AnyByte) /\ Len(h) = 8 /\ Holds(h, 0, Line(Start))
           /\ Holds(h, 3, Line(b)) /\ Holds(h, 6, CRLF)
  <1>1. /\ Line(Start) \in Seq(AnyByte) /\ Len(Line(Start)) = 3
        /\ Line(b) \in Seq(AnyByte) /\ Len(Line(b)) = 3
    BY BytesAre, LineIs
  <1>2. /\ h \in Seq(AnyByte) /\ Len(h) = Len(Line(Start)) + Len(Line(b)) + Len(CRLF)
        /\ Holds(h, 0, Line(Start)) /\ Holds(h, Len(Line(Start)), Line(b))
        /\ Holds(h, Len(Line(Start)) + Len(Line(b)), CRLF)
    BY <1>1, CRLFIs, Join3, Zenon
  <1>3. Len(Line(Start)) + Len(Line(b)) = 6 /\ Len(h) = 8
    BY <1>1, <1>2, CRLFIs
  <1>4. QED  BY <1>1, <1>2, <1>3, Zenon

LEMMA TwoHeadersHeld ==
    ASSUME NEW b \in AnyByte, NEW h, h = Line(Start) \o Line(b) \o CRLF, NEW e, Holds(e, 0, h)
    PROVE  LineAt(e, 0, Start) /\ LineAt(e, 3, b) /\ EmptyLineAt(e, 6)
  <1>1. Holds(h, 0, Line(Start)) /\ Holds(h, 3, Line(b)) /\ Holds(h, 6, CRLF)
    BY TwoHeaders, Zenon
  <1>2. 0 + 0 = 0 /\ 0 + 3 = 3 /\ 0 + 6 = 6
    OBVIOUS
  <1>3. Holds(e, 0 + 0, Line(Start)) /\ Holds(e, 0 + 3, Line(b)) /\ Holds(e, 0 + 6, CRLF)
    BY <1>1, HoldsWithin, Zenon
  <1>4. Holds(e, 0, Line(Start)) /\ Holds(e, 3, Line(b)) /\ Holds(e, 6, CRLF)
    BY <1>2, <1>3, Zenon
  <1>5. Start \in AnyByte
    BY BytesAre
  <1>6. QED  BY <1>4, <1>5, LineHeld, EmptyLineHeld, Zenon

LEMMA FixedShape ==
    ASSUME NEW r, Valid(r), r.form = "fixed"
    PROVE  LET e == Encode(r) c == Content(r) IN
           /\ e \in Seq(AnyByte) /\ Len(e) = 8 + Len(c) /\ Len(c) \in Nat
           /\ LineAt(e, 0, Start) /\ LineAt(e, 3, Length(Len(c))) /\ EmptyLineAt(e, 6)
           /\ \A i \in 1..Len(c) : e[8 + i] = c[i]
  <1> DEFINE c == Content(r)
             h == Line(Start) \o Line(Length(Len(c))) \o CRLF
             e == h \o c
  <1>1. c \in Seq(AnyByte)
    BY PartsAre
  <1>2. e = Encode(r)
    BY DEF Encode
  <1> HIDE DEF c
  <1>3. Len(c) \in Nat /\ Length(Len(c)) \in AnyByte
    BY <1>1, BytesAre
  <1>4. h \in Seq(AnyByte) /\ Len(h) = 8
    BY <1>3, TwoHeaders
  <1> HIDE DEF h
  <1>5. /\ e \in Seq(AnyByte) /\ Len(e) = Len(h) + Len(c)
        /\ Holds(e, 0, h) /\ Holds(e, Len(h), c)
    BY <1>1, <1>4, Join2, Zenon
  <1> HIDE DEF e
  <1>6. LineAt(e, 0, Start) /\ LineAt(e, 3, Length(Len(c))) /\ EmptyLineAt(e, 6)
    BY <1>3, <1>5, TwoHeadersHeld, Zenon DEF h
  <1>7. \A i \in 1..Len(c) : e[8 + i] = c[i]
    BY <1>4, <1>5, Zenon DEF Holds
  <1>8. Len(e) = 8 + Len(c)
    BY <1>4, <1>5
  <1>9. QED  BY <1>2, <1>3, <1>5, <1>6, <1>7, <1>8, Zenon DEF c

\* The encoding of a request: chunks
ChunkAt(e, o, c) ==
    /\ LineAt(e, o, Size(Len(c)))
    /\ \A i \in 1..Len(c) : e[o + 3 + i] = c[i]
    /\ EmptyLineAt(e, o + 3 + Len(c))

LEMMA ChunkHeld ==
    ASSUME NEW e, NEW o, NEW c \in Seq(AnyByte), Holds(e, o, EncodeChunk(c))
    PROVE  ChunkAt(e, o, c)
  <1>1. /\ Holds(EncodeChunk(c), 0, Line(Size(Len(c)))) /\ Holds(EncodeChunk(c), 3, c)
        /\ Holds(EncodeChunk(c), Len(c) + 3, CRLF)
    BY ChunkIs
  <1>2. Holds(e, o + 0, Line(Size(Len(c)))) /\ Holds(e, o + 3, c) /\ Holds(e, o + (Len(c) + 3), CRLF)
    BY <1>1, HoldsWithin, Zenon
  <1>3. o + 0 = o /\ o + (Len(c) + 3) = o + 3 + Len(c) /\ Len(c) \in Nat
    BY DEF Holds
  <1>4. Size(Len(c)) \in AnyByte
    BY <1>3, BytesAre
  <1>5. LineAt(e, o, Size(Len(c))) /\ EmptyLineAt(e, o + 3 + Len(c))
    BY <1>2, <1>3, <1>4, LineHeld, EmptyLineHeld, Zenon
  <1>6. \A i \in 1..Len(c) : e[o + 3 + i] = c[i]
    BY <1>2, Zenon DEF Holds
  <1>7. QED  BY <1>5, <1>6, Zenon DEF ChunkAt

LEMMA EncodedChunks ==
    ASSUME NEW r, Valid(r)
    PROVE  LET s == [i \in DOMAIN r.parts |-> EncodeChunk(r.parts[i])] n == Len(r.parts) IN
           /\ Sequences(s, n, AnyByte) /\ FlattenSeq(s) = First(s, n)
           /\ \A m \in 0..n - 1 : s[m + 1] = EncodeChunk(r.parts[m + 1]) /\ r.parts[m + 1] \in Seq(AnyByte)
  <1> DEFINE s == [i \in DOMAIN r.parts |-> EncodeChunk(r.parts[i])]
             n == Len(r.parts)
  <1>1. n \in Nat /\ DOMAIN r.parts = 1..n /\ \A i \in 1..n : r.parts[i] \in Seq(AnyByte)
    BY PartsAre DEF Sequences
  <1>2. DOMAIN s = 1..n /\ \A i \in 1..n : s[i] = EncodeChunk(r.parts[i])
    BY <1>1
  <1>3. [i \in 1..n |-> s[i]] = s
    BY <1>1
  <1> HIDE DEF s, n
  <1>4. Sequences(s, n, AnyByte)
    BY <1>1, <1>2, ChunkIs DEF Sequences
  <1>5. FlattenSeq(s) = First(s, n)
    BY <1>3 DEF First
  <1>6. ASSUME NEW m \in 0..n - 1
        PROVE  s[m + 1] = EncodeChunk(r.parts[m + 1]) /\ r.parts[m + 1] \in Seq(AnyByte)
    <2>1. m + 1 \in 1..n
      BY <1>1
    <2>2. QED  BY <1>1, <1>2, <2>1
  <1>7. QED  BY <1>4, <1>5, <1>6 DEF s, n

ChunksAre(r, e, n) ==
    /\ n \in Nat /\ e \in Seq(AnyByte) /\ Len(e) = ChunksEnd(r, n) + 5
    /\ LineAt(e, 0, Start) /\ LineAt(e, 3, Chunked) /\ EmptyLineAt(e, 6)
    /\ LineAt(e, ChunksEnd(r, n), Size(0)) /\ EmptyLineAt(e, ChunksEnd(r, n) + 3)
    /\ ChunksEnd(r, 0) = 8
    /\ \A m \in 0..n : ChunksEnd(r, m) \in Nat /\ ChunksEnd(r, m) =< ChunksEnd(r, n)
    /\ \A m \in 0..n - 1 :
          /\ ChunkAt(e, ChunksEnd(r, m), r.parts[m + 1]) /\ r.parts[m + 1] \in Seq(AnyByte)
          /\ ChunksEnd(r, m + 1) = ChunksEnd(r, m) + Len(r.parts[m + 1]) + 5

LEMMA ChunkedShape ==
    ASSUME NEW r, Valid(r), r.form = "chunked"
    PROVE  ChunksAre(r, Encode(r), Len(r.parts))
  <1> DEFINE s == [i \in DOMAIN r.parts |-> EncodeChunk(r.parts[i])]
             n == Len(r.parts)
             h == Line(Start) \o Line(Chunked) \o CRLF
             f == First(s, n)
             l == Line(Size(0))
             g == h \o f \o l
             e == g \o CRLF
  <1>1. /\ Sequences(s, n, AnyByte) /\ FlattenSeq(s) = First(s, n) /\ n \in Nat
        /\ \A m \in 0..n - 1 : s[m + 1] = EncodeChunk(r.parts[m + 1]) /\ r.parts[m + 1] \in Seq(AnyByte)
    BY EncodedChunks, PartsAre
  <1>2. e = Encode(r)
    BY <1>1 DEF Encode
  <1>3. \A m \in 0..n : ChunksEnd(r, m) = 8 + Len(First(s, m))
    BY DEF ChunksEnd
  <1> HIDE DEF s, n
  <1>4. /\ First(s, n) \in Seq(AnyByte) /\ Len(First(s, 0)) = 0
        /\ \A m \in 0..n : Len(First(s, m)) \in Nat /\ Len(First(s, m)) =< Len(First(s, n))
        /\ \A m \in 0..n - 1 :
              /\ Holds(First(s, n), Len(First(s, m)), s[m + 1])
              /\ Len(First(s, m + 1)) = Len(First(s, m)) + Len(s[m + 1])
    BY <1>1, EncodingsAre
  <1>5. Chunked \in AnyByte /\ Size(0) \in AnyByte
    BY BytesAre
  <1>6. h \in Seq(AnyByte) /\ Len(h) = 8
    BY <1>5, TwoHeaders
  <1>7. l \in Seq(AnyByte) /\ Len(l) = 3
    BY <1>5, LineIs
  <1> HIDE DEF h, l, f
  <1>8. /\ g \in Seq(AnyByte) /\ Len(g) = Len(h) + Len(f) + Len(l) /\ Len(f) \in Nat
        /\ Holds(g, 0, h) /\ Holds(g, Len(h), f) /\ Holds(g, Len(h) + Len(f), l)
    BY <1>4, <1>6, <1>7, Join3, Zenon DEF f
  <1> HIDE DEF g
  <1>9. /\ e \in Seq(AnyByte) /\ Len(e) = Len(g) + Len(CRLF)
        /\ Holds(e, 0, g) /\ Holds(e, Len(g), CRLF)
    BY <1>8, CRLFIs, Join2, Zenon
  <1> HIDE DEF e
  <1>10. Holds(e, 0 + 0, h) /\ Holds(e, 0 + Len(h), f) /\ Holds(e, 0 + (Len(h) + Len(f)), l)
    BY <1>8, <1>9, HoldsWithin, Zenon
  <1> DEFINE o == ChunksEnd(r, n)
  <1>11. o = 8 + Len(f)
    BY <1>1, <1>3 DEF f
  <1> HIDE DEF o
  <1>12. /\ 0 + 0 = 0 /\ 0 + Len(h) = 8 /\ 0 + (Len(h) + Len(f)) = o
         /\ Len(g) = o + 3 /\ Len(e) = o + 5
    BY <1>6, <1>7, <1>8, <1>9, <1>11, CRLFIs
  <1>13. Holds(e, 0, h) /\ Holds(e, 8, f) /\ Holds(e, o, l) /\ Holds(e, o + 3, CRLF)
    BY <1>9, <1>10, <1>12, Zenon
  <1>14. LineAt(e, 0, Start) /\ LineAt(e, 3, Chunked) /\ EmptyLineAt(e, 6)
    BY <1>5, <1>13, TwoHeadersHeld, Zenon DEF h
  <1>15. LineAt(e, o, Size(0)) /\ EmptyLineAt(e, o + 3)
    BY <1>5, <1>13, LineHeld, EmptyLineHeld, Zenon DEF l
  <1>16. ASSUME NEW m \in 0..n - 1
         PROVE  /\ ChunkAt(e, ChunksEnd(r, m), r.parts[m + 1])
                /\ ChunksEnd(r, m + 1) = ChunksEnd(r, m) + Len(r.parts[m + 1]) + 5
    <2> DEFINE c == r.parts[m + 1]
    <2>1. /\ s[m + 1] = EncodeChunk(c) /\ c \in Seq(AnyByte) /\ m \in 0..n /\ m + 1 \in 0..n
      BY <1>1
    <2> HIDE DEF c
    <2>2. ChunksEnd(r, m) = 8 + Len(First(s, m)) /\ ChunksEnd(r, m + 1) = 8 + Len(First(s, m + 1))
      BY <1>3, <2>1
    <2>3. Holds(f, Len(First(s, m)), EncodeChunk(c))
      BY <1>4, <2>1, Zenon DEF f
    <2>4. Holds(e, ChunksEnd(r, m), EncodeChunk(c))
      BY <1>13, <2>2, <2>3, HoldsWithin, Zenon
    <2>5. Len(First(s, m + 1)) = Len(First(s, m)) + Len(EncodeChunk(c))
      BY <1>4, <2>1, Zenon
    <2>6. Len(EncodeChunk(c)) = Len(c) + 5 /\ Len(c) \in Nat /\ Len(First(s, m)) \in Nat
      BY <1>4, <2>1, ChunkIs
    <2>7. ChunksEnd(r, m + 1) = ChunksEnd(r, m) + Len(c) + 5
      BY <2>2, <2>5, <2>6
    <2>8. ChunkAt(e, ChunksEnd(r, m), c)
      BY <2>1, <2>4, ChunkHeld
    <2>9. QED  BY <2>7, <2>8 DEF c
  <1>17. \A m \in 0..n : ChunksEnd(r, m) \in Nat /\ ChunksEnd(r, m) =< o
    BY <1>3, <1>4, <1>11 DEF f
  <1>18. ChunksEnd(r, 0) = 8
    <2>1. 0 \in 0..n
      BY <1>1
    <2>2. QED  BY <1>3, <1>4, <2>1
  <1>19. ChunksAre(r, e, n)
    BY <1>1, <1>9, <1>12, <1>14, <1>15, <1>16, <1>17, <1>18, Zenon DEF ChunksAre, o
  <1>20. QED  BY <1>2, <1>19, Zenon DEF n

\* The encoding of a request: a form
PartAt(e, o, p) ==
    /\ LineAt(e, o, Boundary) /\ LineAt(e, o + 3, Disposition) /\ EmptyLineAt(e, o + 6)
    /\ \A i \in 1..Len(p) : e[o + 8 + i] = p[i]
    /\ EmptyLineAt(e, o + 8 + Len(p))

LEMMA PartHeld ==
    ASSUME NEW e, NEW o, NEW p \in Seq(AnyByte), Holds(e, o, EncodePart(p))
    PROVE  PartAt(e, o, p)
  <1>1. /\ Holds(EncodePart(p), 0, Line(Boundary)) /\ Holds(EncodePart(p), 3, Line(Disposition))
        /\ Holds(EncodePart(p), 6, CRLF)
        /\ Holds(EncodePart(p), 8, p) /\ Holds(EncodePart(p), Len(p) + 8, CRLF)
    BY PartIs
  <1>2. /\ Holds(e, o + 0, Line(Boundary)) /\ Holds(e, o + 3, Line(Disposition))
        /\ Holds(e, o + 6, CRLF) /\ Holds(e, o + 8, p) /\ Holds(e, o + (Len(p) + 8), CRLF)
    BY <1>1, HoldsWithin, Zenon
  <1>3. o + 0 = o /\ o + (Len(p) + 8) = o + 8 + Len(p)
    BY DEF Holds
  <1>4. Boundary \in AnyByte /\ Disposition \in AnyByte
    BY BytesAre
  <1>5. /\ LineAt(e, o, Boundary) /\ LineAt(e, o + 3, Disposition)
        /\ EmptyLineAt(e, o + 6) /\ EmptyLineAt(e, o + 8 + Len(p))
    BY <1>2, <1>3, <1>4, LineHeld, EmptyLineHeld, Zenon
  <1>6. \A i \in 1..Len(p) : e[o + 8 + i] = p[i]
    BY <1>2, Zenon DEF Holds
  <1>7. QED  BY <1>5, <1>6, Zenon DEF PartAt

LEMMA EncodedParts ==
    ASSUME NEW r, Valid(r)
    PROVE  LET s == [i \in DOMAIN r.parts |-> EncodePart(r.parts[i])] n == Len(r.parts) IN
           /\ Sequences(s, n, AnyByte) /\ FlattenSeq(s) = First(s, n)
           /\ \A m \in 0..n - 1 : s[m + 1] = EncodePart(r.parts[m + 1]) /\ r.parts[m + 1] \in Seq(AnyByte)
  <1> DEFINE s == [i \in DOMAIN r.parts |-> EncodePart(r.parts[i])]
             n == Len(r.parts)
  <1>1. n \in Nat /\ DOMAIN r.parts = 1..n /\ \A i \in 1..n : r.parts[i] \in Seq(AnyByte)
    BY PartsAre DEF Sequences
  <1>2. DOMAIN s = 1..n /\ \A i \in 1..n : s[i] = EncodePart(r.parts[i])
    BY <1>1
  <1>3. [i \in 1..n |-> s[i]] = s
    BY <1>1
  <1> HIDE DEF s, n
  <1>4. Sequences(s, n, AnyByte)
    BY <1>1, <1>2, PartIs DEF Sequences
  <1>5. FlattenSeq(s) = First(s, n)
    BY <1>3 DEF First
  <1>6. ASSUME NEW m \in 0..n - 1
        PROVE  s[m + 1] = EncodePart(r.parts[m + 1]) /\ r.parts[m + 1] \in Seq(AnyByte)
    <2>1. m + 1 \in 1..n
      BY <1>1
    <2>2. QED  BY <1>1, <1>2, <2>1
  <1>7. QED  BY <1>4, <1>5, <1>6 DEF s, n

FormIs(r, e, n) ==
    /\ n \in Nat /\ e \in Seq(AnyByte) /\ Len(e) = PartsEnd(r, n) + 3
    /\ LineAt(e, 0, Start) /\ LineAt(e, 3, Multipart)
    /\ LineAt(e, 6, Length(Len(e) - 11)) /\ EmptyLineAt(e, 9)
    /\ LineAt(e, PartsEnd(r, n), Final)
    /\ PartsEnd(r, 0) = 11
    /\ \A m \in 0..n : PartsEnd(r, m) \in Nat /\ PartsEnd(r, m) =< PartsEnd(r, n)
    /\ \A m \in 0..n - 1 :
          /\ PartAt(e, PartsEnd(r, m), r.parts[m + 1]) /\ r.parts[m + 1] \in Seq(AnyByte)
          /\ PartsEnd(r, m + 1) = PartsEnd(r, m) + Len(r.parts[m + 1]) + 10

LEMMA FormShape ==
    ASSUME NEW r, Valid(r), r.form = "multipart"
    PROVE  FormIs(r, Encode(r), Len(r.parts))
  <1> DEFINE s == [i \in DOMAIN r.parts |-> EncodePart(r.parts[i])]
             n == Len(r.parts)
             f == First(s, n)
             l == Line(Final)
             d == f \o l
             k == Line(Length(Len(d)))
             h == Line(Start) \o Line(Multipart) \o k
             e == h \o CRLF \o d
  <1>1. /\ Sequences(s, n, AnyByte) /\ FlattenSeq(s) = First(s, n) /\ n \in Nat
        /\ \A m \in 0..n - 1 : s[m + 1] = EncodePart(r.parts[m + 1]) /\ r.parts[m + 1] \in Seq(AnyByte)
    BY EncodedParts, PartsAre
  <1>2. e = Encode(r)
    <2>1. d = EncodeForm(r)
      BY <1>1 DEF EncodeForm
    <2> HIDE DEF d
    <2>2. QED  BY <2>1 DEF Encode
  <1>3. \A m \in 0..n : PartsEnd(r, m) = 11 + Len(First(s, m))
    BY DEF PartsEnd
  <1> HIDE DEF s, n
  <1>4. /\ First(s, n) \in Seq(AnyByte) /\ Len(First(s, 0)) = 0
        /\ \A m \in 0..n : Len(First(s, m)) \in Nat /\ Len(First(s, m)) =< Len(First(s, n))
        /\ \A m \in 0..n - 1 :
              /\ Holds(First(s, n), Len(First(s, m)), s[m + 1])
              /\ Len(First(s, m + 1)) = Len(First(s, m)) + Len(s[m + 1])
    BY <1>1, EncodingsAre
  <1>5. Start \in AnyByte /\ Multipart \in AnyByte /\ Final \in AnyByte
    BY BytesAre
  <1>6. l \in Seq(AnyByte) /\ Len(l) = 3
    BY <1>5, LineIs
  <1> HIDE DEF l, f
  <1>7. /\ d \in Seq(AnyByte) /\ Len(d) = Len(f) + Len(l) /\ Len(f) \in Nat
        /\ Holds(d, 0, f) /\ Holds(d, Len(f), l)
    BY <1>4, <1>6, Join2, Zenon DEF f
  <1> HIDE DEF d
  <1>8. Len(d) \in Nat /\ Length(Len(d)) \in AnyByte
    BY <1>7, BytesAre
  <1>9. k \in Seq(AnyByte) /\ Len(k) = 3
    BY <1>8, LineIs
  <1> HIDE DEF k
  <1> DEFINE a == Line(Start)  b == Line(Multipart)
  <1>10. a \in Seq(AnyByte) /\ Len(a) = 3 /\ b \in Seq(AnyByte) /\ Len(b) = 3
    BY <1>5, LineIs
  <1>11. h = a \o b \o k
    OBVIOUS
  <1> HIDE DEF a, b, h
  <1>12. /\ h \in Seq(AnyByte) /\ Len(h) = Len(a) + Len(b) + Len(k)
         /\ Holds(h, 0, a) /\ Holds(h, Len(a), b) /\ Holds(h, Len(a) + Len(b), k)
    BY <1>9, <1>10, <1>11, Join3, Zenon
  <1>13. /\ e \in Seq(AnyByte) /\ Len(e) = Len(h) + Len(CRLF) + Len(d)
         /\ Holds(e, 0, h) /\ Holds(e, Len(h), CRLF) /\ Holds(e, Len(h) + Len(CRLF), d)
    BY <1>7, <1>12, CRLFIs, Join3, Zenon
  <1> HIDE DEF e
  <1>14. /\ Holds(e, 0 + 0, a) /\ Holds(e, 0 + Len(a), b) /\ Holds(e, 0 + (Len(a) + Len(b)), k)
         /\ Holds(e, (Len(h) + Len(CRLF)) + 0, f) /\ Holds(e, (Len(h) + Len(CRLF)) + Len(f), l)
    BY <1>7, <1>12, <1>13, HoldsWithin, Zenon
  <1> DEFINE o == PartsEnd(r, n)
  <1>15. o = 11 + Len(f)
    BY <1>1, <1>3 DEF f
  <1> HIDE DEF o
  <1>16. /\ 0 + 0 = 0 /\ 0 + Len(a) = 3 /\ 0 + (Len(a) + Len(b)) = 6 /\ Len(h) = 9
         /\ (Len(h) + Len(CRLF)) + 0 = 11 /\ (Len(h) + Len(CRLF)) + Len(f) = o
         /\ Len(e) = o + 3 /\ Len(d) = Len(e) - 11
    BY <1>6, <1>7, <1>9, <1>10, <1>12, <1>13, <1>15, CRLFIs
  <1>17. /\ Holds(e, 0, a) /\ Holds(e, 3, b) /\ Holds(e, 6, k) /\ Holds(e, 9, CRLF)
         /\ Holds(e, 11, f) /\ Holds(e, o, l)
    BY <1>13, <1>14, <1>16, Zenon
  <1>18. /\ LineAt(e, 0, Start) /\ LineAt(e, 3, Multipart) /\ LineAt(e, 6, Length(Len(e) - 11))
         /\ EmptyLineAt(e, 9) /\ LineAt(e, o, Final)
    BY <1>5, <1>8, <1>16, <1>17, LineHeld, EmptyLineHeld, Zenon DEF a, b, k, l
  <1>19. ASSUME NEW m \in 0..n - 1
         PROVE  /\ PartAt(e, PartsEnd(r, m), r.parts[m + 1])
                /\ PartsEnd(r, m + 1) = PartsEnd(r, m) + Len(r.parts[m + 1]) + 10
    <2> DEFINE p == r.parts[m + 1]
    <2>1. s[m + 1] = EncodePart(p) /\ p \in Seq(AnyByte) /\ m \in 0..n /\ m + 1 \in 0..n
      BY <1>1
    <2> HIDE DEF p
    <2>2. PartsEnd(r, m) = 11 + Len(First(s, m)) /\ PartsEnd(r, m + 1) = 11 + Len(First(s, m + 1))
      BY <1>3, <2>1
    <2>3. Holds(f, Len(First(s, m)), EncodePart(p))
      BY <1>4, <2>1, Zenon DEF f
    <2>4. Holds(e, PartsEnd(r, m), EncodePart(p))
      BY <1>17, <2>2, <2>3, HoldsWithin, Zenon
    <2>5. Len(First(s, m + 1)) = Len(First(s, m)) + Len(EncodePart(p))
      BY <1>4, <2>1, Zenon
    <2>6. Len(EncodePart(p)) = Len(p) + 10 /\ Len(p) \in Nat /\ Len(First(s, m)) \in Nat
      BY <1>4, <2>1, PartIs
    <2>7. PartsEnd(r, m + 1) = PartsEnd(r, m) + Len(p) + 10
      BY <2>2, <2>5, <2>6
    <2>8. PartAt(e, PartsEnd(r, m), p)
      BY <2>1, <2>4, PartHeld
    <2>9. QED  BY <2>7, <2>8 DEF p
  <1>20. \A m \in 0..n : PartsEnd(r, m) \in Nat /\ PartsEnd(r, m) =< o
    BY <1>3, <1>4, <1>15 DEF f
  <1>21. PartsEnd(r, 0) = 11
    <2>1. 0 \in 0..n
      BY <1>1
    <2>2. QED  BY <1>3, <1>4, <2>1
  <1>22. FormIs(r, e, n)
    BY <1>1, <1>13, <1>16, <1>18, <1>19, <1>20, <1>21, Zenon DEF FormIs, o
  <1>23. QED  BY <1>2, <1>22, Zenon DEF n

---------------------------------------------------------------------------
(* What is where in the stream                                             *)

LEMMA EncodeIs ==
    ASSUME NEW r, Valid(r)
    PROVE  Encode(r) \in Seq(AnyByte)
  <1>1. r.form \in {"none", "unknown"} => Encode(r) \in Seq(AnyByte)
    BY NoBodyShape
  <1>2. r.form = "fixed" => Encode(r) \in Seq(AnyByte)
    BY FixedShape
  <1>3. r.form = "chunked" => Encode(r) \in Seq(AnyByte)
    BY ChunkedShape DEF ChunksAre
  <1>4. r.form = "multipart" => Encode(r) \in Seq(AnyByte)
    BY FormShape DEF FormIs
  <1>5. QED  BY <1>1, <1>2, <1>3, <1>4 DEF Valid

LEMMA RequestsAre ==
    ASSUME WellFormed
    PROVE  /\ Len(requests) \in Nat /\ DOMAIN requests = 1..Len(requests)
           /\ \A i \in 1..Len(requests) : Valid(requests[i])
  <1>1. Len(requests) \in Nat /\ DOMAIN requests = 1..Len(requests)
    <2> DEFINE R == Range(requests)
    <2>1. requests \in Seq(R)
      BY DEF WellFormed
    <2> HIDE DEF R
    <2>2. QED  BY <2>1
  <1>2. QED  BY <1>1 DEF WellFormed

LEMMA StreamIs ==
    ASSUME WellFormed, NEW k \in 0..Len(requests) - 1
    PROVE  LET b == Bytes(requests, k) c == Bytes(requests, k + 1) e == Encode(requests[k + 1]) IN
           /\ b \in Seq(AnyByte) /\ c \in Seq(AnyByte) /\ e \in Seq(AnyByte)
           /\ Len(b) \in Nat /\ Len(e) \in Nat /\ Len(c) = Len(b) + Len(e)
           /\ Len(c) =< Len(Bytes(requests, Len(requests)))
           /\ Holds(c, Len(b), e)
  <1> DEFINE n == Len(requests)
             s == [i \in 1..n |-> Encode(requests[i])]
  <1>1. n \in Nat /\ \A i \in 1..n : Valid(requests[i])
    BY RequestsAre
  <1>2. \A m \in 0..n : Bytes(requests, m) = First(s, m)
    <2>1. TAKE m \in 0..n
    <2>2. [i \in 1..m |-> s[i]] = [i \in 1..m |-> Encode(requests[i])]
      BY <1>1
    <2> HIDE DEF s
    <2>3. QED  BY <2>2, Zenon DEF First, Bytes
  <1>3. \A i \in 1..n : s[i] = Encode(requests[i]) /\ s[i] \in Seq(AnyByte)
    BY <1>1, EncodeIs
  <1> HIDE DEF s
  <1>4. Sequences(s, n, AnyByte)
    BY <1>1, <1>3 DEF Sequences
  <1>5. k \in 0..n /\ k + 1 \in 0..n /\ k + 1 \in 1..n /\ n \in k + 1..n /\ k \in 0..n - 1
    BY <1>1
  <1> HIDE DEF n
  <1>6. \A m \in 0..n : First(s, m) \in Seq(AnyByte)
    BY <1>4, FirstStep, Zenon
  <1>7. First(s, k + 1) = First(s, k) \o s[k + 1]
    <2>1. \A m \in 0..n - 1 : First(s, m + 1) = First(s, m) \o s[m + 1]
      BY <1>4, FirstStep
    <2>2. QED  BY <1>5, <2>1
  <1>8. Begins(First(s, n), First(s, k + 1))
    BY <1>4, <1>5, FirstBegins, Zenon
  <1> DEFINE b == First(s, k)  c == First(s, k + 1)  e == s[k + 1]
  <1>9. b \in Seq(AnyByte) /\ c \in Seq(AnyByte) /\ e \in Seq(AnyByte)
    BY <1>3, <1>5, <1>6
  <1>10. c = b \o e
    BY <1>7
  <1> HIDE DEF b, c, e
  <1>11. Len(c) = Len(b) + Len(e) /\ Len(b) \in Nat /\ Len(e) \in Nat /\ Holds(c, Len(b), e)
    BY <1>9, <1>10, Join2
  <1>12. Len(c) =< Len(First(s, n))
    BY <1>8 DEF Begins, c
  <1>13. /\ b = Bytes(requests, k) /\ c = Bytes(requests, k + 1) /\ e = Encode(requests[k + 1])
         /\ First(s, n) = Bytes(requests, n)
    <2>1. n \in 0..n
      BY <1>1
    <2>2. QED  BY <1>2, <1>3, <1>5, <2>1, Zenon DEF b, c, e
  <1>14. QED  BY <1>9, <1>11, <1>12, <1>13, Zenon DEF n

\* The bytes of the request on its way, in what the peer has sent
LEMMA SentMore ==
    ASSUME WellFormed, More, Len(parsed) \in Nat
    PROVE  /\ Sent = Bytes(requests, Len(parsed) + 1) /\ Valid(Current)
           /\ Encoded \in Seq(AnyByte) /\ Len(Encoded) \in Nat /\ Before \in Nat
           /\ Len(Sent) = Before + Len(Encoded)
           /\ \A i \in 1..Len(Encoded) : Sent[Before + i] = Encoded[i]
           /\ requests \in Streams => Len(Encoded) < 2^SizeBits - 3
  <1> DEFINE k == Len(parsed)  n == Len(requests)
  <1>1. k \in 0..n - 1 /\ n \in Nat /\ k + 1 \in 1..n /\ k + 1 =< n
    BY RequestsAre DEF More
  <1>2. Min({k + 1, n}) = k + 1
    <2>1. {k + 1, n} \subseteq Nat /\ {k + 1, n} # {} /\ k + 1 \in {k + 1, n}
      BY <1>1
    <2>2. \A i \in {k + 1, n} : k + 1 =< i
      BY <1>1
    <2>3. QED  BY <2>1, <2>2, Smallest
  <1>3. Sent = Bytes(requests, k + 1)
    BY <1>2 DEF Sent
  <1>4. Encoded = Encode(requests[k + 1]) /\ Before = Len(Bytes(requests, k)) /\ Valid(Current)
    BY <1>1, RequestsAre DEF Encoded, Current, Before
  <1>5. /\ Encoded \in Seq(AnyByte) /\ Before \in Nat /\ Len(Encoded) \in Nat
        /\ Len(Sent) = Before + Len(Encoded) /\ Len(Sent) =< Len(Bytes(requests, n))
        /\ Holds(Sent, Before, Encoded)
    BY <1>1, <1>3, <1>4, StreamIs
  <1>6. \A i \in 1..Len(Encoded) : Sent[Before + i] = Encoded[i]
    BY <1>5, Zenon DEF Holds
  <1>7. ASSUME requests \in Streams PROVE Len(Encoded) < 2^SizeBits - 3
    <2> DEFINE M == 2^SizeBits  L == Len(Bytes(requests, n))
    <2>1. L < M - 3 /\ M \in Nat
      BY <1>7, SizesFit
    <2>2. L \in Nat
      <3>1. (n - 1) + 1 = n /\ n - 1 \in 0..n - 1
        BY <1>1
      <3>2. Bytes(requests, (n - 1) + 1) \in Seq(AnyByte)
        BY <3>1, StreamIs
      <3>3. QED  BY <3>1, <3>2
    <2>3. Before + Len(Encoded) =< L
      BY <1>5
    <2> HIDE DEF L, M
    <2>4. Len(Encoded) < M - 3
      BY <1>5, <2>1, <2>2, <2>3
    <2>5. QED  BY <2>4 DEF M
  <1>8. QED  BY <1>3, <1>4, <1>5, <1>6, <1>7

LEMMA SentAll ==
    ASSUME WellFormed, Len(parsed) = Len(requests)
    PROVE  Sent = Bytes(requests, Len(parsed)) /\ Len(Sent) = Before /\ Before \in Nat
  <1> DEFINE k == Len(parsed)
  <1>1. k \in Nat /\ k + 1 \in Nat /\ k =< k + 1
    BY RequestsAre
  <1>2. Min({k + 1, Len(requests)}) = k
    <2>1. {k + 1, k} \subseteq Nat /\ {k + 1, k} # {} /\ k \in {k + 1, k}
      BY <1>1
    <2>2. \A i \in {k + 1, k} : k =< i
      BY <1>1
    <2>3. QED  BY <2>1, <2>2, Smallest
  <1>3. Sent = Bytes(requests, k)
    BY <1>2 DEF Sent
  <1>4. Bytes(requests, k) \in Seq(AnyByte)
    <2>1. CASE k = 0
      <3>1. [i \in 1..0 |-> Encode(requests[i])] = <<>>
        OBVIOUS
      <3>2. Bytes(requests, 0) = <<>>
        BY <3>1 DEF Bytes, FlattenSeq
      <3>3. <<>> \in Seq(AnyByte)
        OBVIOUS
      <3>4. QED  BY <2>1, <3>2, <3>3, Zenon
    <2>2. CASE k # 0
      <3>1. (k - 1) + 1 = k /\ k - 1 \in 0..Len(requests) - 1
        BY <1>1, <2>2
      <3>2. Bytes(requests, (k - 1) + 1) \in Seq(AnyByte)
        BY <3>1, StreamIs
      <3>3. QED  BY <3>1, <3>2
    <2>3. QED  BY <2>1, <2>2
  <1> DEFINE b == Bytes(requests, k)
  <1>5. Len(b) \in Nat
    BY <1>4
  <1>6. QED  BY <1>3, <1>5 DEF Before

\* The header lines of a request, the empty one after them, and its data
HeaderLine(r, h) ==
    CASE h = 0 -> (IF r.form = "unknown" THEN Unknown ELSE Start)
      [] h = 1 /\ r.form = "chunked" -> Chunked
      [] h = 1 /\ r.form = "multipart" -> Multipart
      [] OTHER -> Length(DataLength(r))

LEMMA HeadersAre ==
    ASSUME NEW r, Valid(r)
    PROVE  /\ Lines(r) \in 1..3 /\ DataLength(r) \in Nat /\ Len(Encode(r)) \in Nat
           /\ Len(Encode(r)) = 3 * Lines(r) + 2 + DataLength(r)
           /\ EmptyLineAt(Encode(r), 3 * Lines(r))
           /\ \A h \in 0..Lines(r) - 1 :
                 /\ HeaderLine(r, h) \in AnyByte /\ HeaderLine(r, h) # CR
                 /\ LineAt(Encode(r), 3 * h, HeaderLine(r, h))
  <1> DEFINE e == Encode(r)  d == DataLength(r)
  <1>0. /\ Start \in AnyByte /\ Unknown \in AnyByte /\ Chunked \in AnyByte /\ Multipart \in AnyByte
        /\ CR \notin {Start, Unknown, Chunked, Multipart}
        /\ \A n \in Nat : Length(n) \in AnyByte /\ Length(n) # CR
    BY BytesAre, BytesDiffer
  <1>1. CASE r.form \in {"none", "unknown"}
    <2>1. /\ Len(e) = 5 /\ LineAt(e, 0, IF r.form = "unknown" THEN Unknown ELSE Start)
          /\ EmptyLineAt(e, 3)
      BY <1>1, NoBodyShape
    <2>2. Lines(r) = 1
      BY <1>1 DEF Lines
    <2> HIDE DEF e
    <2>3. d = 0
      BY <2>1, <2>2 DEF DataLength, e
    <2> HIDE DEF d
    <2>4. HeaderLine(r, 0) = IF r.form = "unknown" THEN Unknown ELSE Start
      BY DEF HeaderLine
    <2>5. \A h \in 0..0 : h = 0 /\ 3 * h = 0
      OBVIOUS
    <2>6. 3 * Lines(r) = 3 /\ Lines(r) - 1 = 0 /\ Len(e) = 3 * Lines(r) + 2 + d /\ Lines(r) \in 1..3
      BY <2>1, <2>2, <2>3
    <2>7. HeaderLine(r, 0) \in AnyByte /\ HeaderLine(r, 0) # CR /\ LineAt(e, 0, HeaderLine(r, 0))
      BY <1>0, <2>1, <2>4
    <2>8. ASSUME NEW h \in 0..Lines(r) - 1
          PROVE  /\ HeaderLine(r, h) \in AnyByte /\ HeaderLine(r, h) # CR
                 /\ LineAt(e, 3 * h, HeaderLine(r, h))
      <3>1. h = 0 /\ 3 * h = 0
        BY <2>5, <2>6
      <3>2. QED  BY <2>7, <3>1
    <2>9. d \in Nat /\ Len(e) \in Nat
      BY <2>1, <2>3
    <2>10. QED  BY <2>1, <2>6, <2>8, <2>9 DEF e, d
  <1>2. CASE r.form = "fixed" \/ r.form = "chunked"
    <2> DEFINE b == IF r.form = "chunked" THEN Chunked ELSE Length(d)
    <2>1. Lines(r) = 2
      BY <1>2 DEF Lines
    <2>2. d = Len(e) - 8
      BY <2>1 DEF DataLength
    <2>3. /\ d \in Nat /\ Len(e) \in Nat /\ LineAt(e, 0, Start) /\ LineAt(e, 3, b)
          /\ EmptyLineAt(e, 6)
      <3>1. CASE r.form = "fixed"
        <4> DEFINE c == Content(r)
        <4>1. /\ e \in Seq(AnyByte) /\ Len(e) = 8 + Len(c) /\ Len(c) \in Nat
              /\ LineAt(e, 0, Start) /\ LineAt(e, 3, Length(Len(c))) /\ EmptyLineAt(e, 6)
          BY <3>1, FixedShape
        <4> HIDE DEF c, e
        <4>2. d = Len(c) /\ Len(e) \in Nat
          BY <2>2, <4>1
        <4>3. b = Length(Len(c))
          BY <3>1, <4>2
        <4>4. /\ d \in Nat /\ Len(e) \in Nat /\ LineAt(e, 0, Start) /\ LineAt(e, 3, b)
              /\ EmptyLineAt(e, 6)
          BY <4>1, <4>2, <4>3
        <4>5. QED  BY <4>4 DEF e
      <3>2. CASE r.form = "chunked"
        <4>1. /\ Len(e) = ChunksEnd(r, Len(r.parts)) + 5 /\ Len(r.parts) \in Nat
              /\ LineAt(e, 0, Start) /\ LineAt(e, 3, Chunked) /\ EmptyLineAt(e, 6)
              /\ \A m \in 0..Len(r.parts) : ChunksEnd(r, m) \in Nat /\ ChunksEnd(r, m) =< ChunksEnd(r, Len(r.parts))
              /\ ChunksEnd(r, 0) = 8
          BY <3>2, ChunkedShape DEF ChunksAre
        <4> DEFINE n == Len(r.parts)  o == ChunksEnd(r, n)
        <4>2. 0 \in 0..n /\ n \in 0..n
          BY <4>1
        <4>3. o \in Nat /\ 8 =< o /\ Len(e) = o + 5
          BY <4>1, <4>2
        <4> HIDE DEF o, e
        <4>4. d \in Nat /\ Len(e) \in Nat
          BY <2>2, <4>3
        <4>5. b = Chunked
          BY <3>2
        <4>6. QED  BY <4>1, <4>4, <4>5 DEF e
      <3>3. QED  BY <1>2, <3>1, <3>2
    <2>4. HeaderLine(r, 0) = Start /\ HeaderLine(r, 1) = b
      BY <1>2 DEF HeaderLine
    <2> HIDE DEF e, d
    <2>5. b \in AnyByte /\ b # CR
      BY <1>0, <2>3
    <2>6. 3 * Lines(r) = 6 /\ Len(e) = 3 * Lines(r) + 2 + d /\ Lines(r) \in 1..3
      BY <2>1, <2>2, <2>3
    <2>7. ASSUME NEW h \in 0..Lines(r) - 1
          PROVE  /\ HeaderLine(r, h) \in AnyByte /\ HeaderLine(r, h) # CR
                 /\ LineAt(e, 3 * h, HeaderLine(r, h))
      <3>1. (h = 0 /\ 3 * h = 0) \/ (h = 1 /\ 3 * h = 3)
        BY <2>1
      <3>2. QED  BY <1>0, <2>3, <2>4, <2>5, <3>1
    <2>8. QED  BY <2>3, <2>6, <2>7 DEF e, d
  <1>3. CASE r.form = "multipart"
    <2>1. Lines(r) = 3
      BY <1>3 DEF Lines
    <2>2. d = Len(e) - 11
      BY <2>1 DEF DataLength
    <2> DEFINE n == Len(r.parts)  o == PartsEnd(r, n)
    <2>3. /\ Len(e) = o + 3 /\ n \in Nat
          /\ LineAt(e, 0, Start) /\ LineAt(e, 3, Multipart)
          /\ LineAt(e, 6, Length(Len(e) - 11)) /\ EmptyLineAt(e, 9)
          /\ \A m \in 0..n : PartsEnd(r, m) \in Nat /\ PartsEnd(r, m) =< o
          /\ PartsEnd(r, 0) = 11
      BY <1>3, FormShape DEF FormIs
    <2>4. o \in Nat /\ 11 =< o
      <3>1. 0 \in 0..n /\ n \in 0..n
        BY <2>3
      <3>2. QED  BY <2>3, <3>1
    <2> HIDE DEF e, o
    <2>5. d \in Nat /\ Len(e) \in Nat /\ LineAt(e, 6, Length(d))
      BY <2>2, <2>3, <2>4
    <2>6. HeaderLine(r, 0) = Start /\ HeaderLine(r, 1) = Multipart /\ HeaderLine(r, 2) = Length(d)
      BY <1>3 DEF HeaderLine
    <2> HIDE DEF d
    <2>7. 3 * Lines(r) = 9 /\ Len(e) = 3 * Lines(r) + 2 + d /\ Lines(r) \in 1..3
      BY <2>1, <2>2, <2>5
    <2>8. ASSUME NEW h \in 0..Lines(r) - 1
          PROVE  /\ HeaderLine(r, h) \in AnyByte /\ HeaderLine(r, h) # CR
                 /\ LineAt(e, 3 * h, HeaderLine(r, h))
      <3>1. (h = 0 /\ 3 * h = 0) \/ (h = 1 /\ 3 * h = 3) \/ (h = 2 /\ 3 * h = 6)
        BY <2>1
      <3>2. QED  BY <1>0, <2>3, <2>5, <2>6, <3>1
    <2>9. QED  BY <2>3, <2>5, <2>7, <2>8 DEF e, d
  <1>4. QED  BY <1>1, <1>2, <1>3 DEF Valid

---------------------------------------------------------------------------
(* The first line of the pending data                                      *)

LEMMA ErasedIs ==
    ASSUME pending \in Seq(AnyByte), NEW n \in 0..Len(pending)
    PROVE  /\ Erased(n) \in Seq(AnyByte) /\ Len(Erased(n)) = Len(pending) - n
           /\ \A i \in 1..Len(pending) - n : Erased(n)[i] = pending[n + i]
  BY DEF Erased

LEMMA FirstLineOfOne ==
    ASSUME pending \in Seq(AnyByte), Len(pending) > 0 => pending[1] # CR,
           Len(pending) > 1 => pending[2] = CR, Len(pending) > 2 => pending[3] = LF
    PROVE  /\ HasLine <=> Len(pending) > 2
           /\ HasLine => NextLine = <<pending[1]>> /\ AfterLine = Erased(3)
  <1>1. CRLFs \subseteq Nat /\ 1 \notin CRLFs /\ Len(pending) \in Nat
    BY DEF CRLFs
  <1>2. CASE Len(pending) > 2
    <2>1. 2 \in CRLFs
      BY <1>2 DEF CRLFs
    <2>2. \A i \in CRLFs : 2 =< i
      BY <1>1 DEF CRLFs
    <2>3. Min(CRLFs) = 2
      BY <1>1, <2>1, <2>2, Smallest
    <2>4. NextLine = SubSeq(pending, 1, 1)
      BY <2>3 DEF NextLine
    <2>5. SubSeq(pending, 1, 1) = <<pending[1]>>
      <3>1. \A i \in 1..1 : pending[i] \in AnyByte
        BY <1>2
      <3>2. /\ SubSeq(pending, 1, 1) \in Seq(AnyByte) /\ Len(SubSeq(pending, 1, 1)) = 1
            /\ SubSeq(pending, 1, 1)[1] = pending[1]
        BY <3>1, SubSeqProperties
      <3>3. /\ <<pending[1]>> \in Seq(AnyByte) /\ Len(<<pending[1]>>) = 1
            /\ <<pending[1]>>[1] = pending[1]
        BY <3>1
      <3> DEFINE a == SubSeq(pending, 1, 1)  b == <<pending[1]>>
      <3>4. a \in Seq(AnyByte) /\ b \in Seq(AnyByte) /\ Len(a) = Len(b) /\ Len(a) = 1 /\ a[1] = b[1]
        BY <3>2, <3>3
      <3> HIDE DEF a, b
      <3>5. \A i \in 1..Len(a) : a[i] = b[i]
        BY <3>4
      <3>6. a = b
        BY <3>4, <3>5, SeqEqual
      <3>7. QED  BY <3>6 DEF a, b
    <2>6. AfterLine = Erased(3)
      BY <2>3 DEF AfterLine
    <2>7. QED  BY <1>2, <2>1, <2>4, <2>5, <2>6 DEF HasLine
  <1>3. CASE ~(Len(pending) > 2)
    <2>1. CRLFs = {}
      BY <1>1, <1>3 DEF CRLFs
    <2>2. QED  BY <1>3, <2>1 DEF HasLine
  <1>4. QED  BY <1>2, <1>3

LEMMA FirstLineEmpty ==
    ASSUME pending \in Seq(AnyByte),
           Len(pending) > 0 => pending[1] = CR, Len(pending) > 1 => pending[2] = LF
    PROVE  /\ HasLine <=> Len(pending) > 1
           /\ HasLine => NextLine = <<>> /\ AfterLine = Erased(2)
  <1>1. CRLFs \subseteq Nat /\ Len(pending) \in Nat
    BY DEF CRLFs
  <1>2. CASE Len(pending) > 1
    <2>1. 1 \in CRLFs
      BY <1>2 DEF CRLFs
    <2>2. \A i \in CRLFs : 1 =< i
      BY <1>1 DEF CRLFs
    <2>3. Min(CRLFs) = 1
      BY <1>1, <2>1, <2>2, Smallest
    <2>4. NextLine = SubSeq(pending, 1, 0)
      BY <2>3 DEF NextLine
    <2>5. SubSeq(pending, 1, 0) = <<>>
      BY <1>2
    <2>6. AfterLine = Erased(2)
      BY <2>3 DEF AfterLine
    <2>7. QED  BY <1>2, <2>1, <2>4, <2>5, <2>6 DEF HasLine
  <1>3. CASE ~(Len(pending) > 1)
    <2>1. CRLFs = {}
      BY <1>1, <1>3 DEF CRLFs
    <2>2. QED  BY <1>3, <2>1 DEF HasLine
  <1>4. QED  BY <1>2, <1>3

LEMMA LineInPlace ==
    ASSUME InPlace, NEW b, b # CR, LineAt(Encoded, Used, b)
    PROVE  /\ HasLine <=> Len(pending) > 2
           /\ HasLine => NextLine = <<b>> /\ AfterLine = Erased(3)
  <1>1. pending \in Seq(AnyByte) /\ \A i \in 1..Len(pending) : pending[i] = Encoded[Used + i]
    BY DEF InPlace
  <1>2. /\ Len(pending) > 0 => pending[1] = b
        /\ Len(pending) > 1 => pending[2] = CR
        /\ Len(pending) > 2 => pending[3] = LF
    BY <1>1 DEF LineAt
  <1>3. QED  BY <1>1, <1>2, FirstLineOfOne

LEMMA EmptyInPlace ==
    ASSUME InPlace, EmptyLineAt(Encoded, Used)
    PROVE  /\ HasLine <=> Len(pending) > 1
           /\ HasLine => NextLine = <<>> /\ AfterLine = Erased(2)
  <1>1. pending \in Seq(AnyByte) /\ \A i \in 1..Len(pending) : pending[i] = Encoded[Used + i]
    BY DEF InPlace
  <1>2. (Len(pending) > 0 => pending[1] = CR) /\ (Len(pending) > 1 => pending[2] = LF)
    BY <1>1 DEF EmptyLineAt
  <1>3. QED  BY <1>1, <1>2, FirstLineEmpty

---------------------------------------------------------------------------
(* Steps of the parser                                                     *)

LEMMA Placed ==
    ASSUME WellFormed, ParserInv, Parsing, More
    PROVE  /\ InPlace /\ Valid(Current) /\ Len(parsed) \in Nat /\ Before \in Nat
           /\ Encoded \in Seq(AnyByte) /\ Len(Encoded) \in Nat /\ Len(Encoded) < kInvalidLength - 2
           /\ kInvalidLength \in Nat
           /\ Come \in Nat /\ Used \in Nat /\ Come = Used + Len(pending) /\ Come =< Len(Encoded)
           /\ pos = Before + Come /\ pending \in Seq(AnyByte) /\ Len(pending) \in Nat
  <1>1. /\ InPlace /\ parsed \in Seq(Seq(Seq(AnyByte))) /\ pos \in Nat /\ requests \in Streams
    BY DEF ParserInv, PlaceInv, ParsedInv, FieldsInv
  <1>2. Len(parsed) \in Nat
    BY <1>1
  <1>3. /\ Valid(Current) /\ Encoded \in Seq(AnyByte) /\ Len(Encoded) \in Nat /\ Before \in Nat
        /\ Len(Encoded) < 2^SizeBits - 3
    BY <1>1, <1>2, SentMore
  <1> DEFINE M == 2^SizeBits
  <1>4. M \in Nat \ {0} /\ kInvalidLength = M - 1 /\ Len(Encoded) < M - 3
    BY <1>3, SizesFit DEF kInvalidLength
  <1> HIDE DEF M
  <1>5. Len(Encoded) < kInvalidLength - 2 /\ kInvalidLength \in Nat
    BY <1>3, <1>4
  <1>6. /\ Used \in Nat /\ Come =< Len(Encoded) /\ pending \in Seq(AnyByte)
    BY <1>1 DEF InPlace
  <1>7. Len(pending) \in Nat
    BY <1>6
  <1>8. Come = pos - Before /\ Used = Come - Len(pending)
    BY DEF Come, Used
  <1>9. Come \in Nat /\ Come = Used + Len(pending) /\ pos = Before + Come
    BY <1>1, <1>3, <1>6, <1>7, <1>8
  <1>10. QED  BY <1>1, <1>2, <1>3, <1>5, <1>6, <1>7, <1>9

\* What does not change while the same request is parsed
LEMMA SameRequest ==
    ASSUME requests' = requests, parsed' = parsed
    PROVE  /\ Current' = Current /\ Encoded' = Encoded /\ Before' = Before /\ More' = More
           /\ WellFormed' = WellFormed /\ ParsedInv' = ParsedInv
  BY DEF Current, Encoded, Before, More, WellFormed, ParsedInv

\* n bytes are used.
LEMMA Erase ==
    ASSUME WellFormed, ParserInv, Parsing, More,
           requests' = requests, parsed' = parsed, pos' = pos,
           NEW n \in 0..Len(pending), pending' = Erased(n)
    PROVE  InPlace' /\ Used' = Used + n /\ Come' = Come
  <1>1. /\ InPlace /\ Before \in Nat /\ Come = Used + Len(pending) /\ Used \in Nat
        /\ pending \in Seq(AnyByte) /\ Len(pending) \in Nat /\ Come =< Len(Encoded) /\ Come \in Nat
    BY Placed
  <1>2. Current' = Current /\ Encoded' = Encoded /\ Before' = Before
    BY SameRequest
  <1>3. Come' = Come
    BY <1>2 DEF Come
  <1>4. /\ pending' \in Seq(AnyByte) /\ Len(pending') = Len(pending) - n
        /\ \A i \in 1..Len(pending) - n : pending'[i] = pending[n + i]
    BY <1>1, ErasedIs
  <1>5. Used' = Used + n
    BY <1>1, <1>3, <1>4 DEF Used
  <1>6. ASSUME NEW i \in 1..Len(pending') PROVE pending'[i] = Encoded[Used' + i]
    <2>1. n + i \in 1..Len(pending) /\ Used + (n + i) = Used' + i /\ i \in 1..Len(pending) - n
      BY <1>1, <1>4, <1>5
    <2>2. pending'[i] = pending[n + i] /\ pending[n + i] = Encoded[Used + (n + i)]
      BY <1>1, <1>4, <2>1 DEF InPlace
    <2>3. QED  BY <2>1, <2>2
  <1>7. Used' \in Nat
    BY <1>1, <1>5
  <1>8. InPlace'
    BY <1>1, <1>2, <1>3, <1>4, <1>6, <1>7 DEF InPlace
  <1>9. QED  BY <1>3, <1>5, <1>8

LEMMA EraseNone ==
    ASSUME InPlace, requests' = requests, parsed' = parsed, pos' = pos, pending' = pending
    PROVE  InPlace' /\ Used' = Used /\ Come' = Come
  BY DEF InPlace, Used, Come, Before, Encoded, Current

LEMMA EraseAll ==
    ASSUME pending \in Seq(AnyByte)
    PROVE  <<>> = Erased(Len(pending)) /\ Len(pending) \in 0..Len(pending)
  <1>1. Len(pending) \in Nat
    OBVIOUS
  <1>2. SubSeq(pending, Len(pending) + 1, Len(pending)) = <<>>
    BY <1>1, SubSeqEmpty
  <1>3. QED  BY <1>1, <1>2 DEF Erased

\* A step that goes on with the same request
Fields ==
    /\ header_ended \in BOOLEAN /\ chunked \in BOOLEAN /\ multipart \in BOOLEAN
    /\ content_length \in 0..kInvalidLength /\ chunk_size \in 0..kInvalidLength
    /\ step \in {"start", "boundary", "headers", "ended"}

LEMMA GoesOn ==
    ASSUME WellFormed, ParserInv, Parsing, More,
           requests' = requests, parsed' = parsed, pos' = pos, InPlace',
           IF pc' = "reading" THEN Come < Len(Encoded) ELSE pc # "reading" /\ Parsing',
           (HeaderPhase \/ (HeadersParsed /\ Body))', FormInv', Fields'
    PROVE  ParserInv'
  <1>1. /\ Encoded' = Encoded /\ Before' = Before /\ More' = More /\ ParsedInv' = ParsedInv
    BY SameRequest
  <1>2. Come' = Come
    BY <1>1 DEF Come
  <1>3. pc' = "reading" \/ ~Cuts(Encoded, Come)
    BY DEF ParserInv, PlaceInv
  <1>4. PlaceInv'
    BY <1>1, <1>2, <1>3 DEF PlaceInv
  <1>5. Parsing' /\ pc' \notin {"terminated", "bad", "finished"}
    BY DEF Parsing
  <1>6. EndInv'
    BY <1>1, <1>5 DEF EndInv
  <1>7. FieldsInv'
    BY <1>5 DEF FieldsInv, ParserInv, Fields, Parsing
  <1>8. ParsedInv'
    BY <1>1 DEF ParserInv
  <1>9. QED  BY <1>4, <1>6, <1>7, <1>8 DEF ParserInv

\* A step that hands the request on
LEMMA MeantIs ==
    ASSUME NEW r, Valid(r)
    PROVE  Meant(r) \in Seq(Seq(AnyByte))
  <1>1. Content(r) \in Seq(AnyByte)
    BY PartsAre
  <1>2. r.parts \in Seq(Seq(AnyByte))
    BY DEF Valid
  <1>3. <<>> \in Seq(Seq(AnyByte)) /\ <<Content(r)>> \in Seq(Seq(AnyByte))
    BY <1>1
  <1>4. QED  BY <1>2, <1>3 DEF Meant

LEMMA HandsOn ==
    ASSUME WellFormed, ParserInv, Parsing, More, Come = Len(Encoded),
           Current.form # "unknown", Finish(Meant(Current)), Fields',
           Current.form = "multipart" \/ (UNCHANGED <<step, form_parts>>)
    PROVE  ParserInv'
  <1> DEFINE k == Len(parsed)  m == Meant(Current)
  <1>1. /\ requests' = requests /\ parsed' = Append(parsed, m) /\ pc' = "finished" /\ pos' = pos
    BY DEF Finish
  <1>2. /\ Valid(Current) /\ k \in Nat /\ pos = Before + Len(Encoded)
        /\ parsed \in Seq(Seq(Seq(AnyByte)))
    BY Placed DEF ParserInv, ParsedInv
  <1>3. m \in Seq(Seq(AnyByte))
    BY <1>2, MeantIs
  <1>4. k + 1 =< Len(requests) /\ Len(requests) \in Nat
    BY <1>2, RequestsAre DEF More
  <1> HIDE DEF m
  <1>5. /\ parsed' \in Seq(Seq(Seq(AnyByte))) /\ Len(parsed') = k + 1
        /\ \A i \in 1..k : parsed'[i] = parsed[i]
        /\ parsed'[k + 1] = m
    BY <1>1, <1>2, <1>3, AppendProperties
  <1>6. Before' = Before + Len(Encoded)
    <2>1. Sent = Bytes(requests, k + 1) /\ Len(Sent) = Before + Len(Encoded)
      BY <1>2, SentMore
    <2>2. QED  BY <1>1, <1>5, <2>1 DEF Before
  <1>7. EndInv'
    BY <1>1, <1>2, <1>6 DEF EndInv, Parsing
  <1>8. PlaceInv'
    BY <1>1 DEF PlaceInv, Parsing
  <1>9. ParsedInv'
    <2>1. Len(parsed') =< Len(requests')
      BY <1>1, <1>4, <1>5
    <2>2. ASSUME NEW i \in 1..Len(parsed')
          PROVE  requests'[i].form # "unknown" /\ parsed'[i] = Meant(requests'[i])
      <3>1. CASE i = k + 1
        BY <1>1, <1>5, <3>1 DEF Current, m
      <3>2. CASE i # k + 1
        <4>1. i \in 1..k
          BY <1>2, <1>5, <3>2
        <4>2. QED  BY <1>1, <1>5, <4>1 DEF ParserInv, ParsedInv
      <3>3. QED  BY <3>1, <3>2
    <2>3. QED  BY <1>5, <2>1, <2>2 DEF ParsedInv
  <1>10. FormInv'
    <2>1. CASE Current.form = "multipart"
      <3>1. k + 1 \in 1..Len(parsed') /\ requests'[k + 1].form = "multipart"
        BY <1>1, <1>2, <1>5, <2>1 DEF Current
      <3>2. QED  BY <3>1 DEF FormInv
    <2>2. CASE Current.form # "multipart" /\ step' = step /\ form_parts' = form_parts
      <3>1. pc # "bad"
        BY DEF Parsing
      <3>2. CASE \E i \in 1..Len(parsed) : requests[i].form = "multipart"
        <4>1. PICK i \in 1..k : requests[i].form = "multipart"
          BY <3>2
        <4>2. i \in 1..Len(parsed') /\ requests'[i].form = "multipart"
          BY <1>1, <1>2, <1>5, <4>1
        <4>3. QED  BY <4>2 DEF FormInv
      <3>3. CASE step = "start" /\ form_parts = <<>>
        BY <2>2, <3>3 DEF FormInv
      <3>4. QED  BY <2>2, <3>1, <3>2, <3>3 DEF FormInv, ParserInv
    <2>3. QED  BY <2>1, <2>2
  <1>11. FieldsInv'
    BY <1>1 DEF FieldsInv, ParserInv, Fields
  <1>12. QED  BY <1>7, <1>8, <1>9, <1>10, <1>11 DEF ParserInv

\* The form of a connection is still to come while its other requests are parsed.
LEMMA FormKept ==
    ASSUME ParserInv, Parsing, More, requests' = requests, parsed' = parsed,
           step' = step, form_parts' = form_parts,
           pc' = "bad" \/ (Parsing' /\ (header_ended' \/ ~header_ended))
    PROVE  FormInv'
  <1>1. Current' = Current /\ More' = More
    BY SameRequest
  <1>2. pc # "bad" /\ FormInv
    BY DEF Parsing, ParserInv
  <1>3. header_ended \in BOOLEAN
    BY DEF ParserInv, FieldsInv
  <1>4. QED  BY <1>1, <1>2, <1>3 DEF FormInv

---------------------------------------------------------------------------
(* Headers                                                                 *)

LEMMA InHeaders ==
    ASSUME WellFormed, ParserInv, pc = "headers"
    PROVE  /\ Parsing /\ More /\ ~header_ended
           /\ chunk_size = kInvalidLength /\ content = <<>>
           /\ \E h \in 0..Lines(Current) : AtLine(h)
  <1>1. Parsing /\ More
    BY DEF Parsing, ParserInv, EndInv
  <1>2. HeaderPhase
    BY <1>1 DEF ParserInv, PlaceInv, HeadersParsed
  <1>3. QED  BY <1>1, <1>2 DEF HeaderPhase

LEMMA NextHeader ==
    ASSUME WellFormed, ParserInv, pc = "headers", NEW h \in 0..Lines(Current), AtLine(h)
    PROVE  /\ Lines(Current) \in 1..3 /\ h \in Nat /\ (h < Lines(Current) \/ h = Lines(Current))
           /\ h < Lines(Current) =>
                 /\ HeaderLine(Current, h) # CR /\ HeaderLine(Current, h) \in AnyByte
                 /\ Encoded[3 * h + 1] = HeaderLine(Current, h)
                 /\ HasLine <=> Len(pending) > 2
                 /\ HasLine => NextLine = <<HeaderLine(Current, h)>> /\ AfterLine = Erased(3)
           /\ h = Lines(Current) =>
                 /\ HasLine <=> Len(pending) > 1
                 /\ HasLine => NextLine = <<>> /\ AfterLine = Erased(2)
           /\ Encoded[1] = IF Current.form = "unknown" THEN Unknown ELSE Start
  <1> DEFINE r == Current
  <1>1. Parsing /\ More
    BY InHeaders
  <1>2. InPlace /\ Valid(r)
    BY <1>1, Placed
  <1>3. /\ Lines(r) \in 1..3 /\ EmptyLineAt(Encoded, 3 * Lines(r))
        /\ \A i \in 0..Lines(r) - 1 :
              /\ HeaderLine(r, i) \in AnyByte /\ HeaderLine(r, i) # CR
              /\ LineAt(Encoded, 3 * i, HeaderLine(r, i))
    BY <1>2, HeadersAre DEF Encoded
  <1>4. Used = 3 * h
    BY DEF AtLine
  <1> HIDE DEF r
  <1>5. h \in Nat /\ (h < Lines(r) \/ h = Lines(r))
    BY <1>3 DEF r
  <1>6. ASSUME h < Lines(r)
        PROVE  /\ HeaderLine(r, h) # CR /\ HeaderLine(r, h) \in AnyByte
               /\ Encoded[3 * h + 1] = HeaderLine(r, h)
               /\ HasLine <=> Len(pending) > 2
               /\ HasLine => NextLine = <<HeaderLine(r, h)>> /\ AfterLine = Erased(3)
    <2>1. h \in 0..Lines(r) - 1
      BY <1>3, <1>5, <1>6
    <2> DEFINE b == HeaderLine(r, h)
    <2>2. b \in AnyByte /\ b # CR /\ LineAt(Encoded, Used, b)
      BY <1>3, <1>4, <2>1
    <2> HIDE DEF b
    <2>3. /\ HasLine <=> Len(pending) > 2
          /\ HasLine => NextLine = <<b>> /\ AfterLine = Erased(3)
      BY <1>2, <2>2, LineInPlace
    <2>4. Encoded[3 * h + 1] = b
      BY <1>4, <2>2 DEF LineAt
    <2>5. QED  BY <2>2, <2>3, <2>4 DEF b
  <1>7. ASSUME h = Lines(r)
        PROVE  /\ HasLine <=> Len(pending) > 1
               /\ HasLine => NextLine = <<>> /\ AfterLine = Erased(2)
    <2>1. EmptyLineAt(Encoded, Used)
      BY <1>3, <1>4, <1>7
    <2>2. QED  BY <1>2, <2>1, EmptyInPlace
  <1>8. Encoded[1] = IF r.form = "unknown" THEN Unknown ELSE Start
    <2>1. 0 \in 0..Lines(r) - 1 /\ 3 * 0 = 0
      BY <1>3
    <2>2. LineAt(Encoded, 0, HeaderLine(r, 0))
      BY <1>3, <2>1
    <2>3. Encoded[1] = HeaderLine(r, 0)
      BY <2>2 DEF LineAt
    <2>4. QED  BY <2>3 DEF HeaderLine
  <1>9. QED  BY <1>3, <1>5, <1>6, <1>7, <1>8 DEF r

LEMMA NeedHeaderInv ==
    ASSUME WellFormed, ParserInv, NeedHeader
    PROVE  ParserInv'
  <1>1. /\ pc = "headers" /\ pc' = "reading" /\ ~HasLine
        /\ requests' = requests /\ parsed' = parsed /\ pos' = pos /\ pending' = pending
        /\ start_line' = start_line /\ header_ended' = header_ended /\ chunked' = chunked
        /\ multipart' = multipart /\ content_length' = content_length
        /\ chunk_size' = chunk_size /\ content' = content
        /\ step' = step /\ form_parts' = form_parts
    BY DEF NeedHeader, Wait, head, body
  <1>2. /\ Parsing /\ More /\ ~header_ended
        /\ chunk_size = kInvalidLength /\ content = <<>>
    BY <1>1, InHeaders
  <1>3. PICK h \in 0..Lines(Current) : AtLine(h)
    BY <1>1, InHeaders
  <1>4. /\ InPlace /\ Valid(Current) /\ Come = Used + Len(pending) /\ Len(pending) \in Nat
    BY <1>2, Placed
  <1>5. InPlace' /\ Used' = Used
    BY <1>1, <1>4, EraseNone
  <1>6. Current' = Current /\ Encoded' = Encoded
    BY <1>1, SameRequest
  <1>7. Come < Len(Encoded)
    <2>1. /\ Len(Encoded) = 3 * Lines(Current) + 2 + DataLength(Current)
          /\ DataLength(Current) \in Nat
      BY <1>4, HeadersAre DEF Encoded
    <2>2. Lines(Current) \in 1..3 /\ h \in Nat /\ (h < Lines(Current) \/ h = Lines(Current))
      BY <1>1, <1>3, NextHeader
    <2>3. Used = 3 * h
      BY <1>3 DEF AtLine
    <2>4. CASE h < Lines(Current)
      <3>1. Len(pending) =< 2
        BY <1>1, <1>3, <1>4, <2>4, NextHeader
      <3>2. QED  BY <1>4, <2>1, <2>2, <2>3, <2>4, <3>1
    <2>5. CASE h = Lines(Current)
      <3>1. Len(pending) =< 1
        BY <1>1, <1>3, <1>4, <2>5, NextHeader
      <3>2. QED  BY <1>4, <2>1, <2>2, <2>3, <2>5, <3>1
    <2>6. QED  BY <2>2, <2>4, <2>5
  <1>8. AtLine(h)' /\ h \in 0..Lines(Current')
    BY <1>1, <1>3, <1>5, <1>6 DEF AtLine
  <1>9. HeaderPhase'
    BY <1>1, <1>2, <1>6, <1>8 DEF HeaderPhase
  <1>10. Parsing'
    BY <1>1 DEF Parsing
  <1>11. FormInv'
    BY <1>1, <1>2, <1>10, FormKept
  <1>12. Fields'
    BY <1>1 DEF Fields, ParserInv, FieldsInv
  <1>13. QED  BY <1>1, <1>2, <1>5, <1>7, <1>9, <1>10, <1>11, <1>12, GoesOn

LEMMA ParseHeaderLineInv ==
    ASSUME WellFormed, ParserInv, ParseHeaderLine
    PROVE  ParserInv'
  <1> DEFINE line == NextLine[1]
  <1>1. /\ pc = "headers" /\ pc' = "headers" /\ HasLine /\ NextLine # <<>> /\ pending' = AfterLine
        /\ requests' = requests /\ parsed' = parsed /\ pos' = pos
        /\ header_ended' = header_ended
        /\ chunk_size' = chunk_size /\ content' = content
        /\ step' = step /\ form_parts' = form_parts
        /\ IF start_line = NotParsed
           THEN /\ start_line' = line /\ chunked' = chunked /\ multipart' = multipart
                /\ content_length' = content_length
           ELSE /\ content_length' = IF line[1] = "length" THEN line[2] ELSE content_length
                /\ start_line' = start_line
    BY DEF ParseHeaderLine, body
  <1>2. chunked \in BOOLEAN /\ multipart \in BOOLEAN
    BY DEF ParserInv, FieldsInv
  <1>3. /\ chunked' \in BOOLEAN /\ multipart' \in BOOLEAN
        /\ start_line # NotParsed => /\ chunked' <=> chunked \/ line = Chunked
                                     /\ multipart' <=> multipart \/ line = Multipart
    BY <1>2, Zenon DEF ParseHeaderLine
  <1>4. /\ Parsing /\ More /\ ~header_ended
        /\ chunk_size = kInvalidLength /\ content = <<>>
    BY <1>1, InHeaders
  <1>5. PICK h \in 0..Lines(Current) : AtLine(h)
    BY <1>1, InHeaders
  <1>6. /\ Valid(Current) /\ Len(pending) \in Nat /\ kInvalidLength \in Nat
        /\ Len(Encoded) \in Nat /\ Len(Encoded) < kInvalidLength - 2
    BY <1>4, Placed
  <1>7. Lines(Current) \in 1..3 /\ h \in Nat /\ h < Lines(Current) /\ h + 1 \in 0..Lines(Current)
    BY <1>1, <1>5, NextHeader
  <1> DEFINE b == HeaderLine(Current, h)
  <1>8. /\ Len(pending) > 2 /\ pending' = Erased(3) /\ NextLine = <<b>> /\ Encoded[3 * h + 1] = b
    BY <1>1, <1>5, <1>7, NextHeader
  <1>9. line = b
    BY <1>8
  <1> HIDE DEF line
  <1>10. InPlace' /\ Used' = Used + 3 /\ Come' = Come
    <2>1. 3 \in 0..Len(pending)
      BY <1>6, <1>8
    <2>2. QED  BY <1>1, <1>4, <1>8, <2>1, Erase
  <1>11. Current' = Current /\ Encoded' = Encoded
    BY <1>1, SameRequest
  <1>12. DataLength(Current) \in 0..kInvalidLength
    <2>1. /\ DataLength(Current) \in Nat
          /\ Len(Encoded) = 3 * Lines(Current) + 2 + DataLength(Current)
      BY <1>6, HeadersAre DEF Encoded
    <2>2. QED  BY <1>6, <1>7, <2>1
  <1>13. Encoded[1] = IF Current.form = "unknown" THEN Unknown ELSE Start
    BY <1>1, <1>5, NextHeader
  <1>14. NotParsed \notin {Start, Unknown}
    BY BytesDiffer
  <1>15. /\ AtLine(h + 1)' /\ content_length' \in 0..kInvalidLength
    <2>1. Used' = 3 * (h + 1)
      BY <1>5, <1>7, <1>10 DEF AtLine
    <2>2. CASE h = 0
      <3>1. start_line = NotParsed /\ start_line' = b /\ Encoded[1] = b
        BY <1>1, <1>5, <1>8, <1>9, <2>2 DEF AtLine
      <3>2. ~chunked /\ ~multipart /\ content_length = kInvalidLength
        BY <1>5, <2>2 DEF AtLine
      <3>3. ~chunked' /\ ~multipart' /\ content_length' = kInvalidLength
        BY <1>1, <3>1, <3>2, Zenon
      <3>4. h + 1 = 1
        BY <2>2
      <3>5. QED  BY <1>6, <1>11, <2>1, <3>1, <3>3, <3>4 DEF AtLine
    <2>3. CASE h # 0
      <3>1. start_line = Encoded[1] /\ start_line # NotParsed
        BY <1>5, <1>13, <1>14, <2>3 DEF AtLine
      <3>2. /\ content_length' = IF b[1] = "length" THEN b[2] ELSE content_length
            /\ start_line' = Encoded[1]
            /\ chunked' <=> chunked \/ b = Chunked
            /\ multipart' <=> multipart \/ b = Multipart
        BY <1>1, <1>9, <1>3, <3>1
      <3>3. /\ Chunked[1] # "length" /\ Multipart[1] # "length" /\ Chunked # Multipart
            /\ \A n \in Nat : /\ Length(n)[1] = "length" /\ Length(n)[2] = n
                              /\ Length(n) \notin {Chunked, Multipart}
        BY BytesSay, BytesDiffer
      <3>4. h + 1 # 0 /\ Current.form \in {"fixed", "chunked", "multipart"}
        BY <1>6, <1>7, <2>3 DEF Lines, Valid
      <3>5. CASE Current.form = "fixed"
        <4>1. h = 1 /\ b = Length(DataLength(Current))
          BY <1>7, <2>3, <3>5 DEF Lines, HeaderLine
        <4>2. ~chunked /\ ~multipart
          BY <1>5, <3>5 DEF AtLine
        <4>3. ~chunked' /\ ~multipart' /\ content_length' = DataLength(Current)
          BY <1>12, <3>2, <3>3, <4>1, <4>2
        <4>4. QED  BY <1>11, <1>12, <2>1, <3>2, <3>5, <4>1, <4>3 DEF AtLine
      <3>6. CASE Current.form = "chunked"
        <4>1. h = 1 /\ b = Chunked
          BY <1>7, <2>3, <3>6 DEF Lines, HeaderLine
        <4>2. ~multipart /\ content_length = kInvalidLength
          BY <1>5, <3>6 DEF AtLine
        <4>3. chunked' /\ ~multipart' /\ content_length' = kInvalidLength
          BY <3>2, <3>3, <4>1, <4>2
        <4>4. QED  BY <1>6, <1>11, <2>1, <3>2, <3>6, <4>1, <4>3 DEF AtLine
      <3>7. CASE Current.form = "multipart"
        <4>1. ~chunked
          BY <1>5, <3>7 DEF AtLine
        <4>2. CASE h = 1
          <5>1. b = Multipart
            BY <3>7, <4>2 DEF HeaderLine
          <5>2. content_length = kInvalidLength
            BY <1>5, <3>7, <4>2 DEF AtLine
          <5>3. ~chunked' /\ multipart' /\ content_length' = kInvalidLength
            BY <3>2, <3>3, <4>1, <5>1, <5>2
          <5>4. QED  BY <1>6, <1>11, <2>1, <3>2, <3>7, <4>2, <5>3 DEF AtLine
        <4>3. CASE h = 2
          <5>1. b = Length(DataLength(Current))
            BY <3>7, <4>3 DEF HeaderLine
          <5>2. multipart
            BY <1>5, <3>7, <4>3 DEF AtLine
          <5>3. ~chunked' /\ multipart' /\ content_length' = DataLength(Current)
            BY <1>12, <3>2, <3>3, <4>1, <5>1, <5>2
          <5>4. QED  BY <1>11, <1>12, <2>1, <3>2, <3>7, <4>3, <5>3 DEF AtLine
        <4>4. h = 1 \/ h = 2
          BY <1>7, <2>3
        <4>5. QED  BY <4>2, <4>3, <4>4
      <3>8. QED  BY <3>4, <3>5, <3>6, <3>7
    <2>4. QED  BY <2>2, <2>3
  <1>16. HeaderPhase'
    BY <1>1, <1>4, <1>7, <1>11, <1>15 DEF HeaderPhase
  <1>17. Parsing'
    BY <1>1 DEF Parsing
  <1>18. FormInv'
    BY <1>1, <1>4, <1>17, FormKept
  <1>19. Fields'
    BY <1>1, <1>15, <1>3 DEF Fields, ParserInv, FieldsInv
  <1>20. QED  BY <1>1, <1>4, <1>10, <1>16, <1>17, <1>18, <1>19, GoesOn

\* The only form of a connection finds step_ and form_parts_ as Init left them.
LEMMA FormIsFirst ==
    ASSUME WellFormed, ParserInv, Parsing, More, Current.form = "multipart", ~header_ended
    PROVE  step = "start" /\ form_parts = <<>>
  <1>1. Len(parsed) \in Nat /\ Len(requests) \in Nat /\ DOMAIN requests = 1..Len(requests)
    BY Placed, RequestsAre
  <1>2. Len(parsed) + 1 \in DOMAIN requests
    BY <1>1 DEF More
  <1>3. ASSUME NEW i \in 1..Len(parsed), requests[i].form = "multipart" PROVE FALSE
    <2>1. i \in DOMAIN requests /\ i # Len(parsed) + 1
      BY <1>1 DEF More
    <2>2. QED  BY <1>2, <1>3, <2>1 DEF WellFormed, Current
  <1>4. QED  BY <1>3 DEF ParserInv, FormInv, Parsing

LEMMA OnHeadersEndInv ==
    ASSUME WellFormed, ParserInv, OnHeadersEnd
    PROVE  ParserInv'
  <1> DEFINE r == Current
  <1>1. /\ pc = "headers" /\ pc' = "content" /\ HasLine /\ NextLine = <<>> /\ start_line = Start
        /\ pending' = AfterLine
        /\ requests' = requests /\ parsed' = parsed /\ pos' = pos
        /\ header_ended' = TRUE /\ start_line' = start_line /\ content_length' = content_length
        /\ chunked' = chunked /\ multipart' = multipart
        /\ chunk_size' = chunk_size /\ content' = content
        /\ step' = step /\ form_parts' = form_parts
    BY DEF OnHeadersEnd, body
  <1>2. /\ Parsing /\ More /\ ~header_ended
        /\ chunk_size = kInvalidLength /\ content = <<>>
    BY <1>1, InHeaders
  <1>3. PICK h \in 0..Lines(r) : AtLine(h)
    BY <1>1, InHeaders
  <1>4. Valid(r) /\ Len(pending) \in Nat /\ kInvalidLength \in Nat
    BY <1>2, Placed
  <1>5. h = Lines(r) /\ Lines(r) \in 1..3 /\ Len(pending) > 1 /\ pending' = Erased(2)
    <2>1. Lines(r) \in 1..3 /\ (h < Lines(r) \/ h = Lines(r))
      BY <1>1, <1>3, NextHeader
    <2>2. h < Lines(r) => NextLine = <<HeaderLine(r, h)>>
      BY <1>1, <1>3, NextHeader
    <2>3. \A x : <<x>> # <<>>
      OBVIOUS
    <2>4. h = Lines(r)
      BY <1>1, <2>1, <2>2, <2>3
    <2>5. Len(pending) > 1 /\ AfterLine = Erased(2)
      BY <1>1, <1>3, <2>4, NextHeader
    <2>6. QED  BY <1>1, <2>1, <2>4, <2>5
  <1>6. InPlace' /\ Used' = Used + 2 /\ Come' = Come
    <2>1. 2 \in 0..Len(pending)
      BY <1>4, <1>5
    <2>2. QED  BY <1>1, <1>2, <1>5, <2>1, Erase
  <1>7. Current' = r /\ Encoded' = Encoded
    BY <1>1, SameRequest
  <1>8. /\ Used = 3 * Lines(r) /\ start_line = Encoded[1]
        /\ chunked <=> r.form = "chunked" /\ Lines(r) = 2
        /\ multipart <=> r.form = "multipart" /\ Lines(r) >= 2
        /\ content_length = IF \/ r.form = "fixed" /\ Lines(r) = 2
                               \/ r.form = "multipart" /\ Lines(r) = 3
                            THEN DataLength(r) ELSE kInvalidLength
    BY <1>3, <1>5 DEF AtLine
  <1>9. r.form # "unknown"
    <2>1. Encoded[1] = IF r.form = "unknown" THEN Unknown ELSE Start
      BY <1>1, <1>3, NextHeader
    <2>2. Start # Unknown
      BY BytesDiffer
    <2>3. QED  BY <1>1, <1>8, <2>1, <2>2
  <1> HIDE DEF r
  <1>10. /\ r.form \in {"none", "fixed", "chunked", "multipart"}
         /\ Lines(r) = CASE r.form = "multipart" -> 3
                         [] r.form \in {"fixed", "chunked"} -> 2
                         [] OTHER -> 1
    BY <1>4, <1>9 DEF Valid, Lines
  <1>11. HeadersParsed'
    <2>1. /\ chunked <=> r.form = "chunked"
          /\ multipart <=> r.form = "multipart"
          /\ content_length = IF r.form \in {"fixed", "multipart"} THEN DataLength(r) ELSE kInvalidLength
      BY <1>8, <1>10
    <2>2. QED  BY <1>1, <1>7, <2>1 DEF HeadersParsed
  <1>12. Body'
    <2>1. CASE r.form = "none"
      <3>1. Used' = 5
        BY <1>6, <1>8, <1>10, <2>1
      <3>2. QED  BY <1>1, <1>7, <2>1, <3>1 DEF Body, NoBody
    <2>2. CASE r.form = "fixed"
      <3>1. content' = <<>> /\ Used' = 8 + 0
        BY <1>1, <1>2, <1>6, <1>8, <1>10, <2>2
      <3>2. content' \in Seq(AnyByte) /\ Len(content') = 0
        BY <3>1
      <3>3. QED  BY <1>1, <1>2, <1>7, <2>2, <3>1, <3>2 DEF Body, FixedBody
    <2>3. CASE r.form = "chunked"
      <3>1. Used' = ChunksEnd(r, 0)
        <4>1. ChunksEnd(r, 0) = 8
          BY <1>4, <2>3, ChunkedShape DEF ChunksAre
        <4>2. QED  BY <1>6, <1>8, <1>10, <2>3, <4>1
      <3>2. First(r.parts, 0) = <<>> /\ Len(r.parts) \in Nat
        BY <1>4, PartsAre, FirstStep
      <3>3. AtSize(0)' /\ 0 \in 0..Len(Current'.parts)
        BY <1>1, <1>2, <1>7, <3>1, <3>2 DEF AtSize
      <3>4. QED  BY <1>7, <2>3, <3>3 DEF Body, ChunkedBody
    <2>4. CASE r.form = "multipart"
      <3>1. step = "start" /\ form_parts = <<>>
        BY <1>2, <2>4, FormIsFirst DEF r
      <3>2. Used' = 11
        BY <1>6, <1>8, <1>10, <2>4
      <3>3. QED  BY <1>1, <1>2, <1>7, <2>4, <3>1, <3>2 DEF Body, FormBody, FirstLine
    <2>5. QED  BY <1>10, <2>1, <2>2, <2>3, <2>4
  <1>13. Parsing' /\ pc # "reading"
    BY <1>1 DEF Parsing
  <1>14. FormInv'
    BY <1>1, <1>2, <1>13, FormKept
  <1>15. Fields'
    BY <1>1 DEF Fields, ParserInv, FieldsInv
  <1>16. QED  BY <1>1, <1>2, <1>6, <1>11, <1>12, <1>13, <1>14, <1>15, GoesOn

---------------------------------------------------------------------------
(* Fixed content                                                           *)

LEMMA InContent ==
    ASSUME WellFormed, ParserInv, pc = "content"
    PROVE  /\ Parsing /\ More /\ header_ended /\ start_line = Start /\ ~Cuts(Encoded, Come)
           /\ Current.form \in {"none", "fixed", "chunked", "multipart"}
           /\ Current.form = "none" <=> ~chunked /\ ~multipart /\ content_length = kInvalidLength
           /\ Current.form = "fixed" <=> ~chunked /\ ~multipart /\ content_length # kInvalidLength
           /\ Current.form = "chunked" <=> chunked
           /\ Current.form = "multipart" <=> multipart
           /\ Current.form = "none" => NoBody
           /\ Current.form = "fixed" => FixedBody /\ content_length = DataLength(Current)
           /\ Current.form = "chunked" => ChunkedBody
           /\ Current.form = "multipart" => FormBody /\ content_length = DataLength(Current)
           /\ Current.form = "multipart" => content_length # kInvalidLength
  <1>1. Parsing /\ More
    BY DEF Parsing, ParserInv, EndInv
  <1>2. HeadersParsed /\ Body /\ ~Cuts(Encoded, Come)
    BY <1>1 DEF ParserInv, PlaceInv, HeaderPhase
  <1>3. DataLength(Current) # kInvalidLength
    <2>1. /\ Valid(Current) /\ Len(Encoded) \in Nat /\ Len(Encoded) < kInvalidLength - 2
          /\ kInvalidLength \in Nat
      BY <1>1, Placed
    <2>2. /\ DataLength(Current) \in Nat /\ Lines(Current) \in 1..3
          /\ Len(Encoded) = 3 * Lines(Current) + 2 + DataLength(Current)
      BY <2>1, HeadersAre DEF Encoded
    <2>3. QED  BY <2>1, <2>2
  <1>4. Current.form \in {"none", "fixed", "chunked", "multipart"}
    BY <1>2 DEF Body, NoBody, FixedBody, ChunkedBody, FormBody
  <1>5. /\ header_ended /\ start_line = Start
        /\ chunked <=> Current.form = "chunked"
        /\ multipart <=> Current.form = "multipart"
        /\ content_length = IF Current.form \in {"fixed", "multipart"}
                            THEN DataLength(Current) ELSE kInvalidLength
    BY <1>2 DEF HeadersParsed
  <1>6. /\ Current.form = "none" => NoBody
        /\ Current.form = "fixed" => FixedBody
        /\ Current.form = "chunked" => ChunkedBody
        /\ Current.form = "multipart" => FormBody
    BY <1>2 DEF Body, NoBody, FixedBody, ChunkedBody, FormBody
  <1>7. QED  BY <1>1, <1>2, <1>3, <1>4, <1>5, <1>6

LEMMA NoContentInv ==
    ASSUME WellFormed, ParserInv, NoContent
    PROVE  ParserInv'
  <1>1. /\ pc = "content" /\ ~chunked /\ ~multipart /\ content_length = kInvalidLength
        /\ Finish(<<>>) /\ UNCHANGED head /\ pending' = pending /\ UNCHANGED body
    BY DEF NoContent, InFixed, Finish
  <1>2. Parsing /\ More /\ Current.form = "none" /\ NoBody
    BY <1>1, InContent
  <1>3. Used = 5
    BY <1>2 DEF NoBody
  <1>4. /\ Valid(Current) /\ Come \in Nat /\ Come = Used + Len(pending) /\ Come =< Len(Encoded)
        /\ Len(pending) \in Nat
    BY <1>2, Placed
  <1>5. Len(Encoded) = 5
    BY <1>2, <1>4, NoBodyShape DEF Encoded
  <1>6. Come = Len(Encoded)
    BY <1>3, <1>4, <1>5
  <1>7. Meant(Current) = <<>>
    BY <1>2 DEF Meant
  <1>8. Fields'
    BY <1>1 DEF Fields, ParserInv, FieldsInv, head, body
  <1>9. UNCHANGED <<step, form_parts>> /\ Current.form # "unknown"
    BY <1>1, <1>2 DEF body
  <1>10. QED  BY <1>1, <1>2, <1>6, <1>7, <1>8, <1>9, HandsOn

LEMMA FixedContentInv ==
    ASSUME WellFormed, ParserInv, FixedContent
    PROVE  ParserInv'
  <1> DEFINE r == Current  c == Content(Current)
  <1>1. /\ pc = "content" /\ ~chunked /\ ~multipart /\ content_length # kInvalidLength
        /\ content' = content \o pending /\ pending' = <<>>
        /\ IF Len(content') >= content_length THEN Finish(<<content'>>) ELSE Wait
        /\ chunk_size' = chunk_size /\ step' = step /\ form_parts' = form_parts
        /\ requests' = requests /\ pos' = pos
        /\ start_line' = start_line /\ header_ended' = header_ended
        /\ chunked' = chunked /\ multipart' = multipart /\ content_length' = content_length
    BY DEF FixedContent, InFixed, Finish, Wait, head
  <1>2. /\ Parsing /\ More /\ r.form = "fixed" /\ FixedBody /\ content_length = DataLength(r)
        /\ header_ended /\ start_line = Start
    BY <1>1, InContent
  <1>3. /\ chunk_size = kInvalidLength /\ content \in Seq(AnyByte) /\ Used = 8 + Len(content)
        /\ \A i \in 1..Len(content) : content[i] = c[i]
    BY <1>2 DEF FixedBody
  <1>4. /\ Valid(r) /\ Come \in Nat /\ Come = Used + Len(pending) /\ Come =< Len(Encoded)
        /\ pending \in Seq(AnyByte) /\ Len(pending) \in Nat /\ InPlace
    BY <1>2, Placed
  <1>5. /\ Len(Encoded) = 8 + Len(c) /\ Len(c) \in Nat
        /\ \A i \in 1..Len(c) : Encoded[8 + i] = c[i]
    BY <1>2, <1>4, FixedShape DEF Encoded
  <1>6. c \in Seq(AnyByte) /\ content_length = Len(c)
    <2>1. Lines(r) = 2
      BY <1>2 DEF Lines
    <2>2. DataLength(r) = Len(Encoded) - 8
      BY <2>1 DEF DataLength, Encoded
    <2>3. c \in Seq(AnyByte)
      BY <1>4, PartsAre
    <2>4. QED  BY <1>2, <1>5, <2>2, <2>3
  <1> HIDE DEF c, r
  <1>7. /\ content' \in Seq(AnyByte) /\ Len(content') = Len(content) + Len(pending)
        /\ Len(content) \in Nat
        /\ \A i \in 1..Len(content) + Len(pending) :
              content'[i] = IF i =< Len(content) THEN content[i] ELSE pending[i - Len(content)]
    BY <1>1, <1>3, <1>4, ConcatProperties
  <1>8. Come = 8 + Len(content')
    BY <1>3, <1>4, <1>7
  <1>9. ASSUME NEW i \in 1..Len(content') PROVE content'[i] = c[i]
    <2>1. CASE i =< Len(content)
      BY <1>3, <1>7, <2>1
    <2>2. CASE i > Len(content)
      <3> DEFINE j == i - Len(content)
      <3>1. j \in 1..Len(pending) /\ Used + j = 8 + i /\ i \in 1..Len(c)
        BY <1>3, <1>4, <1>5, <1>7, <1>8, <2>2
      <3>2. content'[i] = pending[j]
        BY <1>7, <2>2
      <3> HIDE DEF j
      <3>3. pending[j] = Encoded[8 + i]
        BY <1>4, <3>1 DEF InPlace
      <3>4. QED  BY <1>5, <3>1, <3>2, <3>3
    <2>3. i =< Len(content) \/ i > Len(content)
      BY <1>7
    <2>4. QED  BY <2>1, <2>2, <2>3
  <1>10. Fields'
    BY <1>1 DEF Fields, ParserInv, FieldsInv
  <1>11. CASE Len(content') >= content_length
    <2>1. Len(content') = Len(c) /\ Come = Len(Encoded)
      BY <1>4, <1>5, <1>6, <1>7, <1>8, <1>11
    <2>2. content' = c
      BY <1>6, <1>7, <1>9, <2>1, SeqEqual
    <2>3. Meant(r) = <<c>>
      BY <1>2 DEF Meant, c, r
    <2>4. Finish(Meant(Current))
      BY <1>1, <1>11, <2>2, <2>3 DEF r
    <2>5. Current.form # "unknown" /\ UNCHANGED <<step, form_parts>>
      BY <1>1, <1>2 DEF r
    <2>6. QED  BY <1>2, <1>10, <2>1, <2>4, <2>5, HandsOn
  <1>12. CASE ~(Len(content') >= content_length)
    <2>1. pc' = "reading" /\ parsed' = parsed
      BY <1>1, <1>12 DEF Wait
    <2>2. Come < Len(Encoded)
      BY <1>4, <1>5, <1>6, <1>7, <1>8, <1>12
    <2>3. InPlace' /\ Used' = Used + Len(pending)
      <3>1. pending' = Erased(Len(pending)) /\ Len(pending) \in 0..Len(pending)
        BY <1>1, <1>4, EraseAll
      <3>2. QED  BY <1>1, <1>2, <2>1, <3>1, Erase
    <2>4. Current' = Current
      BY <1>1, <2>1, SameRequest
    <2>5. FixedBody'
      <3>1. Used' = 8 + Len(content')
        BY <1>3, <1>4, <1>7, <2>3
      <3>2. QED  BY <1>1, <1>2, <1>3, <1>7, <1>9, <2>4, <3>1 DEF FixedBody, c, r
    <2>6. HeadersParsed'
      <3>1. HeadersParsed
        BY <1>2 DEF ParserInv, PlaceInv, HeaderPhase
      <3>2. DataLength(Current)' = DataLength(Current)
        BY <2>4 DEF DataLength
      <3>3. QED  BY <1>1, <2>1, <2>4, <3>1, <3>2 DEF HeadersParsed
    <2>7. Parsing'
      BY <2>1 DEF Parsing
    <2>8. FormInv'
      BY <1>1, <1>2, <2>1, <2>7, FormKept
    <2>9. QED  BY <1>1, <1>2, <1>10, <2>1, <2>2, <2>3, <2>5, <2>6, <2>7, <2>8, GoesOn DEF Body
  <1>13. QED  BY <1>11, <1>12

---------------------------------------------------------------------------
(* Chunks                                                                  *)

\* A step within the body
LEMMA BodyGoesOn ==
    ASSUME WellFormed, ParserInv, pc = "content", UNCHANGED <<requests, pos, parsed, head>>,
           InPlace', pc' \in {"reading", "content"}, pc' = "reading" => Come < Len(Encoded),
           Body', FormInv', chunk_size' \in 0..kInvalidLength,
           step' \in {"start", "boundary", "headers", "ended"}
    PROVE  ParserInv'
  <1>1. /\ requests' = requests /\ pos' = pos /\ parsed' = parsed
        /\ start_line' = start_line /\ header_ended' = header_ended
        /\ chunked' = chunked /\ multipart' = multipart /\ content_length' = content_length
    BY DEF head
  <1>2. Parsing /\ More /\ header_ended
    BY InContent
  <1>3. HeadersParsed
    BY <1>2 DEF ParserInv, PlaceInv, HeaderPhase
  <1>4. Current' = Current
    BY <1>1, SameRequest
  <1>5. DataLength(Current)' = DataLength(Current)
    BY <1>4 DEF DataLength
  <1>6. HeadersParsed'
    BY <1>1, <1>3, <1>4, <1>5 DEF HeadersParsed
  <1>7. Parsing' /\ pc # "reading"
    BY DEF Parsing
  <1>8. Fields'
    BY <1>1 DEF Fields, ParserInv, FieldsInv
  <1>9. QED  BY <1>1, <1>2, <1>6, <1>7, <1>8, GoesOn

\* Pending data that is part of s, which is found in the request after d bytes
LEMMA PendingIsData ==
    ASSUME InPlace, NEW s \in Seq(AnyByte), NEW d \in Nat,
           \A i \in 1..Len(s) : Encoded[d + i] = s[i],
           NEW a \in Nat, NEW n \in Nat, Used = d + a, a + n =< Len(s), n =< Len(pending)
    PROVE  SubSeq(pending, 1, n) = SubSeq(s, a + 1, a + n)
  <1>1. pending \in Seq(AnyByte) /\ Len(pending) \in Nat /\ Len(s) \in Nat
    BY DEF InPlace
  <1>2. ASSUME NEW i \in 1..n PROVE pending[i] = s[a + i]
    <2>1. i \in 1..Len(pending) /\ Used + i = d + (a + i) /\ a + i \in 1..Len(s)
      BY <1>1
    <2>2. pending[i] = Encoded[d + (a + i)]
      BY <2>1 DEF InPlace
    <2>3. QED  BY <2>1, <2>2
  <1>3. /\ SubSeq(pending, 1, n) \in Seq(AnyByte) /\ Len(SubSeq(pending, 1, n)) = n
        /\ \A i \in 1..n : SubSeq(pending, 1, n)[i] = pending[i]
    <2>1. \A i \in 1..n : pending[i] \in AnyByte
      BY <1>1
    <2> DEFINE t == SubSeq(pending, 1, n)
    <2>2. /\ t \in Seq(AnyByte) /\ Len(t) = IF 1 <= n THEN n - 1 + 1 ELSE 0
          /\ \A i \in 1..n - 1 + 1 : t[i] = pending[1 + i - 1]
      BY <2>1, SubSeqProperties
    <2> HIDE DEF t
    <2>3. Len(t) = n /\ \A i \in 1..n : t[i] = pending[i]
      BY <2>2
    <2>4. QED  BY <2>2, <2>3 DEF t
  <1>4. /\ SubSeq(s, a + 1, a + n) \in Seq(AnyByte) /\ Len(SubSeq(s, a + 1, a + n)) = n
        /\ \A i \in 1..n : SubSeq(s, a + 1, a + n)[i] = s[a + i]
    <2>1. \A i \in a + 1..a + n : s[i] \in AnyByte
      BY <1>1
    <2> DEFINE t == SubSeq(s, a + 1, a + n)
    <2>2. /\ t \in Seq(AnyByte) /\ Len(t) = IF a + 1 <= a + n THEN (a + n) - (a + 1) + 1 ELSE 0
          /\ \A i \in 1..(a + n) - (a + 1) + 1 : t[i] = s[(a + 1) + i - 1]
      BY <2>1, SubSeqProperties
    <2> HIDE DEF t
    <2>3. Len(t) = n
      BY <2>2
    <2>4. ASSUME NEW i \in 1..n PROVE t[i] = s[a + i]
      <3>1. i \in 1..(a + n) - (a + 1) + 1 /\ (a + 1) + i - 1 = a + i
        OBVIOUS
      <3>2. QED  BY <2>2, <3>1
    <2>5. QED  BY <2>2, <2>3, <2>4 DEF t
  <1> DEFINE t == SubSeq(pending, 1, n)  u == SubSeq(s, a + 1, a + n)
  <1>5. t \in Seq(AnyByte) /\ u \in Seq(AnyByte) /\ Len(t) = Len(u) /\ Len(t) = n
    BY <1>3, <1>4
  <1>6. \A i \in 1..n : t[i] = u[i]
    BY <1>2, <1>3, <1>4
  <1> HIDE DEF t, u
  <1>7. t = u
    BY <1>5, <1>6, SeqEqual
  <1>8. QED  BY <1>7 DEF t, u

\* n more elements of s after a of them
Grows(f, s, a, n) ==
    (f \o SubSeq(s, 1, a)) \o SubSeq(s, a + 1, a + n) = f \o SubSeq(s, 1, a + n)

\* The part of s that has come, with what is pending
LEMMA MoreData ==
    ASSUME NEW s \in Seq(AnyByte), NEW f \in Seq(AnyByte), NEW a \in Nat, NEW n \in Nat,
           a + n =< Len(s)
    PROVE  /\ Grows(f, s, a, n)
           /\ f \o SubSeq(s, 1, 0) = f /\ SubSeq(s, 1, Len(s)) = s
  <1>1. Len(s) \in Nat
    OBVIOUS
  <1>2. SubSeq(s, 1, a) \o SubSeq(s, a + 1, a + n) = SubSeq(s, 1, a + n)
    <2> DEFINE one == 1  k == a + n
    <2>1. one \in 1..Len(s) + 1 /\ a \in one - 1..Len(s) /\ k \in a..Len(s)
      BY <1>1
    <2> HIDE DEF one, k
    <2>2. SubSeq(s, one, a) \o SubSeq(s, a + 1, k) = SubSeq(s, one, k)
      BY <2>1, ConcatAdjacentSubSeq
    <2>3. QED  BY <2>2 DEF one, k
  <1>3. \A i, j \in Nat : i >= 1 /\ j =< Len(s) => SubSeq(s, i, j) \in Seq(AnyByte)
    <2>1. TAKE i, j \in Nat
    <2>2. HAVE i >= 1 /\ j =< Len(s)
    <2>3. \A k \in i..j : s[k] \in AnyByte
      BY <1>1, <2>2
    <2>4. QED  BY <2>3, SubSeqProperties
  <1> DEFINE u == SubSeq(s, 1, a)  v == SubSeq(s, a + 1, a + n)
  <1>4. u \in Seq(AnyByte) /\ v \in Seq(AnyByte)
    <2>1. /\ 1 \in Nat /\ 1 >= 1 /\ a =< Len(s) /\ a + 1 \in Nat /\ a + 1 >= 1 /\ a + n \in Nat
      BY <1>1
    <2>2. QED  BY <1>3, <2>1
  <1> HIDE DEF u, v
  <1>5. (f \o u) \o v = f \o (u \o v)
    BY <1>4, ConcatAssociative
  <1>6. SubSeq(s, 1, 0) = <<>>
    BY SubSeqEmpty
  <1>7. f \o <<>> = f
    BY ConcatEmptySeq
  <1>8. SubSeq(s, 1, Len(s)) = s
    BY SubSeqFull
  <1>9. QED  BY <1>2, <1>5, <1>6, <1>7, <1>8 DEF u, v, Grows

\* Where the parser is in the chunks
LEMMA AtChunks ==
    ASSUME WellFormed, ParserInv, InChunks
    PROVE  LET parts == Current.parts IN
           /\ pc = "content" /\ Parsing /\ More /\ Current.form = "chunked" /\ header_ended
           /\ ~Cuts(Encoded, Come) /\ ChunkedBody /\ Len(parts) \in Nat
           /\ ChunksAre(Current, Encoded, Len(parts))
           /\ \A n \in 0..Len(parts) - 1 : /\ Len(parts[n + 1]) \in Nat /\ Len(parts[n + 1]) # 0
                                           /\ Len(parts[n + 1]) < kInvalidLength - 2
           /\ Sequences(parts, Len(parts), AnyByte)
  <1> DEFINE r == Current  s == r.parts  N == Len(s)
  <1>1. pc = "content" /\ Parsing /\ More /\ r.form = "chunked" /\ ChunkedBody /\ header_ended
    BY InContent DEF InChunks
  <1>2. ~Cuts(Encoded, Come)
    BY <1>1 DEF ParserInv, PlaceInv
  <1>3. /\ Valid(r) /\ Len(Encoded) \in Nat /\ Len(Encoded) < kInvalidLength - 2
        /\ kInvalidLength \in Nat
    BY <1>1, Placed
  <1>4. /\ N \in Nat /\ Sequences(s, N, AnyByte) /\ DOMAIN s = 1..N
    BY <1>3, PartsAre
  <1>5. ChunksAre(r, Encoded, N)
    BY <1>1, <1>3, ChunkedShape DEF Encoded
  <1>6. ASSUME NEW n \in 0..N - 1
        PROVE  Len(s[n + 1]) \in Nat /\ Len(s[n + 1]) # 0 /\ Len(s[n + 1]) < kInvalidLength - 2
    <2>1. n + 1 \in 1..N /\ n + 1 \in 0..N /\ n \in 0..N
      BY <1>4
    <2>2. s[n + 1] \in Seq(AnyByte) /\ s[n + 1] # <<>>
      BY <1>1, <1>3, <1>4, <2>1 DEF Sequences, Valid, ValidChunks
    <2>3. Len(s[n + 1]) \in Nat /\ Len(s[n + 1]) # 0
      <3> DEFINE c == s[n + 1]
      <3>1. c \in Seq(AnyByte) /\ c # <<>>
        BY <2>2
      <3> HIDE DEF c
      <3>2. Len(c) \in Nat /\ Len(c) # 0
        BY <3>1, EmptySeq
      <3>3. QED  BY <3>2 DEF c
    <2>4. /\ ChunksEnd(r, n + 1) = ChunksEnd(r, n) + Len(s[n + 1]) + 5
          /\ ChunksEnd(r, n) \in Nat /\ ChunksEnd(r, n + 1) =< ChunksEnd(r, N)
          /\ ChunksEnd(r, N) + 5 = Len(Encoded) /\ ChunksEnd(r, n + 1) \in Nat
          /\ ChunksEnd(r, N) \in Nat
      <3>1. N \in 0..N
        BY <1>4
      <3>2. QED  BY <1>5, <2>1, <3>1 DEF ChunksAre
    <2> HIDE DEF s, N, r
    <2>5. QED  BY <1>3, <2>3, <2>4
  <1>7. QED  BY <1>1, <1>2, <1>3, <1>4, <1>5, <1>6

\* The size that comes next
LEMMA AtSizeIs ==
    ASSUME WellFormed, ParserInv, InChunks, NEW n \in 0..Len(Current.parts), AtSize(n)
    PROVE  LET x == IF n < Len(Current.parts) THEN Len(Current.parts[n + 1]) ELSE 0 IN
           /\ x \in Nat /\ x < kInvalidLength - 2 /\ (x = 0 <=> n = Len(Current.parts))
           /\ Len(pending) = 0 \/ Len(pending) > 2
           /\ HasLine <=> Len(pending) > 2
           /\ HasLine => NextLine = <<Size(x)>> /\ AfterLine = Erased(3)
  <1> DEFINE s == Current.parts  N == Len(s)
             x == IF n < N THEN Len(s[n + 1]) ELSE 0
  <1>1. /\ Parsing /\ More /\ N \in Nat /\ ChunksAre(Current, Encoded, N) /\ ~Cuts(Encoded, Come)
        /\ \A m \in 0..N - 1 : /\ Len(s[m + 1]) \in Nat /\ Len(s[m + 1]) # 0
                               /\ Len(s[m + 1]) < kInvalidLength - 2
    BY AtChunks
  <1>2. /\ InPlace /\ Come = Used + Len(pending) /\ Used \in Nat /\ Len(pending) \in Nat
        /\ kInvalidLength \in Nat /\ Len(Encoded) \in Nat /\ Len(Encoded) < kInvalidLength - 2
    BY <1>1, Placed
  <1>3. Used = ChunksEnd(Current, n)
    BY DEF AtSize
  <1>4. x \in Nat /\ x < kInvalidLength - 2 /\ (x = 0 <=> n = N) /\ LineAt(Encoded, Used, Size(x))
    <2>1. CASE n < N
      <3>1. n \in 0..N - 1 /\ x = Len(s[n + 1])
        BY <1>1, <2>1
      <3>2. ChunkAt(Encoded, Used, s[n + 1])
        BY <1>1, <1>3, <3>1 DEF ChunksAre
      <3>3. LineAt(Encoded, Used, Size(x))
        BY <3>1, <3>2 DEF ChunkAt
      <3> HIDE DEF x
      <3>4. QED  BY <1>1, <2>1, <3>1, <3>3
    <2>2. CASE ~(n < N)
      <3>1. n = N /\ x = 0
        BY <1>1, <2>2
      <3>2. LineAt(Encoded, Used, Size(0))
        BY <1>1, <1>3, <3>1 DEF ChunksAre
      <3> HIDE DEF x
      <3>3. QED  BY <1>2, <3>1, <3>2
    <2>3. QED  BY <2>1, <2>2
  <1> HIDE DEF x
  <1>5. Size(x) # CR /\ Size(x)[1] = "size"
    BY <1>4, BytesDiffer, BytesSay
  <1>6. /\ HasLine <=> Len(pending) > 2
        /\ HasLine => NextLine = <<Size(x)>> /\ AfterLine = Erased(3)
    BY <1>2, <1>4, <1>5, LineInPlace
  <1>7. Encoded[Used + 1][1] = "size"
    BY <1>4, <1>5 DEF LineAt
  <1>8. Len(pending) # 1
    <2>1. SUFFICES ASSUME Len(pending) = 1 PROVE FALSE
      OBVIOUS
    <2>2. Come - 0 = Used + 1 /\ Come > 0 /\ 0 \in 0..1
      BY <1>2, <2>1
    <2>3. Cuts(Encoded, Come)
      BY <1>7, <2>2 DEF Cuts
    <2>4. QED  BY <1>1, <2>3
  <1>9. Len(pending) # 2
    <2>1. SUFFICES ASSUME Len(pending) = 2 PROVE FALSE
      OBVIOUS
    <2>2. Come - 1 = Used + 1 /\ Come > 1 /\ 1 \in 0..1
      BY <1>2, <2>1
    <2>3. Cuts(Encoded, Come)
      BY <1>7, <2>2 DEF Cuts
    <2>4. QED  BY <1>1, <2>3
  <1>10. Len(pending) = 0 \/ Len(pending) > 2
    <2> DEFINE l == Len(pending)
    <2>1. l \in Nat /\ l # 1 /\ l # 2
      BY <1>2, <1>8, <1>9
    <2> HIDE DEF l
    <2>2. l = 0 \/ l > 2
      BY <2>1
    <2>3. QED  BY <2>2 DEF l
  <1>11. QED  BY <1>4, <1>6, <1>10 DEF x

LEMMA ParseChunkSizeInv ==
    ASSUME WellFormed, ParserInv, ParseChunkSize
    PROVE  ParserInv'
  <1> DEFINE s == Current.parts  N == Len(s)
  <1>1. /\ InChunks /\ chunk_size = kInvalidLength /\ HasLine
        /\ chunk_size' = NextLine[1][2] /\ pending' = AfterLine
        /\ UNCHANGED <<requests, pos, parsed, head>> /\ pc' = pc
        /\ content' = content /\ step' = step /\ form_parts' = form_parts
        /\ requests' = requests /\ pos' = pos /\ parsed' = parsed /\ header_ended' = header_ended
    BY DEF ParseChunkSize, Sized, Continue, head
  <1>2. /\ pc = "content" /\ Parsing /\ More /\ ChunkedBody /\ N \in Nat /\ header_ended
        /\ Current.form = "chunked" /\ Sequences(s, N, AnyByte)
        /\ \A n \in 0..N - 1 : /\ Len(s[n + 1]) \in Nat /\ Len(s[n + 1]) # 0
                               /\ Len(s[n + 1]) < kInvalidLength - 2
    BY <1>1, AtChunks
  <1>3. /\ kInvalidLength \in Nat /\ Used \in Nat /\ Len(pending) \in Nat
        /\ Len(Encoded) \in Nat /\ Len(Encoded) < kInvalidLength - 2
    BY <1>2, Placed
  <1>4. PICK n \in 0..N : AtSize(n)
    <2>1. ~AtLast
      BY <1>1, <1>3 DEF AtLast
    <2>2. ASSUME NEW n \in 0..N - 1, InChunk(n) PROVE FALSE
      <3>1. chunk_size \in 1..Len(s[n + 1])
        BY <2>2 DEF InChunk
      <3> HIDE DEF s, N
      <3>2. QED  BY <1>1, <1>2, <1>3, <3>1
    <2>3. QED  BY <1>2, <2>1, <2>2 DEF ChunkedBody
  <1> DEFINE x == IF n < N THEN Len(s[n + 1]) ELSE 0
  <1>5. /\ x \in Nat /\ x < kInvalidLength - 2 /\ (x = 0 <=> n = N)
        /\ Len(pending) > 2 /\ NextLine = <<Size(x)>> /\ AfterLine = Erased(3)
    BY <1>1, <1>4, AtSizeIs
  <1>6. chunk_size' = x
    <2> HIDE DEF x
    <2>1. Size(x)[2] = x /\ NextLine[1] = Size(x)
      BY <1>5, BytesSay
    <2>2. QED  BY <1>1, <2>1
  <1>7. InPlace' /\ Used' = Used + 3 /\ Come' = Come
    <2>1. 3 \in 0..Len(pending) /\ pending' = Erased(3)
      BY <1>1, <1>3, <1>5
    <2>2. QED  BY <1>1, <1>2, <2>1, Erase
  <1>8. Current' = Current
    BY <1>1, SameRequest
  <1>9. Used = ChunksEnd(Current, n) /\ content = First(s, n)
    BY <1>4 DEF AtSize
  <1>10. Body'
    <2>1. CASE n = N
      <3>1. chunk_size' = 0
        BY <1>5, <1>6, <2>1
      <3>2. AtLast'
        BY <1>1, <1>7, <1>8, <1>9, <2>1, <3>1 DEF AtLast
      <3>3. QED  BY <1>2, <1>8, <3>2 DEF Body, ChunkedBody
    <2>2. CASE n # N
      <3> DEFINE c == s[n + 1]
      <3>1. n \in 0..N - 1 /\ x = Len(c) /\ Len(c) \in Nat /\ Len(c) # 0 /\ n + 1 \in 1..N
        BY <1>2, <2>2
      <3>2. c \in Seq(AnyByte) /\ First(s, n) \in Seq(AnyByte)
        <4>1. n \in 0..N
          OBVIOUS
        <4> HIDE DEF s, N
        <4>2. First(s, n) \in Seq(AnyByte)
          BY <1>2, <4>1, FirstStep, Zenon
        <4>3. QED  BY <1>2, <3>1, <4>2 DEF Sequences
      <3>3. content' = First(s, n) \o SubSeq(c, 1, 0)
        <4> DEFINE f == First(s, n)
        <4>1. f \in Seq(AnyByte) /\ c \in Seq(AnyByte) /\ 0 + 0 =< Len(c) /\ 0 \in Nat
          BY <3>1, <3>2
        <4> HIDE DEF f, c
        <4>2. f \o SubSeq(c, 1, 0) = f
          BY <4>1, MoreData
        <4>3. QED  BY <1>1, <1>9, <4>2 DEF f
      <3>4. chunk_size' = Len(c) /\ chunk_size' \in 1..Len(c) /\ Len(c) - chunk_size' = 0
        <4> HIDE DEF c, x
        <4>1. QED  BY <1>6, <3>1
      <3>5. Used' = ChunksEnd(Current, n) + 3 + Len(c) - chunk_size'
        <4> DEFINE E == ChunksEnd(Current, n)
        <4>1. Used' = E + 3 /\ E \in Nat
          BY <1>3, <1>7, <1>9
        <4> HIDE DEF E, c
        <4>2. Used' = E + 3 + Len(c) - chunk_size'
          BY <3>1, <3>4, <4>1
        <4>3. QED  BY <4>2 DEF E
      <3>6. InChunk(n)'
        BY <1>8, <3>3, <3>4, <3>5 DEF InChunk
      <3>7. QED  BY <1>2, <1>8, <3>1, <3>6 DEF Body, ChunkedBody
    <2>3. QED  BY <2>1, <2>2
  <1>11. FormInv'
    <2>1. Parsing'
      BY <1>1, <1>2 DEF Parsing
    <2>2. QED  BY <1>1, <1>2, <2>1, FormKept
  <1>12. chunk_size' \in 0..kInvalidLength
    <2> HIDE DEF x
    <2>1. QED  BY <1>3, <1>5, <1>6
  <1>13. pc' \in {"reading", "content"} /\ pc' # "reading"
    BY <1>1, <1>2
  <1>14. step' \in {"start", "boundary", "headers", "ended"}
    BY <1>1 DEF ParserInv, FieldsInv
  <1>15. QED  BY <1>1, <1>2, <1>7, <1>10, <1>11, <1>12, <1>13, <1>14, BodyGoesOn

\* chunk_size_ + 2
LEMMA WithCRLFIs ==
    ASSUME kInvalidLength \in Nat, kInvalidLength > 2
    PROVE  /\ chunk_size = kInvalidLength => WithCRLF = 1
           /\ chunk_size \in Nat /\ chunk_size < kInvalidLength - 2 => WithCRLF = chunk_size + 2
  <1> DEFINE M == 2^SizeBits
  <1>1. M \in Nat /\ kInvalidLength = M - 1
    BY SizesFit DEF kInvalidLength
  <1> HIDE DEF M
  <1>2. M > 3
    BY <1>1
  <1>3. (M + 1) % M = 1 /\ \A x \in Nat : x < M => x % M = x
    BY <1>1, <1>2, SMT
  <1>4. WithCRLF = (chunk_size + 2) % M
    BY DEF WithCRLF, M
  <1>5. ASSUME chunk_size = kInvalidLength PROVE WithCRLF = 1
    <2>1. chunk_size + 2 = M + 1
      BY <1>1, <1>5
    <2>2. QED  BY <1>3, <1>4, <2>1
  <1>6. ASSUME chunk_size \in Nat, chunk_size < kInvalidLength - 2 PROVE WithCRLF = chunk_size + 2
    <2> DEFINE x == chunk_size + 2
    <2>1. x \in Nat /\ x < M
      BY <1>1, <1>6
    <2> HIDE DEF x
    <2>2. x % M = x
      BY <1>3, <2>1
    <2>3. QED  BY <1>4, <2>2 DEF x
  <1>7. QED  BY <1>5, <1>6

\* The chunk that is being read
LEMMA InChunkIs ==
    ASSUME WellFormed, ParserInv, InChunks, NEW n \in 0..Len(Current.parts) - 1, InChunk(n)
    PROVE  LET c == Current.parts[n + 1]
               E == ChunksEnd(Current, n)
               f == First(Current.parts, n)
               a == Len(c) - chunk_size IN
           /\ Len(c) \in Nat /\ chunk_size \in 1..Len(c) /\ a \in Nat /\ E \in Nat
           /\ chunk_size # kInvalidLength /\ WithCRLF = chunk_size + 2
           /\ Used = E + 3 + a
           /\ ChunksEnd(Current, n + 1) = E + Len(c) + 5
           /\ ChunksEnd(Current, n + 1) < Len(Encoded)
           /\ f \o c = First(Current.parts, n + 1) /\ SubSeq(c, 1, Len(c)) = c
           /\ \A k \in 0..chunk_size :
                 k =< Len(pending) => content \o SubSeq(pending, 1, k) = f \o SubSeq(c, 1, a + k)
  <1> DEFINE s == Current.parts  N == Len(s)
             c == s[n + 1]
             E == ChunksEnd(Current, n)
             F == ChunksEnd(Current, n + 1)
             f == First(s, n)
             a == Len(c) - chunk_size
  <1>1. /\ Parsing /\ More /\ N \in Nat /\ ChunksAre(Current, Encoded, N)
        /\ Len(c) \in Nat /\ Len(c) < kInvalidLength - 2
        /\ Sequences(s, N, AnyByte)
    BY AtChunks
  <1>2. /\ InPlace /\ Used \in Nat /\ Len(pending) \in Nat /\ kInvalidLength \in Nat
        /\ Len(Encoded) \in Nat
    BY <1>1, Placed
  <1>3. /\ chunk_size \in 1..Len(c) /\ Used = E + 3 + Len(c) - chunk_size
        /\ content = f \o SubSeq(c, 1, a)
    BY DEF InChunk
  <1>4. n \in 0..N - 1 /\ n \in 0..N /\ n + 1 \in 0..N /\ N \in 0..N /\ n + 1 \in 1..N
    BY <1>1
  <1>5. /\ E \in Nat /\ F = E + Len(c) + 5 /\ ChunkAt(Encoded, E, c) /\ F < Len(Encoded)
    <2>1. /\ E \in Nat /\ F = E + Len(c) + 5 /\ ChunkAt(Encoded, E, c)
          /\ F =< ChunksEnd(Current, N) /\ ChunksEnd(Current, N) \in Nat /\ F \in Nat
          /\ Len(Encoded) = ChunksEnd(Current, N) + 5
      BY <1>1, <1>4 DEF ChunksAre
    <2> HIDE DEF E, F, c, N
    <2>2. F < Len(Encoded)
      BY <2>1
    <2>3. QED  BY <2>1, <2>2
  <1>6. f \in Seq(AnyByte) /\ c \in Seq(AnyByte) /\ f \o c = First(s, n + 1)
    <2> HIDE DEF s, N
    <2>0. Sequences(s, N, AnyByte)
      BY <1>1
    <2>3. \A m \in 0..N : First(s, m) \in Seq(AnyByte)
      BY <2>0, FirstStep, Zenon
    <2>4. \A m \in 0..N - 1 : First(s, m + 1) = First(s, m) \o s[m + 1]
      BY <2>0, FirstStep
    <2>1. f \in Seq(AnyByte) /\ First(s, n + 1) = f \o c
      BY <1>4, <2>3, <2>4
    <2>2. c \in Seq(AnyByte)
      BY <1>1, <1>4 DEF Sequences
    <2>5. QED  BY <2>1, <2>2
  <1>7. \A i \in 1..Len(c) : Encoded[E + 3 + i] = c[i]
    BY <1>5, Zenon DEF ChunkAt
  <1> HIDE DEF c, E, F, f, s, N
  <1>8. /\ a \in Nat /\ Used = E + 3 + a /\ chunk_size \in Nat
    BY <1>1, <1>3, <1>5
  <1>9. chunk_size # kInvalidLength /\ WithCRLF = chunk_size + 2
    <2>1. chunk_size \in Nat /\ chunk_size < kInvalidLength - 2 /\ kInvalidLength > 2
      BY <1>1, <1>2, <1>3
    <2>2. QED  BY <1>2, <2>1, WithCRLFIs
  <1>10. ASSUME NEW k \in 0..chunk_size, k =< Len(pending)
         PROVE  content \o SubSeq(pending, 1, k) = f \o SubSeq(c, 1, a + k)
    <2> DEFINE d == E + 3
    <2>1. k \in Nat /\ a + k =< Len(c) /\ d \in Nat /\ Used = d + a
      BY <1>1, <1>3, <1>5, <1>8
    <2>2. \A i \in 1..Len(c) : Encoded[d + i] = c[i]
      BY <1>7
    <2> HIDE DEF d, a
    <2>3. SubSeq(pending, 1, k) = SubSeq(c, a + 1, a + k)
      <3>1. InPlace /\ c \in Seq(AnyByte) /\ a \in Nat
        BY <1>2, <1>6, <1>8
      <3> HIDE <1>2, <1>6, <1>8
      <3>2. QED  BY <1>10, <2>1, <2>2, <3>1, PendingIsData
    <2>4. (f \o SubSeq(c, 1, a)) \o SubSeq(c, a + 1, a + k) = f \o SubSeq(c, 1, a + k)
      <3>1. f \in Seq(AnyByte) /\ c \in Seq(AnyByte) /\ a \in Nat /\ k \in Nat /\ a + k =< Len(c)
        BY <1>6, <1>8, <2>1
      <3>2. Grows(f, c, a, k)
        BY <3>1, MoreData, Zenon
      <3>3. QED  BY <3>2 DEF Grows
    <2>5. QED  BY <1>3, <2>3, <2>4
  <1>11. SubSeq(c, 1, Len(c)) = c
    BY <1>6, SubSeqFull
  <1>12. QED  BY <1>1, <1>3, <1>5, <1>6, <1>8, <1>9, <1>10, <1>11 DEF c, E, F, f, s, a

LEMMA LastChunkInv ==
    ASSUME WellFormed, ParserInv, LastChunk
    PROVE  ParserInv'
  <1> DEFINE s == Current.parts  N == Len(s)  E == ChunksEnd(Current, N)
  <1>1. /\ InChunks /\ chunk_size = 0 /\ Finish(<<content>>) /\ UNCHANGED <<pending, body>>
        /\ UNCHANGED head
    BY DEF LastChunk, Finish
  <1>2. /\ pc = "content" /\ Parsing /\ More /\ ChunkedBody /\ N \in Nat /\ Current.form = "chunked"
        /\ ChunksAre(Current, Encoded, N) /\ ~Cuts(Encoded, Come)
    BY <1>1, AtChunks
  <1>3. /\ kInvalidLength \in Nat /\ Used \in Nat /\ Len(pending) \in Nat /\ Valid(Current)
        /\ Len(Encoded) \in Nat /\ Len(Encoded) < kInvalidLength - 2
        /\ Come = Used + Len(pending) /\ Come =< Len(Encoded)
    BY <1>2, Placed
  <1>4. AtLast
    <2>1. \A n \in 0..N : ~AtSize(n)
      BY <1>1, <1>3 DEF AtSize
    <2>2. \A n \in 0..N - 1 : ~InChunk(n)
      BY <1>1 DEF InChunk
    <2>3. QED  BY <1>2, <2>1, <2>2 DEF ChunkedBody
  <1>5. Used = E + 3 /\ content = First(s, N)
    BY <1>4 DEF AtLast
  <1>6. E \in Nat /\ Len(Encoded) = E + 5 /\ LineAt(Encoded, E, Size(0))
    <2>1. N \in 0..N
      BY <1>2
    <2>2. QED  BY <1>2, <2>1 DEF ChunksAre
  <1> HIDE DEF E, s, N
  <1>7. Encoded[E + 1] = Size(0)
    BY <1>6 DEF LineAt
  <1>8. Come # E + 3
    <2>1. SUFFICES ASSUME Come = E + 3 PROVE FALSE
      OBVIOUS
    <2>2. Come - 2 = E + 1 /\ Come > 2 /\ 2 \in 2..3
      BY <1>6, <2>1
    <2>3. QED  BY <1>2, <1>7, <2>2 DEF Cuts
  <1>9. Come # E + 4
    <2>1. SUFFICES ASSUME Come = E + 4 PROVE FALSE
      OBVIOUS
    <2>2. Come - 3 = E + 1 /\ Come > 3 /\ 3 \in 2..3
      BY <1>6, <2>1
    <2>3. QED  BY <1>2, <1>7, <2>2 DEF Cuts
  <1>10. Come = Len(Encoded)
    BY <1>3, <1>5, <1>6, <1>8, <1>9
  <1>11. content = Content(Current)
    BY <1>3, <1>5, PartsAre DEF s, N
  <1>12. Finish(Meant(Current))
    <2>1. Meant(Current) = <<content>>
      BY <1>2, <1>11 DEF Meant
    <2>2. QED  BY <1>1, <2>1
  <1>13. UNCHANGED <<step, form_parts>> /\ Current.form # "unknown"
    BY <1>1, <1>2 DEF body
  <1>14. Fields'
    BY <1>1 DEF Fields, ParserInv, FieldsInv, head, body
  <1>15. QED  BY <1>2, <1>10, <1>12, <1>13, <1>14, HandsOn

LEMMA WholeChunkInv ==
    ASSUME WellFormed, ParserInv, WholeChunk
    PROVE  ParserInv'
  <1> DEFINE s == Current.parts  N == Len(s)
  <1>1. /\ InChunks /\ Sized /\ chunk_size # 0 /\ WithCRLF <= Len(pending)
        /\ step' = step /\ form_parts' = form_parts
    BY DEF WholeChunk
  <1>2. /\ pc = "content" /\ Parsing /\ More /\ ChunkedBody /\ N \in Nat /\ Current.form = "chunked"
        /\ header_ended
    BY <1>1, AtChunks
  <1>3. /\ kInvalidLength \in Nat /\ Used \in Nat /\ Len(pending) \in Nat
        /\ Len(Encoded) \in Nat /\ Len(Encoded) < kInvalidLength - 2
    BY <1>2, Placed
  <1>4. ASSUME NEW n \in 0..N, AtSize(n) PROVE FALSE
    <2>1. HasLine <=> Len(pending) > 2
      BY <1>1, <1>4, AtSizeIs
    <2>2. Len(pending) = 0 \/ Len(pending) > 2
      BY <1>1, <1>4, AtSizeIs
    <2>3. ~HasLine /\ chunk_size = kInvalidLength
      BY <1>1, <1>4 DEF AtSize, Sized
    <2>4. WithCRLF = 1
      BY <1>3, <2>3, WithCRLFIs
    <2>5. QED  BY <1>1, <2>1, <2>2, <2>3, <2>4
  <1>5. PICK n \in 0..N - 1 : InChunk(n)
    <2>1. ~AtLast
      BY <1>1 DEF AtLast
    <2>2. QED  BY <1>2, <1>4, <2>1 DEF ChunkedBody
  <1> DEFINE c == s[n + 1]
             E == ChunksEnd(Current, n)
             F == ChunksEnd(Current, n + 1)
             f == First(s, n)
             a == Len(c) - chunk_size
  <1>6. /\ Len(c) \in Nat /\ chunk_size \in 1..Len(c) /\ a \in Nat /\ E \in Nat
        /\ chunk_size # kInvalidLength /\ WithCRLF = chunk_size + 2
        /\ Used = E + 3 + a /\ F = E + Len(c) + 5
        /\ f \o c = First(s, n + 1) /\ SubSeq(c, 1, Len(c)) = c
        /\ \A k \in 0..chunk_size :
              k =< Len(pending) => content \o SubSeq(pending, 1, k) = f \o SubSeq(c, 1, a + k)
    BY <1>1, <1>5, InChunkIs
  <1>7. /\ content' = content \o SubSeq(pending, 1, chunk_size)
        /\ pending' = Erased(chunk_size + 2) /\ chunk_size' = kInvalidLength
        /\ UNCHANGED <<requests, pos, parsed, head>> /\ pc' = pc /\ header_ended' = header_ended
        /\ requests' = requests /\ pos' = pos /\ parsed' = parsed
    BY <1>6 DEF WholeChunk, Continue, head
  <1> HIDE DEF c, E, F, f
  <1>8. InPlace' /\ Used' = Used + (chunk_size + 2) /\ Come' = Come
    <2> DEFINE k == chunk_size + 2
    <2>1. k \in 0..Len(pending)
      BY <1>1, <1>3, <1>6
    <2> HIDE DEF k
    <2>2. pending' = Erased(k)
      BY <1>7 DEF k
    <2>3. InPlace' /\ Used' = Used + k /\ Come' = Come
      BY <1>2, <1>7, <2>1, <2>2, Erase
    <2>4. QED  BY <2>3 DEF k
  <1>9. Current' = Current
    BY <1>7, SameRequest
  <1>10. Used' = F
    BY <1>3, <1>6, <1>8
  <1>11. content' = First(s, n + 1)
    <2>1. chunk_size \in 0..chunk_size /\ chunk_size =< Len(pending) /\ a + chunk_size = Len(c)
      BY <1>1, <1>3, <1>6
    <2>2. content' = f \o SubSeq(c, 1, Len(c))
      <3> HIDE DEF a
      <3>1. content \o SubSeq(pending, 1, chunk_size) = f \o SubSeq(c, 1, a + chunk_size)
        BY <1>6, <2>1, Zenon
      <3>2. QED  BY <1>7, <2>1, <3>1, Zenon
    <2>3. QED  BY <1>6, <2>2, Zenon
  <1>12. Body'
    <2>1. AtSize(n + 1)'
      BY <1>7, <1>9, <1>10, <1>11 DEF AtSize, F
    <2>2. n + 1 \in 0..N
      BY <1>2
    <2>3. QED  BY <1>2, <1>9, <2>1, <2>2 DEF Body, ChunkedBody
  <1>13. FormInv'
    <2>1. Parsing'
      BY <1>2, <1>7 DEF Parsing
    <2>2. QED  BY <1>1, <1>2, <1>7, <2>1, FormKept
  <1>14. chunk_size' \in 0..kInvalidLength
    BY <1>3, <1>7
  <1>15. pc' \in {"reading", "content"} /\ pc' # "reading"
    BY <1>2, <1>7
  <1>16. step' \in {"start", "boundary", "headers", "ended"}
    BY <1>1 DEF ParserInv, FieldsInv
  <1>17. QED  BY <1>2, <1>7, <1>8, <1>12, <1>13, <1>14, <1>15, <1>16, BodyGoesOn

LEMMA PartOfChunkInv ==
    ASSUME WellFormed, ParserInv, PartOfChunk
    PROVE  ParserInv'
  <1> DEFINE s == Current.parts  N == Len(s)
  <1>1. /\ InChunks /\ chunk_size # 0 /\ WithCRLF > Len(pending)
        /\ pc' = "reading" /\ UNCHANGED <<requests, pos, parsed, head>>
        /\ step' = step /\ form_parts' = form_parts
        /\ requests' = requests /\ pos' = pos /\ parsed' = parsed /\ header_ended' = header_ended
        /\ IF chunk_size > Len(pending)
           THEN /\ content' = content \o pending
                /\ chunk_size' = chunk_size - Len(pending)
                /\ pending' = <<>>
           ELSE UNCHANGED <<content, chunk_size, pending>>
    BY DEF PartOfChunk, Wait, head
  <1>2. /\ pc = "content" /\ Parsing /\ More /\ ChunkedBody /\ N \in Nat /\ Current.form = "chunked"
        /\ header_ended /\ ChunksAre(Current, Encoded, N) /\ Sequences(s, N, AnyByte)
    BY <1>1, AtChunks
  <1>3. /\ kInvalidLength \in Nat /\ Used \in Nat /\ Len(pending) \in Nat /\ InPlace
        /\ Len(Encoded) \in Nat /\ Len(Encoded) < kInvalidLength - 2
        /\ Come = Used + Len(pending) /\ pending \in Seq(AnyByte)
    BY <1>2, Placed
  <1>4. Current' = Current
    BY <1>1, SameRequest
  <1>5. SUFFICES /\ InPlace' /\ Come < Len(Encoded) /\ Body' /\ chunk_size' \in 0..kInvalidLength
    <2>1. ASSUME InPlace', Come < Len(Encoded), Body', chunk_size' \in 0..kInvalidLength
          PROVE  ParserInv'
      <3>1. FormInv'
        <4>1. Parsing'
          BY <1>1 DEF Parsing
        <4>2. QED  BY <1>1, <1>2, <4>1, FormKept
      <3>2. pc' \in {"reading", "content"}
        BY <1>1
      <3>3. step' \in {"start", "boundary", "headers", "ended"}
        BY <1>1 DEF ParserInv, FieldsInv
      <3>4. QED  BY <1>1, <1>2, <2>1, <3>1, <3>2, <3>3, BodyGoesOn
    <2>2. QED  BY <2>1
  <1>6. CASE \E n \in 0..N : AtSize(n)
    <2>1. PICK n \in 0..N : AtSize(n)
      BY <1>6
    <2>2. (HasLine <=> Len(pending) > 2) /\ (Len(pending) = 0 \/ Len(pending) > 2)
      BY <1>1, <2>1, AtSizeIs
    <2>3. /\ chunk_size = kInvalidLength /\ Used = ChunksEnd(Current, n)
          /\ content = First(s, n)
      BY <2>1 DEF AtSize
    <2>4. Len(pending) = 0
      <3>1. WithCRLF = 1
        BY <1>3, <2>3, WithCRLFIs
      <3>2. QED  BY <1>1, <1>3, <2>2, <3>1
    <2>5. pending = <<>>
      BY <1>3, <2>4, EmptySeq
    <2>6. content' = content
      <3>1. First(s, n) \in Seq(AnyByte)
        <4>1. \A m \in 0..N : First(s, m) \in Seq(AnyByte)
          BY <1>2, FirstStep, Zenon
        <4>2. QED  BY <4>1
      <3>2. content \o <<>> = content
        BY <2>3, <3>1, ConcatEmptySeq
      <3>3. QED  BY <1>1, <2>5, <3>2
    <2>7. chunk_size' = kInvalidLength
      BY <1>1, <1>3, <2>3, <2>4
    <2>8. pending' = pending
      BY <1>1, <2>5
    <2>9. InPlace' /\ Used' = Used
      BY <1>1, <1>3, <2>8, EraseNone
    <2>10. Come < Len(Encoded)
      <3> DEFINE E == ChunksEnd(Current, n)  F == ChunksEnd(Current, N)
      <3>1. N \in 0..N
        BY <1>2
      <3>2. E =< F /\ Len(Encoded) = F + 5 /\ E \in Nat /\ F \in Nat
        BY <1>2, <3>1 DEF ChunksAre
      <3> HIDE DEF E, F
      <3>3. Come = E
        BY <1>3, <2>3, <2>4 DEF E
      <3>4. QED  BY <3>2, <3>3
    <2>11. AtSize(n)'
      BY <1>4, <2>3, <2>6, <2>7, <2>9 DEF AtSize
    <2>12. Body'
      BY <1>2, <1>4, <2>11 DEF Body, ChunkedBody
    <2>13. QED  BY <1>3, <2>7, <2>9, <2>10, <2>12
  <1>7. CASE \E n \in 0..N - 1 : InChunk(n)
    <2>1. PICK n \in 0..N - 1 : InChunk(n)
      BY <1>7
    <2> DEFINE c == s[n + 1]
               E == ChunksEnd(Current, n)
               F == ChunksEnd(Current, n + 1)
               f == First(s, n)
               a == Len(c) - chunk_size
    <2>2. /\ Len(c) \in Nat /\ chunk_size \in 1..Len(c) /\ a \in Nat /\ E \in Nat
          /\ WithCRLF = chunk_size + 2
          /\ Used = E + 3 + a /\ F = E + Len(c) + 5 /\ F < Len(Encoded)
          /\ \A k \in 0..chunk_size :
                k =< Len(pending) => content \o SubSeq(pending, 1, k) = f \o SubSeq(c, 1, a + k)
      BY <1>1, <2>1, InChunkIs
    <2>3. Len(c) < kInvalidLength
      <3> HIDE DEF c, E, F
      <3>1. QED  BY <1>3, <2>2
    <2>4. Come < Len(Encoded)
      <3> HIDE DEF c, E, F
      <3>1. QED  BY <1>1, <1>3, <2>2
    <2>5. CASE chunk_size > Len(pending)
      <3>1. /\ content' = content \o pending /\ chunk_size' = chunk_size - Len(pending)
            /\ pending' = <<>>
        BY <1>1, <2>5
      <3>2. InPlace' /\ Used' = Used + Len(pending)
        <4>1. pending' = Erased(Len(pending)) /\ Len(pending) \in 0..Len(pending)
          BY <1>3, <3>1, EraseAll
        <4>2. QED  BY <1>1, <1>2, <4>1, Erase
      <3> DEFINE k == Len(pending)
      <3>3. chunk_size' \in 1..Len(c) /\ Len(c) - chunk_size' = a + k
        <4> DEFINE L == Len(c)  p == Len(pending)
        <4>1. /\ L \in Nat /\ chunk_size \in 1..L /\ p \in Nat /\ chunk_size > p
              /\ chunk_size' = chunk_size - p
          BY <1>3, <2>2, <2>5, <3>1
        <4> HIDE DEF L, p
        <4>2. chunk_size' \in 1..L /\ L - chunk_size' = (L - chunk_size) + p
          BY <4>1
        <4>3. QED  BY <4>2 DEF L, p
      <3>4. content' = f \o SubSeq(c, 1, a + k)
        <4>1. k \in 0..chunk_size /\ k =< Len(pending)
          BY <1>3, <2>2, <2>5
        <4>2. SubSeq(pending, 1, k) = pending
          BY <1>3, SubSeqFull
        <4> HIDE DEF k, c, f, a
        <4>3. content \o SubSeq(pending, 1, k) = f \o SubSeq(c, 1, a + k)
          BY <2>2, <4>1, Zenon
        <4>4. QED  BY <3>1, <4>2, <4>3, Zenon
      <3>5. Used' = E + 3 + Len(c) - chunk_size'
        <4> HIDE DEF c, E
        <4>1. QED  BY <1>3, <2>2, <3>1, <3>2
      <3>6. InChunk(n)'
        BY <1>4, <3>3, <3>4, <3>5 DEF InChunk
      <3>7. Body'
        BY <1>2, <1>4, <3>6 DEF Body, ChunkedBody
      <3>8. chunk_size' \in 0..kInvalidLength
        <4> HIDE DEF c
        <4>1. QED  BY <1>3, <2>2, <2>3, <3>3
      <3>9. QED  BY <2>4, <3>2, <3>7, <3>8
    <2>6. CASE ~(chunk_size > Len(pending))
      <3>1. content' = content /\ chunk_size' = chunk_size /\ pending' = pending
        BY <1>1, <2>6
      <3>2. InPlace' /\ Used' = Used
        BY <1>1, <1>3, <3>1, EraseNone
      <3>3. InChunk(n)'
        BY <1>4, <2>1, <3>1, <3>2 DEF InChunk
      <3>4. Body'
        BY <1>2, <1>4, <3>3 DEF Body, ChunkedBody
      <3>5. chunk_size' \in 0..kInvalidLength
        <4> HIDE DEF c
        <4>1. QED  BY <1>3, <2>2, <2>3, <3>1
      <3>6. QED  BY <2>4, <3>2, <3>4, <3>5
    <2>7. QED  BY <2>5, <2>6
  <1>8. QED
    <2>1. ~AtLast
      BY <1>1 DEF AtLast
    <2>2. QED  BY <1>2, <1>6, <1>7, <2>1 DEF ChunkedBody

---------------------------------------------------------------------------
(* Forms                                                                   *)

\* What is pending begins with the data p of a part and the CRLF after it.
DataPending(p) ==
    /\ pending \in Seq(AnyByte) /\ p \in Seq(AnyByte)
    /\ \A i \in 1..Len(p) + 2 : i =< Len(pending) => pending[i] = (p \o CRLF)[i]

LEMMA DataIs ==
    ASSUME NEW p, DataPending(p)
    PROVE  /\ Len(p) \in Nat /\ Len(pending) \in Nat
           /\ \A i \in 1..Len(p) : (p \o CRLF)[i] = p[i] /\ (i =< Len(pending) => pending[i] = p[i])
           /\ (p \o CRLF)[Len(p) + 1] = CR /\ (p \o CRLF)[Len(p) + 2] = LF
           /\ Len(pending) > Len(p) => pending[Len(p) + 1] = CR
           /\ Len(pending) > Len(p) + 1 => pending[Len(p) + 2] = LF
  <1> DEFINE t == p \o CRLF  L == Len(p)
  <1>1. /\ L \in Nat /\ p \in Seq(AnyByte) /\ Len(pending) \in Nat
        /\ \A i \in 1..L + 2 : i =< Len(pending) => pending[i] = t[i]
    <2>1. \A i \in 1..L + 2 : i =< Len(pending) => pending[i] = t[i]
      BY Zenon DEF DataPending
    <2>2. pending \in Seq(AnyByte) /\ p \in Seq(AnyByte)
      BY DEF DataPending
    <2> HIDE DEF t
    <2>3. QED  BY <2>1, <2>2
  <1>2. Holds(t, 0, p) /\ Holds(t, L, CRLF) /\ CRLF[1] = CR /\ CRLF[2] = LF /\ Len(CRLF) = 2
    <2>1. CRLF[1] = CR /\ CRLF[2] = LF
      BY DEF CRLF
    <2>2. CRLF \in Seq(AnyByte) /\ Len(CRLF) = 2
      BY CRLFIs
    <2>3. QED  BY <1>1, <2>1, <2>2, Join2
  <1> HIDE DEF t
  <1>3. \A i \in 1..L : t[i] = p[i]
    BY <1>2 DEF Holds
  <1>4. t[L + 1] = CR /\ t[L + 2] = LF
    <2>1. 1 \in 1..Len(CRLF) /\ 2 \in 1..Len(CRLF)
      BY <1>2
    <2>2. t[L + 1] = CRLF[1] /\ t[L + 2] = CRLF[2]
      BY <1>2, <2>1, Zenon DEF Holds
    <2>3. QED  BY <1>2, <2>2
  <1> HIDE DEF L
  <1>5. \A i \in 1..L : t[i] = p[i] /\ (i =< Len(pending) => pending[i] = p[i])
    BY <1>1, <1>3
  <1>6. /\ Len(pending) > L => pending[L + 1] = CR
        /\ Len(pending) > L + 1 => pending[L + 2] = LF
    <2>1. L + 1 \in 1..L + 2 /\ L + 2 \in 1..L + 2
      BY <1>1
    <2>2. /\ Len(pending) > L => L + 1 =< Len(pending)
          /\ Len(pending) > L + 1 => L + 2 =< Len(pending)
      BY <1>1
    <2>3. QED  BY <1>1, <1>4, <2>1, <2>2
  <1>7. QED  BY <1>1, <1>4, <1>5, <1>6, Zenon DEF t, L

\* A line of the pending data that starts before the boundary is one of p.
LEMMA LineWithin ==
    ASSUME NEW p, DataPending(p), NEW bytes, CR \notin bytes, LF \notin bytes,
           NEW j \in LineStarts, j + 1 \in CRLFs, pending[j] \in bytes, j < Len(p) + 3
    PROVE  HasLineOf(p, bytes)
  <1> DEFINE L == Len(p)  t == p \o CRLF
  <1>1. /\ L \in Nat /\ Len(pending) \in Nat
        /\ \A i \in 1..L : t[i] = p[i] /\ (i =< Len(pending) => pending[i] = p[i])
        /\ t[L + 1] = CR /\ t[L + 2] = LF
        /\ Len(pending) > L => pending[L + 1] = CR
        /\ Len(pending) > L + 1 => pending[L + 2] = LF
    BY DataIs
  <1>2. \A i \in CRLFs : i \in 1..Len(pending) - 1 /\ pending[i] = CR /\ pending[i + 1] = LF
    BY DEF CRLFs
  <1>3. j \in Nat /\ j >= 1 /\ (j = 1 \/ (j - 2 \in CRLFs /\ (j - 2) + 2 = j))
    <2>1. CASE j = 1
      BY <2>1
    <2>2. CASE \E i \in CRLFs : j = i + 2
      <3>1. PICK i \in CRLFs : j = i + 2
        BY <2>2
      <3>2. i \in 1..Len(pending) - 1
        BY <1>2
      <3>3. i \in Nat /\ j \in Nat /\ j >= 1 /\ j - 2 = i /\ (j - 2) + 2 = j
        BY <1>1, <3>1, <3>2
      <3>4. QED  BY <3>3
    <2>3. QED  BY <2>1, <2>2 DEF LineStarts
  <1>4. /\ j + 1 \in 1..Len(pending) - 1 /\ pending[j + 1] = CR /\ pending[j + 2] = LF
    BY <1>2, <1>3
  <1> HIDE DEF L, t
  <1>5. j =< L
    <2>1. j # L + 1
      BY <1>1, <1>4
    <2>2. j # L + 2
      BY <1>1, <1>4
    <2>3. QED  BY <1>1, <1>3, <2>1, <2>2 DEF L
  <1>6. j \in 1..L /\ p[j] \in bytes
    BY <1>1, <1>3, <1>4, <1>5
  <1>7. j = 1 \/ (j > 2 /\ p[j - 2] = CR /\ p[j - 1] = LF)
    <2>1. CASE j - 2 \in CRLFs
      <3>1. j - 2 \in 1..L /\ j - 1 \in 1..L /\ (j - 2) + 1 = j - 1
        BY <1>1, <1>2, <1>3, <1>5, <2>1
      <3>2. pending[j - 2] = CR /\ pending[j - 1] = LF
        BY <1>2, <2>1, <3>1
      <3>3. j > 2 /\ j - 2 =< Len(pending) /\ j - 1 =< Len(pending)
        BY <1>1, <1>3, <1>4, <3>1
      <3>4. QED  BY <1>1, <3>1, <3>2, <3>3
    <2>2. QED  BY <1>3, <2>1
  <1>8. t[j + 1] = CR /\ t[j + 2] = LF
    <2>1. CASE j + 2 =< L
      <3>1. j + 1 \in 1..L /\ j + 2 \in 1..L /\ j + 1 =< Len(pending) /\ j + 2 =< Len(pending)
        BY <1>1, <1>3, <1>4, <2>1
      <3>2. QED  BY <1>1, <1>4, <3>1
    <2>2. CASE j + 1 = L
      <3>1. j + 1 \in 1..L /\ j + 2 = L + 1 /\ Len(pending) > L
        BY <1>1, <1>3, <1>4, <2>2
      <3>2. CR # LF
        BY BytesDiffer
      <3>3. QED  BY <1>1, <1>4, <3>1, <3>2
    <2>3. CASE j = L
      <3>1. j + 1 = L + 1 /\ j + 2 = L + 2
        BY <2>3
      <3>2. QED  BY <1>1, <3>1
    <2>4. QED  BY <1>1, <1>3, <1>5, <2>1, <2>2, <2>3
  <1>9. QED  BY <1>6, <1>7, <1>8 DEF HasLineOf, L, t

\* The boundary b follows the data.
LEMMA BoundaryIs ==
    ASSUME NEW p, DataPending(p), ~HasLineOf(p, {Boundary, Final}), NEW b \in {Boundary, Final},
           Len(pending) > Len(p) + 2 => pending[Len(p) + 3] = b,
           Len(pending) > Len(p) + 3 => pending[Len(p) + 4] = CR,
           Len(pending) > Len(p) + 4 => pending[Len(p) + 5] = LF
    PROVE  /\ Boundaries = {} <=> Len(pending) < Len(p) + 5
           /\ Boundaries # {} =>
                 /\ Min(Boundaries) = Len(p) + 3
                 /\ b = Final => Ends(Len(p) + 3)
                 /\ b = Boundary /\ ~HasLineOf(p, {Alike}) => ~Ends(Len(p) + 3)
  <1> DEFINE L == Len(p)
  <1>1. /\ L \in Nat /\ Len(pending) \in Nat
        /\ Len(pending) > L => pending[L + 1] = CR
        /\ Len(pending) > L + 1 => pending[L + 2] = LF
    BY DataIs
  <1>2. LineStarts \subseteq Nat /\ CRLFs \subseteq 1..Len(pending) - 1
    BY <1>1 DEF LineStarts, CRLFs
  <1>3. /\ CR \notin {Boundary, Final} /\ LF \notin {Boundary, Final} /\ CR # Alike /\ LF # Alike
        /\ Boundary \notin {Final, Alike}
    BY BytesDiffer
  <1> HIDE DEF L
  <1>4. ASSUME NEW i \in Boundaries PROVE i \in Nat /\ L + 3 =< i /\ L + 5 =< Len(pending)
    <2>1. i \in LineStarts /\ i + 1 \in CRLFs /\ pending[i] \in {Boundary, Final} /\ i \in Nat
      BY <1>2 DEF Boundaries
    <2>2. ~(i < Len(p) + 3)
      BY <1>3, <2>1, LineWithin
    <2>3. i + 1 \in 1..Len(pending) - 1
      BY <1>2, <2>1
    <2>4. QED  BY <1>1, <2>1, <2>2, <2>3 DEF L
  <1>5. ASSUME L + 5 =< Len(pending)
        PROVE  L + 3 \in Boundaries /\ L + 3 \in LineStarts /\ L + 4 \in CRLFs
    <2>1. /\ pending[L + 1] = CR /\ pending[L + 2] = LF /\ pending[L + 3] = b
          /\ pending[L + 4] = CR /\ pending[L + 5] = LF
      BY <1>1, <1>5 DEF L
    <2>2. L + 1 \in CRLFs /\ L + 4 \in CRLFs
      <3>1. /\ L + 1 \in 1..Len(pending) - 1 /\ L + 4 \in 1..Len(pending) - 1
            /\ (L + 1) + 1 = L + 2 /\ (L + 4) + 1 = L + 5
        BY <1>1, <1>5
      <3>2. QED  BY <2>1, <3>1 DEF CRLFs
    <2>3. (L + 1) + 2 = L + 3 /\ (L + 3) + 1 = L + 4
      BY <1>1
    <2>4. L + 3 \in LineStarts
      BY <2>2, <2>3 DEF LineStarts
    <2>5. QED  BY <2>1, <2>2, <2>3, <2>4 DEF Boundaries
  <1>6. Boundaries = {} <=> Len(pending) < L + 5
    BY <1>1, <1>4, <1>5
  <1>7. ASSUME Boundaries # {} PROVE L + 5 =< Len(pending) /\ Min(Boundaries) = L + 3
    <2>1. L + 5 =< Len(pending)
      BY <1>4, <1>7
    <2>2. L + 3 \in Boundaries /\ Boundaries \subseteq Nat /\ \A i \in Boundaries : L + 3 =< i
      BY <1>4, <1>5, <2>1
    <2>3. QED  BY <1>7, <2>1, <2>2, Smallest
  <1>8. ASSUME Boundaries # {}, b = Final PROVE Ends(L + 3)
    <2>1. L + 3 \in LineStarts /\ L + 4 \in CRLFs /\ pending[L + 3] = b
      BY <1>1, <1>5, <1>7, <1>8 DEF L
    <2>2. (L + 3) + 1 = L + 4 /\ L + 3 =< L + 3
      BY <1>1
    <2>3. QED  BY <1>8, <2>1, <2>2 DEF Ends
  <1>9. ASSUME Boundaries # {}, b = Boundary, ~HasLineOf(p, {Alike}), Ends(L + 3) PROVE FALSE
    <2>1. PICK j \in LineStarts : j =< L + 3 /\ j + 1 \in CRLFs /\ pending[j] \in {Final, Alike}
      BY <1>9 DEF Ends
    <2>2. pending[L + 3] = Boundary
      BY <1>1, <1>7, <1>9 DEF L
    <2>3. j # L + 3
      BY <1>3, <2>1, <2>2
    <2>4. j \in Nat /\ j < L + 3
      BY <1>1, <1>2, <2>1, <2>3
    <2>5. CASE pending[j] = Final
      <3>1. pending[j] \in {Boundary, Final} /\ j < Len(p) + 3
        BY <2>4, <2>5 DEF L
      <3>2. QED  BY <1>3, <2>1, <3>1, LineWithin
    <2>6. CASE pending[j] = Alike
      <3>1. pending[j] \in {Alike} /\ j < Len(p) + 3 /\ CR \notin {Alike} /\ LF \notin {Alike}
        BY <1>3, <2>4, <2>6 DEF L
      <3>2. QED  BY <1>9, <2>1, <3>1, LineWithin
    <2>7. QED  BY <2>1, <2>5, <2>6
  <1>10. QED  BY <1>6, <1>7, <1>8, <1>9 DEF L

\* Where the parser is in the form
LEMMA AtForm ==
    ASSUME WellFormed, ParserInv, InForm
    PROVE  LET parts == Current.parts N == Len(parts) IN
           /\ pc = "content" /\ Parsing /\ More /\ header_ended /\ Current.form = "multipart"
           /\ FormBody /\ chunk_size = kInvalidLength /\ N \in Nat /\ N > 0
           /\ FormIs(Current, Encoded, N) /\ parts \in Seq(Seq(AnyByte))
           /\ \A n \in 0..N - 1 :
                 /\ parts[n + 1] \in Seq(AnyByte) /\ Len(parts[n + 1]) \in Nat
                 /\ Len(parts[n + 1]) # 0
                 /\ ~HasLineOf(parts[n + 1], {Boundary, Final})
                 /\ n + 1 < N => ~HasLineOf(parts[n + 1], {Alike})
  <1> DEFINE r == Current  s == r.parts  N == Len(s)
  <1>1. /\ pc = "content" /\ Parsing /\ More /\ header_ended /\ r.form = "multipart" /\ FormBody
    BY InContent DEF InForm
  <1>2. Valid(r)
    BY <1>1, Placed
  <1>3. FormIs(r, Encoded, N)
    BY <1>1, <1>2, FormShape DEF Encoded
  <1>4. s \in Seq(Seq(AnyByte)) /\ ValidForm(r)
    BY <1>1, <1>2 DEF Valid
  <1>5. N \in Nat /\ DOMAIN s = 1..N /\ Sequences(s, N, AnyByte)
    BY <1>2, PartsAre
  <1>6. N > 0
    <2>1. s # <<>>
      BY <1>4 DEF ValidForm
    <2> HIDE DEF s
    <2>2. N # 0
      BY <1>4, <2>1, EmptySeq
    <2>3. QED  BY <1>5, <2>2
  <1>7. ASSUME NEW n \in 0..N - 1
        PROVE  /\ s[n + 1] \in Seq(AnyByte) /\ Len(s[n + 1]) \in Nat /\ Len(s[n + 1]) # 0
               /\ ~HasLineOf(s[n + 1], {Boundary, Final})
               /\ n + 1 < N => ~HasLineOf(s[n + 1], {Alike})
    <2>1. n + 1 \in 1..N
      BY <1>5
    <2> DEFINE p == s[n + 1]
    <2>2. p \in Seq(AnyByte)
      BY <1>5, <2>1 DEF Sequences
    <2>3. /\ p # <<>> /\ ~HasLineOf(p, {Boundary, Final})
          /\ n + 1 < N => ~HasLineOf(p, {Alike})
      BY <1>4, <1>5, <2>1 DEF ValidForm
    <2> HIDE DEF p
    <2>4. Len(p) \in Nat /\ Len(p) # 0
      BY <2>2, <2>3, EmptySeq
    <2>5. QED  BY <2>2, <2>3, <2>4 DEF p
  <1>8. chunk_size = kInvalidLength
    BY <1>1 DEF FormBody
  <1>9. QED  BY <1>1, <1>3, <1>4, <1>5, <1>6, <1>7, <1>8

\* The parts of the form, in its encoding
LEMMA AtPart ==
    ASSUME WellFormed, ParserInv, InForm, NEW n \in 0..Len(Current.parts) - 1
    PROVE  LET p == Current.parts[n + 1]
               E == PartsEnd(Current, n)
               F == PartsEnd(Current, n + 1) IN
           /\ E \in Nat /\ F = E + Len(p) + 10 /\ PartAt(Encoded, E, p) /\ F + 3 =< Len(Encoded)
           /\ LineAt(Encoded, F, IF n + 1 < Len(Current.parts) THEN Boundary ELSE Final)
           /\ n + 1 = Len(Current.parts) => Len(Encoded) = F + 3
  <1> DEFINE N == Len(Current.parts)
             p == Current.parts[n + 1]
             E == PartsEnd(Current, n)
             F == PartsEnd(Current, n + 1)
  <1>1. N \in Nat /\ FormIs(Current, Encoded, N)
    BY AtForm
  <1>2. n \in 0..N /\ n + 1 \in 0..N /\ N \in 0..N
    BY <1>1
  <1>3. /\ E \in Nat /\ F = E + Len(p) + 10 /\ PartAt(Encoded, E, p)
        /\ F \in Nat /\ F =< PartsEnd(Current, N) /\ PartsEnd(Current, N) \in Nat
        /\ Len(Encoded) = PartsEnd(Current, N) + 3 /\ LineAt(Encoded, PartsEnd(Current, N), Final)
    BY <1>1, <1>2 DEF FormIs
  <1>4. F + 3 =< Len(Encoded)
    <2> DEFINE G == PartsEnd(Current, N)
    <2>1. F \in Nat /\ G \in Nat /\ F =< G /\ Len(Encoded) = G + 3
      BY <1>3
    <2> HIDE DEF F, G
    <2>2. QED  BY <2>1
  <1>5. LineAt(Encoded, F, IF n + 1 < N THEN Boundary ELSE Final)
    <2>1. CASE n + 1 < N
      <3>1. n + 1 \in 0..N - 1
        BY <1>1, <2>1
      <3>2. PartAt(Encoded, F, Current.parts[n + 1 + 1])
        BY <1>1, <3>1 DEF FormIs
      <3>3. LineAt(Encoded, F, Boundary)
        BY <3>2 DEF PartAt
      <3>4. QED  BY <2>1, <3>3
    <2>2. CASE n + 1 = N
      <3>1. ~(n + 1 < N) /\ LineAt(Encoded, F, Final)
        BY <1>1, <1>3, <2>2
      <3>2. QED  BY <3>1
    <2>3. n + 1 < N \/ n + 1 = N
      BY <1>1
    <2>4. QED  BY <2>1, <2>2, <2>3
  <1>6. ASSUME n + 1 = N PROVE Len(Encoded) = F + 3
    BY <1>3, <1>6
  <1>7. QED  BY <1>3, <1>4, <1>5, <1>6

\* Which line comes next, where one does
AtFirst ==
    /\ FirstLine /\ (HasLine <=> Len(pending) > 2)
    /\ HasLine => NextLine = <<Boundary>> /\ AfterLine = Erased(3)
AtDisposition(n) ==
    /\ step = "boundary" /\ form_parts = SubSeq(Current.parts, 1, n)
    /\ Used = PartsEnd(Current, n) + 3 /\ (HasLine <=> Len(pending) > 2)
    /\ HasLine => NextLine = <<Disposition>> /\ AfterLine = Erased(3)
AtBlank(n) ==
    /\ step = "boundary" /\ form_parts = SubSeq(Current.parts, 1, n)
    /\ Used = PartsEnd(Current, n) + 6 /\ (HasLine <=> Len(pending) > 1)
    /\ HasLine => NextLine = <<>> /\ AfterLine = Erased(2)

LEMMA FormLines ==
    ASSUME WellFormed, ParserInv, InForm, step # "headers"
    PROVE  /\ Used + 3 < Len(Encoded) /\ InPlace /\ Come = Used + Len(pending)
           /\ Used \in Nat /\ Len(pending) \in Nat /\ Len(Encoded) \in Nat
           /\ AtFirst \/ (\E n \in 0..Len(Current.parts) - 1 : AtDisposition(n) \/ AtBlank(n))
  <1> DEFINE N == Len(Current.parts)
  <1>1. Parsing /\ More /\ FormBody /\ N \in Nat /\ N > 0 /\ FormIs(Current, Encoded, N)
    BY AtForm
  <1>2. /\ InPlace /\ Used \in Nat /\ Len(pending) \in Nat /\ Len(Encoded) \in Nat
        /\ Come = Used + Len(pending)
    BY <1>1, Placed
  <1>3. Boundary # CR /\ Disposition # CR
    BY BytesDiffer
  <1>4. CASE FirstLine
    <2>1. Used = 11 /\ 0 \in 0..N - 1 /\ PartsEnd(Current, 0) = 11
      BY <1>1, <1>4 DEF FirstLine, FormIs
    <2>2. /\ PartAt(Encoded, 11, Current.parts[0 + 1]) /\ 11 + Len(Current.parts[0 + 1]) + 10 + 3 =< Len(Encoded)
          /\ Len(Current.parts[0 + 1]) \in Nat
      BY <2>1, AtPart, AtForm
    <2>3. LineAt(Encoded, Used, Boundary)
      BY <2>1, <2>2 DEF PartAt
    <2>4. AtFirst
      BY <1>2, <1>3, <1>4, <2>3, LineInPlace DEF AtFirst
    <2>5. Used + 3 < Len(Encoded)
      BY <1>2, <2>1, <2>2
    <2>6. QED  BY <1>2, <2>4, <2>5
  <1>5. CASE \E n \in 0..N - 1 : InPart(n)
    <2>1. PICK n \in 0..N - 1 : InPart(n)
      BY <1>5
    <2> DEFINE E == PartsEnd(Current, n)  p == Current.parts[n + 1]
    <2>2. /\ E \in Nat /\ PartAt(Encoded, E, p) /\ E + Len(p) + 10 + 3 =< Len(Encoded)
          /\ Len(p) \in Nat
      BY <2>1, AtPart, AtForm
    <2> HIDE DEF E, p
    <2>3. CASE Used = E + 3
      <3>1. LineAt(Encoded, Used, Disposition)
        BY <2>2, <2>3 DEF PartAt
      <3>2. AtDisposition(n)
        <4>1. /\ HasLine <=> Len(pending) > 2
              /\ HasLine => NextLine = <<Disposition>> /\ AfterLine = Erased(3)
          BY <1>2, <1>3, <3>1, LineInPlace
        <4>2. step = "boundary" /\ form_parts = SubSeq(Current.parts, 1, n)
          BY <2>1 DEF InPart
        <4>3. QED  BY <2>3, <4>1, <4>2 DEF AtDisposition, E
      <3>3. Used + 3 < Len(Encoded)
        BY <1>2, <2>2, <2>3
      <3>4. QED  BY <1>2, <3>2, <3>3
    <2>4. CASE Used = E + 6
      <3>1. EmptyLineAt(Encoded, Used)
        BY <2>2, <2>4 DEF PartAt
      <3>2. AtBlank(n)
        <4>1. /\ HasLine <=> Len(pending) > 1
              /\ HasLine => NextLine = <<>> /\ AfterLine = Erased(2)
          BY <1>2, <3>1, EmptyInPlace
        <4>2. step = "boundary" /\ form_parts = SubSeq(Current.parts, 1, n)
          BY <2>1 DEF InPart
        <4>3. QED  BY <2>4, <4>1, <4>2 DEF AtBlank, E
      <3>3. Used + 3 < Len(Encoded)
        BY <1>2, <2>2, <2>4
      <3>4. QED  BY <1>2, <3>2, <3>3
    <2>5. Used = E + 3 \/ Used = E + 6
      BY <2>1 DEF InPart, E
    <2>6. QED  BY <2>3, <2>4, <2>5
  <1>6. QED  BY <1>1, <1>4, <1>5 DEF FormBody

\* The data of a part
AtData(n) ==
    LET L == Len(Current.parts[n + 1]) IN
    /\ form_parts = SubSeq(Current.parts, 1, n) /\ Used = PartsEnd(Current, n) + 8
    /\ DataPending(Current.parts[n + 1])
    /\ Boundaries = {} <=> Len(pending) < L + 5
    /\ Boundaries # {} => Min(Boundaries) = L + 3 /\ (Ends(L + 3) <=> n + 1 = Len(Current.parts))

LEMMA FormData ==
    ASSUME WellFormed, ParserInv, InForm, step = "headers"
    PROVE  \E n \in 0..Len(Current.parts) - 1 : AtData(n)
  <1> DEFINE N == Len(Current.parts)
  <1>1. Parsing /\ More /\ FormBody /\ N \in Nat
    BY AtForm
  <1>2. /\ InPlace /\ Used \in Nat /\ Len(pending) \in Nat /\ pending \in Seq(AnyByte)
        /\ \A i \in 1..Len(pending) : pending[i] = Encoded[Used + i]
    BY <1>1, Placed DEF InPlace
  <1>3. PICK n \in 0..N - 1 : InPart(n)
    BY <1>1 DEF FormBody, FirstLine
  <1> DEFINE p == Current.parts[n + 1]  L == Len(p)
             E == PartsEnd(Current, n)  F == PartsEnd(Current, n + 1)
             b == IF n + 1 < N THEN Boundary ELSE Final
  <1>4. Used = E + 8 /\ form_parts = SubSeq(Current.parts, 1, n)
    BY <1>3 DEF InPart
  <1>5. /\ E \in Nat /\ F = E + L + 10 /\ PartAt(Encoded, E, p) /\ LineAt(Encoded, F, b)
        /\ p \in Seq(AnyByte) /\ L \in Nat
        /\ ~HasLineOf(p, {Boundary, Final}) /\ (n + 1 < N => ~HasLineOf(p, {Alike}))
    BY <1>3, AtPart, AtForm
  <1>6. /\ n + 1 < N => b = Boundary
        /\ n + 1 = N => b = Final
        /\ n + 1 < N \/ n + 1 = N
        /\ b \in {Boundary, Final}
    BY <1>1
  <1>7. n + 1 < N => n + 1 # N
    BY <1>1
  <1> HIDE DEF b, p, E, F
  <1>8. /\ \A i \in 1..L : Encoded[E + 8 + i] = p[i]
        /\ Encoded[E + 8 + L + 1] = CR /\ Encoded[E + 8 + L + 2] = LF
    BY <1>5 DEF PartAt, EmptyLineAt
  <1>9. /\ Encoded[E + 8 + L + 3] = b /\ Encoded[E + 8 + L + 4] = CR /\ Encoded[E + 8 + L + 5] = LF
    <2>1. F + 1 = E + 8 + L + 3 /\ F + 2 = E + 8 + L + 4 /\ F + 3 = E + 8 + L + 5
      BY <1>5
    <2>2. QED  BY <1>5, <2>1 DEF LineAt
  <1>10. DataPending(p)
    <2> DEFINE t == p \o CRLF
    <2>1. /\ \A i \in 1..L : t[i] = p[i]
          /\ t[L + 1] = CR /\ t[L + 2] = LF
      <3>1. CRLF \in Seq(AnyByte) /\ Len(CRLF) = 2 /\ CRLF[1] = CR /\ CRLF[2] = LF
        BY CRLFIs DEF CRLF
      <3>2. Holds(t, 0, p) /\ Holds(t, L, CRLF)
        BY <1>5, <3>1, Join2
      <3> HIDE DEF t
      <3>3. \A i \in 1..L : t[i] = p[i]
        BY <3>2 DEF Holds
      <3>4. 1 \in 1..Len(CRLF) /\ 2 \in 1..Len(CRLF)
        BY <3>1
      <3>5. t[L + 1] = CRLF[1] /\ t[L + 2] = CRLF[2]
        BY <3>2, <3>4, Zenon DEF Holds
      <3>6. QED  BY <3>1, <3>3, <3>5
    <2> HIDE DEF t
    <2>2. ASSUME NEW i \in 1..L + 2, i =< Len(pending) PROVE pending[i] = t[i]
      <3>1. i \in 1..Len(pending) /\ pending[i] = Encoded[E + 8 + i]
        BY <1>2, <1>4, <1>5, <2>2
      <3>2. CASE i \in 1..L
        BY <1>8, <2>1, <3>1, <3>2
      <3>3. CASE i = L + 1
        <4>1. E + 8 + i = E + 8 + L + 1
          BY <1>5, <3>3
        <4>2. QED  BY <1>8, <2>1, <3>1, <3>3, <4>1
      <3>4. CASE i = L + 2
        <4>1. E + 8 + i = E + 8 + L + 2
          BY <1>5, <3>4
        <4>2. QED  BY <1>8, <2>1, <3>1, <3>4, <4>1
      <3>5. i \in 1..L \/ i = L + 1 \/ i = L + 2
        BY <1>5
      <3>6. QED  BY <3>2, <3>3, <3>4, <3>5
    <2>3. QED  BY <1>2, <1>5, <2>2, Zenon DEF DataPending, t
  <1>11. /\ Len(pending) > L + 2 => pending[L + 3] = b
         /\ Len(pending) > L + 3 => pending[L + 4] = CR
         /\ Len(pending) > L + 4 => pending[L + 5] = LF
    <2>1. \A i \in 1..Len(pending) : pending[i] = Encoded[E + 8 + i]
      BY <1>2, <1>4
    <2>2. /\ Len(pending) > L + 2 => L + 3 \in 1..Len(pending)
          /\ Len(pending) > L + 3 => L + 4 \in 1..Len(pending)
          /\ Len(pending) > L + 4 => L + 5 \in 1..Len(pending)
      BY <1>2, <1>5
    <2>3. /\ E + 8 + (L + 3) = E + 8 + L + 3 /\ E + 8 + (L + 4) = E + 8 + L + 4
          /\ E + 8 + (L + 5) = E + 8 + L + 5
      BY <1>5
    <2>4. QED  BY <1>9, <2>1, <2>2, <2>3
  <1>12. /\ Boundaries = {} <=> Len(pending) < L + 5
         /\ Boundaries # {} =>
               /\ Min(Boundaries) = L + 3
               /\ b = Final => Ends(L + 3)
               /\ b = Boundary /\ ~HasLineOf(p, {Alike}) => ~Ends(L + 3)
    BY <1>5, <1>6, <1>10, <1>11, BoundaryIs
  <1>13. Boundaries # {} => (Ends(L + 3) <=> n + 1 = N)
    BY <1>5, <1>6, <1>7, <1>12
  <1>14. AtData(n)
    BY <1>4, <1>10, <1>12, <1>13 DEF AtData, p, E
  <1>15. QED  BY <1>14

\* A step within the form
LEMMA FormGoesOn ==
    ASSUME WellFormed, ParserInv, InForm, UNCHANGED <<requests, pos, parsed, head>>,
           InPlace', pc' \in {"reading", "content"}, pc' = "reading" => Come < Len(Encoded),
           chunk_size' = chunk_size, (FirstLine \/ \E n \in 0..Len(Current.parts) - 1 : InPart(n))'
    PROVE  ParserInv'
  <1>1. /\ requests' = requests /\ parsed' = parsed /\ header_ended' = header_ended
    BY DEF head
  <1>2. /\ pc = "content" /\ Parsing /\ More /\ header_ended /\ Current.form = "multipart"
        /\ chunk_size = kInvalidLength
    BY AtForm
  <1>3. Current' = Current /\ More' = More
    BY <1>1, SameRequest
  <1>4. Body'
    BY <1>2, <1>3 DEF Body, FormBody
  <1>5. FormInv'
    <2>1. Parsing'
      BY DEF Parsing
    <2>2. QED  BY <1>1, <1>2, <1>3, <2>1 DEF FormInv
  <1>6. chunk_size' \in 0..kInvalidLength
    BY DEF ParserInv, FieldsInv
  <1>7. step' \in {"start", "boundary", "headers", "ended"}
    BY DEF FirstLine, InPart
  <1>8. QED  BY <1>2, <1>4, <1>5, <1>6, <1>7, BodyGoesOn

\* The parser waits.
LEMMA FormWaits ==
    ASSUME WellFormed, ParserInv, InForm, Come < Len(Encoded), Wait, UNCHANGED <<pending, body>>
    PROVE  ParserInv'
  <1>1. /\ pc' = "reading" /\ UNCHANGED <<requests, pos, parsed, head>>
        /\ requests' = requests /\ pos' = pos /\ parsed' = parsed /\ pending' = pending
        /\ chunk_size' = chunk_size /\ step' = step /\ form_parts' = form_parts
    BY DEF Wait, body
  <1>2. Parsing /\ More /\ FormBody
    BY AtForm
  <1>3. InPlace
    BY <1>2, Placed
  <1>4. InPlace' /\ Used' = Used
    BY <1>1, <1>3, EraseNone
  <1>5. Current' = Current
    BY <1>1, SameRequest
  <1>6. FirstLine => FirstLine'
    BY <1>1, <1>4 DEF FirstLine
  <1>7. ASSUME NEW n, InPart(n) PROVE InPart(n)'
    BY <1>1, <1>4, <1>5, <1>7 DEF InPart
  <1>8. (FirstLine \/ \E n \in 0..Len(Current.parts) - 1 : InPart(n))'
    BY <1>2, <1>5, <1>6, <1>7 DEF FormBody
  <1>9. QED  BY <1>1, <1>4, <1>8, FormGoesOn

LEMMA FormDataUsedInv ==
    ASSUME WellFormed, ParserInv, FormDataUsed
    PROVE  ParserInv'
  <1>1. InForm /\ pending = <<>> /\ UNCHANGED <<pending, body>>
    BY DEF FormDataUsed
  <1>2. Parsing /\ More /\ FormBody
    BY <1>1, AtForm
  <1>3. Wait
    <2>1. step # "ended"
      BY <1>2 DEF FormBody, FirstLine, InPart
    <2>2. QED  BY <2>1 DEF FormDataUsed
  <1>4. Come = Used /\ Used \in Nat /\ Len(Encoded) \in Nat
    <2>1. Come = Used + Len(pending) /\ Used \in Nat /\ Len(Encoded) \in Nat
      BY <1>2, Placed
    <2>2. Len(pending) = 0
      BY <1>1
    <2>3. QED  BY <2>1, <2>2
  <1>5. Come < Len(Encoded)
    <2>1. CASE step # "headers"
      <3>1. Used + 3 < Len(Encoded)
        BY <1>1, <2>1, FormLines
      <3>2. QED  BY <1>4, <3>1
    <2>2. CASE step = "headers"
      <3>1. PICK n \in 0..Len(Current.parts) - 1 : AtData(n)
        BY <1>1, <2>2, FormData
      <3> DEFINE E == PartsEnd(Current, n)  F == PartsEnd(Current, n + 1)
                 L == Len(Current.parts[n + 1])
      <3>2. E \in Nat /\ F = E + L + 10 /\ F + 3 =< Len(Encoded) /\ L \in Nat /\ Used = E + 8
        BY <1>1, <3>1, AtPart, AtForm DEF AtData
      <3> HIDE DEF E, F, L
      <3>3. QED  BY <1>4, <3>2
    <2>3. QED  BY <2>1, <2>2
  <1>6. QED  BY <1>1, <1>3, <1>5, FormWaits

LEMMA NeedLineInv ==
    ASSUME WellFormed, ParserInv, NeedLine
    PROVE  ParserInv'
  <1>1. InForm /\ step # "headers" /\ ~HasLine /\ Wait /\ UNCHANGED <<pending, body>>
    BY DEF NeedLine, InStep
  <1>2. /\ Used + 3 < Len(Encoded) /\ Come = Used + Len(pending)
        /\ Used \in Nat /\ Len(pending) \in Nat /\ Len(Encoded) \in Nat
        /\ AtFirst \/ (\E n \in 0..Len(Current.parts) - 1 : AtDisposition(n) \/ AtBlank(n))
    BY <1>1, FormLines
  <1>3. ~(Len(pending) > 2)
    <2>1. (HasLine <=> Len(pending) > 2) \/ (HasLine <=> Len(pending) > 1)
      BY <1>2 DEF AtFirst, AtDisposition, AtBlank
    <2>2. QED  BY <1>1, <1>2, <2>1
  <1>4. Come < Len(Encoded)
    BY <1>2, <1>3
  <1>5. QED  BY <1>1, <1>4, FormWaits

LEMMA FirstBoundaryInv ==
    ASSUME WellFormed, ParserInv, FirstBoundary
    PROVE  ParserInv'
  <1>1. /\ InForm /\ step = "start" /\ HasLine /\ pending' = AfterLine /\ step' = "boundary"
        /\ UNCHANGED <<requests, pos, parsed, head>> /\ pc' = pc
        /\ chunk_size' = chunk_size /\ form_parts' = form_parts
        /\ requests' = requests /\ pos' = pos /\ parsed' = parsed
    BY DEF FirstBoundary, InStep, Continue
  <1>2. /\ Used \in Nat /\ Len(pending) \in Nat
        /\ AtFirst \/ (\E n \in 0..Len(Current.parts) - 1 : AtDisposition(n) \/ AtBlank(n))
    BY <1>1, FormLines
  <1>3. AtFirst
    BY <1>1, <1>2 DEF AtDisposition, AtBlank
  <1>4. Len(pending) > 2 /\ pending' = Erased(3) /\ Used = 11 /\ form_parts = <<>>
    BY <1>1, <1>3 DEF AtFirst, FirstLine
  <1>5. /\ pc = "content" /\ Parsing /\ More /\ FormIs(Current, Encoded, Len(Current.parts))
        /\ Len(Current.parts) \in Nat /\ Len(Current.parts) > 0
    BY <1>1, AtForm
  <1>6. InPlace' /\ Used' = Used + 3
    <2>1. 3 \in 0..Len(pending)
      BY <1>2, <1>4
    <2>2. QED  BY <1>1, <1>4, <1>5, <2>1, Erase
  <1>7. Current' = Current
    BY <1>1, SameRequest
  <1>8. InPart(0)'
    <2>1. Used' = PartsEnd(Current, 0) + 3
      BY <1>4, <1>5, <1>6 DEF FormIs
    <2>2. form_parts' = SubSeq(Current.parts, 1, 0)
      BY <1>1, <1>4, SubSeqEmpty
    <2>3. QED  BY <1>1, <1>7, <2>1, <2>2 DEF InPart
  <1>9. 0 \in 0..Len(Current.parts) - 1
    BY <1>5
  <1>10. (\E n \in 0..Len(Current.parts) - 1 : InPart(n))'
    BY <1>7, <1>8, <1>9
  <1>11. pc' = "content"
    BY <1>1, <1>5
  <1>12. QED  BY <1>1, <1>6, <1>10, <1>11, FormGoesOn

LEMMA ParsePartHeaderInv ==
    ASSUME WellFormed, ParserInv, ParsePartHeader
    PROVE  ParserInv'
  <1>1. /\ InForm /\ step = "boundary" /\ HasLine /\ pending' = AfterLine
        /\ step' = IF NextLine = <<>> THEN "headers" ELSE step
        /\ UNCHANGED <<requests, pos, parsed, head>> /\ pc' = pc
        /\ chunk_size' = chunk_size /\ form_parts' = form_parts
        /\ requests' = requests /\ pos' = pos /\ parsed' = parsed
    BY DEF ParsePartHeader, InStep, Continue
  <1>2. /\ Used \in Nat /\ Len(pending) \in Nat
        /\ AtFirst \/ (\E n \in 0..Len(Current.parts) - 1 : AtDisposition(n) \/ AtBlank(n))
    BY <1>1, FormLines
  <1>3. PICK n \in 0..Len(Current.parts) - 1 : AtDisposition(n) \/ AtBlank(n)
    BY <1>1, <1>2 DEF AtFirst, FirstLine
  <1>4. pc = "content" /\ Parsing /\ More
    BY <1>1, AtForm
  <1>5. Current' = Current
    BY <1>1, SameRequest
  <1> DEFINE E == PartsEnd(Current, n)
  <1>6. E \in Nat
    BY <1>1, AtPart
  <1>7. InPlace' /\ InPart(n)'
    <2>1. CASE AtDisposition(n)
      <3>1. /\ pending' = Erased(3) /\ Len(pending) > 2 /\ Used = E + 3 /\ NextLine = <<Disposition>>
            /\ form_parts = SubSeq(Current.parts, 1, n)
        BY <1>1, <2>1 DEF AtDisposition
      <3>2. InPlace' /\ Used' = Used + 3
        <4>1. 3 \in 0..Len(pending)
          BY <1>2, <3>1
        <4>2. QED  BY <1>1, <1>4, <3>1, <4>1, Erase
      <3>3. step' = "boundary"
        BY <1>1, <3>1
      <3>4. Used' = E + 6
        <4> HIDE DEF E
        <4>1. QED  BY <1>6, <3>1, <3>2
      <3>5. QED  BY <1>1, <1>5, <3>1, <3>2, <3>3, <3>4 DEF InPart
    <2>2. CASE AtBlank(n)
      <3>1. /\ pending' = Erased(2) /\ Len(pending) > 1 /\ Used = E + 6 /\ NextLine = <<>>
            /\ form_parts = SubSeq(Current.parts, 1, n)
        BY <1>1, <2>2 DEF AtBlank
      <3>2. InPlace' /\ Used' = Used + 2
        <4>1. 2 \in 0..Len(pending)
          BY <1>2, <3>1
        <4>2. QED  BY <1>1, <1>4, <3>1, <4>1, Erase
      <3>3. step' = "headers"
        BY <1>1, <3>1
      <3>4. Used' = E + 8
        <4> HIDE DEF E
        <4>1. QED  BY <1>6, <3>1, <3>2
      <3>5. QED  BY <1>1, <1>5, <3>1, <3>2, <3>3, <3>4 DEF InPart
    <2>3. QED  BY <1>3, <2>1, <2>2
  <1>8. (\E m \in 0..Len(Current.parts) - 1 : InPart(m))'
    BY <1>5, <1>7
  <1>9. pc' = "content"
    BY <1>1, <1>4
  <1>10. QED  BY <1>1, <1>7, <1>8, <1>9, FormGoesOn

LEMMA NoBoundaryInv ==
    ASSUME WellFormed, ParserInv, NoBoundary
    PROVE  ParserInv'
  <1>1. InForm /\ step = "headers" /\ Boundaries = {} /\ Wait /\ UNCHANGED <<pending, body>>
    BY DEF NoBoundary, InStep
  <1>2. PICK n \in 0..Len(Current.parts) - 1 : AtData(n)
    BY <1>1, FormData
  <1>3. /\ Come = Used + Len(pending) /\ Len(pending) \in Nat /\ Len(Encoded) \in Nat
    BY <1>1, AtForm, Placed
  <1> DEFINE E == PartsEnd(Current, n)  F == PartsEnd(Current, n + 1)
             L == Len(Current.parts[n + 1])
  <1>4. E \in Nat /\ F = E + L + 10 /\ F + 3 =< Len(Encoded) /\ L \in Nat /\ Used = E + 8
    BY <1>1, <1>2, AtPart, AtForm DEF AtData
  <1>5. Len(pending) < L + 5
    BY <1>1, <1>2 DEF AtData
  <1> HIDE DEF E, F, L
  <1>6. Come < Len(Encoded)
    BY <1>3, <1>4, <1>5
  <1>7. QED  BY <1>1, <1>6, FormWaits

LEMMA AppendNext ==
    ASSUME NEW s \in Seq(Seq(AnyByte)), NEW n \in 0..Len(s) - 1
    PROVE  Append(SubSeq(s, 1, n), s[n + 1]) = SubSeq(s, 1, n + 1)
  <1>1. Len(s) \in Nat /\ n + 1 \in 1..Len(s) /\ n \in Nat
    OBVIOUS
  <1> DEFINE S == Seq(AnyByte)
             a == SubSeq(s, 1, n)  b == Append(a, s[n + 1])  c == SubSeq(s, 1, n + 1)
  <1>2. s[n + 1] \in S
    BY <1>1
  <1>3. a \in Seq(S) /\ Len(a) = n /\ \A i \in 1..n : a[i] = s[i]
    <2>1. \A i \in 1..n : s[i] \in S
      BY <1>1
    <2> HIDE DEF S
    <2>2. /\ a \in Seq(S) /\ Len(a) = IF 1 <= n THEN n - 1 + 1 ELSE 0
          /\ \A i \in 1..n - 1 + 1 : a[i] = s[1 + i - 1]
      BY <1>1, <2>1, SubSeqProperties
    <2> HIDE DEF a
    <2>3. QED  BY <1>1, <2>2
  <1>4. c \in Seq(S) /\ Len(c) = n + 1 /\ \A i \in 1..n + 1 : c[i] = s[i]
    <2> DEFINE m == n + 1
    <2>1. m \in Nat /\ 1 <= m /\ \A i \in 1..m : s[i] \in S
      BY <1>1
    <2> HIDE DEF S, m
    <2> DEFINE d == SubSeq(s, 1, m)
    <2>2. /\ d \in Seq(S) /\ Len(d) = IF 1 <= m THEN m - 1 + 1 ELSE 0
          /\ \A i \in 1..m - 1 + 1 : d[i] = s[1 + i - 1]
      BY <2>1, SubSeqProperties
    <2> HIDE DEF d
    <2>3. d \in Seq(S) /\ Len(d) = m /\ \A i \in 1..m : d[i] = s[i]
      BY <2>1, <2>2
    <2>4. QED  BY <2>3 DEF d, m
  <1> HIDE DEF a, S
  <1>5. /\ b \in Seq(S) /\ Len(b) = n + 1 /\ b[n + 1] = s[n + 1]
        /\ \A i \in 1..n : b[i] = a[i]
    BY <1>2, <1>3, AppendProperties
  <1> HIDE DEF b, c
  <1>6. \A i \in 1..n + 1 : b[i] = c[i]
    <2>1. TAKE i \in 1..n + 1
    <2>2. i \in 1..n \/ i = n + 1
      BY <1>1
    <2>3. QED  BY <1>3, <1>4, <1>5, <2>2
  <1>7. b = c
    BY <1>4, <1>5, <1>6, SeqEqual
  <1>8. QED  BY <1>7 DEF a, b, c

LEMMA EndOfPartInv ==
    ASSUME WellFormed, ParserInv, EndOfPart
    PROVE  ParserInv'
  <1>1. InForm /\ step = "headers" /\ Boundaries # {} /\ chunk_size' = chunk_size
    BY DEF EndOfPart, InStep
  <1>2. PICK n \in 0..Len(Current.parts) - 1 : AtData(n)
    BY <1>1, FormData
  <1> DEFINE s == Current.parts  N == Len(s)  p == s[n + 1]  L == Len(p)
             E == PartsEnd(Current, n)  F == PartsEnd(Current, n + 1)
  <1>3. /\ pc = "content" /\ Parsing /\ More /\ header_ended /\ Current.form = "multipart"
        /\ N \in Nat /\ p \in Seq(AnyByte) /\ L \in Nat /\ s \in Seq(Seq(AnyByte))
    BY <1>1, <1>2, AtForm
  <1>4. /\ Come = Used + Len(pending) /\ Len(pending) \in Nat /\ Len(Encoded) \in Nat
        /\ pending \in Seq(AnyByte) /\ Come =< Len(Encoded)
    BY <1>3, Placed
  <1>5. /\ form_parts = SubSeq(s, 1, n) /\ Used = E + 8 /\ DataPending(p)
        /\ Min(Boundaries) = L + 3 /\ (Ends(L + 3) <=> n + 1 = N)
        /\ Boundaries = {} <=> Len(pending) < L + 5
    BY <1>1, <1>2 DEF AtData
  <1>6. /\ E \in Nat /\ F = E + L + 10 /\ F + 3 =< Len(Encoded)
        /\ n + 1 = N => Len(Encoded) = F + 3
    BY <1>1, AtPart
  <1>7. n + 1 \in 1..N
    BY <1>3
  <1> HIDE DEF L, E, F
  <1>8. (L + 3) - 3 = L /\ (L + 3) + 2 = L + 5 /\ L + 5 =< Len(pending)
    <2>1. L \in Nat /\ Len(pending) \in Nat
      BY <1>3, <1>4
    <2>2. ~(Len(pending) < L + 5)
      BY <1>1, <1>5
    <2>3. QED  BY <2>1, <2>2
  <1>9. /\ form_parts' = Append(form_parts, SubSeq(pending, 1, (L + 3) - 3))
        /\ pending' = Erased((L + 3) + 2)
        /\ IF Ends(L + 3) THEN step' = "ended" /\ Finish(form_parts')
                          ELSE step' = "boundary" /\ Continue
    BY <1>5 DEF EndOfPart
  <1>10. SubSeq(pending, 1, L) = p
    <2> DEFINE d == SubSeq(pending, 1, L)
    <2>1. \A i \in 1..L : pending[i] = p[i] /\ pending[i] \in AnyByte
      <3>1. TAKE i \in 1..L
      <3>2. i =< Len(pending) /\ i \in 1..Len(pending)
        BY <1>3, <1>4, <1>8
      <3>3. i \in 1..Len(p)
        BY DEF L
      <3>4. i =< Len(pending) => pending[i] = p[i]
        BY <1>5, <3>3, DataIs
      <3>5. QED  BY <1>4, <3>2, <3>4
    <2>2. /\ d \in Seq(AnyByte) /\ Len(d) = IF 1 <= L THEN L - 1 + 1 ELSE 0
          /\ \A i \in 1..L - 1 + 1 : d[i] = pending[1 + i - 1]
      BY <1>3, <2>1, SubSeqProperties
    <2> HIDE DEF d
    <2>3. Len(d) = L /\ \A i \in 1..L : d[i] = pending[i]
      BY <1>3, <2>2
    <2>4. \A i \in 1..Len(d) : d[i] = p[i]
      BY <2>1, <2>3
    <2> HIDE DEF p
    <2>5. d = p
      <3>1. Len(d) = Len(p)
        BY <2>3 DEF L
      <3>2. QED  BY <1>3, <2>2, <2>4, <3>1, SeqEqual
    <2>6. QED  BY <2>5 DEF d
  <1>11. form_parts' = SubSeq(s, 1, n + 1)
    <2>1. form_parts' = Append(SubSeq(s, 1, n), p)
      BY <1>5, <1>8, <1>9, <1>10
    <2>2. Append(SubSeq(s, 1, n), p) = SubSeq(s, 1, n + 1)
      <3>1. n \in 0..Len(s) - 1
        OBVIOUS
      <3> HIDE DEF s
      <3>2. QED  BY <1>3, <3>1, AppendNext
    <2>3. QED  BY <2>1, <2>2
  <1>12. CASE n + 1 = N
    <2>1. step' = "ended" /\ Finish(form_parts')
      BY <1>5, <1>9, <1>12
    <2>2. form_parts' = s
      <3>1. SubSeq(s, 1, N) = s
        BY <1>3, SubSeqFull
      <3>2. QED  BY <1>11, <1>12, <3>1
    <2>3. Meant(Current) = s
      BY <1>3 DEF Meant
    <2>4. Finish(Meant(Current))
      BY <2>1, <2>2, <2>3
    <2>5. Come = Len(Encoded)
      <3> DEFINE e == Len(Encoded)  d == Len(pending)
      <3>1. /\ Come = Used + d /\ d \in Nat /\ e \in Nat /\ Come =< e /\ Used = E + 8
            /\ E \in Nat /\ L \in Nat /\ F = E + L + 10 /\ e = F + 3 /\ L + 5 =< d
        BY <1>3, <1>4, <1>5, <1>6, <1>8, <1>12
      <3> HIDE DEF e, d
      <3>2. Come = e
        BY <3>1
      <3>3. QED  BY <3>2 DEF e
    <2>6. Fields'
      BY <1>1, <2>1 DEF Fields, ParserInv, FieldsInv, head, Finish
    <2>7. Current.form # "unknown"
      BY <1>3
    <2>8. QED  BY <1>3, <2>4, <2>5, <2>6, <2>7, HandsOn
  <1>13. CASE n + 1 # N
    <2>1. /\ step' = "boundary" /\ UNCHANGED <<requests, pos, parsed, head>> /\ pc' = pc
          /\ requests' = requests /\ pos' = pos /\ parsed' = parsed
      BY <1>5, <1>9, <1>13 DEF Continue
    <2>2. InPlace' /\ Used' = Used + (L + 5)
      <3> DEFINE k == L + 5
      <3>1. k \in 0..Len(pending)
        BY <1>3, <1>4, <1>8
      <3>2. pending' = Erased(k)
        BY <1>8, <1>9
      <3> HIDE DEF k
      <3>3. InPlace' /\ Used' = Used + k
        BY <1>3, <2>1, <3>1, <3>2, Erase
      <3>4. QED  BY <3>3 DEF k
    <2>3. Current' = Current
      BY <2>1, SameRequest
    <2>4. Used' = F + 3
      BY <1>3, <1>5, <1>6, <2>2
    <2>5. InPart(n + 1)'
      BY <1>11, <2>1, <2>3, <2>4 DEF InPart, F
    <2>6. n + 1 \in 0..N - 1
      BY <1>3, <1>7, <1>13
    <2>7. (\E m \in 0..Len(Current.parts) - 1 : InPart(m))'
      BY <2>3, <2>5, <2>6
    <2>8. pc' = "content"
      BY <1>3, <2>1
    <2>9. QED  BY <1>1, <2>1, <2>2, <2>7, <2>8, FormGoesOn
  <1>14. QED  BY <1>12, <1>13

---------------------------------------------------------------------------
(* The other steps                                                         *)

\* Only a request that nothing matches is rejected.
LEMMA RejectInv ==
    ASSUME WellFormed, ParserInv, Reject
    PROVE  ParserInv'
  <1>1. pc' = "bad" /\ UNCHANGED <<requests, pos, parsed, pending, head, body>>
    BY DEF Reject
  <1>2. ~(InChunks /\ ~Sized /\ (NextLine = <<>> \/ NextLine[1][1] # "size"))
    <2>1. SUFFICES ASSUME InChunks, ~Sized, NextLine = <<>> \/ NextLine[1][1] # "size" PROVE FALSE
      OBVIOUS
    <2> DEFINE N == Len(Current.parts)
    <2>2. chunk_size = kInvalidLength /\ HasLine
      BY <2>1 DEF Sized
    <2>3. /\ ChunkedBody /\ Parsing /\ More /\ N \in Nat
          /\ \A n \in 0..N - 1 : /\ Len(Current.parts[n + 1]) \in Nat
                                 /\ Len(Current.parts[n + 1]) < kInvalidLength - 2
      BY <2>1, AtChunks
    <2>4. kInvalidLength \in Nat /\ Len(Encoded) \in Nat /\ Len(Encoded) < kInvalidLength - 2
      BY <2>3, Placed
    <2>5. PICK n \in 0..N : AtSize(n)
      <3>1. ~AtLast
        BY <2>2, <2>4 DEF AtLast
      <3>2. ASSUME NEW n \in 0..N - 1, InChunk(n) PROVE FALSE
        <4> DEFINE L == Len(Current.parts[n + 1])
        <4>1. chunk_size \in 1..L /\ L \in Nat /\ L < kInvalidLength - 2
          BY <2>3, <3>2 DEF InChunk
        <4> HIDE DEF L
        <4>2. QED  BY <2>2, <2>4, <4>1
      <3>3. QED  BY <2>3, <3>1, <3>2 DEF ChunkedBody
    <2> DEFINE x == IF n < N THEN Len(Current.parts[n + 1]) ELSE 0
    <2>6. x \in Nat /\ NextLine = <<Size(x)>>
      BY <2>1, <2>2, <2>5, AtSizeIs
    <2> HIDE DEF x
    <2>7. Size(x)[1] = "size" /\ NextLine # <<>> /\ NextLine[1] = Size(x)
      BY <2>6, BytesSay
    <2>8. QED  BY <2>1, <2>7
  <1>3. ~(pc = "content" /\ ~chunked /\ multipart /\ content_length = kInvalidLength)
    BY InContent
  <1>4. ~(InStep("start") /\ HasLine /\ ~IsBoundary(NextLine))
    <2>1. SUFFICES ASSUME InForm, step = "start", HasLine, ~IsBoundary(NextLine) PROVE FALSE
      BY DEF InStep
    <2>2. AtFirst \/ (\E n \in 0..Len(Current.parts) - 1 : AtDisposition(n) \/ AtBlank(n))
      BY <2>1, FormLines
    <2>3. NextLine = <<Boundary>>
      BY <2>1, <2>2 DEF AtFirst, AtDisposition, AtBlank
    <2>4. QED  BY <2>1, <2>3 DEF IsBoundary
  <1>5. ~(InStep("boundary") /\ HasLine /\ NextLine \notin {<<>>, <<Disposition>>})
    <2>1. SUFFICES ASSUME InForm, step = "boundary", HasLine, NextLine \notin {<<>>, <<Disposition>>}
                   PROVE  FALSE
      BY DEF InStep
    <2>2. AtFirst \/ (\E n \in 0..Len(Current.parts) - 1 : AtDisposition(n) \/ AtBlank(n))
      BY <2>1, FormLines
    <2>3. QED  BY <2>1, <2>2 DEF AtFirst, FirstLine, AtDisposition, AtBlank
  <1>6. ~(InStep("headers") /\ Boundaries # {} /\ Min(Boundaries) - 1 <= 2)
    <2>1. SUFFICES ASSUME InForm, step = "headers", Boundaries # {}, Min(Boundaries) - 1 <= 2
                   PROVE  FALSE
      BY DEF InStep
    <2>2. PICK n \in 0..Len(Current.parts) - 1 : AtData(n)
      BY <2>1, FormData
    <2> DEFINE L == Len(Current.parts[n + 1])
    <2>3. Min(Boundaries) = L + 3 /\ L \in Nat /\ L # 0
      BY <2>1, <2>2, AtForm DEF AtData
    <2> HIDE DEF L
    <2>4. QED  BY <2>1, <2>3
  <1>7. pc = "headers" /\ HasLine /\ NextLine = <<>> /\ start_line # Start
    BY <1>2, <1>3, <1>4, <1>5, <1>6 DEF Reject
  <1>8. /\ Parsing /\ More /\ \E h \in 0..Lines(Current) : AtLine(h)
    BY <1>7, InHeaders
  <1>9. Current.form = "unknown"
    <2>1. PICK h \in 0..Lines(Current) : AtLine(h)
      BY <1>8
    <2>2. /\ Valid(Current) /\ InPlace
      BY <1>8, Placed
    <2>3. /\ Lines(Current) \in 1..3 /\ h \in Nat /\ (h < Lines(Current) \/ h = Lines(Current))
          /\ h < Lines(Current) => HeaderLine(Current, h) # CR
      BY <1>7, <2>1, NextHeader
    <2>4. \A i \in 0..Lines(Current) - 1 : LineAt(Encoded, 3 * i, HeaderLine(Current, i))
      BY <2>2, HeadersAre DEF Encoded
    <2>5. h = Lines(Current)
      <3>1. SUFFICES ASSUME h < Lines(Current) PROVE FALSE
        BY <2>3
      <3>2. h \in 0..Lines(Current) - 1 /\ Used = 3 * h
        BY <2>1, <2>3, <3>1 DEF AtLine
      <3>3. LineAt(Encoded, Used, HeaderLine(Current, h))
        BY <2>4, <3>2
      <3>4. NextLine = <<HeaderLine(Current, h)>>
        BY <1>7, <2>2, <2>3, <3>1, <3>3, LineInPlace
      <3>5. QED  BY <1>7, <3>4
    <2>6. start_line = Encoded[1]
      BY <2>1, <2>3, <2>5 DEF AtLine
    <2>7. Encoded[1] = HeaderLine(Current, 0)
      <3>1. 0 \in 0..Lines(Current) - 1 /\ 3 * 0 = 0 /\ 0 + 1 = 1
        BY <2>3
      <3>2. LineAt(Encoded, 0, HeaderLine(Current, 0))
        BY <2>4, <3>1, Zenon
      <3>3. QED  BY <3>1, <3>2, Zenon DEF LineAt
    <2>8. QED  BY <1>7, <2>6, <2>7 DEF HeaderLine
  <1>10. /\ requests' = requests /\ parsed' = parsed
    BY <1>1
  <1>11. Current' = Current /\ More' = More /\ ParsedInv' = ParsedInv
    BY <1>10, SameRequest
  <1>12. EndInv'
    <2>1. Come' = Come /\ Encoded' = Encoded
      BY <1>1, <1>11 DEF Come, Before, Encoded
    <2>2. Come =< Len(Encoded)
      BY <1>8, Placed
    <2>3. QED  BY <1>1, <1>8, <1>9, <1>11, <2>1, <2>2 DEF EndInv, Parsing
  <1>13. PlaceInv'
    BY <1>1 DEF PlaceInv, Parsing
  <1>14. FormInv'
    BY <1>1 DEF FormInv
  <1>15. FieldsInv'
    BY <1>1 DEF FieldsInv, ParserInv, head, body
  <1>16. QED  BY <1>11, <1>12, <1>13, <1>14, <1>15 DEF ParserInv

\* A read only adds bytes, and ends where Cuts allows it to.
LEMMA ReadInv ==
    ASSUME WellFormed, ParserInv, SplitSizes = FALSE, NEW n \in 1..Len(Sent), Read(n)
    PROVE  ParserInv'
  <1>1. /\ pc = "reading" /\ pos + n <= Len(Sent) /\ ~InSizes(pos + n) /\ pos' = pos + n
        /\ pending' = pending \o SubSeq(Sent, pos + 1, pos + n)
        /\ pc' = IF header_ended THEN "content" ELSE "headers"
        /\ UNCHANGED <<requests, parsed, head, body>>
        /\ requests' = requests /\ parsed' = parsed
    BY DEF Read
  <1>2. /\ Len(parsed) \in Nat /\ Len(parsed) =< Len(requests) /\ pos \in Nat
        /\ Len(requests) \in Nat /\ Parsing
    BY <1>1, RequestsAre DEF ParserInv, ParsedInv, FieldsInv, Parsing
  <1>3. More
    <2>1. SUFFICES ASSUME ~More PROVE FALSE
      OBVIOUS
    <2>2. Len(parsed) = Len(requests)
      BY <1>2, <2>1 DEF More
    <2>3. Len(Sent) = Before /\ Before \in Nat
      BY <2>2, SentAll
    <2>4. pos = Before
      BY <1>2, <2>1 DEF ParserInv, EndInv
    <2>5. n \in Nat /\ n > 0
      OBVIOUS
    <2>6. QED  BY <1>1, <1>2, <2>3, <2>4, <2>5
  <1>4. /\ InPlace /\ Valid(Current) /\ Before \in Nat /\ Len(Encoded) \in Nat
        /\ Come \in Nat /\ Used \in Nat /\ Come = Used + Len(pending) /\ pos = Before + Come
        /\ pending \in Seq(AnyByte) /\ Len(pending) \in Nat /\ Encoded \in Seq(AnyByte)
    BY <1>2, <1>3, Placed
  <1>5. /\ Len(Sent) = Before + Len(Encoded) /\ n \in Nat /\ n > 0
        /\ \A i \in 1..Len(Encoded) : Sent[Before + i] = Encoded[i]
    BY <1>2, <1>3, SentMore
  <1>6. /\ Current' = Current /\ Encoded' = Encoded /\ Before' = Before /\ More' = More
        /\ ParsedInv' = ParsedInv
    BY <1>1, SameRequest
  <1>7. Come' = Come + n /\ Come + n =< Len(Encoded)
    <2>1. Come' = pos' - Before
      BY <1>6 DEF Come
    <2>2. QED  BY <1>1, <1>4, <1>5, <2>1
  <1> DEFINE more == SubSeq(Sent, pos + 1, pos + n)
  <1>8. /\ more \in Seq(AnyByte) /\ Len(more) = n
        /\ \A i \in 1..n : more[i] = Encoded[Come + i]
    <2> DEFINE a == pos + 1  b == pos + n
    <2>1. a \in Nat /\ b \in Nat /\ a <= b /\ b - a + 1 = n /\ a \in Int /\ b \in Int
      BY <1>2, <1>5
    <2>2. \A i \in a..b : Sent[i] = Encoded[i - Before] /\ i - Before \in 1..Len(Encoded)
      <3>1. TAKE i \in a..b
      <3>2. i - Before \in 1..Len(Encoded) /\ Before + (i - Before) = i
        BY <1>4, <1>7
      <3>3. QED  BY <1>5, <3>2
    <2>3. \A i \in a..b : Sent[i] \in AnyByte
      BY <1>4, <2>2
    <2>4. \A i \in 1..n : a + i - 1 \in a..b /\ (a + i - 1) - Before = Come + i
      BY <1>4, <1>5
    <2> HIDE DEF a, b
    <2> DEFINE d == SubSeq(Sent, a, b)
    <2>5. /\ d \in Seq(AnyByte) /\ Len(d) = IF a <= b THEN b - a + 1 ELSE 0
          /\ \A i \in 1..b - a + 1 : d[i] = Sent[a + i - 1]
      BY <2>1, <2>3, SubSeqProperties
    <2> HIDE DEF d
    <2>6. \A i \in 1..n : d[i] = Encoded[Come + i]
      <3>1. TAKE i \in 1..n
      <3>2. d[i] = Sent[a + i - 1]
        BY <2>1, <2>5
      <3>3. QED  BY <2>2, <2>4, <3>2
    <2>7. QED  BY <2>1, <2>5, <2>6 DEF d, a, b
  <1> HIDE DEF more
  <1>9. /\ pending' \in Seq(AnyByte) /\ Len(pending') = Len(pending) + n
        /\ \A i \in 1..Len(pending) + n :
              pending'[i] = IF i =< Len(pending) THEN pending[i] ELSE more[i - Len(pending)]
    <2>1. pending' = pending \o more /\ Len(more) = n
      BY <1>1, <1>8 DEF more
    <2>2. pending \in Seq(AnyByte) /\ more \in Seq(AnyByte)
      BY <1>4, <1>8
    <2>3. /\ pending \o more \in Seq(AnyByte) /\ Len(pending \o more) = Len(pending) + Len(more)
          /\ \A i \in 1..Len(pending) + Len(more) :
                (pending \o more)[i] = IF i =< Len(pending) THEN pending[i] ELSE more[i - Len(pending)]
      BY <2>2, ConcatProperties
    <2>4. QED  BY <2>1, <2>3, Zenon
  <1>10. Used' = Used
    BY <1>4, <1>5, <1>7, <1>9 DEF Used
  <1>11. InPlace'
    <2>1. ASSUME NEW i \in 1..Len(pending') PROVE pending'[i] = Encoded[Used + i]
      <3>1. CASE i =< Len(pending)
        <4>1. i \in 1..Len(pending) /\ i \in 1..Len(pending) + n
          BY <1>4, <1>5, <3>1
        <4>2. pending'[i] = pending[i]
          BY <1>9, <3>1, <4>1
        <4>3. pending[i] = Encoded[Used + i]
          BY <1>4, <4>1 DEF InPlace
        <4>4. QED  BY <4>2, <4>3
      <3>2. CASE i > Len(pending)
        <4> DEFINE j == i - Len(pending)
        <4>1. j \in 1..n /\ Come + j = Used + i /\ ~(i =< Len(pending)) /\ i \in 1..Len(pending) + n
          BY <1>4, <1>5, <1>9, <3>2
        <4>2. pending'[i] = more[j]
          BY <1>9, <4>1
        <4> HIDE DEF j
        <4>3. QED  BY <1>8, <4>1, <4>2
      <3>3. i =< Len(pending) \/ i > Len(pending)
        BY <1>4
      <3>4. QED  BY <3>1, <3>2, <3>3
    <2>2. QED  BY <1>4, <1>6, <1>7, <1>9, <1>10, <2>1 DEF InPlace
  <1>12. ~Cuts(Encoded, Come + n)
    <2>1. \A k \in 0..3 : Come + n > k =>
             /\ pos + n > k
             /\ Sent[(pos + n) - k] = Encoded[(Come + n) - k]
      <3>1. TAKE k \in 0..3
      <3>2. HAVE Come + n > k
      <3>3. /\ pos + n > k /\ (Come + n) - k \in 1..Len(Encoded)
            /\ Before + ((Come + n) - k) = (pos + n) - k
        BY <1>4, <1>5, <1>7, <3>2
      <3>4. QED  BY <1>5, <3>3
    <2>2. 0..1 \subseteq 0..3 /\ 2..3 \subseteq 0..3
      OBVIOUS
    <2>3. ASSUME NEW k \in 0..1, Come + n > k, Encoded[(Come + n) - k][1] = "size" PROVE FALSE
      <3>1. pos + n > k /\ Sent[(pos + n) - k] = Encoded[(Come + n) - k]
        BY <2>1, <2>2, <2>3
      <3>2. InSizes(pos + n)
        BY <2>3, <3>1, Zenon DEF InSizes
      <3>3. QED  BY <1>1, <3>2
    <2>4. ASSUME NEW k \in 2..3, Come + n > k, Encoded[(Come + n) - k] = Size(0) PROVE FALSE
      <3>1. pos + n > k /\ Sent[(pos + n) - k] = Encoded[(Come + n) - k]
        BY <2>1, <2>2, <2>4
      <3>2. InSizes(pos + n)
        BY <2>4, <3>1, Zenon DEF InSizes
      <3>3. QED  BY <1>1, <3>2
    <2>5. QED  BY <2>3, <2>4, Zenon DEF Cuts
  <1>13. /\ header_ended' = header_ended /\ chunked' = chunked /\ multipart' = multipart
         /\ start_line' = start_line /\ content_length' = content_length
         /\ chunk_size' = chunk_size /\ content' = content
         /\ step' = step /\ form_parts' = form_parts
    BY <1>1 DEF head, body
  <1>14. (HeaderPhase \/ (HeadersParsed /\ Body))'
    <2>1. CASE HeaderPhase
      <3>1. ~header_ended /\ pc' = "headers"
        BY <1>1, <2>1 DEF HeaderPhase
      <3>2. PICK h \in 0..Lines(Current) : AtLine(h)
        BY <2>1 DEF HeaderPhase
      <3>3. DataLength(Current)' = DataLength(Current) /\ Lines(Current)' = Lines(Current)
        BY <1>6 DEF DataLength, Lines
      <3>4. AtLine(h)'
        BY <1>6, <1>10, <1>13, <3>2, <3>3 DEF AtLine
      <3>5. QED  BY <1>13, <2>1, <3>1, <3>3, <3>4 DEF HeaderPhase
    <2>2. CASE HeadersParsed /\ Body
      <3>1. header_ended /\ pc' = "content"
        BY <1>1, <2>2 DEF HeadersParsed
      <3>2. DataLength(Current)' = DataLength(Current)
        BY <1>6 DEF DataLength
      <3>3. HeadersParsed'
        BY <1>6, <1>13, <2>2, <3>1, <3>2 DEF HeadersParsed
      <3>4. ~NoBody
        BY <1>1 DEF NoBody
      <3>5. FixedBody => FixedBody'
        BY <1>6, <1>10, <1>13 DEF FixedBody
      <3>6. /\ \A m : AtSize(m) => AtSize(m)'
            /\ \A m : InChunk(m) => InChunk(m)'
            /\ AtLast => AtLast'
            /\ FirstLine => FirstLine'
            /\ \A m : InPart(m) => InPart(m)'
        BY <1>6, <1>10, <1>13 DEF AtSize, InChunk, AtLast, FirstLine, InPart
      <3>7. ChunkedBody => ChunkedBody'
        BY <1>6, <3>6 DEF ChunkedBody
      <3>8. FormBody => FormBody'
        BY <1>6, <1>13, <3>6 DEF FormBody
      <3>9. QED  BY <2>2, <3>3, <3>4, <3>5, <3>7, <3>8 DEF Body
    <2>3. QED  BY <1>2, <1>3, <2>1, <2>2 DEF ParserInv, PlaceInv
  <1>15. pc' # "reading" /\ Parsing'
    BY <1>1 DEF Parsing
  <1>16. PlaceInv'
    BY <1>6, <1>7, <1>11, <1>12, <1>14, <1>15 DEF PlaceInv
  <1>17. EndInv'
    BY <1>1, <1>3, <1>6 DEF EndInv
  <1>18. FormInv'
    BY <1>1, <1>2, <1>3, <1>13, <1>15, FormKept
  <1>19. FieldsInv'
    <2>1. pos' \in Nat
      BY <1>1, <1>2, <1>5
    <2>2. QED  BY <1>1, <1>13, <2>1 DEF FieldsInv, ParserInv
  <1>20. QED  BY <1>6, <1>16, <1>17, <1>18, <1>19 DEF ParserInv

\* A new request is about to come, or there is none left.
Fresh ==
    /\ pos = Before /\ pc = "reading" /\ pending = <<>> /\ start_line = NotParsed
    /\ ~header_ended /\ ~chunked /\ ~multipart
    /\ content_length = kInvalidLength /\ chunk_size = kInvalidLength /\ content = <<>>

LEMMA StartsOver == WellFormed /\ FieldsInv /\ ParsedInv /\ Fresh => PlaceInv /\ EndInv
  <1> SUFFICES ASSUME WellFormed, FieldsInv, ParsedInv, Fresh PROVE PlaceInv /\ EndInv
    OBVIOUS
  <1>1. Len(parsed) \in Nat /\ pc = "reading"
    BY DEF ParsedInv, Fresh
  <1>2. EndInv
    BY <1>1 DEF EndInv, Fresh
  <1>3. ASSUME More PROVE InPlace /\ Come < Len(Encoded) /\ HeaderPhase
    <2>1. Valid(Current) /\ Before \in Nat
      BY <1>1, <1>3, SentMore
    <2>2. /\ Lines(Current) \in 1..3 /\ DataLength(Current) \in Nat /\ Len(Encoded) \in Nat
          /\ Len(Encoded) = 3 * Lines(Current) + 2 + DataLength(Current)
      BY <2>1, HeadersAre DEF Encoded
    <2>3. Come = 0
      BY <2>1 DEF Come, Fresh
    <2>4. Len(pending) = 0 /\ pending \in Seq(AnyByte)
      BY DEF Fresh
    <2>5. Used = 0
      BY <2>3, <2>4 DEF Used
    <2>6. Come < Len(Encoded)
      BY <2>2, <2>3
    <2>7. InPlace
      BY <2>2, <2>3, <2>4, <2>5 DEF InPlace
    <2>8. AtLine(0)
      BY <2>5 DEF AtLine, Fresh
    <2>9. 0 \in 0..Lines(Current)
      BY <2>2
    <2>10. QED  BY <2>6, <2>7, <2>8, <2>9 DEF HeaderPhase, Fresh
  <1>4. QED  BY <1>1, <1>2, <1>3 DEF PlaceInv

LEMMA InitInv ==
    ASSUME WellFormed, Init
    PROVE  ParserInv
  <1>1. /\ requests \in Streams /\ pos = 0 /\ pc = "reading" /\ parsed = <<>> /\ Len(parsed) = 0
        /\ pending = <<>> /\ start_line = NotParsed /\ header_ended = FALSE
        /\ chunked = FALSE /\ multipart = FALSE /\ content_length = kInvalidLength
        /\ chunk_size = kInvalidLength /\ content = <<>>
        /\ step = "start" /\ form_parts = <<>>
    BY DEF Init
  <1>2. kInvalidLength \in Nat
    <2> DEFINE M == 2^SizeBits
    <2>1. M \in Nat \ {0} /\ kInvalidLength = M - 1
      BY SizesFit DEF kInvalidLength
    <2> HIDE DEF M
    <2>2. QED  BY <2>1
  <1>3. FieldsInv
    <2>1. header_ended \in BOOLEAN /\ chunked \in BOOLEAN /\ multipart \in BOOLEAN
      BY <1>1, Zenon
    <2>2. content_length \in 0..kInvalidLength /\ chunk_size \in 0..kInvalidLength
      BY <1>1, <1>2
    <2>3. /\ pc \in {"reading", "headers", "content", "finished", "bad", "terminated"}
          /\ step \in {"start", "boundary", "headers", "ended"} /\ pos \in Nat
      BY <1>1
    <2>4. QED  BY <1>1, <2>1, <2>2, <2>3 DEF FieldsInv
  <1>4. ParsedInv
    <2>1. 0 =< Len(requests)
      BY RequestsAre
    <2>2. <<>> \in Seq(Seq(Seq(AnyByte)))
      OBVIOUS
    <2>3. QED  BY <1>1, <2>1, <2>2 DEF ParsedInv
  <1>5. Before = 0
    <2>1. Bytes(requests, 0) = <<>>
      <3>1. [i \in 1..0 |-> Encode(requests[i])] = <<>>
        OBVIOUS
      <3>2. QED  BY <3>1 DEF Bytes, FlattenSeq
    <2>2. QED  BY <1>1, <2>1 DEF Before
  <1>6. Fresh
    BY <1>1, <1>5 DEF Fresh
  <1>7. FormInv
    BY <1>1 DEF FormInv
  <1>8. QED  BY <1>3, <1>4, <1>6, <1>7, StartsOver DEF ParserInv

LEMMA NextRequestInv ==
    ASSUME WellFormed, ParserInv, NextRequest
    PROVE  ParserInv'
  <1>1. /\ pc = "finished" /\ requests' = requests /\ parsed' = parsed /\ pos' = pos
        /\ pending' = <<>> /\ start_line' = NotParsed /\ header_ended' = FALSE
        /\ chunked' = FALSE /\ multipart' = FALSE /\ content_length' = kInvalidLength
        /\ chunk_size' = kInvalidLength /\ content' = <<>> /\ pc' = "reading"
        /\ step' = step /\ form_parts' = form_parts
    BY DEF NextRequest
  <1>2. /\ Before' = Before /\ WellFormed' = WellFormed /\ ParsedInv' = ParsedInv
    BY <1>1, SameRequest
  <1>3. kInvalidLength \in Nat
    <2> DEFINE M == 2^SizeBits
    <2>1. M \in Nat \ {0} /\ kInvalidLength = M - 1
      BY SizesFit DEF kInvalidLength
    <2> HIDE DEF M
    <2>2. QED  BY <2>1
  <1>4. FieldsInv'
    <2>1. header_ended' \in BOOLEAN /\ chunked' \in BOOLEAN /\ multipart' \in BOOLEAN
      BY <1>1, Zenon
    <2>2. content_length' \in 0..kInvalidLength /\ chunk_size' \in 0..kInvalidLength
      BY <1>1, <1>3
    <2>3. /\ pc' \in {"reading", "headers", "content", "finished", "bad", "terminated"}
          /\ step' \in {"start", "boundary", "headers", "ended"} /\ pos' \in Nat
          /\ requests' \in Streams
      BY <1>1 DEF FieldsInv, ParserInv
    <2>4. QED  BY <2>1, <2>2, <2>3 DEF FieldsInv
  <1>5. ParsedInv' /\ WellFormed'
    BY <1>2 DEF ParserInv
  <1>6. Fresh'
    <2>1. pos = Before
      BY <1>1 DEF ParserInv, EndInv
    <2>2. QED  BY <1>1, <1>2, <2>1 DEF Fresh
  <1>7. FormInv'
    <2>1. ~Parsing /\ pc # "bad"
      BY <1>1 DEF Parsing
    <2>2. (\E i \in 1..Len(parsed) : requests[i].form = "multipart") \/ (step = "start" /\ form_parts = <<>>)
      BY <2>1 DEF ParserInv, FormInv
    <2>3. QED  BY <1>1, <2>2 DEF FormInv
  <1>8. (WellFormed /\ FieldsInv /\ ParsedInv /\ Fresh => PlaceInv /\ EndInv)'
    BY StartsOver, PTL
  <1>9. QED  BY <1>4, <1>5, <1>6, <1>7, <1>8 DEF ParserInv

LEMMA StutterInv ==
    ASSUME WellFormed, ParserInv, UNCHANGED vars
    PROVE  ParserInv'
  <1>1. /\ requests' = requests /\ pos' = pos /\ pc' = pc /\ parsed' = parsed
        /\ pending' = pending /\ start_line' = start_line /\ header_ended' = header_ended
        /\ chunked' = chunked /\ multipart' = multipart /\ content_length' = content_length
        /\ chunk_size' = chunk_size /\ content' = content
        /\ step' = step /\ form_parts' = form_parts
    BY DEF vars, head, body
  <1>2. /\ Current' = Current /\ Encoded' = Encoded /\ Before' = Before /\ More' = More
        /\ ParsedInv' = ParsedInv
    BY <1>1, SameRequest
  <1>3. Come' = Come /\ Used' = Used /\ Parsing' = Parsing
    BY <1>1, <1>2 DEF Come, Used, Parsing
  <1>4. DataLength(Current)' = DataLength(Current) /\ Lines(Current)' = Lines(Current)
    BY <1>2 DEF DataLength, Lines
  <1>5. InPlace => InPlace'
    BY <1>1, <1>2, <1>3 DEF InPlace
  <1>6. HeaderPhase => HeaderPhase'
    <2>1. ASSUME NEW h, AtLine(h) PROVE AtLine(h)'
      BY <1>1, <1>2, <1>3, <1>4, <2>1 DEF AtLine
    <2>2. QED  BY <1>1, <1>4, <2>1 DEF HeaderPhase
  <1>7. HeadersParsed => HeadersParsed'
    BY <1>1, <1>2, <1>4 DEF HeadersParsed
  <1>8. Body => Body'
    <2>1. NoBody => NoBody'
      BY <1>1, <1>2, <1>3 DEF NoBody
    <2>2. FixedBody => FixedBody'
      BY <1>1, <1>2, <1>3 DEF FixedBody
    <2>3. /\ \A m : AtSize(m) => AtSize(m)'
          /\ \A m : InChunk(m) => InChunk(m)'
          /\ AtLast => AtLast'
          /\ FirstLine => FirstLine'
          /\ \A m : InPart(m) => InPart(m)'
      BY <1>1, <1>2, <1>3 DEF AtSize, InChunk, AtLast, FirstLine, InPart
    <2>4. ChunkedBody => ChunkedBody'
      BY <1>2, <2>3 DEF ChunkedBody
    <2>5. FormBody => FormBody'
      BY <1>1, <1>2, <2>3 DEF FormBody
    <2>6. QED  BY <2>1, <2>2, <2>4, <2>5 DEF Body
  <1>9. PlaceInv'
    BY <1>1, <1>2, <1>3, <1>5, <1>6, <1>7, <1>8 DEF ParserInv, PlaceInv
  <1>10. EndInv'
    BY <1>1, <1>2, <1>3 DEF ParserInv, EndInv
  <1>11. FormInv'
    BY <1>1, <1>2, <1>3 DEF ParserInv, FormInv
  <1>12. FieldsInv'
    BY <1>1 DEF ParserInv, FieldsInv
  <1>13. QED  BY <1>2, <1>9, <1>10, <1>11, <1>12 DEF ParserInv

LEMMA StepInv ==
    ASSUME SplitSizes = FALSE, WellFormed, ParserInv, [Next]_vars
    PROVE  ParserInv'
  <1>1. CASE \E n \in 1..Len(Sent) : Read(n)
    BY <1>1, ReadInv
  <1>2. CASE NextRequest
    BY <1>2, NextRequestInv
  <1>3. CASE NeedHeader \/ ParseHeaderLine \/ OnHeadersEnd
    BY <1>3, NeedHeaderInv, ParseHeaderLineInv, OnHeadersEndInv
  <1>4. CASE NoContent \/ FixedContent
    BY <1>4, NoContentInv, FixedContentInv
  <1>5. CASE ParseChunkSize \/ LastChunk \/ WholeChunk \/ PartOfChunk
    BY <1>5, ParseChunkSizeInv, LastChunkInv, WholeChunkInv, PartOfChunkInv
  <1>6. CASE FormDataUsed \/ NeedLine \/ FirstBoundary \/ ParsePartHeader
    BY <1>6, FormDataUsedInv, NeedLineInv, FirstBoundaryInv, ParsePartHeaderInv
  <1>7. CASE NoBoundary \/ EndOfPart \/ Reject
    BY <1>7, NoBoundaryInv, EndOfPartInv, RejectInv
  <1>8. CASE UNCHANGED vars
    BY <1>8, StutterInv
  <1>9. QED
    BY <1>1, <1>2, <1>3, <1>4, <1>5, <1>6, <1>7, <1>8 DEF Next, ParseStep

\* What the peer sends never changes.
LEMMA WellFormedStays ==
    ASSUME [Next]_vars
    PROVE  WellFormed' = WellFormed
  <1>1. requests' = requests
    BY DEF Next, vars, Read, NextRequest, ParseStep, NeedHeader, ParseHeaderLine, OnHeadersEnd,
           NoContent, FixedContent, ParseChunkSize, LastChunk, WholeChunk, PartOfChunk,
           FormDataUsed, NeedLine, FirstBoundary, ParsePartHeader, NoBoundary, EndOfPart,
           Reject, Wait, Finish, Continue
  <1>2. QED  BY <1>1 DEF WellFormed

---------------------------------------------------------------------------
(* Theorems                                                                *)

\* The inductive invariant: the parser's fields say how far it is in the
\* request on its way, and what it handed on are the requests before it.
THEOREM ParserInvariant ==
    ASSUME SplitSizes = FALSE
    PROVE  Spec => [](WellFormed => ParserInv)
  <1>1. Init => (WellFormed => ParserInv)
    BY InitInv
  <1>2. (WellFormed => ParserInv) /\ [Next]_vars => (WellFormed => ParserInv)'
    <2> SUFFICES ASSUME WellFormed => ParserInv, [Next]_vars, WellFormed' PROVE ParserInv'
      OBVIOUS
    <2>1. WellFormed
      BY WellFormedStays
    <2>2. QED  BY <2>1, StepInv
  <1>3. QED  BY <1>1, <1>2, PTL DEF Spec

\* Every field keeps its type and no more is read than was sent: TypeOK holds
\* for any number of well-formed requests of any length.
THEOREM TypeCorrect ==
    ASSUME SplitSizes = FALSE
    PROVE  Spec => [](WellFormed => TypeOK)
  <1>1. ASSUME WellFormed, ParserInv PROVE TypeOK
    <2>1. /\ pc \in {"reading", "headers", "content", "finished", "bad", "terminated"}
          /\ header_ended \in BOOLEAN /\ chunked \in BOOLEAN /\ multipart \in BOOLEAN
          /\ content_length \in 0..kInvalidLength /\ chunk_size \in 0..kInvalidLength
          /\ step \in {"start", "boundary", "headers", "ended"}
          /\ pos \in Nat /\ requests \in Streams
      BY <1>1 DEF ParserInv, FieldsInv
    <2>2. Len(parsed) \in Nat /\ Len(parsed) =< Len(requests) /\ Len(requests) \in Nat
      BY <1>1, RequestsAre DEF ParserInv, ParsedInv
    <2>3. pos =< Len(Sent) /\ Len(Sent) \in Nat
      <3>1. CASE More
        <4>1. Before \in Nat /\ Len(Encoded) \in Nat /\ Len(Sent) = Before + Len(Encoded)
          BY <1>1, <2>2, <3>1, SentMore
        <4>2. CASE Parsing
          <5>1. pos = Before + Come /\ Come =< Len(Encoded) /\ Come \in Nat
            BY <1>1, <3>1, <4>2, Placed
          <5>2. QED  BY <4>1, <5>1
        <4>3. CASE pc = "finished"
          <5>1. pos = Before
            BY <1>1, <4>3 DEF ParserInv, EndInv
          <5>2. QED  BY <4>1, <5>1
        <4>4. CASE pc = "bad"
          <5>1. pos - Before =< Len(Encoded)
            BY <1>1, <4>4 DEF ParserInv, EndInv, Come
          <5>2. QED  BY <2>1, <4>1, <5>1
        <4>5. pc # "terminated"
          BY <1>1 DEF ParserInv, EndInv
        <4>6. QED  BY <2>1, <4>2, <4>3, <4>4, <4>5 DEF Parsing
      <3>2. CASE ~More
        <4>1. Len(parsed) = Len(requests)
          BY <2>2, <3>2 DEF More
        <4>2. Len(Sent) = Before /\ Before \in Nat
          BY <1>1, <4>1, SentAll
        <4>3. pos = Before
          BY <1>1, <2>1, <3>2 DEF ParserInv, EndInv, Parsing
        <4>4. QED  BY <4>2, <4>3
      <3>3. QED  BY <3>1, <3>2
    <2>4. pos \in 0..Len(Sent)
      BY <2>1, <2>3
    <2>5. pc = "content" => header_ended /\ start_line = Start
      BY <1>1, InContent
    <2>6. {header_ended, chunked, multipart} \subseteq BOOLEAN
      BY <2>1, Zenon
    <2>7. QED  BY <2>1, <2>4, <2>5, <2>6 DEF TypeOK
  <1>2. QED  BY <1>1, ParserInvariant, PTL

\* Every well-formed request is handed on with the body the peer sent, in
\* order and however its bytes were cut into reads.
THEOREM BodiesAlwaysArrive ==
    ASSUME SplitSizes = FALSE
    PROVE  Spec => [](WellFormed => BodiesArrive)
  <1>1. ASSUME WellFormed, ParserInv PROVE BodiesArrive
    <2>1. /\ Len(parsed) =< Len(requests) /\ Len(parsed) \in Nat /\ DOMAIN parsed = 1..Len(parsed)
          /\ \A i \in 1..Len(parsed) : /\ requests[i].form # "unknown"
                                       /\ parsed[i] = Meant(requests[i])
      BY <1>1 DEF ParserInv, ParsedInv
    <2>2. ASSUME NEW i \in 1..Len(parsed) PROVE requests[i].form # "invalid"
      <3>1. i \in 1..Len(requests) /\ \A k \in 1..Len(requests) : Valid(requests[k])
        BY <1>1, <2>1, RequestsAre
      <3>2. QED  BY <3>1 DEF Valid
    <2>3. QED  BY <2>1, <2>2 DEF BodiesArrive
  <1>2. QED  BY <1>1, ParserInvariant, PTL

\* Of well-formed requests, only one that no view and no file matches is
\* answered 400.
THEOREM NothingIsRejected ==
    ASSUME SplitSizes = FALSE
    PROVE  Spec => [](WellFormed => NothingRejected)
  <1>1. ASSUME WellFormed, ParserInv PROVE NothingRejected
    BY <1>1 DEF ParserInv, EndInv, NothingRejected, Current
  <1>2. QED  BY <1>1, ParserInvariant, PTL

\* The parser and a peer that has sent all of a request never wait for each
\* other.
THEOREM NeverAMutualWait ==
    ASSUME SplitSizes = FALSE
    PROVE  Spec => [](WellFormed => NoMutualWait)
  <1>1. ASSUME WellFormed, ParserInv PROVE NoMutualWait
    <2>1. SUFFICES ASSUME pc = "reading", pos = Len(Sent) PROVE Len(parsed) = Len(requests)
      BY DEF NoMutualWait
    <2>2. Len(parsed) \in Nat /\ Len(parsed) =< Len(requests) /\ Len(requests) \in Nat
      BY <1>1, RequestsAre DEF ParserInv, ParsedInv
    <2>3. ~More
      <3>1. SUFFICES ASSUME More PROVE FALSE
        OBVIOUS
      <3>2. Parsing
        BY <2>1 DEF Parsing
      <3>3. /\ Before \in Nat /\ Len(Encoded) \in Nat /\ Len(Sent) = Before + Len(Encoded)
        BY <1>1, <2>2, <3>1, SentMore
      <3>4. Come < Len(Encoded)
        BY <1>1, <2>1, <3>1, <3>2 DEF ParserInv, PlaceInv
      <3>5. pos = Before + Come /\ Come \in Nat
        BY <1>1, <3>1, <3>2, Placed
      <3>6. QED  BY <2>1, <3>3, <3>4, <3>5
    <2>4. QED  BY <2>2, <2>3 DEF More
  <1>2. QED  BY <1>1, ParserInvariant, PTL

\* No exception leaves the parser: std::length_error is only thrown where a
\* read ends within a size line or the last CRLF, as run Parser_split_size
\* shows, and never for a fixed body or a form.
THEOREM NothingIsThrown ==
    ASSUME SplitSizes = FALSE
    PROVE  Spec => [](WellFormed => NothingThrown)
  <1>1. ASSUME WellFormed, ParserInv PROVE NothingThrown
    BY <1>1 DEF ParserInv, EndInv, NothingThrown
  <1>2. QED  BY <1>1, ParserInvariant, PTL
=============================================================================
