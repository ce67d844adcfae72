--------------------------- MODULE RequestParser ---------------------------
(***************************************************************************)
(* The parser of a connection: class Parser (parser.cc) and RequestParser  *)
(* (request_parser.cc), over the reads of Connection::OnRead and across    *)
(* the requests of a connection that is kept alive.  The peer sends a      *)
(* request once the previous one was answered; how its bytes are cut into  *)
(* reads is up to the network.                                             *)
(*                                                                         *)
(* An action is one iteration of a loop of Parse(): a call of Parse() goes *)
(* from a Read to the next state where pc is neither "headers" nor         *)
(* "content".                                                              *)
(***************************************************************************)
EXTENDS HttpStream

CONSTANTS
    Streams,     \* sequences of requests a peer may send
    SizeBits,    \* the width of std::size_t
    SplitSizes   \* may a read end within a chunk-size line or the last CRLF?

ASSUME SizesFit ==
    /\ SizeBits \in Nat /\ 2^SizeBits \in Nat \ {0} /\ SplitSizes \in BOOLEAN
    /\ \A rs \in Streams : Len(Bytes(rs, Len(rs))) < 2^SizeBits - 3

VARIABLES
    requests,        \* what the peer sends
    pos,             \* bytes read so far
    pc,              \* where Parse() is, or what came of it
    parsed,          \* the requests handed to the queue
    pending,         \* pending_data_
    start_line,      \* the start line, once start_line_parsed_
    header_ended, chunked, multipart,
    content_length,  \* kInvalidLength unless content_length_parsed_
    chunk_size,      \* chunk_size_
    content,         \* content_ of the body handler
    step, form_parts \* step_ and form_parts_

head == <<start_line, header_ended, chunked, multipart, content_length>>
body == <<chunk_size, content, step, form_parts>>
vars == <<requests, pos, pc, parsed, pending, head, body>>

kInvalidLength == 2^SizeBits - 1
NotParsed == Byte("not parsed")

Init ==
    /\ requests \in Streams /\ pos = 0 /\ pc = "reading" /\ parsed = <<>>
    /\ pending = <<>> /\ start_line = NotParsed /\ header_ended = FALSE
    /\ chunked = FALSE /\ multipart = FALSE /\ content_length = kInvalidLength
    /\ chunk_size = kInvalidLength /\ content = <<>>
    /\ step = "start" /\ form_parts = <<>>

---------------------------------------------------------------------------
\* GetNextLine: the first line of the pending data, and what follows it

CRLFs == {i \in 1..Len(pending) - 1 : pending[i] = CR /\ pending[i + 1] = LF}
HasLine == CRLFs # {}
NextLine == SubSeq(pending, 1, Min(CRLFs) - 1)
Erased(n) == SubSeq(pending, n + 1, Len(pending))
AfterLine == Erased(Min(CRLFs) + 1)

---------------------------------------------------------------------------
\* Connection::OnRead and Start

\* What the peer has sent: a request follows the answer to the previous one.
Sent == Bytes(requests, Min({Len(parsed) + 1, Len(requests)}))

\* The i-th byte is not the last one of its chunk-size line, or not the last
\* one of a body that ends with a chunk of size 0.
InSizes(i) == \/ \E k \in 0..1 : i > k /\ Sent[i - k][1] = "size"
              \/ \E k \in 2..3 : i > k /\ Sent[i - k] = Size(0)

Read(n) ==
    /\ pc = "reading" /\ pos + n <= Len(Sent)
    /\ SplitSizes \/ ~InSizes(pos + n)
    /\ pos' = pos + n
    /\ pending' = pending \o SubSeq(Sent, pos + 1, pos + n)
    /\ pc' = IF header_ended THEN "content" ELSE "headers"
    /\ UNCHANGED <<requests, parsed, head, body>>

\* Mutant: Reset() leaves content_length_ alone.
NextRequestKeepsLength ==
    /\ pc = "finished"
    /\ pending' = <<>> /\ start_line' = NotParsed /\ header_ended' = FALSE
    /\ chunked' = FALSE /\ multipart' = FALSE
    /\ chunk_size' = kInvalidLength /\ content' = <<>>
    /\ pc' = "reading"
    /\ UNCHANGED <<requests, pos, parsed, content_length, step, form_parts>>

\* The request was answered and the connection starts over: Init() of the
\* request parser is Reset() of the parser.  It drops what is pending and
\* leaves step_ and form_parts_ as they are.
NextRequest ==
    /\ pc = "finished"
    /\ pending' = <<>> /\ start_line' = NotParsed /\ header_ended' = FALSE
    /\ chunked' = FALSE /\ multipart' = FALSE /\ content_length' = kInvalidLength
    /\ chunk_size' = kInvalidLength /\ content' = <<>>
    /\ pc' = "reading"
    /\ UNCHANGED <<requests, pos, parsed, step, form_parts>>

\* Parse() has used what it has and more is needed: DoRead().
Wait == /\ pc' = "reading"
        /\ UNCHANGED <<requests, pos, parsed, head>>

\* Finish(), with the body made of these parts; the connection is queued.
Finish(parts) ==
    /\ pc' = "finished" /\ parsed' = Append(parsed, parts)
    /\ UNCHANGED <<requests, pos, head>>

\* Parse() goes on with the next iteration.
Continue == UNCHANGED <<requests, pos, pc, parsed, head>>

---------------------------------------------------------------------------
\* ParseHeaders

NeedHeader ==
    /\ pc = "headers" /\ ~HasLine
    /\ Wait
    /\ UNCHANGED <<pending, body>>

\* Mutant: off is not moved past the line.
ParseHeaderLineStays ==
    /\ pc = "headers" /\ HasLine /\ NextLine # <<>>
    /\ LET line == NextLine[1] IN
       IF start_line = NotParsed
       THEN start_line' = line /\ UNCHANGED <<chunked, multipart, content_length>>
       ELSE /\ content_length' = IF line[1] = "length" THEN line[2] ELSE content_length
            /\ chunked' = (chunked \/ line = Chunked)
            /\ multipart' = (multipart \/ line = Multipart)
            /\ UNCHANGED start_line
    /\ UNCHANGED <<requests, pos, pc, parsed, pending, header_ended, body>>

ParseHeaderLine ==
    /\ pc = "headers" /\ HasLine /\ NextLine # <<>>
    /\ pending' = AfterLine
    /\ LET line == NextLine[1] IN
       IF start_line = NotParsed
       THEN start_line' = line /\ UNCHANGED <<chunked, multipart, content_length>>
       ELSE /\ content_length' = IF line[1] = "length" THEN line[2] ELSE content_length
            /\ chunked' = (chunked \/ line = Chunked)
            /\ multipart' = (multipart \/ line = Multipart)
            /\ UNCHANGED start_line
    /\ UNCHANGED <<requests, pos, pc, parsed, header_ended, body>>

\* Mutant: the result of the view matcher is not looked at.
OnHeadersEndUnmatched ==
    /\ pc = "headers" /\ HasLine /\ NextLine = <<>>
    /\ header_ended' = TRUE /\ pc' = "content"
    /\ pending' = AfterLine
    /\ UNCHANGED <<requests, pos, parsed, start_line, chunked, multipart, content_length, body>>

\* The empty line, in OnHeadersEnd too: a view or a file matches.
OnHeadersEnd ==
    /\ pc = "headers" /\ HasLine /\ NextLine = <<>> /\ start_line = Start
    /\ header_ended' = TRUE /\ pc' = "content"
    /\ pending' = AfterLine
    /\ UNCHANGED <<requests, pos, parsed, start_line, chunked, multipart, content_length, body>>

---------------------------------------------------------------------------
\* ParseFixedContent

InFixed == pc = "content" /\ ~chunked /\ ~multipart

NoContent ==
    /\ InFixed /\ content_length = kInvalidLength
    /\ Finish(<<>>)
    /\ UNCHANGED <<pending, body>>

FixedContent ==
    /\ InFixed /\ content_length # kInvalidLength
    /\ content' = content \o pending /\ pending' = <<>>
    /\ IF Len(content') >= content_length THEN Finish(<<content'>>) ELSE Wait
    /\ UNCHANGED <<chunk_size, step, form_parts>>

---------------------------------------------------------------------------
\* ParseChunkedContent.  When no whole size line is pending, ParseChunkSize()
\* succeeds and leaves chunk_size_ at kInvalidLength for what follows.

InChunks == pc = "content" /\ chunked
Sized    == chunk_size # kInvalidLength \/ ~HasLine
WithCRLF == (chunk_size + 2) % 2^SizeBits   \* chunk_size_ + 2, a std::size_t

ParseChunkSize ==
    /\ InChunks /\ ~Sized
    /\ NextLine # <<>> /\ NextLine[1][1] = "size"
    /\ chunk_size' = NextLine[1][2]
    /\ pending' = AfterLine
    /\ Continue
    /\ UNCHANGED <<content, step, form_parts>>

LastChunk ==
    /\ InChunks /\ Sized /\ chunk_size = 0
    /\ Finish(<<content>>)
    /\ UNCHANGED <<pending, body>>

\* Mutant: the CRLF after the data is left in the pending data.
WholeChunkLeavesCRLF ==
    /\ InChunks /\ Sized /\ chunk_size \notin {0, kInvalidLength}
    /\ WithCRLF <= Len(pending)
    /\ content' = content \o SubSeq(pending, 1, chunk_size)
    /\ pending' = Erased(chunk_size)
    /\ chunk_size' = kInvalidLength
    /\ Continue
    /\ UNCHANGED <<step, form_parts>>

\* AddContent() of the chunk.  With chunk_size_ still kInvalidLength,
\* append(data, npos) throws std::length_error out of the handler and out of
\* io_context::run(), which nothing catches in a loop thread.
WholeChunk ==
    /\ InChunks /\ Sized /\ chunk_size # 0 /\ WithCRLF <= Len(pending)
    /\ IF chunk_size = kInvalidLength
       THEN /\ pc' = "terminated"
            /\ UNCHANGED <<requests, pos, parsed, pending, head, chunk_size, content>>
       ELSE /\ content' = content \o SubSeq(pending, 1, chunk_size)
            /\ pending' = Erased(chunk_size + 2)
            /\ chunk_size' = kInvalidLength
            /\ Continue
    /\ UNCHANGED <<step, form_parts>>

\* All of the chunk that has come, or wait for the CRLF after it.
PartOfChunk ==
    /\ InChunks /\ Sized /\ chunk_size # 0 /\ WithCRLF > Len(pending)
    /\ IF chunk_size > Len(pending)
       THEN /\ content' = content \o pending
            /\ chunk_size' = chunk_size - Len(pending)
            /\ pending' = <<>>
       ELSE UNCHANGED <<content, chunk_size, pending>>
    /\ Wait
    /\ UNCHANGED <<step, form_parts>>

---------------------------------------------------------------------------
\* ParseMultipartContent.  Nothing in its loop handles the step "ended" with
\* data pending.

InForm == pc = "content" /\ ~chunked /\ multipart /\ content_length # kInvalidLength
InStep(s) == InForm /\ step = s /\ pending # <<>>

\* Nothing pending: wait, unless the form has ended.
FormDataUsed ==
    /\ InForm /\ pending = <<>>
    /\ IF step = "ended" THEN Finish(form_parts) ELSE Wait
    /\ UNCHANGED <<pending, body>>

NeedLine ==
    /\ InStep("start") \/ InStep("boundary")
    /\ ~HasLine
    /\ Wait
    /\ UNCHANGED <<pending, body>>

IsBoundary(line) == line \in {<<Boundary>>, <<Final>>}

FirstBoundary ==
    /\ InStep("start") /\ HasLine /\ IsBoundary(NextLine)
    /\ pending' = AfterLine /\ step' = "boundary"
    /\ Continue
    /\ UNCHANGED <<chunk_size, content, form_parts>>

\* ParsePartHeaders.  The code erases the lines once it has the empty one
\* and until then parses them again, to the same part.
ParsePartHeader ==
    /\ InStep("boundary") /\ HasLine /\ NextLine \in {<<>>, <<Disposition>>}
    /\ pending' = AfterLine
    /\ step' = IF NextLine = <<>> THEN "headers" ELSE step
    /\ Continue
    /\ UNCHANGED <<chunk_size, content, form_parts>>

\* GetNextBoundaryLine: where the boundary lines of the pending data start
LineStarts == {1} \cup {i + 2 : i \in CRLFs}
Boundaries == {i \in LineStarts : i + 1 \in CRLFs /\ pending[i] \in {Boundary, Final}}

\* IsBoundary() says "ended" of any line that looks like the final boundary.
Ends(i) == \E j \in LineStarts : j <= i /\ j + 1 \in CRLFs /\ pending[j] \in {Final, Alike}

NoBoundary ==
    /\ InStep("headers") /\ Boundaries = {}
    /\ Wait
    /\ UNCHANGED <<pending, body>>

\* Mutant: +2 for the CRLF after the boundary is forgotten.
EndOfPartLeavesCRLF ==
    /\ InStep("headers") /\ Boundaries # {}
    /\ LET b == Min(Boundaries) IN
       /\ b > 3
       /\ form_parts' = Append(form_parts, SubSeq(pending, 1, b - 3))
       /\ pending' = Erased(b)
       /\ IF Ends(b) THEN step' = "ended" /\ Finish(form_parts')
                     ELSE step' = "boundary" /\ Continue
    /\ UNCHANGED <<chunk_size, content>>

\* off is the number of bytes before the boundary.
EndOfPart ==
    /\ InStep("headers") /\ Boundaries # {}
    /\ LET b == Min(Boundaries) IN
       /\ b - 1 > 2
       /\ form_parts' = Append(form_parts, SubSeq(pending, 1, b - 3))
       /\ pending' = Erased(b + 2)
       /\ IF Ends(b) THEN step' = "ended" /\ Finish(form_parts')
                     ELSE step' = "boundary" /\ Continue
    /\ UNCHANGED <<chunk_size, content>>

---------------------------------------------------------------------------
\* Parse() returns false: no view matches, or a size, a first boundary, a part
\* header or the data of a part is not what it should be.
Reject ==
    /\ \/ pc = "headers" /\ HasLine /\ NextLine = <<>> /\ start_line # Start
       \/ InChunks /\ ~Sized /\ (NextLine = <<>> \/ NextLine[1][1] # "size")
       \/ pc = "content" /\ ~chunked /\ multipart /\ content_length = kInvalidLength
       \/ InStep("start") /\ HasLine /\ ~IsBoundary(NextLine)
       \/ InStep("boundary") /\ HasLine /\ NextLine \notin {<<>>, <<Disposition>>}
       \/ InStep("headers") /\ Boundaries # {} /\ Min(Boundaries) - 1 <= 2
    /\ pc' = "bad"
    /\ UNCHANGED <<requests, pos, parsed, pending, head, body>>

ParseStep ==
    \/ NeedHeader \/ ParseHeaderLine \/ OnHeadersEnd \/ NoContent \/ FixedContent
    \/ ParseChunkSize \/ LastChunk \/ WholeChunk \/ PartOfChunk
    \/ FormDataUsed \/ NeedLine \/ FirstBoundary \/ ParsePartHeader
    \/ NoBoundary \/ EndOfPart \/ Reject

Next == (\E n \in 1..Len(Sent) : Read(n)) \/ NextRequest \/ ParseStep

Spec == Init /\ [][Next]_vars

\* The loop thread runs Parse() to its end, and the rest of the server the
\* answer to the request.
FairSpec == Spec /\ WF_vars(ParseStep) /\ WF_vars(NextRequest)

---------------------------------------------------------------------------
\* Properties

TypeOK ==
    /\ requests \in Streams /\ pos \in 0..Len(Sent)
    /\ pc \in {"reading", "headers", "content", "finished", "bad", "terminated"}
    /\ {header_ended, chunked, multipart} \subseteq BOOLEAN
    /\ content_length \in 0..kInvalidLength /\ chunk_size \in 0..kInvalidLength
    /\ step \in {"start", "boundary", "headers", "ended"}
    /\ pc = "content" => header_ended /\ start_line = Start

\* What a request's body stands for, whatever way it was sent
Meant(r) == CASE r.form = "none"      -> <<>>
              [] r.form = "multipart" -> r.parts
              [] OTHER                -> <<Content(r)>>

\* Every request is handed on with the body the peer sent, in order, however
\* its bytes were cut into reads, and never one of an earlier request.
BodiesArrive ==
    /\ Len(parsed) <= Len(requests)
    /\ \A i \in DOMAIN parsed : /\ requests[i].form \notin {"unknown", "invalid"}
                                /\ parsed[i] = Meant(requests[i])

\* Only a request that nothing matches, or an invalid one, is answered 400.
NothingRejected ==
    pc = "bad" => requests[Len(parsed) + 1].form \in {"unknown", "invalid"}

\* parser.cc:361: an incomplete chunk waits "for more data from next read".
NothingThrown == pc # "terminated"

\* A request is handed on as soon as its last byte has been read: the peer,
\* which waits for the answer, and the parser, which waits for bytes, never
\* wait for each other.
NoMutualWait == pc = "reading" /\ pos = Len(Sent) => Len(parsed) = Len(requests)

\* Every call of Parse() returns to the event loop.
ParseReturns == pc \in {"headers", "content"} ~> pc \notin {"headers", "content"}
=============================================================================
