----------------------------- MODULE HttpStream -----------------------------
(***************************************************************************)
(* What the clients of the server send: HTTP/1.1 requests, as sequences of *)
(* bytes.  A byte is a pair of a name and a number; a token whose inside   *)
(* never matters to the parser (a start line, a header, a size, a          *)
(* boundary) is one byte.  These are the protocol's rules, not the code's. *)
(***************************************************************************)
EXTENDS Integers, SequencesExt

CR == <<"CR", 0>>
LF == <<"LF", 0>>
CRLF == <<CR, LF>>
Byte(name) == <<name, 0>>
Line(b) == <<b>> \o CRLF

Size(n)     == <<"size", n>>       \* a chunk size in hexadecimal
Length(n)   == <<"length", n>>     \* Content-Length: n
Start       == Byte("start")       \* a start line some view or file matches
Unknown     == Byte("unknown")     \* a start line that nothing matches
Chunked     == Byte("chunked")     \* Transfer-Encoding: chunked
Multipart   == Byte("multipart")   \* Content-Type: multipart/form-data
Disposition == Byte("disposition") \* Content-Disposition: form-data
Boundary    == Byte("boundary")    \* --boundary
Final       == Byte("final")       \* --boundary--
Alike       == Byte("alike")       \* data: "--...--", as long as Final

\* A request: the form of its body, and the fixed content (one part), the
\* chunks, or the parts of the form that make it up; or the bytes of an
\* invalid request.
Request(form, parts) == [form |-> form, parts |-> parts]

Content(r) == FlattenSeq(r.parts)

EncodeChunk(chunk) == Line(Size(Len(chunk))) \o chunk \o CRLF
EncodePart(part) == Line(Boundary) \o Line(Disposition) \o CRLF \o part \o CRLF
EncodeForm(r) ==
    FlattenSeq([i \in DOMAIN r.parts |-> EncodePart(r.parts[i])]) \o Line(Final)

Encode(r) ==
    CASE r.form = "none"      -> Line(Start) \o CRLF
      [] r.form = "unknown"   -> Line(Unknown) \o CRLF
      [] r.form = "invalid"   -> Content(r)
      [] r.form = "fixed"     -> Line(Start) \o Line(Length(Len(Content(r)))) \o CRLF \o Content(r)
      [] r.form = "chunked"   -> Line(Start) \o Line(Chunked) \o CRLF
                                 \o FlattenSeq([i \in DOMAIN r.parts |-> EncodeChunk(r.parts[i])])
                                 \o Line(Size(0)) \o CRLF
      [] r.form = "multipart" -> Line(Start) \o Line(Multipart) \o Line(Length(Len(EncodeForm(r))))
                                 \o CRLF \o EncodeForm(r)

\* The bytes of the first n requests of a sequence of requests
Bytes(rs, n) == FlattenSeq([i \in 1..n |-> Encode(rs[i])])
=============================================================================
