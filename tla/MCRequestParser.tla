-------------------------- MODULE MCRequestParser --------------------------
(***************************************************************************)
(* The streams of the model runs of RequestParser: every form of request,  *)
(* alone and after another on the same connection.                         *)
(***************************************************************************)
EXTENDS RequestParser

x == Byte("x")
None == Request("none", <<>>)
Fixed == Request("fixed", << <<x, x, x>> >>)
Empty == Request("fixed", <<>>)
Chunks == Request("chunked", << <<x>>, <<CR, LF, x>>, <<Size(0), CR, LF>> >>)
NoChunk == Request("chunked", <<>>)
Form == Request("multipart", << <<x, CR, LF, x>>, <<x, Boundary, CR, LF, Alike>> >>)
BadPath == Request("unknown", <<>>)

\* A size that is none, a form without Content-Length, without a boundary,
\* with a bad part header, with a part that has no data
Invalid(headers, bytes) == Request("invalid", << Line(Start) \o headers \o CRLF \o bytes >>)
FormHeaders == Line(Multipart) \o Line(Length(9))
BadSize == Invalid(Line(Chunked), Line(x))
NoLength == Invalid(Line(Multipart), Line(Boundary))
NoFirstBoundary == Invalid(FormHeaders, Line(x))
BadPart == Invalid(FormHeaders, Line(Boundary) \o Line(x))
EmptyPart == Invalid(FormHeaders, Line(Boundary) \o Line(Disposition) \o CRLF \o CRLF \o Line(Final))

\* A connection carries at most one form
OneForm == { <<Fixed, Chunks, None>>, <<Chunks, Empty, Fixed>>, <<None, Form, BadPath>>,
             <<Form, Chunks, Fixed>>, <<NoChunk, Fixed, Form>>, <<Chunks, NoChunk, None>>,
             <<Fixed, BadSize>>, <<Chunks, NoLength>>, <<None, NoFirstBoundary>>,
             <<Fixed, BadPart>>, <<Empty, EmptyPart>> }
TwoForms == { <<Form, None, Form>> }
ChunksOnly == { <<Chunks>> }
=============================================================================
