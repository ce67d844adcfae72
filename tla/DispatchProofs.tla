--------------------------- MODULE DispatchProofs ---------------------------
(***************************************************************************)
(* A request and its response, for any routes, documents, requests and     *)
(* sizes, whatever happens to the files meanwhile; and the URL of the      *)
(* request, for any path and any parameters.                               *)
(***************************************************************************)
EXTENDS Dispatch, SequenceLemmas

---------------------------------------------------------------------------
(* SelectInSeq returns the smallest index of a set of indices, or 0.       *)

Matching(method, path) ==
    {i \in 1..Len(Routes) : method \in Routes[i].methods /\ path \in Routes[i].matches}

LEMMA FirstMatching ==
    ASSUME NEW method, NEW path, Matching(method, path) # {}
    PROVE  Min(Matching(method, path)) \in DOMAIN Routes
  <1>1. DOMAIN Routes = 1..Len(Routes) /\ Len(Routes) \in Nat
    BY RoutesAreTyped
  <1>2. Matching(method, path) \subseteq Nat /\ Matching(method, path) \subseteq DOMAIN Routes
    BY <1>1 DEF Matching
  <1>3. QED  BY <1>2, Smallest

LEMMA FindViewIs ==
    ASSUME NEW method, NEW path
    PROVE  FindView(method, path) = IF Matching(method, path) # {}
                                    THEN Routes[Min(Matching(method, path))].view ELSE NONE
  <1>1. DOMAIN Routes = 1..Len(Routes) /\ Len(Routes) \in Nat
    BY RoutesAreTyped
  <1>2. 0 \notin DOMAIN Routes
    BY <1>1
  <1>3. SelectInSeq(Routes, LAMBDA r : method \in r.methods /\ path \in r.matches)
        = IF Matching(method, path) # {} THEN Min(Matching(method, path)) ELSE 0
    BY Zenon DEF SelectInSeq, Matching
  <1>4. QED
    BY <1>2, <1>3, FirstMatching, Zenon DEF FindView

\* A view is found if and only if one matches: the two walks over the routes
\* agree, the one on the loop thread and the one on the worker.
LEMMA FoundIffMatched ==
    ASSUME NEW method, NEW path
    PROVE  FindView(method, path) # NONE <=> MatchView(method, path)
  <1>1. DOMAIN Routes = 1..Len(Routes)
    BY RoutesAreTyped
  <1>2. MatchView(method, path) <=> Matching(method, path) # {}
    BY <1>1 DEF MatchView, Matching
  <1>3. Matching(method, path) # {} => Routes[Min(Matching(method, path))].view # NONE
    BY FirstMatching, RoutesAreTyped
  <1>4. QED  BY <1>2, <1>3, FindViewIs

---------------------------------------------------------------------------
(* The invariant.  While a response is under way its file is the one that  *)
(* was sized when the response was made, or it was touched since.          *)

Fresh(path) == path \notin touched

Types ==
    /\ disk \in [Documents -> Sizes \cup {NONE, Locked, Hidden}]
    /\ pc \in {"idle", "parse", "handle", "headers", "body", "thrown"}
    /\ pc # "idle" => call \in Calls
    /\ "path" \in DOMAIN url
    /\ next \in Nat /\ opened \in Nat /\ written \in Nat /\ eof \in BOOLEAN

\* Content-Length is the size of the body, and that of its file.
ResponseInv ==
    /\ response.length = response.body.size
    /\ response.body.kind \in {"none", "string", "file"}
    /\ response.body.kind = "none" => response.body.size = 0
    /\ response.body.kind = "string" => response.body.size \in Nat
    /\ response.body.kind = "file" =>
          /\ response.body.path \in Documents
          /\ Fresh(response.body.path) =>
                 Opens(response.body.path) /\ disk[response.body.path] = response.body.size

\* What was written is what was taken of the body.
WritingInv ==
    pc = "body" =>
       /\ response.body.kind = "none" => written = 0
       /\ response.body.kind = "string" =>
             \/ next = 0 /\ written = 0
             \/ next = 1 /\ written = response.body.size
       /\ response.body.kind = "file" =>
             /\ next = written
             /\ Fresh(response.body.path) =>
                    next =< opened /\ opened = response.body.size /\ (eof => opened =< next)

\* What was matched is what the worker will find.
MatchedInv ==
    /\ pc = "parse" => matched = NONE
    /\ pc = "handle" =>
          /\ matched.path = url.path
          /\ matched.view = FindView(call.method, url.path)
          /\ matched.view = NONE =>
                call.method = "GET" /\ (Fresh(url.path) => Exists(url.path))

BodyInv == Types /\ ResponseInv /\ WritingInv

\* A view that is routed at the path "/" is routed at "/index.html" as well and
\* the other way round: OnHeadersEnd() replaces the one by the other between
\* the two searches (request_parser.cc:30).  The demo routes neither.
RootIsStatic ==
    \A i \in DOMAIN Routes :
        <<Slash>> \in Routes[i].matches <=> StaticPath(<<Slash>>) \in Routes[i].matches

---------------------------------------------------------------------------
(* The body: what the sizes and the bytes written are.                     *)

LEMMA UrlHasPath == \A str : "path" \in DOMAIN Parse(str)
  BY DEF Parse

LEMMA StoredPart ==
    ASSUME NEW c \in Calls, c.form # NONE, FilePart(c.form) # 0
    PROVE  c.form[FilePart(c.form)].size \in Sizes
  <1> DEFINE I == {i \in 1..Len(c.form) : c.form[i].name = File}
  <1>1. DOMAIN c.form = 1..Len(c.form) /\ Len(c.form) \in Nat
    BY FormsAreTyped
  <1>2. FilePart(c.form) = IF I # {} THEN Min(I) ELSE 0
    BY Zenon DEF FilePart, SelectInSeq
  <1>3. I \subseteq Nat /\ I \subseteq DOMAIN c.form
    BY <1>1
  <1> HIDE DEF I
  <1>4. FilePart(c.form) \in DOMAIN c.form
    BY <1>2, <1>3, Smallest
  <1>5. QED  BY <1>4, FormsAreTyped

LEMMA BodyInit == Init => BodyInv
  <1> SUFFICES ASSUME Init PROVE BodyInv
    OBVIOUS
  <1>1. disk \in [Documents -> Sizes \cup {NONE, Locked, Hidden}]
    BY DEF Init
  <1>2. Types
    BY <1>1, UrlHasPath DEF Init, Types
  <1>3. ResponseInv /\ WritingInv
    BY DEF Init, ResponseInv, WritingInv, NoResponse, Response, NoBody
  <1>4. QED  BY <1>2, <1>3 DEF BodyInv

\* Steps after which no response is being written
LEMMA OnlyTypesMatter ==
    ASSUME pc' # "body", ResponseInv', Types' PROVE BodyInv'
  BY DEF BodyInv, WritingInv

LEMMA BodySend ==
    ASSUME BodyInv, NEW c \in Calls, SendRequest(c) PROVE BodyInv'
  <1>1. Types'
    BY UrlHasPath DEF SendRequest, BodyInv, Types, ParseStartLine
  <1>2. ResponseInv'
    BY DEF SendRequest, ResponseInv, NoResponse, Response, NoBody
  <1>3. QED  BY <1>1, <1>2, OnlyTypesMatter DEF SendRequest

LEMMA BodyHeadersEnd == BodyInv /\ OnHeadersEnd => BodyInv'
  <1> SUFFICES ASSUME BodyInv, OnHeadersEnd PROVE BodyInv'
    OBVIOUS
  <1>1. /\ pc = "parse" /\ pc' \in {"handle", "headers"}
        /\ UNCHANGED <<disk, call, next, opened, eof, written, touched>>
        /\ response' = response \/ response' = Response(400, NoBody)
        /\ url' = url \/ url' = [url EXCEPT !.path = StaticPath(url.path)]
    BY DEF OnHeadersEnd, writing
  <1>2. Types'
    BY <1>1 DEF BodyInv, Types
  <1>3. ResponseInv'
    BY <1>1 DEF BodyInv, ResponseInv, Response, NoBody, Fresh, Opens
  <1>4. QED  BY <1>1, <1>2, <1>3, OnlyTypesMatter

LEMMA BodyThrows == BodyInv /\ OnHeadersEndThrows => BodyInv'
  <1> SUFFICES ASSUME BodyInv, OnHeadersEndThrows PROVE BodyInv'
    OBVIOUS
  <1>1. /\ pc = "parse" /\ pc' = "thrown"
        /\ UNCHANGED <<disk, call, url, response, next, opened, eof, written, touched>>
    BY DEF OnHeadersEndThrows, answer, writing
  <1>2. Types' /\ ResponseInv'
    BY <1>1 DEF BodyInv, Types, ResponseInv, Fresh, Opens
  <1>3. QED  BY <1>1, <1>2, OnlyTypesMatter

LEMMA BodyHandle ==
    BodyInv /\ (HandleView \/ HandleUpload \/ ServeStatic) => BodyInv'
  <1> SUFFICES ASSUME BodyInv PROVE HandleView \/ HandleUpload \/ ServeStatic => BodyInv'
    OBVIOUS
  <1>1. ASSUME NEW r, SendResponse(r), pc = "handle", ResponseInv' PROVE BodyInv'
    <2>1. Types'
      BY <1>1 DEF SendResponse, BodyInv, Types, writing
    <2>2. QED  BY <1>1, <2>1, OnlyTypesMatter DEF SendResponse
  <1>2. CASE HandleView
    <2>1. CASE pc' = "thrown" /\ UNCHANGED <<disk, call, url, response, writing, touched>>
      <3>1. Types' /\ ResponseInv'
        BY <1>2, <2>1 DEF HandleView, BodyInv, Types, ResponseInv, Fresh, Opens, writing
      <3>2. QED  BY <2>1, <3>1, OnlyTypesMatter
    <2>2. ASSUME NEW r, SendResponse(r),
                 \/ \E n \in Sizes :
                        r = Response(200, [kind |-> "string", size |-> n, path |-> <<>>])
                 \/ r = Response(400, NoBody)
          PROVE  BodyInv'
      <3>1. ResponseInv'
        BY <2>2, BoundsAreNat DEF SendResponse, ResponseInv, Response, NoBody
      <3>2. QED  BY <1>1, <1>2, <2>2, <3>1 DEF HandleView
    <2>3. QED  BY <1>2, <2>1, <2>2 DEF HandleView
  <1>3. CASE ServeStatic
    <2>1. ResponseInv'
      <3>1. /\ UNCHANGED <<disk, touched>>
            /\ \/ response' \in {Response(400, NoBody), Response(404, NoBody)}
               \/ /\ Opens(url.path)
                  /\ response' = Response(200, [kind |-> "file", size |-> disk[url.path],
                                                path |-> url.path])
        BY <1>3 DEF ServeStatic, SendResponse
      <3>2. QED
        BY <3>1 DEF ResponseInv, Response, NoBody, Fresh, Opens
    <2>2. QED  BY <1>1, <1>3, <2>1 DEF ServeStatic
  <1>4. CASE HandleUpload
    <2>1. /\ pc = "handle" /\ pc' \in {"headers", "thrown"} /\ call \in Calls
          /\ UNCHANGED <<call, url, next, opened, eof, written, touched>>
      BY <1>4 DEF HandleUpload, BodyInv, Types, writing
    <2>2. CASE call.form = NONE
      <3>1. UNCHANGED <<disk, response>>
        BY <1>4, <2>2 DEF HandleUpload
      <3>2. Types' /\ ResponseInv'
        BY <2>1, <3>1 DEF BodyInv, Types, ResponseInv, Fresh, Opens
      <3>3. QED  BY <2>1, <3>2, OnlyTypesMatter
    <2>3. CASE call.form # NONE
      <3> DEFINE i == FilePart(call.form)
      <3>1. /\ response' = Response(200, [kind |-> "string", size |-> 0, path |-> <<>>])
            /\ disk' = [path \in Documents |->
                          IF /\ i # 0 /\ path = StorePath(call.form[i].file)
                             /\ disk[path] \notin {Locked, Hidden}
                          THEN call.form[i].size ELSE disk[path]]
        BY <1>4, <2>3 DEF HandleUpload
      <3>2. i # 0 => call.form[i].size \in Sizes
        BY <2>1, <2>3, StoredPart
      <3>3. disk' \in [Documents -> Sizes \cup {NONE, Locked, Hidden}]
        <4> HIDE DEF i
        <4>1. QED  BY <3>1, <3>2 DEF BodyInv, Types
      <3>4. Types'
        BY <2>1, <3>3 DEF BodyInv, Types
      <3>5. ResponseInv'
        BY <3>1 DEF ResponseInv, Response
      <3>6. QED  BY <2>1, <3>4, <3>5, OnlyTypesMatter
    <2>4. QED  BY <2>2, <2>3
  <1>5. QED  BY <1>2, <1>3, <1>4

\* NextPayload() never goes past the end of the file that was opened.
LEMMA PayloadBounds ==
    ASSUME Types
    PROVE  /\ Payload(response.body) \in Nat
           /\ Payload(response.body) > 0 =>
                 response.body.kind = "file" /\ next + Payload(response.body) =< opened
           /\ Payload(response.body) = 0 /\ response.body.kind = "file" =>
                 eof \/ opened =< next
           /\ Payload(response.body) < ChunkSize /\ Payload(response.body) > 0 =>
                 next + Payload(response.body) = opened
  BY BoundsAreNat DEF Types, Payload

LEMMA BodyWrite ==
    BodyInv /\ (OnWriteHeaders \/ WriteFileChunk \/ WriteString \/ OnWriteOK) => BodyInv'
  <1> SUFFICES ASSUME BodyInv
               PROVE  OnWriteHeaders \/ WriteFileChunk \/ WriteString \/ OnWriteOK => BodyInv'
    OBVIOUS
  <1>1. ASSUME UNCHANGED <<disk, response, touched>> PROVE ResponseInv'
    BY <1>1 DEF BodyInv, ResponseInv, Fresh, Opens
  <1>2. CASE OnWriteHeaders
    <2>1. /\ UNCHANGED <<disk, call, url, response, touched>>
          /\ next' = 0 /\ eof' = FALSE /\ written' = 0
          /\ \/ pc' = "thrown" /\ opened' = opened
             \/ /\ pc' = "body"
                /\ response.body.kind # "file" => opened' = 0
                /\ response.body.kind = "file" =>
                      Opens(response.body.path) /\ opened' = disk[response.body.path]
      BY <1>2 DEF OnWriteHeaders, answer
    <2>2. opened' \in Nat
      <3>1. opened \in Nat
        BY DEF BodyInv, Types
      <3>2. Opens(response.body.path) => disk[response.body.path] \in Nat
        BY BoundsAreNat DEF Opens
      <3>3. QED  BY <2>1, <3>1, <3>2
    <2>3. Types'
      <3>1. next' \in Nat /\ written' \in Nat /\ pc = "headers"
        BY <1>2, <2>1 DEF OnWriteHeaders
      <3>2. eof' \in BOOLEAN
        BY <2>1, Zenon
      <3>3. QED  BY <2>1, <2>2, <3>1, <3>2 DEF BodyInv, Types
    <2>4. WritingInv'
      BY <2>1, <2>2 DEF BodyInv, ResponseInv, WritingInv, Fresh
    <2>5. QED  BY <1>1, <2>1, <2>3, <2>4 DEF BodyInv
  <1>3. CASE WriteFileChunk
    <2>1. /\ UNCHANGED <<disk, pc, call, url, response, opened, touched>>
          /\ next' = next + Payload(response.body) /\ written' = written + Payload(response.body)
          /\ eof' = (Payload(response.body) < ChunkSize)
          /\ pc = "body" /\ Payload(response.body) > 0
      BY <1>3 DEF WriteFileChunk, answer
    <2>2. Types'
      BY <2>1, PayloadBounds DEF BodyInv, Types
    <2>3. WritingInv'
      <3>1. response.body.kind = "file" /\ next' =< opened /\ (eof' => opened =< next')
        BY <2>1, PayloadBounds DEF BodyInv, Types
      <3>2. QED  BY <2>1, <3>1 DEF BodyInv, WritingInv, Fresh
    <2>4. QED  BY <1>1, <2>1, <2>2, <2>3 DEF BodyInv
  <1>4. CASE WriteString
    <2>1. /\ UNCHANGED <<disk, pc, call, url, response, opened, eof, touched>>
          /\ next = 0 /\ next' = 1 /\ written' = written + response.body.size
          /\ pc = "body" /\ response.body.kind = "string"
      BY <1>4 DEF WriteString, answer
    <2>2. written' = response.body.size /\ response.body.size \in Nat
      BY <2>1 DEF BodyInv, ResponseInv, WritingInv
    <2>3. Types' /\ WritingInv'
      BY <2>1, <2>2 DEF BodyInv, Types, WritingInv
    <2>4. QED  BY <1>1, <2>1, <2>3 DEF BodyInv
  <1>5. CASE OnWriteOK
    <2>1. pc' = "idle" /\ UNCHANGED <<disk, call, url, response, next, opened, eof, written, touched>>
      BY <1>5 DEF OnWriteOK, answer, writing
    <2>2. Types'
      BY <2>1 DEF BodyInv, Types
    <2>3. QED  BY <1>1, <2>1, <2>2, OnlyTypesMatter
  <1>6. QED  BY <1>2, <1>3, <1>4, <1>5

LEMMA BodyTouch ==
    ASSUME BodyInv, NEW path \in Documents, Overwrite(path) \/ Withdraw(path) PROVE BodyInv'
  <1>1. /\ UNCHANGED <<pc, call, url, response, next, eof, written>>
        /\ touched' = touched \cup {path}
        /\ \E n \in Sizes \cup {NONE, Locked, Hidden} : disk' = [disk EXCEPT ![path] = n]
        /\ \/ opened' = opened
           \/ response.body.path = path /\ opened' \in Sizes
    BY DEF Overwrite, Withdraw, Touch, answer
  <1>2. Types'
    BY <1>1, BoundsAreNat DEF BodyInv, Types
  <1>3. ResponseInv'
    BY <1>1 DEF BodyInv, Types, ResponseInv, Fresh, Opens
  <1>4. WritingInv'
    BY <1>1 DEF BodyInv, WritingInv, Fresh
  <1>5. QED  BY <1>2, <1>3, <1>4 DEF BodyInv

LEMMA BodyStep == BodyInv /\ [Next]_vars => BodyInv'
  <1> SUFFICES ASSUME BodyInv, [Next]_vars PROVE BodyInv'
    OBVIOUS
  <1>1. CASE UNCHANGED vars
    BY <1>1 DEF vars, answer, writing, BodyInv, Types, ResponseInv, WritingInv, Fresh, Opens
  <1>2. ASSUME NEW c \in Calls, SendRequest(c) PROVE BodyInv'
    BY <1>2, BodySend
  <1>3. CASE ServerStep
    BY <1>3, BodyHeadersEnd, BodyThrows, BodyHandle, BodyWrite DEF ServerStep
  <1>4. ASSUME NEW path \in Documents, Overwrite(path) \/ Withdraw(path) PROVE BodyInv'
    BY <1>4, BodyTouch
  <1>5. QED  BY <1>1, <1>2, <1>3, <1>4 DEF Next

\* connection.cc:134: what was written when the headers and the body are out is
\* what Content-Length announced, for a view, a file of any size in chunks of
\* any size, or an error; unless the file was touched.
THEOREM LengthIsAlwaysWritten == Spec => LengthIsWritten
  <1>1. ASSUME BodyInv, [Next]_vars, pc = "body", pc' = "idle"
        PROVE  \/ written = response.length
               \/ response.body.kind = "file" /\ response.body.path \in touched
    <2>1. OnWriteOK
      BY <1>1 DEF Next, ServerStep, vars, SendRequest, OnHeadersEnd, OnHeadersEndThrows,
                  HandleView, HandleUpload, SendResponse, ServeStatic, OnWriteHeaders, WriteFileChunk, WriteString, Overwrite, Withdraw, Touch
    <2>2. /\ Payload(response.body) = 0
          /\ response.body.kind = "string" => next = 1
      BY <2>1 DEF OnWriteOK
    <2>3. CASE response.body.kind = "file" /\ Fresh(response.body.path)
      <3>1. opened =< next
        BY <1>1, <2>2, <2>3, PayloadBounds DEF BodyInv, WritingInv
      <3>2. QED
        BY <1>1, <2>3, <3>1 DEF BodyInv, Types, ResponseInv, WritingInv
    <2>4. CASE response.body.kind # "file"
      BY <1>1, <2>2, <2>4 DEF BodyInv, ResponseInv, WritingInv
    <2>5. QED  BY <2>3, <2>4 DEF Fresh
  <1>2. QED  BY <1>1, BodyInit, BodyStep, PTL DEF Spec, LengthIsWritten

---------------------------------------------------------------------------
(* What answers                                                            *)

MatchInv == MatchedInv /\ MatchedIsServed

\* The two searches agree though "/" has become "/index.html" between them.
LEMMA StaticFindsSame ==
    ASSUME RootIsStatic, NEW method, NEW path
    PROVE  FindView(method, StaticPath(path)) = FindView(method, path)
  <1>1. DOMAIN Routes = 1..Len(Routes)
    BY RoutesAreTyped
  <1>2. CASE path = <<Slash>>
    <2>1. Matching(method, StaticPath(path)) = Matching(method, path)
      BY <1>1, <1>2 DEF RootIsStatic, Matching
    <2>2. QED  BY <2>1, FindViewIs
  <1>3. CASE path # <<Slash>>
    BY <1>3 DEF StaticPath
  <1>4. QED  BY <1>2, <1>3

LEMMA MatchInit == Init => MatchInv
  BY DEF Init, MatchInv, MatchedInv, MatchedIsServed

LEMMA MatchHeadersEnd ==
    ASSUME RootIsStatic, BodyInv, MatchInv, OnHeadersEnd PROVE MatchInv'
  <1>1. CASE MatchViewOrStatic(call.method, url.path)
    <2>1. /\ pc' = "handle" /\ UNCHANGED <<disk, call, touched>>
          /\ url' = [url EXCEPT !.path = StaticPath(url.path)]
          /\ matched' = [view |-> FindView(call.method, url.path),
                         path |-> StaticPath(url.path)]
      BY <1>1 DEF OnHeadersEnd
    <2>2. url'.path = StaticPath(url.path)
      BY <2>1 DEF BodyInv, Types
    <2>3. matched'.path = url'.path /\ matched'.view = FindView(call'.method, url'.path)
      BY <2>1, <2>2, StaticFindsSame
    <2>4. ASSUME matched'.view = NONE
          PROVE  call'.method = "GET" /\ Exists(url.path)'
      <3>1. ~MatchView(call.method, url.path)
        BY <2>1, <2>4, FoundIffMatched
      <3>2. call.method = "GET" /\ Exists(StaticPath(url.path))
        BY <1>1, <3>1 DEF MatchViewOrStatic
      <3>3. QED  BY <2>1, <2>2, <3>2 DEF Exists
    <2>5. MatchedInv'
      BY <2>1, <2>3, <2>4 DEF MatchedInv, Exists
    <2>6. QED  BY <2>1, <2>5 DEF MatchInv, MatchedIsServed
  <1>2. CASE ~MatchViewOrStatic(call.method, url.path)
    <2>1. pc' = "headers" /\ matched' = NONE
      BY <1>2 DEF OnHeadersEnd, MatchInv, MatchedInv
    <2>2. QED  BY <2>1 DEF MatchInv, MatchedInv, MatchedIsServed
  <1>3. QED  BY <1>1, <1>2

LEMMA MatchThrown ==
    ASSUME MatchInv, pc' = "thrown" PROVE MatchInv'
  BY DEF MatchInv, MatchedInv, MatchedIsServed

LEMMA MatchHandle ==
    ASSUME BodyInv, MatchInv, HandleView \/ HandleUpload \/ ServeStatic PROVE MatchInv'
  <1>1. /\ matched.path = url.path /\ matched.view = FindView(call.method, url.path)
        /\ matched.view = NONE =>
              call.method = "GET" /\ (Fresh(url.path) => Exists(url.path))
        /\ UNCHANGED <<matched, touched, call>>
    BY DEF HandleView, HandleUpload, ServeStatic, SendResponse, MatchInv, MatchedInv
  <1>2. CASE HandleView
    <2>1. pc' \in {"headers", "thrown"} /\ asked' = matched.view /\ matched.view # NONE
      BY <1>1, <1>2 DEF HandleView, SendResponse
    <2>2. QED  BY <1>1, <2>1 DEF MatchInv, MatchedInv, MatchedIsServed
  <1>3. CASE HandleUpload
    <2>1. /\ asked' = UploadView /\ matched.view = UploadView
          /\ pc' = "headers" \/ (pc' = "thrown" /\ call.form = NONE)
      BY <1>1, <1>3 DEF HandleUpload
    <2>2. UploadView # NONE
      BY RoutesAreTyped
    <2>3. QED  BY <1>1, <2>1, <2>2 DEF MatchInv, MatchedInv, MatchedIsServed
  <1>4. CASE ServeStatic
    <2>1. matched.view = NONE /\ call.method = "GET" /\ pc' = "headers" /\ UNCHANGED disk
      BY <1>1, <1>4 DEF ServeStatic, SendResponse
    <2>2. \/ response'.body.kind = "file" /\ response'.body.path = matched.path
          \/ /\ response'.status = 404
             /\ \/ matched.path \in touched
                \/ Exists(matched.path) /\ ~Opens(matched.path)
      BY <1>1, <1>4, <2>1 DEF ServeStatic, SendResponse, Response, NoBody, Fresh
    <2>3. QED
      BY <1>1, <2>1, <2>2 DEF MatchInv, MatchedInv, MatchedIsServed, Exists, Opens
  <1>5. QED  BY <1>2, <1>3, <1>4

LEMMA MatchWrite ==
    ASSUME BodyInv, MatchInv, OnWriteHeaders \/ WriteFileChunk \/ WriteString \/ OnWriteOK
    PROVE  MatchInv'
  <1>1. /\ UNCHANGED <<disk, asked, response, matched, touched, call>>
        /\ pc \in {"headers", "body"} /\ pc' \in {"body", "idle", "thrown"}
    BY DEF OnWriteHeaders, WriteFileChunk, WriteString, OnWriteOK, answer, writing
  <1>2. QED  BY <1>1 DEF MatchInv, MatchedInv, MatchedIsServed, Exists, Opens

LEMMA MatchTouch ==
    ASSUME BodyInv, MatchInv, NEW path \in Documents, Overwrite(path) \/ Withdraw(path)
    PROVE  MatchInv'
  <1>1. /\ UNCHANGED <<pc, call, url, asked, response, matched>>
        /\ touched' = touched \cup {path}
        /\ \A p \in Documents \ {path} : disk'[p] = disk[p]
    BY DEF BodyInv, Types, Overwrite, Withdraw, Touch, answer
  <1>2. MatchedInv'
    BY <1>1 DEF MatchInv, MatchedInv, Fresh, Exists
  <1>3. MatchedIsServed'
    BY <1>1 DEF MatchInv, MatchedIsServed, Exists, Opens
  <1>4. QED  BY <1>2, <1>3 DEF MatchInv

LEMMA MatchStep ==
    ASSUME RootIsStatic PROVE BodyInv /\ MatchInv /\ [Next]_vars => MatchInv'
  <1> SUFFICES ASSUME BodyInv, MatchInv, [Next]_vars PROVE MatchInv'
    OBVIOUS
  <1>1. CASE UNCHANGED vars
    BY <1>1 DEF vars, answer, MatchInv, MatchedInv, MatchedIsServed,
                Fresh, Exists, Opens
  <1>2. ASSUME NEW c \in Calls, SendRequest(c) PROVE MatchInv'
    BY <1>2 DEF SendRequest, MatchInv, MatchedInv, MatchedIsServed
  <1>3. CASE ServerStep
    BY <1>3, MatchHeadersEnd, MatchThrown, MatchHandle, MatchWrite
       DEF ServerStep, OnHeadersEndThrows
  <1>4. ASSUME NEW path \in Documents, Overwrite(path) \/ Withdraw(path) PROVE MatchInv'
    BY <1>4, MatchTouch
  <1>5. QED  BY <1>1, <1>2, <1>3, <1>4 DEF Next

LEMMA MatchAlways == ASSUME RootIsStatic PROVE Spec => []MatchInv
  <1>1. Init => BodyInv /\ MatchInv
    BY BodyInit, MatchInit
  <1>2. BodyInv /\ MatchInv /\ [Next]_vars => (BodyInv /\ MatchInv)'
    BY BodyStep, MatchStep
  <1>3. QED  BY <1>1, <1>2, PTL DEF Spec

\* server.h:88: the view or the file that was matched on the loop thread is the
\* one that answers on the worker, though both search anew and "/" has become
\* "/index.html" between them, unless the file changed meanwhile or cannot be
\* opened; for any table of routes that has "/" with "/index.html" or neither.
THEOREM MatchedIsAlwaysServed ==
    ASSUME RootIsStatic PROVE Spec => []MatchedIsServed
  BY MatchAlways, PTL DEF MatchInv

---------------------------------------------------------------------------
(* Percent encoding.  Decode() reads from the left to the right.           *)

\* What Decode() makes of each position, and where it goes on
DecodeOut(s) ==
    [i \in 1..Len(s) |-> IF s[i] = Percent
                         THEN <<16 * HexToDecimal(s[i+1]) + HexToDecimal(s[i+2])>>
                         ELSE <<s[i]>>]
DecodeTo(s) == [i \in 1..Len(s) |-> IF s[i] = Percent THEN i + 3 ELSE i + 1]

LEMMA HexRange == \A c \in HexDigits : HexToDecimal(c) \in 0..15
  BY DEF HexDigits, HexToDecimal

LEMMA DecodeScannable ==
    ASSUME NEW s \in Seq(Byte), Decodable(s)
    PROVE  Scannable(Len(s), Byte, DecodeOut(s), DecodeTo(s))
  <1>1. Len(s) \in Nat /\ DOMAIN s = 1..Len(s) /\ \A i \in 1..Len(s) : s[i] \in Byte
    OBVIOUS
  <1>2. ASSUME NEW i \in 1..Len(s)
        PROVE  DecodeOut(s)[i] \in Seq(Byte) /\ DecodeTo(s)[i] \in i + 1..Len(s) + 1
    <2>1. CASE s[i] = Percent
      <3>1. s[i+1] \in HexDigits /\ s[i+2] \in HexDigits /\ i + 2 =< Len(s)
        BY <1>1, <2>1 DEF Decodable
      <3>2. 16 * HexToDecimal(s[i+1]) + HexToDecimal(s[i+2]) \in Byte
        <4> DEFINE a == HexToDecimal(s[i+1])  b == HexToDecimal(s[i+2])
        <4>1. a \in 0..15 /\ b \in 0..15
          BY <3>1, HexRange
        <4> HIDE DEF a, b
        <4>2. 16 * a + b \in 0..255
          BY <4>1
        <4>3. QED  BY <4>2 DEF a, b, Byte
      <3>3. DecodeTo(s)[i] = i + 3
        BY <2>1 DEF DecodeTo
      <3>4. DecodeTo(s)[i] \in i + 1..Len(s) + 1
        BY <1>1, <3>1, <3>3
      <3>5. DecodeOut(s)[i] = <<16 * HexToDecimal(s[i+1]) + HexToDecimal(s[i+2])>>
        BY <2>1 DEF DecodeOut
      <3>6. QED  BY <3>2, <3>4, <3>5
    <2>2. CASE s[i] # Percent
      <3>1. DecodeTo(s)[i] = i + 1 /\ DecodeOut(s)[i] = <<s[i]>> /\ s[i] \in Byte
        BY <1>1, <2>2 DEF DecodeTo, DecodeOut
      <3>2. QED  BY <1>1, <3>1
    <2>3. QED  BY <2>1, <2>2
  <1>3. QED  BY <1>1, <1>2 DEF Scannable

LEMMA DecodeScans ==
    ASSUME NEW s \in Seq(Byte), Decodable(s)
    PROVE  \E f : Scan(f, Len(s), Byte, DecodeOut(s), DecodeTo(s)) /\ Decode(s) = f[1]
  <1> DEFINE n == Len(s)
             Item(h, i) == IF i > Len(s) THEN <<>>
                         ELSE IF s[i] = Percent
                              THEN <<16 * HexToDecimal(s[i+1]) + HexToDecimal(s[i+2])>> \o h[i+3]
                              ELSE <<s[i]>> \o h[i+1]
             Is(h) == h = [i \in 1..Len(s) + 1 |-> Item(h, i)]
  <1>0. Len(s) \in Nat
    OBVIOUS
  <1>1. PICK f \in [1..Len(s) + 1 -> Seq(Byte)] : Scans(f, Len(s), DecodeOut(s), DecodeTo(s))
    BY DecodeScannable, ScanExists, Zenon
  <1>2. ASSUME NEW h, NEW i \in 1..Len(s)
        PROVE  Item(h, i) = DecodeOut(s)[i] \o h[DecodeTo(s)[i]]
    <2>1. ~(i > Len(s))
      BY <1>0
    <2>2. CASE s[i] = Percent
      <3>1. /\ DecodeOut(s)[i] = <<16 * HexToDecimal(s[i+1]) + HexToDecimal(s[i+2])>>
            /\ DecodeTo(s)[i] = i + 3
        BY <2>2 DEF DecodeOut, DecodeTo
      <3>2. QED  BY <2>1, <2>2, <3>1, Zenon
    <2>3. CASE s[i] # Percent
      <3>1. DecodeOut(s)[i] = <<s[i]>> /\ DecodeTo(s)[i] = i + 1
        BY <2>3 DEF DecodeOut, DecodeTo
      <3>2. QED  BY <2>1, <2>3, <3>1, Zenon
    <2>4. QED  BY <2>2, <2>3
  <1>3. \A h : Item(h, Len(s) + 1) = <<>>
    <2>1. Len(s) + 1 > Len(s)
      BY <1>0
    <2>2. QED  BY <2>1, Zenon
  <1>4. \A i \in 1..Len(s) + 1 : i \in 1..Len(s) \/ i = Len(s) + 1
    BY <1>0
  <1>5. \A i \in 1..Len(s) : i \in 1..Len(s) + 1
    BY <1>0
  <1>6. Len(s) + 1 \in 1..Len(s) + 1 /\ 1 \in 1..Len(s) + 1
    BY <1>0
  <1>7. Is(f)
    <2>1. \A i \in 1..Len(s) + 1 : f[i] = Item(f, i)
      <3> HIDE DEF Item
      <3>1. QED  BY <1>1, <1>2, <1>3, <1>4, Zenon DEF Scans
    <2> HIDE DEF Item
    <2>2. f = [i \in 1..Len(s) + 1 |-> f[i]]
      BY <1>1
    <2>3. QED  BY <2>1, <2>2
  <1> DEFINE g == CHOOSE h : Is(h)
  <1>8. Is(g)
    <2> HIDE DEF Is
    <2>1. QED  BY <1>7, Zenon
  <1>9. Decode(s) = g[1]
    BY Zenon DEF Decode
  <1> HIDE DEF g
  <1>10. \A i \in 1..Len(s) + 1 : g[i] = Item(g, i)
    <2> HIDE DEF Item
    <2>1. QED  BY <1>8, Zenon
  <1> HIDE DEF Item, Is
  <1>11. Scans(g, Len(s), DecodeOut(s), DecodeTo(s))
    BY <1>2, <1>3, <1>5, <1>6, <1>10, Zenon DEF Scans
  <1>12. QED  BY <1>9, <1>11, DecodeScannable, Zenon DEF Scan

\* The bytes of a \o b, by position
LEMMA ConcatIs ==
    ASSUME NEW S, NEW a \in Seq(S), NEW b \in Seq(S)
    PROVE  /\ a \o b \in Seq(S) /\ Len(a \o b) = Len(a) + Len(b)
           /\ Len(a) \in Nat /\ Len(b) \in Nat
           /\ \A i \in 1..Len(a) : (a \o b)[i] = a[i]
           /\ \A i \in 1..Len(b) : (a \o b)[Len(a) + i] = b[i]
  BY ConcatProperties

LEMMA DecodableJoin ==
    ASSUME NEW a \in Seq(Byte), NEW b \in Seq(Byte), Decodable(a), Decodable(b)
    PROVE  Decodable(a \o b)
  <1> DEFINE n == Len(a)  m == Len(b)  c == a \o b
  <1>1. /\ c \in Seq(Byte) /\ Len(c) = n + m /\ n \in Nat /\ m \in Nat
        /\ \A i \in 1..n : c[i] = a[i]
        /\ \A i \in 1..m : c[n + i] = b[i]
    BY ConcatIs
  <1>2. /\ \A i \in 1..n : /\ a[i] =< 127
                           /\ a[i] = Percent => /\ i + 2 =< n /\ a[i+1] \in HexDigits
                                                /\ a[i+2] \in HexDigits
        /\ \A i \in 1..m : /\ b[i] =< 127
                           /\ b[i] = Percent => /\ i + 2 =< m /\ b[i+1] \in HexDigits
                                                /\ b[i+2] \in HexDigits
    <2>1. DOMAIN a = 1..n /\ DOMAIN b = 1..m
      OBVIOUS
    <2> HIDE DEF n, m
    <2>2. QED  BY <2>1, Zenon DEF Decodable, n, m
  <1>3. DOMAIN c = 1..Len(c)
    BY <1>1
  <1> HIDE DEF n, m, c
  <1>4. ASSUME NEW i \in 1..Len(c)
        PROVE  /\ c[i] =< 127
               /\ c[i] = Percent => /\ i + 2 =< Len(c) /\ c[i+1] \in HexDigits
                                    /\ c[i+2] \in HexDigits
    <2>1. CASE i =< n
      <3>1. i \in 1..n /\ c[i] = a[i] /\ a[i] =< 127
        BY <1>1, <1>2, <2>1
      <3>2. ASSUME a[i] = Percent
            PROVE  i + 2 =< n + m /\ c[i+1] \in HexDigits /\ c[i+2] \in HexDigits
        <4>1. i + 2 =< n /\ a[i+1] \in HexDigits /\ a[i+2] \in HexDigits
          BY <1>2, <3>1, <3>2
        <4>2. i + 1 \in 1..n /\ i + 2 \in 1..n /\ i + 2 =< n + m
          BY <1>1, <4>1
        <4>3. QED  BY <1>1, <4>1, <4>2
      <3>3. QED  BY <1>1, <3>1, <3>2
    <2>2. CASE i > n
      <3> DEFINE j == i - n
      <3>1. j \in 1..m /\ i = n + j /\ i + 1 = n + (j + 1) /\ i + 2 = n + (j + 2)
        BY <1>1, <2>2
      <3> HIDE DEF j
      <3>2. c[i] = b[j] /\ b[j] =< 127
        BY <1>1, <1>2, <3>1
      <3>3. ASSUME b[j] = Percent
            PROVE  i + 2 =< n + m /\ c[i+1] \in HexDigits /\ c[i+2] \in HexDigits
        <4>1. j + 2 =< m /\ b[j+1] \in HexDigits /\ b[j+2] \in HexDigits
          BY <1>2, <3>1, <3>3
        <4>2. j + 1 \in 1..m /\ j + 2 \in 1..m /\ i + 2 =< n + m
          BY <1>1, <3>1, <4>1
        <4>3. QED  BY <1>1, <3>1, <4>1, <4>2
      <3>4. QED  BY <1>1, <3>2, <3>3
    <2>3. QED  BY <1>1, <2>1, <2>2
  <1>5. QED  BY <1>3, <1>4, Zenon DEF c, Decodable

LEMMA DecodeJoin ==
    ASSUME NEW a \in Seq(Byte), NEW b \in Seq(Byte), Decodable(a), Decodable(b)
    PROVE  Decode(a \o b) = Decode(a) \o Decode(b)
  <1> DEFINE n == Len(a)  m == Len(b)  c == a \o b
  <1>1. /\ c \in Seq(Byte) /\ Len(c) = n + m /\ n \in Nat /\ m \in Nat
        /\ \A i \in 1..n : c[i] = a[i]
        /\ \A i \in 1..m : c[n + i] = b[i]
    BY ConcatIs
  <1>2. Decodable(c)
    BY DecodableJoin, Zenon
  <1>3. DOMAIN a = 1..n
    OBVIOUS
  <1> HIDE DEF n, m, c
  <1>4. ASSUME NEW i \in 1..n
        PROVE  DecodeOut(c)[i] = DecodeOut(a)[i] /\ DecodeTo(c)[i] = DecodeTo(a)[i]
    <2>1. c[i] = a[i] /\ i \in 1..Len(c)
      BY <1>1
    <2>2. CASE a[i] = Percent
      <3>1. i + 2 =< n
        BY <1>3, <2>2 DEF Decodable, n
      <3>2. i + 1 \in 1..n /\ i + 2 \in 1..n
        BY <1>1, <3>1
      <3>3. c[i+1] = a[i+1] /\ c[i+2] = a[i+2]
        BY <1>1, <3>2
      <3>4. QED  BY <2>1, <2>2, <3>3, Zenon DEF DecodeOut, DecodeTo, n
    <2>3. CASE a[i] # Percent
      BY <2>1, <2>3, Zenon DEF DecodeOut, DecodeTo, n
    <2>4. QED  BY <2>2, <2>3
  <1>5. ASSUME NEW i \in 1..m
        PROVE  DecodeOut(c)[n + i] = DecodeOut(b)[i] /\ DecodeTo(c)[n + i] = n + DecodeTo(b)[i]
    <2>1. c[n + i] = b[i] /\ n + i \in 1..Len(c)
      BY <1>1
    <2>2. CASE b[i] = Percent
      <3>1. i + 2 =< m
        <4>1. DOMAIN b = 1..m
          BY DEF m
        <4>2. QED  BY <2>2, <4>1 DEF Decodable, m
      <3>2. i + 1 \in 1..m /\ i + 2 \in 1..m /\ (n + i) + 1 = n + (i + 1) /\ (n + i) + 2 = n + (i + 2)
        BY <1>1, <3>1
      <3>3. c[(n + i) + 1] = b[i+1] /\ c[(n + i) + 2] = b[i+2]
        <4>1. c[n + (i + 1)] = b[i+1] /\ c[n + (i + 2)] = b[i+2]
          BY <1>1, <3>2, Zenon
        <4>2. QED  BY <3>2, <4>1
      <3>4. DecodeOut(c)[n + i] = DecodeOut(b)[i]
        BY <2>1, <2>2, <3>3, Zenon DEF DecodeOut, m
      <3>5. DecodeTo(c)[n + i] = (n + i) + 3 /\ DecodeTo(b)[i] = i + 3
        BY <2>1, <2>2, Zenon DEF DecodeTo, m
      <3>6. (n + i) + 3 = n + (i + 3)
        BY <1>1
      <3>7. QED  BY <3>4, <3>5, <3>6, Zenon
    <2>3. CASE b[i] # Percent
      <3>1. DecodeOut(c)[n + i] = DecodeOut(b)[i]
        BY <2>1, <2>3, Zenon DEF DecodeOut, m
      <3>2. DecodeTo(c)[n + i] = (n + i) + 1 /\ DecodeTo(b)[i] = i + 1
        BY <2>1, <2>3, Zenon DEF DecodeTo, m
      <3>3. (n + i) + 1 = n + (i + 1)
        BY <1>1
      <3>4. QED  BY <3>1, <3>2, <3>3, Zenon
    <2>4. QED  BY <2>2, <2>3
  <1>6. Joined(n, m, Len(c), DecodeOut(a), DecodeTo(a), DecodeOut(b), DecodeTo(b), DecodeOut(c), DecodeTo(c))
    BY <1>1, <1>4, <1>5, Zenon DEF Joined
  <1>7. PICK f : Scan(f, n, Byte, DecodeOut(a), DecodeTo(a)) /\ Decode(a) = f[1]
    BY DecodeScans, Zenon DEF n
  <1>8. PICK g : Scan(g, m, Byte, DecodeOut(b), DecodeTo(b)) /\ Decode(b) = g[1]
    BY DecodeScans, Zenon DEF m
  <1>9. PICK h : Scan(h, Len(c), Byte, DecodeOut(c), DecodeTo(c)) /\ Decode(c) = h[1]
    BY <1>1, <1>2, DecodeScans, Zenon
  <1>10. InTurn(h, f, g)
    BY <1>6, <1>7, <1>8, <1>9, ScanJoin
  <1>11. QED  BY <1>7, <1>8, <1>9, <1>10, Zenon DEF c, InTurn

\* The encoding of a character
Code(c, T) == IF c \in T THEN <<Percent, HexDigit(c \div 16), HexDigit(c % 16)>> ELSE <<c>>
Plain(c) == c =< 127 /\ c # Percent

LEMMA HexDigitIs ==
    \A n \in 0..15 : /\ HexDigit(n) \in HexDigits /\ HexDigit(n) \in Byte
                     /\ HexDigit(n) # Percent /\ HexDigit(n) =< 127
                     /\ HexToDecimal(HexDigit(n)) = n
                     /\ HexDigit(n) \notin {Ampersand, Equals}
  BY DEF HexDigit, HexDigits, HexToDecimal, Byte, Percent, Ampersand, Equals

LEMMA Halves ==
    \A c \in Byte : c \div 16 \in 0..15 /\ c % 16 \in 0..15 /\ 16 * (c \div 16) + (c % 16) = c
  <1>1. ASSUME NEW c \in 0..255
        PROVE  c \div 16 \in 0..15 /\ c % 16 \in 0..15 /\ 16 * (c \div 16) + (c % 16) = c
    <2>1. c \in Int /\ 0 =< c /\ c =< 255
      OBVIOUS
    <2>2. 16 * (c \div 16) + (c % 16) = c
      BY <2>1
    <2>3. c % 16 \in 0..15
      BY <2>1
    <2>4. c \div 16 \in 0..15
      BY <2>1
    <2>5. QED  BY <2>2, <2>3, <2>4
  <1>2. QED  BY <1>1 DEF Byte

LEMMA CodeIs ==
    ASSUME NEW T, NEW c \in Byte, c \in T \/ Plain(c)
    PROVE  /\ Code(c, T) \in Seq(Byte) /\ Decodable(Code(c, T))
           /\ Decode(Code(c, T)) = <<c>>
           /\ \A d \in {Ampersand, Equals} :
                 d # c => \A i \in 1..Len(Code(c, T)) : Code(c, T)[i] # d
  <1>1. CASE c \in T
    <2> DEFINE x == HexDigit(c \div 16)  y == HexDigit(c % 16)  s == <<Percent, x, y>>
    <2>1. /\ x \in HexDigits /\ y \in HexDigits /\ x \in Byte /\ y \in Byte
          /\ x # Percent /\ y # Percent /\ x =< 127 /\ y =< 127
          /\ x \notin {Ampersand, Equals} /\ y \notin {Ampersand, Equals}
      BY Halves, HexDigitIs
    <2>2. 16 * HexToDecimal(x) + HexToDecimal(y) = c
      <3>1. HexToDecimal(x) = c \div 16 /\ HexToDecimal(y) = c % 16
        BY Halves, HexDigitIs
      <3>2. QED  BY <3>1, Halves
    <2> HIDE DEF x, y
    <2>3. /\ s \in Seq(Byte) /\ Len(s) = 3 /\ s[1] = Percent /\ s[2] = x /\ s[3] = y
          /\ DOMAIN s = 1..3
      BY <2>1 DEF Byte, Percent
    <2>4. Code(c, T) = s
      BY <1>1, Zenon DEF Code, x, y
    <2> HIDE DEF s
    <2>5. \A i \in 1..3 : i = 1 \/ i = 2 \/ i = 3
      OBVIOUS
    <2>6. Decodable(s)
      <3>1. ASSUME NEW i \in 1..3
            PROVE  /\ s[i] =< 127
                   /\ s[i] = Percent => i + 2 =< 3 /\ s[i+1] \in HexDigits /\ s[i+2] \in HexDigits
        BY <2>1, <2>3, <2>5 DEF Percent
      <3>2. QED  BY <2>3, <3>1 DEF Decodable
    <2>7. Decode(s) = <<c>>
      <3>1. PICK f : Scan(f, Len(s), Byte, DecodeOut(s), DecodeTo(s)) /\ Decode(s) = f[1]
        BY <2>3, <2>6, DecodeScans, Zenon
      <3>2. f[4] = <<>> /\ f[1] = DecodeOut(s)[1] \o f[DecodeTo(s)[1]]
        <4>1. Len(s) + 1 = 4 /\ 1 \in 1..Len(s)
          BY <2>3
        <4>2. QED  BY <3>1, <4>1, Zenon DEF Scan, Scans
      <3>3. DecodeOut(s)[1] = <<c>> /\ DecodeTo(s)[1] = 4
        BY <2>2, <2>3 DEF DecodeOut, DecodeTo
      <3>4. <<c>> \o <<>> = <<c>>
        OBVIOUS
      <3>5. QED  BY <3>1, <3>2, <3>3, <3>4, Zenon
    <2>8. \A d \in {Ampersand, Equals} : \A i \in 1..3 : s[i] # d
      BY <2>1, <2>3, <2>5 DEF Percent, Ampersand, Equals
    <2>9. QED  BY <2>3, <2>4, <2>6, <2>7, <2>8, Zenon
  <1>2. CASE c \notin T
    <2> DEFINE s == <<c>>
    <2>1. /\ s \in Seq(Byte) /\ Len(s) = 1 /\ s[1] = c /\ DOMAIN s = 1..1
          /\ \A i \in 1..1 : i = 1
      OBVIOUS
    <2>2. Code(c, T) = s
      BY <1>2, Zenon DEF Code
    <2>3. c =< 127 /\ c # Percent
      BY <1>2 DEF Plain
    <2> HIDE DEF s
    <2>4. Decodable(s)
      BY <2>1, <2>3 DEF Decodable
    <2>5. Decode(s) = <<c>>
      <3>1. PICK f : Scan(f, Len(s), Byte, DecodeOut(s), DecodeTo(s)) /\ Decode(s) = f[1]
        BY <2>1, <2>4, DecodeScans, Zenon
      <3>2. f[2] = <<>> /\ f[1] = DecodeOut(s)[1] \o f[DecodeTo(s)[1]]
        <4>1. Len(s) + 1 = 2 /\ 1 \in 1..Len(s)
          BY <2>1
        <4>2. QED  BY <3>1, <4>1, Zenon DEF Scan, Scans
      <3>3. DecodeOut(s)[1] = <<c>> /\ DecodeTo(s)[1] = 2
        BY <2>1, <2>3 DEF DecodeOut, DecodeTo
      <3>4. <<c>> \o <<>> = <<c>>
        OBVIOUS
      <3>5. QED  BY <3>1, <3>2, <3>3, <3>4, Zenon
    <2>6. \A d \in {Ampersand, Equals} : d # c => \A i \in 1..1 : s[i] # d
      BY <2>1
    <2>7. QED  BY <2>1, <2>2, <2>4, <2>5, <2>6, Zenon
  <1>3. QED  BY <1>1, <1>2, Zenon

\* d does not occur in s.
Without(s, d) == \A i \in 1..Len(s) : s[i] # d

LEMMA WithoutJoin ==
    ASSUME NEW a \in Seq(Byte), NEW b \in Seq(Byte), NEW d, Without(a, d), Without(b, d)
    PROVE  Without(a \o b, d)
  <1> DEFINE n == Len(a)  m == Len(b)  c == a \o b
  <1>1. /\ Len(c) = n + m /\ n \in Nat /\ m \in Nat
        /\ \A i \in 1..n : c[i] = a[i]
        /\ \A i \in 1..m : c[n + i] = b[i]
    BY ConcatIs
  <1>2. (\A i \in 1..n : a[i] # d) /\ (\A i \in 1..m : b[i] # d)
    BY DEF Without
  <1> HIDE DEF n, m, c
  <1>3. ASSUME NEW i \in 1..Len(c) PROVE c[i] # d
    <2>1. CASE i =< n
      BY <1>1, <1>2, <2>1
    <2>2. CASE i > n
      <3> DEFINE j == i - n
      <3>1. j \in 1..m /\ i = n + j
        BY <1>1, <2>2
      <3> HIDE DEF j
      <3>2. QED  BY <1>1, <1>2, <3>1
    <2>3. QED  BY <1>1, <2>1, <2>2
  <1>4. QED  BY <1>3, Zenon DEF c, Without

Codes(s, T) == [i \in 1..Len(s) |-> Code(s[i], T)]
Suits(s, T) == \A i \in 1..Len(s) : s[i] \in T \/ Plain(s[i])

LEMMA EncodeIs ==
    ASSUME NEW T, NEW s \in Seq(Byte) PROVE EncodeImpl(s, T) = First(Codes(s, T), Len(s))
  <1>1. DOMAIN s = 1..Len(s)
    OBVIOUS
  <1> DEFINE piece(i) == IF s[i] \in T
                         THEN <<Percent, HexDigit(s[i] \div 16), HexDigit(s[i] % 16)>>
                         ELSE <<s[i]>>
  <1>2. \A i \in 1..Len(s) : Codes(s, T)[i] = piece(i)
    BY Zenon DEF Codes, Code
  <1> HIDE DEF piece
  <1>3. [i \in 1..Len(s) |-> Codes(s, T)[i]] = [i \in DOMAIN s |-> piece(i)]
    BY <1>1, <1>2
  <1>4. QED  BY <1>3, Zenon DEF EncodeImpl, First, piece

\* What the encoding e of the first k characters of s is
Encodes(e, s, k) ==
    /\ e \in Seq(Byte) /\ Decodable(e) /\ Decode(e) = SubSeq(s, 1, k)
    /\ \A d \in {Ampersand, Equals} : Without(s, d) => Without(e, d)

LEMMA EncodeStep ==
    ASSUME NEW T, NEW s \in Seq(Byte), Suits(s, T), NEW k \in 0..Len(s)
    PROVE  Encodes(First(Codes(s, T), k), s, k)
  <1> DEFINE p == Codes(s, T)
             I == {j \in Nat : j =< Len(s) => Encodes(First(p, j), s, j)}
  <1>0. Len(s) \in Nat /\ \A i \in 1..Len(s) : s[i] \in Byte
    OBVIOUS
  <1>1. \A i \in 1..Len(s) : p[i] = Code(s[i], T)
    BY DEF Codes
  <1>2. ASSUME NEW i \in 1..Len(s)
        PROVE  /\ p[i] \in Seq(Byte) /\ Decodable(p[i]) /\ Decode(p[i]) = <<s[i]>>
               /\ \A d \in {Ampersand, Equals} : d # s[i] => Without(p[i], d)
    <2>1. s[i] \in T \/ Plain(s[i])
      BY DEF Suits
    <2>2. QED  BY <1>0, <1>1, <2>1, CodeIs, Zenon DEF Without
  <1>3. Sequences(p, Len(s), Byte)
    BY <1>0, <1>2 DEF Sequences
  <1> HIDE DEF p
  <1>4. /\ First(p, 0) = <<>>
        /\ \A m \in 0..Len(s) : First(p, m) \in Seq(Byte)
        /\ \A m \in 0..Len(s) - 1 : First(p, m + 1) = First(p, m) \o p[m + 1]
    BY <1>3, FirstStep, Zenon
  <1>5. 0 \in I
    <2> DEFINE e == <<>>
    <2>1. e \in Seq(Byte) /\ Len(e) = 0 /\ DOMAIN e = {} /\ 1..0 = {}
      OBVIOUS
    <2>2. SubSeq(s, 1, 0) = <<>>
      BY SubSeqEmpty
    <2> HIDE DEF e
    <2>3. Decodable(e) /\ \A d : Without(e, d)
      BY <2>1, Zenon DEF Decodable, Without
    <2>4. Decode(e) = <<>>
      <3>1. PICK f : Scan(f, Len(e), Byte, DecodeOut(e), DecodeTo(e)) /\ Decode(e) = f[1]
        BY <2>1, <2>3, DecodeScans, Zenon
      <3>2. Len(e) + 1 = 1
        BY <2>1
      <3>3. QED  BY <3>1, <3>2, Zenon DEF Scan, Scans
    <2>5. Encodes(First(p, 0), s, 0)
      BY <1>4, <2>1, <2>2, <2>3, <2>4, Zenon DEF Encodes, e
    <2>6. QED  BY <2>5, Zenon
  <1>6. ASSUME NEW j \in Nat, j \in I PROVE j + 1 \in I
    <2>1. SUFFICES ASSUME j + 1 =< Len(s) PROVE Encodes(First(p, j + 1), s, j + 1)
      OBVIOUS
    <2>2. j \in 0..Len(s) /\ j \in 0..Len(s) - 1 /\ j + 1 \in 1..Len(s) /\ j =< Len(s)
      BY <1>0, <2>1
    <2>3. Encodes(First(p, j), s, j)
      BY <1>6, <2>2, Zenon
    <2> DEFINE a == First(p, j)  b == p[j + 1]
    <2>4. First(p, j + 1) = a \o b
      BY <1>4, <2>2, Zenon
    <2>5. /\ a \in Seq(Byte) /\ Decodable(a) /\ Decode(a) = SubSeq(s, 1, j)
          /\ b \in Seq(Byte) /\ Decodable(b) /\ Decode(b) = <<s[j + 1]>>
          /\ \A d \in {Ampersand, Equals} : Without(s, d) => Without(a, d)
          /\ \A d \in {Ampersand, Equals} : d # s[j + 1] => Without(b, d)
      BY <1>2, <2>2, <2>3, Zenon DEF Encodes
    <2> HIDE DEF a, b
    <2>6. a \o b \in Seq(Byte)
      BY <2>5, ConcatProperties
    <2>7. Decodable(a \o b) /\ Decode(a \o b) = SubSeq(s, 1, j) \o <<s[j + 1]>>
      BY <2>5, DecodableJoin, DecodeJoin, Zenon
    <2>8. SubSeq(s, 1, j + 1) = SubSeq(s, 1, j) \o <<s[j + 1]>>
      <3> DEFINE i == j + 1
      <3>1. 1 \in 1..Len(s) /\ i \in 1..Len(s) /\ i - 1 = j
        BY <1>0, <2>2
      <3> HIDE DEF i
      <3>2. SubSeq(s, 1, i) = SubSeq(s, 1, i - 1) \o <<s[i]>>
        BY <3>1, SubSeqRecursiveSecond
      <3>3. QED  BY <3>1, <3>2, Zenon DEF i
    <2>9. \A d \in {Ampersand, Equals} : Without(s, d) => Without(a \o b, d)
      <3>1. \A d : Without(s, d) => d # s[j + 1]
        BY <2>2 DEF Without
      <3>2. QED  BY <2>5, <3>1, WithoutJoin, Zenon
    <2>10. QED  BY <2>4, <2>6, <2>7, <2>8, <2>9, Zenon DEF Encodes
  <1> HIDE DEF I
  <1>7. Nat \subseteq I
    BY <1>5, <1>6, Induction
  <1>8. k \in Nat /\ k =< Len(s)
    OBVIOUS
  <1>9. k \in I
    BY <1>7, <1>8, Zenon
  <1>10. QED  BY <1>8, <1>9, Zenon DEF I, p

LEMMA EncodeFacts ==
    ASSUME NEW T, NEW s \in Seq(Byte), Suits(s, T)
    PROVE  /\ EncodeImpl(s, T) \in Seq(Byte)
           /\ DecodeUnsafe(EncodeImpl(s, T)) = s
           /\ \A d \in {Ampersand, Equals} : Without(s, d) => Without(EncodeImpl(s, T), d)
  <1>1. Len(s) \in 0..Len(s)
    OBVIOUS
  <1>2. Encodes(EncodeImpl(s, T), s, Len(s))
    BY <1>1, EncodeStep, EncodeIs, Zenon
  <1>3. SubSeq(s, 1, Len(s)) = s
    BY SubSeqFull
  <1>4. QED  BY <1>2, <1>3, Zenon DEF Encodes, DecodeUnsafe

LEMMA LegalIsPlain ==
    \A c \in Byte : IsQueryChar(c) \/ IsPathChar(c) => c =< 127
  BY DEF Byte, IsQueryChar, IsPathChar, IsUnreserved, IsAlNum, IsSubDelim, Percent, Slash,
         Colon, At, Question

\* url.cc:30-98: what EncodeQuery() and EncodePath() made of a string, Decode()
\* makes a string of again, for any bytes; and EncodeQuery() adds no "&" or "=".
THEOREM DecodeAfterEncode ==
    \A s \in Seq(Byte) :
        /\ DecodeUnsafe(EncodeQuery(s)) = s /\ DecodeUnsafe(EncodePath(s)) = s
        /\ EncodeQuery(s) \in Seq(Byte)
        /\ \A d \in {Ampersand, Equals} : Without(s, d) => Without(EncodeQuery(s), d)
  <1>1. ASSUME NEW s \in Seq(Byte)
        PROVE  /\ DecodeUnsafe(EncodeQuery(s)) = s /\ DecodeUnsafe(EncodePath(s)) = s
               /\ EncodeQuery(s) \in Seq(Byte)
               /\ \A d \in {Ampersand, Equals} : Without(s, d) => Without(EncodeQuery(s), d)
    <2> DEFINE Q == {c \in ToSet(s) : ~IsQueryChar(c) \/ c \in {Percent, Plus}}
               P == {c \in ToSet(s) : ~IsPathChar(c) \/ c \in {Percent, Plus}}
    <2>1. \A i \in 1..Len(s) : s[i] \in ToSet(s) /\ s[i] \in Byte
      BY DEF ToSet
    <2>2. Suits(s, Q) /\ Suits(s, P)
      BY <2>1, LegalIsPlain, Zenon DEF Suits, Plain
    <2>3. EncodeQuery(s) = EncodeImpl(s, Q) /\ EncodePath(s) = EncodeImpl(s, P)
      BY Zenon DEF EncodeQuery, EncodePath
    <2> HIDE DEF Q, P
    <2>4. QED  BY <2>2, <2>3, EncodeFacts, Zenon
  <1>2. QED  BY <1>1, Zenon

---------------------------------------------------------------------------
(* Queries.  UrlQuery() reads from the left to the right as well, from one *)
(* "&" to the next.                                                        *)

\* j is the first position from i on where s has c, or the end.
NextAt(j, s, c, i) ==
    /\ j \in i..Len(s) + 1
    /\ j =< Len(s) => s[j] = c
    /\ \A k \in i..j - 1 : s[k] # c

LEMMA FindFromIs ==
    ASSUME NEW s \in Seq(Byte), NEW c, NEW i \in 1..Len(s) + 1
    PROVE  /\ NextAt(FindFrom(s, c, i), s, c, i)
           /\ \A j : NextAt(j, s, c, i) => FindFrom(s, c, i) = j
  <1> DEFINE I == {k \in i..Len(s) : s[k] = c}
  <1>0. Len(s) \in Nat
    OBVIOUS
  <1>1. I \subseteq Nat /\ 0 \notin I
    BY <1>0
  <1>2. FindFrom(s, c, i) = IF I # {} THEN Min(I) ELSE Len(s) + 1
    <2> DEFINE found == SelectInSubSeq(s, i, Len(s), LAMBDA d : d = c)
    <2>1. found = IF I # {} THEN Min(I) ELSE 0
      BY Zenon DEF SelectInSubSeq
    <2>2. FindFrom(s, c, i) = IF found = 0 THEN Len(s) + 1 ELSE found
      BY Zenon DEF FindFrom
    <2> HIDE DEF found, I
    <2>3. I # {} => Min(I) \in I
      BY <1>1, Smallest
    <2>4. QED  BY <1>1, <2>1, <2>2, <2>3, Zenon
  <1>3. CASE I # {}
    <2> DEFINE m == Min(I)
    <2>1. /\ m \in I /\ \A k \in I : m =< k
          /\ \A j \in I : (\A k \in I : j =< k) => m = j
      <3> HIDE DEF I
      <3>1. QED  BY <1>1, <1>3, Smallest
    <2>2. FindFrom(s, c, i) = m
      BY <1>2, <1>3
    <2> HIDE DEF m
    <2>3. NextAt(m, s, c, i)
      <3>1. m \in i..Len(s) /\ s[m] = c
        BY <2>1
      <3>2. ASSUME NEW k \in i..m - 1 PROVE s[k] # c
        <4>1. k \in i..Len(s) /\ ~(m =< k)
          BY <1>0, <3>1
        <4>2. k \notin I
          BY <2>1, <4>1
        <4>3. QED  BY <4>1, <4>2
      <3>3. m \in i..Len(s) + 1
        BY <1>0, <3>1
      <3>4. QED  BY <3>1, <3>2, <3>3, Zenon DEF NextAt
    <2>4. ASSUME NEW j, NextAt(j, s, c, i) PROVE m = j
      <3>1. j \in i..Len(s) + 1 /\ (j =< Len(s) => s[j] = c) /\ \A k \in i..j - 1 : s[k] # c
        BY <2>4 DEF NextAt
      <3>2. m \in i..Len(s) /\ s[m] = c
        BY <2>1
      <3>3. m \notin i..j - 1
        BY <3>1, <3>2
      <3>4. j =< m
        BY <1>0, <3>1, <3>2, <3>3
      <3>5. j \in i..Len(s)
        BY <1>0, <3>1, <3>2, <3>4
      <3>6. j \in I
        BY <3>1, <3>5
      <3>7. m =< j
        BY <2>1, <3>6
      <3>8. QED  BY <3>2, <3>4, <3>5, <3>7
    <2>5. QED  BY <2>2, <2>3, <2>4
  <1>4. CASE I = {}
    <2>1. FindFrom(s, c, i) = Len(s) + 1 /\ \A k \in i..Len(s) : s[k] # c
      BY <1>2, <1>4
    <2>2. (Len(s) + 1) - 1 = Len(s) /\ ~(Len(s) + 1 =< Len(s)) /\ Len(s) + 1 \in i..Len(s) + 1
      BY <1>0
    <2>3. NextAt(Len(s) + 1, s, c, i)
      BY <2>1, <2>2, Zenon DEF NextAt
    <2>4. ASSUME NEW j, NextAt(j, s, c, i) PROVE j = Len(s) + 1
      <3>1. j \in i..Len(s) + 1 /\ (j =< Len(s) => s[j] = c)
        BY <2>4 DEF NextAt
      <3>2. j =< Len(s) => j \in i..Len(s)
        BY <1>0, <3>1
      <3>3. ~(j =< Len(s))
        BY <2>1, <3>1, <3>2
      <3>4. QED  BY <1>0, <3>1, <3>3
    <2>5. QED  BY <2>1, <2>3, <2>4, Zenon
  <1>5. QED  BY <1>3, <1>4

\* What UrlQuery() makes of the piece from each position, and where it goes on
QueryPiece(q, i) == SubSeq(q, i, FindFrom(q, Ampersand, i) - 1)
QueryPart(kv) == IF HasKey(kv) THEN <<Parameter(kv)>> ELSE <<>>
QueryOut(q) == [i \in 1..Len(q) + 1 |-> QueryPart(QueryPiece(q, i))]
QueryTo(q) == [i \in 1..Len(q) + 1 |-> FindFrom(q, Ampersand, i) + 1]
Pairs == {Parameter(kv) : kv \in Seq(Byte)}

LEMMA Slice ==
    ASSUME NEW q \in Seq(Byte), NEW i \in 1..Len(q) + 1, NEW j \in i - 1..Len(q)
    PROVE  SubSeq(q, i, j) \in Seq(Byte)
  <1>1. i \in Int /\ j \in Int /\ \A k \in i..j : q[k] \in Byte
    OBVIOUS
  <1>2. QED  BY <1>1, SubSeqProperties

LEMMA QueryScannable ==
    ASSUME NEW q \in Seq(Byte)
    PROVE  Scannable(Len(q) + 1, Pairs, QueryOut(q), QueryTo(q))
  <1>0. Len(q) \in Nat
    OBVIOUS
  <1>1. ASSUME NEW i \in 1..Len(q) + 1
        PROVE  QueryOut(q)[i] \in Seq(Pairs) /\ QueryTo(q)[i] \in i + 1..(Len(q) + 1) + 1
    <2> DEFINE j == FindFrom(q, Ampersand, i)
    <2>1. j \in i..Len(q) + 1
      BY FindFromIs, Zenon DEF NextAt
    <2>2. QueryTo(q)[i] = j + 1
      BY DEF QueryTo
    <2> HIDE DEF j
    <2>3. QueryTo(q)[i] \in i + 1..(Len(q) + 1) + 1
      BY <1>0, <2>1, <2>2
    <2>4. QueryPiece(q, i) \in Seq(Byte)
      <3> DEFINE l == j - 1
      <3>1. l \in i - 1..Len(q)
        BY <1>0, <2>1
      <3> HIDE DEF l
      <3>2. SubSeq(q, i, l) \in Seq(Byte)
        BY <3>1, Slice
      <3>3. QED  BY <3>2, Zenon DEF l, j, QueryPiece
    <2>5. Parameter(QueryPiece(q, i)) \in Pairs
      BY <2>4, Zenon DEF Pairs
    <2> DEFINE x == Parameter(QueryPiece(q, i))
    <2>6. x \in Pairs
      BY <2>5
    <2> HIDE DEF x
    <2>7. <<x>> \in Seq(Pairs) /\ <<>> \in Seq(Pairs)
      BY <2>6
    <2>8. QueryOut(q)[i] \in {<<x>>, <<>>}
      BY DEF QueryOut, QueryPart, x
    <2>9. QED  BY <2>3, <2>7, <2>8
  <1>2. Len(q) + 1 \in Nat
    BY <1>0
  <1>3. QED  BY <1>1, <1>2, Zenon DEF Scannable

LEMMA QueryScans ==
    ASSUME NEW q \in Seq(Byte)
    PROVE  \E f : Scan(f, Len(q) + 1, Pairs, QueryOut(q), QueryTo(q)) /\ UrlQuery(q) = f[1]
  <1> DEFINE Item(h, i) == IF i > Len(q) + 1 THEN <<>>
                         ELSE LET j  == FindFrom(q, Ampersand, i)
                                  kv == SubSeq(q, i, j - 1)
                              IN  (IF HasKey(kv) THEN <<Parameter(kv)>> ELSE <<>>) \o h[j + 1]
             Is(h) == h = [i \in 1..Len(q) + 2 |-> Item(h, i)]
  <1>0. Len(q) \in Nat /\ (Len(q) + 1) + 1 = Len(q) + 2
    OBVIOUS
  <1>1. PICK f \in [1..Len(q) + 2 -> Seq(Pairs)] : Scans(f, Len(q) + 1, QueryOut(q), QueryTo(q))
    BY <1>0, QueryScannable, ScanExists, Zenon
  <1>2. ASSUME NEW h, NEW i \in 1..Len(q) + 1
        PROVE  Item(h, i) = QueryOut(q)[i] \o h[QueryTo(q)[i]]
    <2>1. ~(i > Len(q) + 1)
      BY <1>0
    <2>2. Item(h, i) = QueryPart(QueryPiece(q, i)) \o h[FindFrom(q, Ampersand, i) + 1]
      BY <2>1, Zenon DEF QueryPart, QueryPiece
    <2>3. /\ QueryOut(q)[i] = QueryPart(QueryPiece(q, i))
          /\ QueryTo(q)[i] = FindFrom(q, Ampersand, i) + 1
      BY Zenon DEF QueryOut, QueryTo
    <2> HIDE DEF Item
    <2>4. QED  BY <2>2, <2>3, Zenon
  <1>3. \A h : Item(h, (Len(q) + 1) + 1) = <<>>
    <2>1. (Len(q) + 1) + 1 > Len(q) + 1
      BY <1>0
    <2>2. QED  BY <2>1, Zenon
  <1>4. \A i \in 1..Len(q) + 2 : i \in 1..Len(q) + 1 \/ i = (Len(q) + 1) + 1
    BY <1>0
  <1>5. \A i \in 1..Len(q) + 1 : i \in 1..Len(q) + 2
    BY <1>0
  <1>6. (Len(q) + 1) + 1 \in 1..Len(q) + 2
    BY <1>0
  <1>7. Is(f)
    <2>1. \A i \in 1..Len(q) + 2 : f[i] = Item(f, i)
      <3> HIDE DEF Item
      <3>1. QED  BY <1>1, <1>2, <1>3, <1>4, Zenon DEF Scans
    <2> HIDE DEF Item
    <2>2. f = [i \in 1..Len(q) + 2 |-> f[i]]
      BY <1>1
    <2>3. QED  BY <2>1, <2>2
  <1> DEFINE g == CHOOSE h : Is(h)
  <1>8. Is(g)
    <2> HIDE DEF Is
    <2>1. QED  BY <1>7, Zenon
  <1>9. UrlQuery(q) = g[1]
    BY Zenon DEF UrlQuery
  <1> HIDE DEF g
  <1>10. \A i \in 1..Len(q) + 2 : g[i] = Item(g, i)
    <2> HIDE DEF Item
    <2>1. QED  BY <1>8, Zenon
  <1> HIDE DEF Item, Is
  <1>11. Scans(g, Len(q) + 1, QueryOut(q), QueryTo(q))
    BY <1>2, <1>3, <1>5, <1>6, <1>10, Zenon DEF Scans
  <1>12. QED  BY <1>9, <1>11, QueryScannable, Zenon DEF Scan

\* A query without "&" is at most one parameter.
LEMMA OneParameter ==
    ASSUME NEW q \in Seq(Byte), Without(q, Ampersand) PROVE UrlQuery(q) = QueryPart(q)
  <1>0. Len(q) \in Nat /\ 1 \in 1..Len(q) + 1
    OBVIOUS
  <1>1. NextAt(Len(q) + 1, q, Ampersand, 1)
    <2>1. (Len(q) + 1) - 1 = Len(q) /\ ~(Len(q) + 1 =< Len(q)) /\ Len(q) + 1 \in 1..Len(q) + 1
      BY <1>0
    <2>2. QED  BY <2>1, Zenon DEF NextAt, Without
  <1>2. FindFrom(q, Ampersand, 1) = Len(q) + 1
    BY <1>0, <1>1, FindFromIs, Zenon
  <1>3. QueryPiece(q, 1) = q
    <2>1. SubSeq(q, 1, Len(q)) = q /\ (Len(q) + 1) - 1 = Len(q)
      BY <1>0, SubSeqFull
    <2>2. QED  BY <1>2, <2>1, Zenon DEF QueryPiece
  <1>4. PICK f : Scan(f, Len(q) + 1, Pairs, QueryOut(q), QueryTo(q)) /\ UrlQuery(q) = f[1]
    BY QueryScans, Zenon
  <1>5. f[1] = QueryOut(q)[1] \o f[QueryTo(q)[1]] /\ f[(Len(q) + 1) + 1] = <<>>
    BY <1>0, <1>4, Zenon DEF Scan, Scans
  <1>6. QueryOut(q)[1] = QueryPart(q) /\ QueryTo(q)[1] = (Len(q) + 1) + 1
    BY <1>0, <1>2, <1>3, Zenon DEF QueryOut, QueryTo
  <1>7. QueryPart(q) \o <<>> = QueryPart(q)
    <2>1. QueryPart(q) \in Seq(Pairs)
      BY <1>0, <1>6, QueryScannable, Zenon DEF Scannable
    <2>2. QED  BY <2>1, ConcatEmptySeq
  <1>8. QED  BY <1>4, <1>5, <1>6, <1>7, Zenon

\* The slices of q agree with those of p that lie d positions before them.
LEMMA SameSlice ==
    ASSUME NEW p \in Seq(Byte), NEW q \in Seq(Byte), NEW d \in Nat,
           NEW i \in 1..Len(p) + 1, NEW j \in i - 1..Len(p), d + Len(p) =< Len(q),
           \A k \in 1..Len(p) : q[d + k] = p[k]
    PROVE  SubSeq(q, d + i, d + j) = SubSeq(p, i, j)
  <1> DEFINE x == SubSeq(q, d + i, d + j)  y == SubSeq(p, i, j)
  <1>0. Len(p) \in Nat /\ Len(q) \in Nat /\ i \in Int /\ j \in Int
    OBVIOUS
  <1>1. /\ y \in Seq(Byte) /\ Len(y) = j - i + 1
        /\ \A k \in 1..j - i + 1 : y[k] = p[i + k - 1]
    <2>1. \A k \in i..j : p[k] \in Byte
      OBVIOUS
    <2>2. /\ SubSeq(p, i, j) \in Seq(Byte)
          /\ Len(SubSeq(p, i, j)) = IF i =< j THEN j - i + 1 ELSE 0
          /\ \A k \in 1..j - i + 1 : SubSeq(p, i, j)[k] = p[i + k - 1]
      BY <1>0, <2>1, SubSeqProperties
    <2>3. (IF i =< j THEN j - i + 1 ELSE 0) = j - i + 1
      BY <1>0
    <2>4. QED  BY <2>2, <2>3, Zenon
  <1>2. /\ x \in Seq(Byte) /\ Len(x) = j - i + 1
        /\ \A k \in 1..j - i + 1 : x[k] = q[(d + i) + k - 1]
    <2> DEFINE m == d + i  n == d + j
    <2>1. m \in Int /\ n \in Int /\ n - m + 1 = j - i + 1 /\ \A k \in m..n : k \in 1..Len(q)
      BY <1>0
    <2>2. \A k \in m..n : q[k] \in Byte
      BY <2>1
    <2> HIDE DEF m, n
    <2>3. /\ SubSeq(q, m, n) \in Seq(Byte)
          /\ Len(SubSeq(q, m, n)) = IF m =< n THEN n - m + 1 ELSE 0
          /\ \A k \in 1..n - m + 1 : SubSeq(q, m, n)[k] = q[m + k - 1]
      BY <2>1, <2>2, SubSeqProperties
    <2>4. (IF m =< n THEN n - m + 1 ELSE 0) = j - i + 1
      <3>1. n - m + 1 = 0 \/ n - m + 1 > 0
        BY <1>0, <2>1
      <3>2. QED  BY <2>1, <3>1
    <2>5. QED  BY <2>1, <2>3, <2>4, Zenon DEF m, n
  <1> HIDE DEF x, y
  <1>3. ASSUME NEW k \in 1..j - i + 1 PROVE x[k] = y[k]
    <2> DEFINE l == i + k - 1
    <2>1. l \in 1..Len(p) /\ (d + i) + k - 1 = d + l
      BY <1>0
    <2> HIDE DEF l
    <2>2. x[k] = q[d + l] /\ y[k] = p[l]
      BY <1>1, <1>2, <2>1, Zenon DEF l
    <2>3. QED  BY <2>1, <2>2, Zenon
  <1>4. x = y
    <2>1. Len(x) = Len(y) /\ \A k \in 1..Len(x) : x[k] = y[k]
      BY <1>1, <1>2, <1>3, Zenon
    <2>2. QED  BY <1>1, <1>2, <2>1, SeqEqual
  <1>5. QED  BY <1>4, Zenon DEF x, y

\* a and b with a character between them, and how to get them back
LEMMA Around ==
    ASSUME NEW a \in Seq(Byte), NEW b \in Seq(Byte), NEW x \in Byte, NEW q, q = (a \o <<x>>) \o b
    PROVE  /\ q \in Seq(Byte) /\ Len(q) = (Len(a) + 1) + Len(b)
           /\ Len(a) \in Nat /\ Len(b) \in Nat
           /\ \A i \in 1..Len(a) : q[0 + i] = a[i]
           /\ q[Len(a) + 1] = x
           /\ \A i \in 1..Len(b) : q[(Len(a) + 1) + i] = b[i]
           /\ SubSeq(q, 1, Len(a)) = a /\ SubSeq(q, Len(a) + 2, Len(q)) = b
  <1> DEFINE e == <<x>>  c == a \o e
  <1>1. e \in Seq(Byte) /\ Len(e) = 1 /\ e[1] = x /\ 1 \in 1..1
    OBVIOUS
  <1> HIDE DEF e
  <1>2. /\ a \o e \in Seq(Byte) /\ Len(a \o e) = Len(a) + Len(e)
        /\ Len(a) \in Nat /\ Len(e) \in Nat
        /\ \A i \in 1..Len(a) : (a \o e)[i] = a[i]
        /\ \A i \in 1..Len(e) : (a \o e)[Len(a) + i] = e[i]
    <2>1. e \in Seq(Byte)
      BY <1>1
    <2>2. QED  BY <2>1, ConcatIs
  <1>3. /\ c \in Seq(Byte) /\ Len(c) = Len(a) + 1 /\ Len(a) \in Nat
        /\ \A i \in 1..Len(a) : c[i] = a[i]
        /\ c[Len(a) + 1] = x
    BY <1>1, <1>2, Zenon
  <1>4. q = c \o b
    BY DEF e
  <1> HIDE DEF c
  <1>5. /\ c \o b \in Seq(Byte) /\ Len(c \o b) = Len(c) + Len(b) /\ Len(b) \in Nat
        /\ \A i \in 1..Len(c) : (c \o b)[i] = c[i]
        /\ \A i \in 1..Len(b) : (c \o b)[Len(c) + i] = b[i]
    <2>1. c \in Seq(Byte)
      BY <1>3
    <2>2. QED  BY <2>1, ConcatIs
  <1>6. /\ q \in Seq(Byte) /\ Len(q) = (Len(a) + 1) + Len(b) /\ Len(b) \in Nat
        /\ \A i \in 1..Len(a) + 1 : q[i] = c[i]
        /\ \A i \in 1..Len(b) : q[(Len(a) + 1) + i] = b[i]
    BY <1>3, <1>4, <1>5, Zenon
  <1>7. \A i \in 1..Len(a) : q[0 + i] = a[i]
    BY <1>3, <1>6
  <1>8. q[Len(a) + 1] = x
    BY <1>3, <1>6
  <1>9. SubSeq(q, 1, Len(a)) = a
    <2>1. /\ 1 \in 1..Len(a) + 1 /\ Len(a) \in 1 - 1..Len(a) /\ 0 \in Nat
          /\ 0 + Len(a) =< Len(q) /\ 0 + 1 = 1 /\ 0 + Len(a) = Len(a)
      BY <1>3, <1>6
    <2>2. SubSeq(q, 0 + 1, 0 + Len(a)) = SubSeq(a, 1, Len(a))
      BY <1>6, <1>7, <2>1, SameSlice
    <2>3. SubSeq(a, 1, Len(a)) = a
      BY SubSeqFull
    <2>4. QED  BY <2>1, <2>2, <2>3, Zenon
  <1>10. SubSeq(q, Len(a) + 2, Len(q)) = b
    <2> DEFINE d == Len(a) + 1
    <2>1. /\ 1 \in 1..Len(b) + 1 /\ Len(b) \in 1 - 1..Len(b) /\ d \in Nat
          /\ d + Len(b) =< Len(q) /\ d + 1 = Len(a) + 2 /\ d + Len(b) = Len(q)
      BY <1>3, <1>6
    <2>2. \A i \in 1..Len(b) : q[d + i] = b[i]
      BY <1>6
    <2> HIDE DEF d
    <2>3. SubSeq(q, d + 1, d + Len(b)) = SubSeq(b, 1, Len(b))
      BY <1>6, <2>1, <2>2, SameSlice
    <2>4. SubSeq(b, 1, Len(b)) = b
      BY SubSeqFull
    <2>5. QED  BY <2>1, <2>3, <2>4, Zenon
  <1>11. QED  BY <1>3, <1>6, <1>7, <1>8, <1>9, <1>10

LEMMA AroundRight ==
    ASSUME NEW a \in Seq(Byte), NEW b \in Seq(Byte), NEW x \in Byte
    PROVE  a \o (<<x>> \o b) = (a \o <<x>>) \o b
  <1> DEFINE e == <<x>>
  <1>1. e \in Seq(Byte)
    OBVIOUS
  <1> HIDE DEF e
  <1>2. a \o (e \o b) = (a \o e) \o b
    BY <1>1, ConcatAssociative
  <1>3. QED  BY <1>2, Zenon DEF e

\* The parameters of two queries with an "&" between them
LEMMA QueryJoin ==
    ASSUME NEW a \in Seq(Byte), NEW b \in Seq(Byte)
    PROVE  /\ (a \o <<Ampersand>>) \o b \in Seq(Byte)
           /\ UrlQuery((a \o <<Ampersand>>) \o b) = UrlQuery(a) \o UrlQuery(b)
  <1> DEFINE q == (a \o <<Ampersand>>) \o b  n == Len(a) + 1  m == Len(b) + 1
  <1>1. /\ q \in Seq(Byte) /\ Len(q) = n + Len(b) /\ Len(a) \in Nat /\ Len(b) \in Nat
        /\ n = Len(a) + 1 /\ m = Len(b) + 1
        /\ \A i \in 1..Len(a) : q[0 + i] = a[i]
        /\ q[n] = Ampersand
        /\ \A i \in 1..Len(b) : q[n + i] = b[i]
    <2>1. Ampersand \in Byte
      BY DEF Ampersand, Byte
    <2>2. QED  BY <2>1, Around
  <1>2. UrlQuery(q) = UrlQuery((a \o <<Ampersand>>) \o b)
    OBVIOUS
  <1>3. q \in Seq(Byte) <=> (a \o <<Ampersand>>) \o b \in Seq(Byte)
    OBVIOUS
  <1> HIDE DEF q, n, m
  <1>4. ASSUME NEW i \in 1..n
        PROVE  QueryOut(q)[i] = QueryOut(a)[i] /\ QueryTo(q)[i] = QueryTo(a)[i]
    <2> DEFINE j == FindFrom(a, Ampersand, i)
    <2>1. i \in 1..Len(a) + 1 /\ i \in 1..Len(q) + 1
      BY <1>1
    <2>2. NextAt(j, a, Ampersand, i)
      BY <2>1, FindFromIs, Zenon
    <2> HIDE DEF j
    <2>3. /\ j \in i..Len(a) + 1
          /\ j =< Len(a) => a[j] = Ampersand
          /\ \A k \in i..j - 1 : a[k] # Ampersand
      BY <2>2 DEF NextAt
    <2>4. NextAt(j, q, Ampersand, i)
      <3>1. j \in i..Len(q) + 1
        BY <1>1, <2>3
      <3>2. q[j] = Ampersand
        <4>1. CASE j =< Len(a)
          <5>1. j \in 1..Len(a) /\ 0 + j = j
            BY <1>1, <2>1, <2>3, <4>1
          <5>2. QED  BY <1>1, <2>3, <4>1, <5>1
        <4>2. CASE j = n
          BY <1>1, <4>2
        <4>3. QED  BY <1>1, <2>3, <4>1, <4>2
      <3>3. ASSUME NEW k \in i..j - 1 PROVE q[k] # Ampersand
        <4>1. k \in 1..Len(a) /\ 0 + k = k
          BY <1>1, <2>1, <2>3
        <4>2. QED  BY <1>1, <2>3, <4>1
      <3>4. QED  BY <3>1, <3>2, <3>3, Zenon DEF NextAt
    <2>5. FindFrom(q, Ampersand, i) = j
      BY <1>1, <2>1, <2>4, FindFromIs, Zenon
    <2>6. QueryPiece(q, i) = QueryPiece(a, i)
      <3> DEFINE l == j - 1
      <3>1. /\ l \in i - 1..Len(a) /\ 0 \in Nat /\ 0 + Len(a) =< Len(q)
            /\ 0 + i = i /\ 0 + l = l
        BY <1>1, <2>1, <2>3
      <3> HIDE DEF l
      <3>2. SubSeq(q, 0 + i, 0 + l) = SubSeq(a, i, l)
        BY <1>1, <2>1, <3>1, SameSlice
      <3>3. QED  BY <2>5, <3>1, <3>2, Zenon DEF QueryPiece, l, j
    <2>7. QED  BY <2>1, <2>5, <2>6, Zenon DEF QueryOut, QueryTo, j
  <1>5. ASSUME NEW i \in 1..m
        PROVE  QueryOut(q)[n + i] = QueryOut(b)[i] /\ QueryTo(q)[n + i] = n + QueryTo(b)[i]
    <2> DEFINE j == FindFrom(b, Ampersand, i)
    <2>1. i \in 1..Len(b) + 1 /\ n + i \in 1..Len(q) + 1
      BY <1>1
    <2>2. NextAt(j, b, Ampersand, i)
      BY <2>1, FindFromIs, Zenon
    <2> HIDE DEF j
    <2>3. /\ j \in i..Len(b) + 1
          /\ j =< Len(b) => b[j] = Ampersand
          /\ \A k \in i..j - 1 : b[k] # Ampersand
      BY <2>2 DEF NextAt
    <2>4. NextAt(n + j, q, Ampersand, n + i)
      <3>1. n + j \in n + i..Len(q) + 1
        BY <1>1, <2>1, <2>3
      <3>2. n + j =< Len(q) => q[n + j] = Ampersand
        <4>1. n + j =< Len(q) => j \in 1..Len(b)
          BY <1>1, <2>1, <2>3
        <4>2. j \in 1..Len(b) => j =< Len(b)
          BY <1>1
        <4>3. QED  BY <1>1, <2>3, <4>1, <4>2, Zenon
      <3>3. ASSUME NEW k \in n + i..(n + j) - 1 PROVE q[k] # Ampersand
        <4> DEFINE l == k - n
        <4>1. l \in 1..Len(b) /\ l \in i..j - 1 /\ k = n + l
          BY <1>1, <2>1, <2>3
        <4> HIDE DEF l
        <4>2. QED  BY <1>1, <2>3, <4>1
      <3>4. QED  BY <3>1, <3>2, <3>3, Zenon DEF NextAt
    <2>5. FindFrom(q, Ampersand, n + i) = n + j
      <3> DEFINE k == n + i
      <3>1. k \in 1..Len(q) + 1 /\ NextAt(n + j, q, Ampersand, k)
        BY <2>1, <2>4
      <3> HIDE DEF k
      <3>2. FindFrom(q, Ampersand, k) = n + j
        BY <1>1, <3>1, FindFromIs, Zenon
      <3>3. QED  BY <3>2 DEF k
    <2>6. QueryPiece(q, n + i) = QueryPiece(b, i)
      <3> DEFINE l == j - 1
      <3>1. l \in i - 1..Len(b) /\ n \in Nat /\ n + Len(b) =< Len(q) /\ (n + j) - 1 = n + l
        BY <1>1, <2>1, <2>3
      <3> HIDE DEF l
      <3>2. SubSeq(q, n + i, n + l) = SubSeq(b, i, l)
        BY <1>1, <2>1, <3>1, SameSlice
      <3>3. QED  BY <2>5, <3>1, <3>2, Zenon DEF QueryPiece, l, j
    <2>7. (n + j) + 1 = n + (j + 1)
      BY <1>1, <2>3
    <2>8. QueryOut(q)[n + i] = QueryOut(b)[i]
      BY <2>1, <2>6, Zenon DEF QueryOut
    <2>9. QueryTo(q)[n + i] = (n + j) + 1 /\ QueryTo(b)[i] = j + 1
      BY <2>1, <2>5, Zenon DEF QueryTo, j
    <2>10. QED  BY <2>7, <2>8, <2>9, Zenon
  <1>6. Len(q) + 1 = n + m
    BY <1>1
  <1>7. Joined(n, m, Len(q) + 1, QueryOut(a), QueryTo(a), QueryOut(b), QueryTo(b),
               QueryOut(q), QueryTo(q))
    BY <1>4, <1>5, <1>6, Zenon DEF Joined
  <1>8. PICK f : Scan(f, n, Pairs, QueryOut(a), QueryTo(a)) /\ UrlQuery(a) = f[1]
    BY QueryScans, Zenon DEF n
  <1>9. PICK g : Scan(g, m, Pairs, QueryOut(b), QueryTo(b)) /\ UrlQuery(b) = g[1]
    BY QueryScans, Zenon DEF m
  <1>10. PICK h : Scan(h, Len(q) + 1, Pairs, QueryOut(q), QueryTo(q)) /\ UrlQuery(q) = h[1]
    BY <1>1, QueryScans, Zenon
  <1>11. InTurn(h, f, g)
    <2> DEFINE k == Len(q) + 1
    <2>1. /\ Joined(n, m, k, QueryOut(a), QueryTo(a), QueryOut(b), QueryTo(b),
                    QueryOut(q), QueryTo(q))
          /\ Scan(h, k, Pairs, QueryOut(q), QueryTo(q))
      BY <1>7, <1>10
    <2> HIDE DEF k
    <2>2. QED  BY <1>8, <1>9, <2>1, ScanJoin
  <1>12. QED  BY <1>1, <1>2, <1>3, <1>8, <1>9, <1>10, <1>11, Zenon DEF InTurn

\* find()
FirstOf(s, c, j) == j \in 1..Len(s) /\ s[j] = c /\ \A k \in 1..j - 1 : s[k] # c

LEMMA FindIs ==
    ASSUME NEW s \in Seq(Byte), NEW c
    PROVE  /\ Find(s, c) = 0 <=> Without(s, c)
           /\ \A j : FirstOf(s, c, j) => Find(s, c) = j
  <1> DEFINE I == {k \in 1..Len(s) : s[k] = c}
  <1>0. Len(s) \in Nat
    OBVIOUS
  <1>1. I \subseteq Nat /\ 0 \notin I
    BY <1>0
  <1>2. Find(s, c) = IF I # {} THEN Min(I) ELSE 0
    BY Zenon DEF Find, SelectInSeq
  <1>3. Without(s, c) <=> I = {}
    BY DEF Without
  <1>4. Find(s, c) = 0 <=> Without(s, c)
    <2> HIDE DEF I
    <2>1. I # {} => Min(I) \in I
      BY <1>1, Smallest
    <2>2. QED  BY <1>1, <1>2, <1>3, <2>1
  <1>5. ASSUME NEW j, FirstOf(s, c, j) PROVE Find(s, c) = j
    <2> USE <1>5 DEF FirstOf
    <2>1. j \in I
      OBVIOUS
    <2>2. ASSUME NEW k \in I PROVE j =< k
      <3>1. k \in 1..Len(s) /\ s[k] = c
        OBVIOUS
      <3>2. k \notin 1..j - 1
        BY <3>1
      <3>3. QED  BY <1>0, <3>1, <3>2
    <2> HIDE DEF I
    <2>3. Min(I) = j /\ I # {}
      BY <1>1, <2>1, <2>2, Smallest
    <2>4. QED  BY <1>2, <2>3
  <1>6. QED  BY <1>4, <1>5

Named == [key : Seq(Byte), value : Seq(Byte)]

\* AppendQuery() of one parameter
Pair(p) == (EncodeQuery(p.key) \o <<Equals>>) \o EncodeQuery(p.value)
Arrives(p) == Without(p.key, Ampersand) /\ Without(p.key, Equals) /\ Without(p.value, Ampersand)

LEMMA PairArrives ==
    ASSUME NEW p \in Named, Arrives(p)
    PROVE  Pair(p) \in Seq(Byte) /\ Pair(p) # <<>> /\ UrlQuery(Pair(p)) = <<p>>
  <1> DEFINE a == EncodeQuery(p.key)  b == EncodeQuery(p.value)  q == Pair(p)  n == Len(a) + 1
  <1>1. /\ p.key \in Seq(Byte) /\ p.value \in Seq(Byte)
        /\ p = [key |-> p.key, value |-> p.value]
    BY DEF Named
  <1>2. /\ a \in Seq(Byte) /\ b \in Seq(Byte)
        /\ DecodeUnsafe(a) = p.key /\ DecodeUnsafe(b) = p.value
        /\ Without(a, Ampersand) /\ Without(a, Equals) /\ Without(b, Ampersand)
    <2>1. Ampersand \in {Ampersand, Equals} /\ Equals \in {Ampersand, Equals}
      OBVIOUS
    <2>2. QED  BY <1>1, <2>1, DecodeAfterEncode, Zenon DEF Arrives
  <1>3. q = (a \o <<Equals>>) \o b
    BY DEF Pair
  <1>4. Equals \in Byte /\ Ampersand \in Byte /\ Equals # Ampersand
    BY DEF Equals, Ampersand, Byte
  <1> HIDE DEF a, b, q
  <1>5. /\ q \in Seq(Byte) /\ Len(q) = n + Len(b) /\ Len(a) \in Nat /\ Len(b) \in Nat
        /\ \A i \in 1..Len(a) : q[0 + i] = a[i]
        /\ q[n] = Equals
        /\ \A i \in 1..Len(b) : q[n + i] = b[i]
        /\ SubSeq(q, 1, Len(a)) = a /\ SubSeq(q, Len(a) + 2, Len(q)) = b
    BY <1>2, <1>3, <1>4, Around
  <1>6. n = Len(a) + 1
    OBVIOUS
  <1> HIDE DEF n
  <1>7. n \in 1..Len(q) /\ n - 1 = Len(a) /\ n + 1 = Len(a) + 2
    BY <1>5, <1>6
  <1>8. q # <<>>
    BY <1>5, <1>7
  <1>9. Find(q, Equals) = n
    <2>1. ASSUME NEW k \in 1..n - 1 PROVE q[k] # Equals
      <3>1. k \in 1..Len(a) /\ 0 + k = k
        BY <1>5, <1>7
      <3>2. QED  BY <1>2, <1>5, <3>1 DEF Without
    <2>2. QED  BY <1>5, <1>7, <2>1, FindIs, Zenon DEF FirstOf
  <1>10. Without(q, Ampersand)
    <2>1. ASSUME NEW i \in 1..Len(q) PROVE q[i] # Ampersand
      <3>1. CASE i =< Len(a)
        <4>1. i \in 1..Len(a) /\ 0 + i = i
          BY <1>5, <3>1
        <4>2. QED  BY <1>2, <1>5, <4>1 DEF Without
      <3>2. CASE i = n
        BY <1>4, <1>5, <3>2
      <3>3. CASE i > n
        <4> DEFINE j == i - n
        <4>1. j \in 1..Len(b) /\ i = n + j
          BY <1>5, <1>6, <3>3
        <4> HIDE DEF j
        <4>2. QED  BY <1>2, <1>5, <4>1 DEF Without
      <3>4. QED  BY <1>5, <1>6, <3>1, <3>2, <3>3
    <2>2. QED  BY <2>1, Zenon DEF Without
  <1>11. HasKey(q)
    <2>1. n # 0
      BY <1>5, <1>6
    <2>2. QED  BY <1>9, <2>1, Zenon DEF HasKey
  <1>12. Parameter(q) = p
    <2>1. Before(q, n) = a /\ From(q, n + 1) = b
      BY <1>5, <1>7, Zenon DEF Before, From
    <2>2. QED  BY <1>1, <1>2, <1>9, <2>1, Zenon DEF Parameter
  <1>13. UrlQuery(q) = <<p>>
    BY <1>5, <1>10, <1>11, <1>12, OneParameter, Zenon DEF QueryPart
  <1>14. QED  BY <1>5, <1>8, <1>13, Zenon DEF q

\* AppendQuery() of a parameter that arrives adds it as the last one.
LEMMA AppendArrives ==
    ASSUME NEW q \in Seq(Byte), NEW p \in Named, Arrives(p)
    PROVE  /\ AppendQuery(q, p.key, p.value) \in Seq(Byte)
           /\ AppendQuery(q, p.key, p.value) # <<>>
           /\ UrlQuery(AppendQuery(q, p.key, p.value))
              = IF q = <<>> THEN <<p>> ELSE UrlQuery(q) \o <<p>>
  <1> DEFINE a == EncodeQuery(p.key)  b == EncodeQuery(p.value)  e == <<Equals>>
             x == q \o <<Ampersand>>
             r == AppendQuery(q, p.key, p.value)
  <1>1. a \in Seq(Byte) /\ b \in Seq(Byte) /\ e \in Seq(Byte) /\ x \in Seq(Byte)
    <2>1. p.key \in Seq(Byte) /\ p.value \in Seq(Byte)
      BY DEF Named
    <2>2. a \in Seq(Byte) /\ b \in Seq(Byte)
      BY <2>1, DecodeAfterEncode, Zenon
    <2>3. e \in Seq(Byte) /\ <<Ampersand>> \in Seq(Byte)
      BY DEF Equals, Ampersand, Byte
    <2>4. x \in Seq(Byte)
      BY <2>3, ConcatProperties
    <2>5. QED  BY <2>2, <2>3, <2>4
  <1>2. Pair(p) \in Seq(Byte) /\ Pair(p) # <<>> /\ UrlQuery(Pair(p)) = <<p>>
    BY PairArrives, Zenon
  <1>3. Pair(p) = (a \o e) \o b
    BY DEF Pair
  <1>4. CASE q = <<>>
    <2>1. r = ((<<>> \o a) \o e) \o b
      BY <1>4, Zenon DEF AppendQuery
    <2>2. <<>> \o a = a
      BY <1>1, ConcatEmptySeq
    <2>3. r = Pair(p)
      BY <1>3, <2>1, <2>2, Zenon
    <2>4. QED  BY <1>2, <1>4, <2>3, Zenon
  <1>5. CASE q # <<>>
    <2>1. r = ((x \o a) \o e) \o b
      BY <1>5, Zenon DEF AppendQuery
    <2> HIDE DEF a, b, e, x
    <2>2. ((x \o a) \o e) \o b = x \o ((a \o e) \o b)
      <3>1. (x \o a) \o e = x \o (a \o e) /\ a \o e \in Seq(Byte)
        BY <1>1, ConcatAssociative, ConcatProperties
      <3>2. (x \o (a \o e)) \o b = x \o ((a \o e) \o b)
        <4> DEFINE c == a \o e
        <4>1. x \in Seq(Byte) /\ c \in Seq(Byte) /\ b \in Seq(Byte)
          BY <1>1, <3>1
        <4> HIDE DEF c
        <4>2. (x \o c) \o b = x \o (c \o b)
          BY <4>1, ConcatAssociative
        <4>3. QED  BY <4>2 DEF c
      <3>3. QED  BY <3>1, <3>2, Zenon
    <2>3. r = (q \o <<Ampersand>>) \o Pair(p)
      BY <1>3, <2>1, <2>2, Zenon DEF x
    <2>4. r \in Seq(Byte) /\ UrlQuery(r) = UrlQuery(q) \o <<p>>
      BY <1>2, <2>3, QueryJoin, Zenon
    <2>5. r # <<>>
      <3> DEFINE d == Pair(p)
      <3>1. Len(r) = (Len(q) + 1) + Len(d) /\ Len(q) \in Nat /\ Len(d) \in Nat
        <4>1. Ampersand \in Byte /\ d \in Seq(Byte)
          BY <1>2 DEF Ampersand, Byte
        <4>2. r = (q \o <<Ampersand>>) \o d
          BY <2>3
        <4> HIDE DEF d, r
        <4>3. QED  BY <4>1, <4>2, Around
      <3>2. Len(r) # 0
        BY <3>1
      <3>3. Len(<<>>) = 0
        OBVIOUS
      <3>4. QED  BY <3>2, <3>3, Zenon
    <2>6. QED  BY <1>5, <2>4, <2>5, Zenon
  <1>6. QED  BY <1>4, <1>5, Zenon

---------------------------------------------------------------------------
(* The parameters of a request                                             *)

LEMMA QueryArrives ==
    ASSUME NEW ps \in Seq(Named), ps # <<>>, \A i \in 1..Len(ps) : Arrives(ps[i])
    PROVE  Query(ps) \in Seq(Byte) /\ Query(ps) # <<>> /\ UrlQuery(Query(ps)) = ps
  <1> DEFINE Item(h, k) == IF k = 0 THEN <<>> ELSE AppendQuery(h[k - 1], ps[k].key, ps[k].value)
             Is(h) == h = [k \in 0..Len(ps) |-> Item(h, k)]
             step == [k \in 1..Len(ps) |->
                         [q \in Seq(Byte) |-> AppendQuery(q, ps[k].key, ps[k].value)]]
  <1>0. Len(ps) \in Nat /\ Len(ps) # 0 /\ \A i \in 1..Len(ps) : ps[i] \in Named
    OBVIOUS
  <1>1. \A k \in 1..Len(ps) : \A q \in Seq(Byte) :
            /\ AppendQuery(q, ps[k].key, ps[k].value) \in Seq(Byte)
            /\ AppendQuery(q, ps[k].key, ps[k].value) # <<>>
            /\ UrlQuery(AppendQuery(q, ps[k].key, ps[k].value))
               = IF q = <<>> THEN <<ps[k]>> ELSE UrlQuery(q) \o <<ps[k]>>
    BY <1>0, AppendArrives, Zenon
  <1>2. PICK f \in [0..Len(ps) -> Seq(Byte)] : StepsFrom(f, Len(ps), <<>>, step)
    <2>1. \A k \in 1..Len(ps) : \A q \in Seq(Byte) :
              AppendQuery(q, ps[k].key, ps[k].value) \in Seq(Byte)
      BY <1>1, Zenon
    <2>2. step \in [1..Len(ps) -> [Seq(Byte) -> Seq(Byte)]]
      BY <2>1
    <2>3. <<>> \in Seq(Byte)
      OBVIOUS
    <2> HIDE DEF step
    <2>4. QED  BY <1>0, <2>2, <2>3, StepsExist, Zenon
  <1>3. Is(f)
    <2>1. ASSUME NEW k \in 0..Len(ps) PROVE f[k] = Item(f, k)
      <3>1. CASE k = 0
        BY <1>2, <3>1, Zenon DEF StepsFrom
      <3>2. CASE k # 0
        <4>1. k \in 1..Len(ps) /\ k - 1 \in 0..Len(ps)
          BY <1>0, <3>2
        <4>2. f[k - 1] \in Seq(Byte)
          BY <1>2, <4>1, Zenon
        <4>3. f[k] = step[k][f[k - 1]]
          BY <1>2, <4>1, Zenon DEF StepsFrom
        <4>4. step[k][f[k - 1]] = AppendQuery(f[k - 1], ps[k].key, ps[k].value)
          BY <4>1, <4>2, Zenon
        <4>5. QED  BY <3>2, <4>3, <4>4, Zenon
      <3>3. QED  BY <3>1, <3>2
    <2> HIDE DEF Item
    <2>2. f = [k \in 0..Len(ps) |-> f[k]]
      BY <1>2
    <2>3. QED  BY <2>1, <2>2
  <1> DEFINE g == CHOOSE h : Is(h)
  <1>4. Is(g)
    <2> HIDE DEF Is
    <2>1. QED  BY <1>3, Zenon
  <1>5. Query(ps) = g[Len(ps)]
    BY Zenon DEF Query
  <1> HIDE DEF g, step
  <1>6. \A k \in 0..Len(ps) : g[k] = Item(g, k)
    <2> HIDE DEF Item
    <2>1. QED  BY <1>4, Zenon
  <1> HIDE DEF Is
  <1> DEFINE Right(k) == /\ g[k] \in Seq(Byte) /\ g[k] # <<>>
                         /\ UrlQuery(g[k]) = SubSeq(ps, 1, k)
             T == {k \in Nat : k + 1 =< Len(ps) => Right(k + 1)}
  <1>7. 0 \in T
    <2>1. 0 \in 0..Len(ps) /\ 1 \in 0..Len(ps) /\ 1 \in 1..Len(ps) /\ 1 - 1 = 0 /\ 1 # 0 /\ 0 + 1 = 1
      BY <1>0
    <2>2. g[0] = <<>> /\ g[1] = AppendQuery(g[0], ps[1].key, ps[1].value)
      BY <1>6, <2>1, Zenon
    <2>3. <<>> \in Seq(Byte)
      OBVIOUS
    <2>4. SubSeq(ps, 1, 1) = <<ps[1]>>
      <3>1. SubSeq(ps, 1, 1) = <<ps[1]>> \o SubSeq(ps, 2, 1)
        BY <2>1, SubSeqRecursiveFirst
      <3>2. SubSeq(ps, 2, 1) = <<>>
        BY SubSeqEmpty
      <3>3. <<ps[1]>> \in Seq(Named)
        BY <1>0, <2>1
      <3>4. <<ps[1]>> \o <<>> = <<ps[1]>>
        BY <3>3, ConcatEmptySeq
      <3>5. QED  BY <3>1, <3>2, <3>4, Zenon
    <2>5. Right(1)
      BY <1>1, <2>1, <2>2, <2>3, <2>4, Zenon
    <2> HIDE DEF Right
    <2>6. QED  BY <2>1, <2>5, Zenon
  <1>8. ASSUME NEW k \in Nat, k \in T PROVE k + 1 \in T
    <2> DEFINE j == k + 1
    <2>1. SUFFICES ASSUME j + 1 =< Len(ps) PROVE Right(j + 1)
      OBVIOUS
    <2>2. /\ j \in Nat /\ j =< Len(ps) /\ j + 1 \in 0..Len(ps) /\ j + 1 \in 1..Len(ps)
          /\ j + 1 # 0 /\ (j + 1) - 1 = j /\ 1 \in 1..Len(ps) /\ j + 1 \in 1..Len(ps)
      BY <1>0, <2>1
    <2>3. Right(j)
      <3> HIDE DEF Right
      <3>1. QED  BY <1>8, <2>2, Zenon
    <2> HIDE DEF j
    <2>4. g[j + 1] = AppendQuery(g[j], ps[j + 1].key, ps[j + 1].value)
      BY <1>6, <2>2, Zenon
    <2>5. g[j] \in Seq(Byte) /\ g[j] # <<>> /\ UrlQuery(g[j]) = SubSeq(ps, 1, j)
      BY <2>3
    <2>6. SubSeq(ps, 1, j + 1) = SubSeq(ps, 1, j) \o <<ps[j + 1]>>
      <3> DEFINE i == j + 1
      <3>1. 1 \in 1..Len(ps) /\ i \in 1..Len(ps) /\ i - 1 = j
        BY <2>2
      <3> HIDE DEF i
      <3>2. SubSeq(ps, 1, i) = SubSeq(ps, 1, i - 1) \o <<ps[i]>>
        BY <3>1, SubSeqRecursiveSecond
      <3>3. QED  BY <3>1, <3>2, Zenon DEF i
    <2>7. QED  BY <1>1, <2>2, <2>4, <2>5, <2>6, Zenon
  <1> HIDE DEF T
  <1>9. Nat \subseteq T
    BY <1>7, <1>8, Induction
  <1> DEFINE m == Len(ps) - 1
  <1>10. m \in Nat /\ m + 1 = Len(ps) /\ m + 1 =< Len(ps)
    BY <1>0
  <1> HIDE DEF m, Right
  <1>11. Right(Len(ps))
    BY <1>9, <1>10, Zenon DEF T
  <1>12. SubSeq(ps, 1, Len(ps)) = ps
    BY SubSeqFull
  <1>13. QED  BY <1>5, <1>11, <1>12, Zenon DEF Right

\* Url::Parse() finds the query behind the path.
LEMMA QueryIsParsed ==
    ASSUME NEW p \in Seq(Byte), p # <<>>, p[1] = Slash, Without(p, Question),
           NEW q \in Seq(Byte), NEW str, str = p \o (<<Question>> \o q),
           FindString(str, SchemeEnd) = 0
    PROVE  Parse(str).query = q
  <1>1. /\ str \in Seq(Byte) /\ Len(str) = (Len(p) + 1) + Len(q)
        /\ Len(p) \in Nat /\ Len(q) \in Nat
        /\ \A i \in 1..Len(p) : str[0 + i] = p[i]
        /\ str[Len(p) + 1] = Question
        /\ SubSeq(str, Len(p) + 2, Len(str)) = q
    <2>1. Question \in Byte
      BY DEF Question, Byte
    <2>2. str = (p \o <<Question>>) \o q
      BY <2>1, AroundRight
    <2>3. QED  BY <2>1, <2>2, Around
  <1>2. Len(p) # 0 /\ 1 \in 1..Len(p) /\ 1 \in 1..Len(str) /\ 0 + 1 = 1
    BY <1>1
  <1>3. Find(str, Slash) = 1
    <2>1. str[1] = Slash /\ \A k \in 1..1 - 1 : str[k] # Slash
      BY <1>1, <1>2
    <2>2. FirstOf(str, Slash, 1)
      BY <1>2, <2>1, Zenon DEF FirstOf
    <2>3. str \in Seq(Byte)
      BY <1>1
    <2>4. QED  BY <2>2, <2>3, FindIs, Zenon
  <1>4. Find(str, Question) = Len(p) + 1
    <2> DEFINE j == Len(p) + 1
    <2>1. j \in 1..Len(str) /\ str[j] = Question
      BY <1>1
    <2>2. ASSUME NEW k \in 1..j - 1 PROVE str[k] # Question
      <3>1. k \in 1..Len(p) /\ 0 + k = k
        BY <1>1
      <3>2. QED  BY <1>1, <3>1 DEF Without
    <2> HIDE DEF j
    <2>3. FirstOf(str, Question, j)
      BY <2>1, <2>2, Zenon DEF FirstOf
    <2>4. str \in Seq(Byte)
      BY <1>1
    <2>5. Find(str, Question) = j
      BY <2>3, <2>4, FindIs, Zenon
    <2>6. QED  BY <2>5 DEF j
  <1>5. From(str, 1) = str
    BY <1>1, SubSeqFull DEF From
  <1>6. Parse(str).query = IF Find(From(str, 1), Question) = 0 THEN <<>>
                           ELSE From(From(str, 1), Find(From(str, 1), Question) + 1)
    BY <1>3 DEF Parse
  <1>7. Len(p) + 1 # 0 /\ (Len(p) + 1) + 1 = Len(p) + 2
    BY <1>1
  <1>8. Parse(str).query = SubSeq(str, Len(p) + 2, Len(str))
    BY <1>4, <1>5, <1>6, <1>7, Zenon DEF From
  <1>9. QED  BY <1>1, <1>8, Zenon

\* Get() returns the first parameter of that name.
LEMMA GetsFirst ==
    ASSUME NEW ps \in Seq(Named), NEW i \in 1..Len(ps),
           \A j \in 1..i - 1 : ps[j].key # ps[i].key
    PROVE  Get(ps, ps[i].key) = ps[i].value
  <1> DEFINE I == {k \in 1..Len(ps) : ps[k].key = ps[i].key}
             found == SelectInSeq(ps, LAMBDA p : p.key = ps[i].key)
  <1>0. Len(ps) \in Nat
    OBVIOUS
  <1>1. I \subseteq Nat /\ i \in I
    BY <1>0
  <1>2. ASSUME NEW k \in I PROVE i =< k
    <2>1. k \in 1..Len(ps) /\ k \notin 1..i - 1
      OBVIOUS
    <2>2. QED  BY <1>0, <2>1
  <1>3. found = IF I # {} THEN Min(I) ELSE 0
    BY Zenon DEF SelectInSeq
  <1>4. Get(ps, ps[i].key) = IF found = 0 THEN <<>> ELSE ps[found].value
    BY Zenon DEF Get
  <1> HIDE DEF I, found
  <1>5. found = i
    BY <1>1, <1>2, <1>3, Smallest
  <1>6. i # 0
    BY <1>0
  <1>7. QED  BY <1>4, <1>5, <1>6, Zenon

\* The query of a call without reserved characters, as the view reads it
LEMMA CallArrives ==
    ASSUME NEW c \in Calls, ~Reserved(c), FindString(Target(c), SchemeEnd) = 0,
           c.parameters # <<>>
    PROVE  UrlQuery(Parse(Target(c)).query) = c.parameters
  <1> DEFINE ps == c.parameters
  <1>1. /\ ps \in Seq(Named) /\ c.path \in Seq(Byte) /\ c.path # <<>> /\ c.path[1] = Slash
        /\ \A i \in DOMAIN c.path : c.path[i] # Question
    BY CallsAreUrls DEF Named
  <1>2. Without(c.path, Question)
    BY <1>1 DEF Without
  <1>3. ASSUME NEW i \in 1..Len(ps) PROVE Arrives(ps[i])
    <2> DEFINE p == ps[i]
    <2>1. p \in Named /\ p \in ToSet(ps)
      BY <1>1 DEF ToSet
    <2>2. p.key \in Seq(Byte) /\ p.value \in Seq(Byte)
      BY <2>1 DEF Named
    <2> HIDE DEF p
    <2>3. /\ Find(p.key, Ampersand) = 0 /\ Find(p.key, Equals) = 0
          /\ Find(p.value, Ampersand) = 0
      BY <2>1, Zenon DEF Reserved
    <2>4. Arrives(p)
      BY <2>2, <2>3, FindIs, Zenon DEF Arrives
    <2>5. QED  BY <2>4 DEF p
  <1> HIDE DEF ps
  <1>4. ps # <<>>
    BY DEF ps
  <1>5. Query(ps) \in Seq(Byte) /\ Query(ps) # <<>> /\ UrlQuery(Query(ps)) = ps
    BY <1>1, <1>3, <1>4, QueryArrives, Zenon
  <1>6. Target(c) = c.path \o (<<Question>> \o Query(ps))
    BY <1>5, Zenon DEF Target, ps
  <1>7. Parse(Target(c)).query = Query(ps)
    BY <1>1, <1>2, <1>5, <1>6, QueryIsParsed, Zenon
  <1>8. QED  BY <1>5, <1>7, Zenon DEF ps

\* The URL is that of the call, but for the path "/".
UrlInv ==
    /\ pc = "parse" => call \in Calls /\ url = Parse(Target(call))
    /\ pc = "handle" => call \in Calls /\ url.query = Parse(Target(call)).query

LEMMA UrlInit == Init => UrlInv
  BY DEF Init, UrlInv

LEMMA UrlStep == UrlInv /\ [Next]_vars => UrlInv'
  <1> SUFFICES ASSUME UrlInv, [Next]_vars PROVE UrlInv'
    OBVIOUS
  <1>1. ASSUME UNCHANGED <<pc, call, url>> PROVE UrlInv'
    BY <1>1 DEF UrlInv
  <1>2. ASSUME pc' \notin {"parse", "handle"} PROVE UrlInv'
    BY <1>2 DEF UrlInv
  <1>3. ASSUME NEW c \in Calls, SendRequest(c) PROVE UrlInv'
    BY <1>3 DEF SendRequest, ParseStartLine, UrlInv
  <1>4. CASE OnHeadersEnd
    <2>1. /\ pc = "parse" /\ call \in Calls /\ url = Parse(Target(call)) /\ call' = call
          /\ \/ pc' = "headers"
             \/ pc' = "handle" /\ url' = [url EXCEPT !.path = StaticPath(url.path)]
      BY <1>4 DEF OnHeadersEnd, UrlInv
    <2>2. CASE pc' = "headers"
      BY <1>2, <2>2
    <2>3. CASE pc' = "handle" /\ url' = [url EXCEPT !.path = StaticPath(url.path)]
      <3>1. "query" \in DOMAIN Parse(Target(call))
        BY DEF Parse
      <3>2. url'.query = url.query
        BY <2>1, <2>3, <3>1
      <3>3. QED  BY <2>1, <2>3, <3>2, Zenon DEF UrlInv
    <2>4. QED  BY <2>1, <2>2, <2>3
  <1>5. CASE HandleView \/ HandleUpload \/ ServeStatic
    BY <1>2, <1>5 DEF HandleView, HandleUpload, ServeStatic, SendResponse
  <1>6. CASE OnWriteHeaders \/ WriteFileChunk \/ WriteString \/ OnWriteOK
    BY <1>2, <1>6 DEF OnWriteHeaders, WriteFileChunk, WriteString, OnWriteOK
  <1>7. ASSUME NEW path \in Documents, Overwrite(path) \/ Withdraw(path) PROVE UrlInv'
    BY <1>1, <1>7 DEF Overwrite, Withdraw, Touch
  <1>8. CASE UNCHANGED vars
    BY <1>1, <1>8 DEF vars
  <1>9. CASE OnHeadersEndThrows
    BY <1>2, <1>9 DEF OnHeadersEndThrows
  <1>10. QED  BY <1>3, <1>4, <1>5, <1>6, <1>7, <1>8, <1>9 DEF Next, ServerStep

\* url.cc: what the client encoded into the target of a request is what the
\* view finds in the query, for any path, any number of parameters and any bytes
\* in them, though three classes encode, split and decode it.
THEOREM ParametersAlwaysArrive == Spec => []ParametersArrive
  <1>1. UrlInv => ParametersArrive
    <2>1. SUFFICES ASSUME UrlInv, pc = "handle", ~Reserved(call),
                          FindString(Target(call), SchemeEnd) = 0,
                          NEW i \in DOMAIN call.parameters,
                          \A j \in 1..i - 1 : call.parameters[j].key # call.parameters[i].key
                   PROVE  Get(UrlQuery(url.query), call.parameters[i].key)
                          = call.parameters[i].value
      BY Zenon DEF ParametersArrive
    <2> DEFINE ps == call.parameters
    <2>2. call \in Calls /\ url.query = Parse(Target(call)).query
      BY <2>1, Zenon DEF UrlInv
    <2>3. ps \in Seq(Named)
      BY <2>2, CallsAreUrls DEF Named
    <2>4. ps # <<>> /\ i \in 1..Len(ps)
      BY <2>1, <2>3
    <2>5. UrlQuery(url.query) = ps
      BY <2>1, <2>2, <2>4, CallArrives, Zenon
    <2>6. Get(ps, ps[i].key) = ps[i].value
      BY <2>1, <2>3, <2>4, GetsFirst, Zenon
    <2>7. QED  BY <2>5, <2>6, Zenon
  <1>2. QED  BY <1>1, UrlInit, UrlStep, PTL DEF Spec
=============================================================================
