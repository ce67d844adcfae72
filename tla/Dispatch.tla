------------------------------ MODULE Dispatch ------------------------------
(***************************************************************************)
(* From a request to the bytes of its response: the parser asks Server     *)
(* whether the URL is served (request_parser.cc 22-55, server.cc 358-380), *)
(* a worker finds the view or the file for it again (server.cc 258-287,    *)
(* 382-411, router.cc), and the connection writes the body payload by      *)
(* payload (connection.cc 134-188, body.cc).  Between these steps, which   *)
(* run in different threads, the files under the document root change.     *)
(*                                                                         *)
(* One connection at a time: what requests share is only read here, but    *)
(* for the files.  Sessions are in Sessions, threads in WebccServer.       *)
(***************************************************************************)
EXTENDS Url, FiniteSets

CONSTANTS
    Routes,       \* the route table: what each route matches, and its view
    Documents,    \* paths of regular files that may be under doc_root_
    IndexHtml,    \* the path piece "index.html"
    Calls,        \* what clients ask for: method, path, parameters, form parts
    UploadView,   \* the view that stores the file of a form
    Store,        \* g_rootStore as a path below doc_root_
    File,         \* the name "file" of a form part
    Sizes,        \* sizes of files and of the bodies of views
    ChunkSize,    \* file_chunk_size_
    NONE,         \* no file, no view, no request, no form
    Locked,       \* a file that exists and cannot be opened
    Hidden,       \* a file whose status cannot be read
    MaxRequests,  \* bound: requests
    MaxChanges    \* bound: changes of files

ASSUME BoundsAreNat ==
    /\ ChunkSize \in Nat \ {0} /\ MaxRequests \in Nat /\ MaxChanges \in Nat
    /\ Sizes \subseteq Nat
ASSUME FilesDiffer ==
    /\ Sizes \cap {NONE, Locked, Hidden} = {}
    /\ NONE # Locked /\ NONE # Hidden /\ Locked # Hidden
ASSUME RoutesAreTyped ==
    /\ Routes \in Seq(ToSet(Routes))
    /\ NONE \notin {UploadView} \cup {Routes[i].view : i \in DOMAIN Routes}
ASSUME CallsAreUrls ==
    \A c \in Calls :
        /\ c.path \in Seq(Byte) /\ c.path # <<>> /\ c.path[1] = Slash
        /\ \A i \in DOMAIN c.path : c.path[i] # Question
        /\ c.parameters \in Seq([key : Seq(Byte), value : Seq(Byte)])
ASSUME FormsAreTyped ==
    \A c \in Calls : c.form # NONE =>
        c.form \in Seq(ToSet(c.form)) /\ \A i \in DOMAIN c.form : c.form[i].size \in Sizes

VARIABLES
    disk,       \* of each document: its size, NONE, Locked or Hidden
    pc,         \* where the request is
    call,       \* what the client asks for
    url,        \* request_->url_
    asked,      \* the view that handles the request
    response,   \* status, Content-Length and body
    next,       \* bytes (FileBody) or payloads (StringBody) that were taken
    opened,     \* size of the file that ifstream_ reads
    eof,        \* ifstream_ has met its end: it reads no more
    written,    \* bytes of the body that were written
    matched,    \* what OnHeadersEnd() matched, and ...
    touched,    \* ... the documents changed since, for the properties
    requests, changes

answer == <<asked, response>>
writing == <<next, opened, eof, written>>
vars == <<disk, pc, call, url, answer, writing, matched, touched, requests, changes>>

NoBody   == [kind |-> "none", size |-> 0, path |-> <<>>]
Response(status, body) == [status |-> status, length |-> body.size, body |-> body]
NoResponse == Response(0, NoBody)

Init ==
    /\ disk \in [Documents -> Sizes \cup {Locked, Hidden}]
    /\ pc = "idle" /\ call = NONE /\ url = Parse(<<>>)
    /\ asked = NONE /\ response = NoResponse
    /\ next = 0 /\ opened = 0 /\ eof = FALSE /\ written = 0
    /\ matched = NONE /\ touched = {}
    /\ requests = 0 /\ changes = 0

---------------------------------------------------------------------------
\* The client: Request::Prepare() of a path and of parameters that it encodes

Query(parameters) ==
    LET query[n \in 0..Len(parameters)] ==
            IF n = 0 THEN <<>>
            ELSE AppendQuery(query[n - 1], parameters[n].key, parameters[n].value)
    IN  query[Len(parameters)]

Target(c) ==
    LET query == Query(c.parameters)
    IN  c.path \o (IF query = <<>> THEN <<>> ELSE <<Question>> \o query)

\* The target is the second of the three words of the start line.
ParseStartLine(c) == Parse(Target(c))

SendRequest(c) ==
    /\ pc = "idle" /\ requests < MaxRequests
    /\ pc' = "parse" /\ call' = c /\ requests' = requests + 1
    /\ url' = ParseStartLine(c)
    /\ asked' = NONE /\ response' = NoResponse
    /\ next' = 0 /\ opened' = 0 /\ eof' = FALSE /\ written' = 0
    /\ matched' = NONE /\ touched' = {}
    /\ UNCHANGED <<disk, changes>>

---------------------------------------------------------------------------
\* Server

\* Router::FindView: the first route for the method that matches the path.
FindView(method, path) ==
    LET i == SelectInSeq(Routes, LAMBDA r : method \in r.methods /\ path \in r.matches)
    IN  IF i = 0 THEN NONE ELSE Routes[i].view

MatchView(method, path) ==
    \E i \in DOMAIN Routes : method \in Routes[i].methods /\ path \in Routes[i].matches

\* What the system says of a path: that it is no directory and exists, that it
\* can be opened, or an error in place of its status.
Exists(path)      == path \in Documents /\ disk[path] \in Sizes \cup {Locked}
Opens(path)       == path \in Documents /\ disk[path] \in Sizes
StatusFails(path) == path \in Documents /\ disk[path] = Hidden

\* MatchViewOrStatic: "/" stands for "/index.html".
StaticPath(path) == IF path = <<Slash>> THEN AppendPath(path, IndexHtml, FALSE) ELSE path
MatchViewOrStatic(method, path) ==
    \/ MatchView(method, path)
    \/ method = "GET" /\ Exists(StaticPath(path))

\* is_directory() throws if it cannot read the status of the path.
MatchThrows(method, path) ==
    ~MatchView(method, path) /\ method = "GET" /\ StatusFails(StaticPath(path))

\* Mutant: the path "/" is left as it is.
OnHeadersEndNoIndex ==
    /\ pc = "parse" /\ ~MatchThrows(call.method, url.path)
    /\ IF MatchViewOrStatic(call.method, url.path)
       THEN /\ pc' = "handle"
            /\ matched' = [view |-> FindView(call.method, url.path),
                           path |-> StaticPath(url.path)]
            /\ UNCHANGED <<url, response>>
       ELSE /\ pc' = "headers" /\ response' = Response(400, NoBody)
            /\ UNCHANGED <<url, matched>>
    /\ UNCHANGED <<disk, call, asked, writing, touched, requests, changes>>

\* OnHeadersEnd, on a loop thread: if it fails the answer is 400.
OnHeadersEnd ==
    /\ pc = "parse" /\ ~MatchThrows(call.method, url.path)
    /\ IF MatchViewOrStatic(call.method, url.path)
       THEN /\ pc' = "handle"
            /\ url' = [url EXCEPT !.path = StaticPath(@)]
            /\ matched' = [view |-> FindView(call.method, url.path),
                           path |-> StaticPath(url.path)]
            /\ UNCHANGED response
       ELSE /\ pc' = "headers" /\ response' = Response(400, NoBody)
            /\ UNCHANGED <<url, matched>>
    /\ UNCHANGED <<disk, call, asked, writing, touched, requests, changes>>

\* Nothing in webcc catches what MatchViewOrStatic() throws.
OnHeadersEndThrows ==
    /\ pc = "parse" /\ MatchThrows(call.method, url.path)
    /\ pc' = "thrown"
    /\ UNCHANGED <<disk, call, url, answer, writing, matched, touched, requests, changes>>

SendResponse(r) ==
    /\ pc' = "headers" /\ response' = r
    /\ UNCHANGED <<disk, call, url, writing, matched, touched, requests, changes>>

\* Handle, on a worker: a view other than UploadFileView makes a response, or
\* none, or throws, and nothing in the worker catches that (fakeDB.cpp:129).
HandleView ==
    /\ pc = "handle"
    /\ LET view == FindView(call.method, url.path) IN
       /\ view \notin {NONE, UploadView}
       /\ asked' = view
       /\ \/ \E n \in Sizes :
                SendResponse(Response(200, [kind |-> "string", size |-> n, path |-> <<>>]))
          \/ SendResponse(Response(400, NoBody))
          \/ /\ pc' = "thrown"
             /\ UNCHANGED <<disk, call, url, response, writing, matched, touched, requests,
                            changes>>

\* The first part of a form that is named "file", 0 for none: only it is stored.
FilePart(parts) == SelectInSeq(parts, LAMBDA p : p.name = File)
StorePath(name)  == Store \o <<Slash>> \o name

\* UploadFileView::Handle: form_parts() throws if the body is no form, and
\* nothing catches that in the worker.  The answer is 200 in every other case,
\* also when the file cannot be opened and nothing is stored.
HandleUpload ==
    /\ pc = "handle"
    /\ FindView(call.method, url.path) = UploadView
    /\ asked' = UploadView
    /\ IF call.form = NONE
       THEN /\ pc' = "thrown"
            /\ UNCHANGED <<disk, response>>
       ELSE /\ pc' = "headers"
            /\ response' = Response(200, [kind |-> "string", size |-> 0, path |-> <<>>])
            /\ LET i == FilePart(call.form) IN
               disk' = [path \in Documents |->
                   IF /\ i # 0 /\ path = StorePath(call.form[i].file)
                      /\ disk[path] \notin {Locked, Hidden}
                   THEN call.form[i].size ELSE disk[path]]
    /\ UNCHANGED <<call, url, writing, matched, touched, requests, changes>>

\* Without a view: ServeStatic, where FileBody() asks for the size of the file.
ServeStatic ==
    /\ pc = "handle"
    /\ FindView(call.method, url.path) = NONE
    /\ SendResponse(
           IF call.method # "GET" THEN Response(400, NoBody)
           ELSE IF Opens(url.path)
                THEN Response(200, [kind |-> "file", size |-> disk[url.path],
                                    path |-> url.path])
                ELSE Response(404, NoBody))
    /\ UNCHANGED asked

---------------------------------------------------------------------------
\* Connection, on a loop thread

\* The headers are written: InitPayload opens the file, and throws if that
\* fails; nothing in webcc catches it.
OnWriteHeaders ==
    /\ pc = "headers"
    /\ IF response.body.kind = "file" /\ ~Opens(response.body.path)
       THEN pc' = "thrown" /\ UNCHANGED opened
       ELSE /\ pc' = "body"
            /\ opened' = IF response.body.kind = "file" THEN disk[response.body.path] ELSE 0
    /\ next' = 0 /\ eof' = FALSE /\ written' = 0
    /\ UNCHANGED <<disk, call, url, answer, matched, touched, requests, changes>>

\* Mutant: a payload is always a whole chunk.
PayloadWholeChunk(body) ==
    IF body.kind = "file" /\ opened > next THEN ChunkSize ELSE 0

\* NextPayload(): the size of the next piece of a FileBody, 0 at its end.  After
\* a short read it stays at its end, though the file grows.
Payload(body) ==
    IF body.kind = "file" /\ opened > next /\ ~eof
    THEN IF opened - next < ChunkSize THEN opened - next ELSE ChunkSize
    ELSE 0

\* Mutant: ifstream_ does not move on.
WriteFileChunkAgain ==
    /\ pc = "body" /\ Payload(response.body) > 0
    /\ written' = (written + Payload(response.body)) % (ChunkSize + 1)
    /\ UNCHANGED <<disk, pc, call, url, answer, next, opened, eof, matched, touched, requests,
                   changes>>

WriteFileChunk ==
    /\ pc = "body" /\ Payload(response.body) > 0
    /\ next' = next + Payload(response.body)
    /\ eof' = (Payload(response.body) < ChunkSize)
    /\ written' = written + Payload(response.body)
    /\ UNCHANGED <<disk, pc, call, url, answer, opened, matched, touched, requests, changes>>

\* The one payload of a StringBody may be empty.
WriteString ==
    /\ pc = "body" /\ response.body.kind = "string" /\ next = 0
    /\ next' = 1
    /\ written' = written + response.body.size
    /\ UNCHANGED <<disk, pc, call, url, answer, opened, eof, matched, touched, requests, changes>>

OnWriteOK ==
    /\ pc = "body" /\ Payload(response.body) = 0
    /\ response.body.kind = "string" => next = 1
    /\ pc' = "idle"
    /\ UNCHANGED <<disk, call, url, answer, writing, matched, touched, requests, changes>>

---------------------------------------------------------------------------
\* Files change, by hand or by the uploads of other connections.

Touch(path) ==
    /\ changes < MaxChanges /\ changes' = changes + 1
    /\ touched' = touched \cup {path}
    /\ UNCHANGED <<pc, call, url, answer, next, eof, written, matched, requests>>

\* An open file is overwritten under its reader.
Overwrite(path) ==
    /\ Touch(path)
    /\ \E n \in Sizes :
          /\ disk' = [disk EXCEPT ![path] = n]
          /\ opened' = IF pc = "body" /\ response.body.path = path /\ disk[path] # NONE
                       THEN n ELSE opened

\* A file that is open can be read on after it was removed, or locked.
Withdraw(path) ==
    /\ Touch(path)
    /\ \E to \in {NONE, Locked, Hidden} : disk[path] # to /\ disk' = [disk EXCEPT ![path] = to]
    /\ UNCHANGED opened

---------------------------------------------------------------------------
ServerStep == \/ OnHeadersEnd \/ OnHeadersEndThrows \/ HandleView \/ HandleUpload
              \/ ServeStatic \/ OnWriteHeaders \/ WriteFileChunk \/ WriteString \/ OnWriteOK

Next == \/ \E c \in Calls : SendRequest(c)
        \/ ServerStep
        \/ \E path \in Documents : Overwrite(path) \/ Withdraw(path)

\* The threads of the server go on (see WebccServer).
Spec == Init /\ [][Next]_vars /\ WF_vars(ServerStep)

---------------------------------------------------------------------------
\* Properties

\* server.h:88: the view or the file that was matched when the headers were
\* read is the one that answers, unless the file changed since or, though it
\* exists, it cannot be opened.
MatchedIsServed ==
    pc \in {"headers", "body"} /\ matched # NONE =>
        IF matched.view # NONE THEN asked = matched.view
        ELSE \/ response.body.kind = "file" /\ response.body.path = matched.path
             \/ /\ response.status = 404
                /\ \/ matched.path \in touched
                   \/ Exists(matched.path) /\ ~Opens(matched.path)

\* The body has the length that Content-Length announced, or the client takes
\* bytes of the next response for it; unless the file changed meanwhile.
LengthIsWritten ==
    [][pc = "body" /\ pc' = "idle" =>
          \/ written = response.length
          \/ response.body.kind = "file" /\ response.body.path \in touched]_vars

\* A view finds the parameters that the client encoded, if no key or value has
\* an "&" and no key a "=" (EncodeQuery leaves both), and the URL has no "://".
Reserved(c) ==
    \E p \in ToSet(c.parameters) :
        Find(p.key, Ampersand) # 0 \/ Find(p.key, Equals) # 0 \/ Find(p.value, Ampersand) # 0
ParametersArrive ==
    pc = "handle" /\ ~Reserved(call) /\ FindString(Target(call), SchemeEnd) = 0 =>
        \A i \in DOMAIN call.parameters :
            (\A j \in 1..i - 1 : call.parameters[j].key # call.parameters[i].key) =>
                Get(UrlQuery(url.query), call.parameters[i].key) = call.parameters[i].value

\* A request is answered to its last byte whatever happens to the files, or a
\* thread of the server throws: the chunks of a body come to an end.
Answered == []<>(pc \in {"idle", "thrown"})
=============================================================================
