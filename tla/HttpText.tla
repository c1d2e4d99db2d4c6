------------------------------ MODULE HttpText ------------------------------
(***************************************************************************)
(* The text of a request, as main and parse_http_content of                *)
(* src/web_server.c read it: the header as it arrives piece by piece, the  *)
(* fields of a POST, and the file between the boundary markers.            *)
(*                                                                         *)
(* A buffer is a function on 0 .. len-1.  A byte is a model value; each    *)
(* keyword the code searches for ("POST ", "Content-Length: ", ...) counts *)
(* as one byte, and so does the number after Content-Length.  The byte     *)
(* behind the text is 0, as the code writes it there.                      *)
(***************************************************************************)
EXTENDS CommandLine, HttpRequests

CONSTANTS
  Requests,   \* requests a client may send: [text, ...], see HttpRequests
  NameBytes,  \* file names of the command line -> their bytes
  SCAN_LIMIT, \* bytes header_scan looks at (1024 * 1024)
  MAX_FAILS,  \* 5
  Started     \* bound: the command lines after which a client is served

(* The last but one: a longer header, or an endless one that fits into the *)
(* buffer, leaves the server and the client waiting for each other.        *)
ASSUME RequestsAssumption ==
  /\ SCAN_LIMIT \in Nat /\ MAX_FAILS \in Nat
  /\ \A r \in Requests :
       /\ IsRequest(r)
       /\ r.kind = "get" => IsGet(r)
       /\ r.kind = "upload" => IsUpload(r, SCAN_LIMIT) /\ Len(r.text) < DEFAULT_SIZE
       /\ IF r.header = -1 THEN Len(r.text) > DEFAULT_SIZE ELSE r.header <= SCAN_LIMIT

(* A client asks for a blank as %20; a name that holds one is not found.   *)
ASSUME StartedAssumption ==
  /\ NO_NAME \in DOMAIN NameBytes
  /\ \A f \in DOMAIN NameBytes :
       IsString(NameBytes[f], {SPACE}) /\ (NameBytes[f] = <<>> <=> f = NO_NAME)
  /\ \A c \in Started : Complete(c) /\ NameOf(c) \in DOMAIN NameBytes

VARIABLES
  request,     \* the request being sent
  read_count,  \* bytes of it received
  buffer,      \* read_buffer, with the zeros split_header has put there
  http_header, \* length of the header, -1 while it is incomplete
  required,    \* required_length
  boundary,    \* the boundary field
  upload,      \* [name, file] once parse_http_content has found them
  failed,      \* answers of the user that were neither yes nor no
  phase        \* "none", "read", "scan", "ask", or what became of the
               \* request: "form", "link", "file", "missing", "message",
               \* "saved", "exit"

textVars == <<request, read_count, buffer, http_header, required, boundary,
              upload, failed, phase>>

NO_REQUEST == [kind |-> "none", text |-> <<>>, header |-> -1, mark |-> <<>>,
               name |-> <<>>, file |-> <<>>]

NOTHING == [found |-> FALSE]   \* no name and no file; either may be empty

(***************************************************************************)
(* Faulty forms of definitions below; nothing uses them.                   *)
(***************************************************************************)
FaultEmptyLine(text, len, i) ==       \* the byte between two LF not checked
  text[i] = LF /\ i < len - 2 /\ text[i + 2] = LF
FaultBareLine(text, len, i) ==        \* a CR in front of the second LF not allowed
  text[i] = LF /\ i < len - 1 /\ text[i + 1] = LF
FaultCut(text, found) == found - 3    \* the CR of the line end stays
FaultNameEnds(text)   == TRUE         \* the blank after the name not checked

(***************************************************************************)
(* Buffers and strings.                                                    *)
(***************************************************************************)
Size(text) == Cardinality(DOMAIN text)

AsBuffer(s) == [i \in 0 .. Len(s) - 1 |-> s[i+1]]

Part(text, from, to) == [i \in 0 .. to - from - 1 |-> text[from + i]]

First(S) == IF S = {} THEN -1 ELSE Min(S)

(* Where the string that starts at from ends.                              *)
StringEnd(text, from) ==
  Min({i \in from .. Size(text) - 1 : text[i] = NUL} \cup {Size(text)})

(* strstr for a keyword.                                                   *)
Find(text, from, keyword) ==
  First({i \in from .. StringEnd(text, from) - 1 : text[i] = keyword})

(* An empty line that follows the LF at i.                                 *)
EmptyLine(text, len, i) ==
  /\ text[i] = LF
  /\ \/ i < len - 1 /\ text[i + 1] = LF
     \/ i < len - 2 /\ text[i + 1] = CR /\ text[i + 2] = LF

header_scan(text) ==
  LET len == IF Size(text) > SCAN_LIMIT THEN SCAN_LIMIT ELSE Size(text)
      i   == First({k \in 0 .. len - 1 : EmptyLine(text, len, k)})
  IN  IF i = -1 THEN -1 ELSE IF text[i + 1] = LF THEN i + 2 ELSE i + 3

(* The last position at which the needle fits is not tried.                *)
find_needle(text, needle) ==
  First({i \in 0 .. Size(text) - Size(needle) - 1 :
           \A k \in DOMAIN needle : text[i + k] = needle[k]})

split_header(text, len) ==
  [i \in DOMAIN text |-> IF i < len /\ text[i] \in {LF, CR} THEN NUL ELSE text[i]]

(* The position after the keyword, at the first line that starts with it.  *)
header_value(text, len, keyword) ==
  LET line == First({i \in 0 .. len - 2 :
                (i = 0 \/ text[i - 1] = NUL) /\ text[i] = keyword})
  IN  IF line = -1 THEN -1 ELSE line + 1

(***************************************************************************)
(* main: the request line and the fields of a POST.                        *)
(***************************************************************************)
(* The file to be served, of no bytes when an upload is waited for.        *)
Filename == NameBytes[filename]

(* open_tcp returns a connection.                                          *)
Accept ==
  /\ state \in {"serving", "waiting"} /\ command \in Started
  /\ phase = "none"
  /\ request' \in Requests
  /\ phase' = "read"
  /\ UNCHANGED <<read_count, buffer, http_header, required, boundary, upload,
                 failed>>

(* One read of read_tcp, of any length.                                    *)
Arrive ==
  /\ phase = "read"
  /\ \E n \in read_count + 1 .. Len(request.text) :
       /\ n <= max_size
       /\ read_count' = n
       /\ buffer' = [i \in 0 .. n - 1 |->
                       IF i < read_count THEN buffer[i] ELSE request.text[i + 1]]
  /\ phase' = "scan"
  /\ UNCHANGED <<request, http_header, required, boundary, upload, failed>>

BufferExhausted ==
  /\ phase = "read"
  /\ read_count = max_size
  /\ phase' = "exit"
  /\ UNCHANGED <<request, read_count, buffer, http_header, required, boundary,
                 upload, failed>>

HeaderMissing ==
  /\ phase = "scan" /\ http_header = -1
  /\ header_scan(buffer) = -1
  /\ phase' = "read"
  /\ UNCHANGED <<request, read_count, buffer, http_header, required, boundary,
                 upload, failed>>

(* The text of the request line behind "GET /" is the name and a blank.    *)
NameEnds(text) == text[2 + Len(Filename)] = SPACE

Serves(text) ==
  /\ Len(Filename) + 2 \in DOMAIN text
  /\ \A k \in 1 .. Len(Filename) : text[1 + k] = Filename[k]
  /\ NameEnds(text)

AnswerGet(text) ==
  IF text[1] = SLASH /\ text[2] = SPACE
  THEN IF filename = NO_NAME THEN "form" ELSE "link"
  ELSE IF text[1] = SLASH /\ Serves(text) THEN "file" ELSE "missing"

Get ==
  /\ phase = "scan" /\ http_header = -1
  /\ http_header' = header_scan(buffer) /\ http_header' # -1
  /\ buffer' = split_header(buffer, http_header')
  /\ buffer'[0] = GET
  /\ phase' = AnswerGet(buffer')
  /\ UNCHANGED <<request, read_count, required, boundary, upload, failed>>

Post ==
  /\ phase = "scan" /\ http_header = -1
  /\ http_header' = header_scan(buffer) /\ http_header' # -1
  /\ buffer' = split_header(buffer, http_header')
  /\ buffer'[0] = POST
  /\ LET content_index == header_value(buffer', http_header', CONTENT_LENGTH)
         content_type  == header_value(buffer', http_header', CONTENT_TYPE)
         field         == IF content_type = -1 THEN -1
                          ELSE Find(buffer', content_type, BOUNDARY)
         total         == buffer'[content_index] + http_header'
     IN  IF \/ content_index = -1 \/ field = -1
            \/ buffer'[content_index] \notin 0 .. max_size
            \/ total > max_size - 1
         THEN phase' = "message" /\ UNCHANGED <<required, boundary>>
         ELSE /\ required' = total
              /\ boundary' = Part(buffer', field + 1, StringEnd(buffer', field))
              /\ UNCHANGED phase
  /\ UNCHANGED <<request, read_count, upload, failed>>

BodyComplete == read_count >= required

BodyMissing ==
  /\ phase = "scan" /\ http_header # -1
  /\ ~BodyComplete
  /\ phase' = "read"
  /\ UNCHANGED <<request, read_count, buffer, http_header, required, boundary,
                 upload, failed>>

(***************************************************************************)
(* parse_http_content.                                                     *)
(***************************************************************************)
(* The line end and two dashes in front of the second marker.              *)
Cut(text, found) == IF text[found - 4] = CR THEN found - 4 ELSE found - 3

(* The field up to its end or a semicolon, without the quotes around it.   *)
FileName(text, from) ==
  LET stop == Min({i \in from .. StringEnd(text, from) - 1 : text[i] = SEMI}
                  \cup {StringEnd(text, from)})
      head == IF text[from] = QUOTE THEN from + 1 ELSE from
      tail == IF text[stop - 1] = QUOTE THEN stop - 1 ELSE stop
  IN  Part(text, head, tail)

(* The file and its name, NOTHING when a marker or a field is missing.     *)
ParseContent(text) ==
  LET first   == find_needle(text, boundary)
      begin   == first + Size(boundary)
      second  == find_needle(Part(text, begin, Size(text)), boundary)
      content == Part(text, begin, Cut(text, begin + second))
      header  == header_scan(content)
      fields  == split_header(content, header)
      disp    == header_value(fields, header, DISPOSITION)
      name    == Find(fields, disp, FILENAME_IS)
  IN  IF first = -1 \/ second = -1 THEN NOTHING
      ELSE IF header = -1 THEN NOTHING
      ELSE IF disp = -1 THEN NOTHING
      ELSE IF name = -1 THEN NOTHING
      ELSE [name |-> FileName(fields, name + 1),
            file |-> Part(fields, header, Size(fields))]

Parse ==
  /\ phase = "scan" /\ http_header # -1
  /\ BodyComplete
  /\ upload' = ParseContent(Part(buffer, http_header, required))
  /\ phase' = IF upload' = NOTHING THEN "message" ELSE "ask"
  /\ UNCHANGED <<request, read_count, buffer, http_header, required, boundary,
                 failed>>

(* An answer of the user; the file to write may not open.                  *)
Ask(answer) ==
  /\ phase = "ask"
  /\ phase' \in IF failed > MAX_FAILS \/ answer \in {"no", "eof"} THEN {"message"}
                ELSE IF answer = "yes" THEN {"saved", "message"} ELSE {"ask"}
  /\ failed' = IF phase' = "ask" THEN failed + 1 ELSE failed
  /\ UNCHANGED <<request, read_count, buffer, http_header, required, boundary,
                 upload>>

Init ==
  /\ ArgsInit
  /\ request = NO_REQUEST
  /\ read_count = 0 /\ buffer = <<>> /\ http_header = -1 /\ required = -1
  /\ boundary = <<>> /\ upload = NOTHING /\ failed = 0 /\ phase = "none"

Server ==
  \/ BufferExhausted \/ HeaderMissing \/ Get \/ Post \/ BodyMissing \/ Parse
  \/ \E answer \in {"yes", "no", "eof", "other"} : Ask(answer)

Next ==
  \/ ArgsNext /\ UNCHANGED textVars
  \/ (Accept \/ Arrive \/ Server) /\ UNCHANGED argsVars

Spec == Init /\ [][Next]_<<argsVars, textVars>>

(***************************************************************************)
(* Properties.                                                             *)
(***************************************************************************)
(* The header ends where it ends, however the request was cut into reads   *)
(* and whatever empty lines the body holds.                                *)
HeaderExact == http_header \in {-1, request.header}

(* The file found in a well-formed upload is the one that was sent, byte   *)
(* by byte, with its name: the line end before the second marker is not    *)
(* part of it, line ends and dashes of the file itself are.                *)
UploadRoundTrip ==
  request.kind = "upload" /\ phase \in {"ask", "saved", "message"} =>
    upload = [name |-> AsBuffer(request.name), file |-> AsBuffer(request.file)]

(* The link of the page gets the file of the command line, and no other    *)
(* name does; a server that waits for an upload offers and sends none.     *)
LinkServesFile ==
  request.kind = "get" /\ phase \in {"form", "link", "file", "missing"} =>
    /\ phase = "form" <=> request.name = <<>> /\ NameAt(command) = {}
    /\ phase = "link" <=> request.name = <<>> /\ NameAt(command) # {}
    /\ phase = "file" <=> NameAt(command) # {} /\ request.name = NameBytes[NameOf(command)]

(* The client has sent all it will and waits for the answer: the server,   *)
(* on its way back to read, must not be waiting for more.                  *)
NoMutualWait == phase = "read" => read_count < Len(request.text)
=============================================================================
