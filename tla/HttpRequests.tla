---------------------------- MODULE HttpRequests ----------------------------
(***************************************************************************)
(* What a client of src/web_server.c sends: the header that ends in an     *)
(* empty line, the request for a name, and the multipart body in which a   *)
(* browser wraps an uploaded file.  A text is a sequence of bytes.         *)
(* Nothing here says how the server reads it.                              *)
(***************************************************************************)
EXTENDS Integers, Sequences

CONSTANTS
  CR, LF, NUL, SPACE, SLASH, QUOTE, SEMI,
  GET, POST, CONTENT_LENGTH, CONTENT_TYPE, BOUNDARY, DISPOSITION, FILENAME_IS  \* keywords

Bytes == <<CR, LF, NUL, SPACE, SLASH, QUOTE, SEMI, GET, POST, CONTENT_LENGTH,
           CONTENT_TYPE, BOUNDARY, DISPOSITION, FILENAME_IS>>

ASSUME BytesAssumption ==
  /\ \A i, k \in 1 .. 14 : i # k => Bytes[i] # Bytes[k]
  /\ \A i \in 1 .. 14 : Bytes[i] \notin Nat

LineEnds == {CR, LF}

(* s is a string of bytes that are not in the set.                         *)
IsString(s, without) ==
  /\ Len(s) \in Nat /\ s = [i \in 1 .. Len(s) |-> s[i]]
  /\ \A i \in 1 .. Len(s) : s[i] \notin without

BytesAt(text, k, s) == \A i \in 1 .. Len(s) : text[k + i - 1] = s[i]

(* The byte at k ends an empty line of the text that begins at from.       *)
EndsEmptyLine(text, from, k) ==
  /\ text[k] = LF
  /\ \/ k - 1 >= from /\ text[k-1] = LF
     \/ k - 2 >= from /\ text[k-1] = CR /\ text[k-2] = LF

(* The header of the text that begins at from ends at k.                   *)
HeaderEnds(text, from, k) ==
  EndsEmptyLine(text, from, k) /\ \A i \in from .. k-1 : ~EndsEmptyLine(text, from, i)

(* Of the lines from .. to, one begins with the keyword, at k.             *)
FieldAt(text, from, to, keyword, k) ==
  {i \in from .. to-1 : text[i] = keyword /\ (i = from \/ text[i-1] \in LineEnds)} = {k}

(* In the rest of the line at from, the keyword is first at k.             *)
ParameterAt(text, from, keyword, k) ==
  text[k] = keyword /\ \A i \in from .. k-1 : text[i] \notin LineEnds \cup {keyword}

(* A client sends the body that its header promises, and no NUL in the     *)
(* header.                                                                 *)
IsRequest(r) ==
  /\ IsString(r.text, {}) /\ \A i \in 1 .. r.header : r.text[i] # NUL
  /\ IF r.header = -1
     THEN \A k \in 1 .. Len(r.text) : ~EndsEmptyLine(r.text, 1, k)
     ELSE r.header \in 1 .. Len(r.text) /\ HeaderEnds(r.text, 1, r.header)
  /\ \A i \in 1 .. r.header-1 :
       r.text[i] = CONTENT_LENGTH /\ r.text[i+1] \in Nat =>
         r.header + r.text[i+1] <= Len(r.text)

(* A request for a name, of no bytes for the page itself.                  *)
IsGet(r) ==
  /\ IsString(r.name, LineEnds \cup {SPACE})
  /\ r.header > 0 /\ r.text[1] = GET /\ r.text[2] = SLASH
  /\ BytesAt(r.text, 3, r.name) /\ r.text[Len(r.name) + 3] = SPACE

(* The header of an upload: how long the body is, and the boundary that    *)
(* the browser has chosen, up to the end of the line.                      *)
UploadHeader(r) ==
  /\ r.header > 0 /\ r.text[1] = POST
  /\ \E i \in 1 .. r.header-1 :
       /\ FieldAt(r.text, 1, r.header, CONTENT_LENGTH, i)
       /\ r.text[i+1] = Len(r.text) - r.header
  /\ \E i \in 1 .. r.header-1 :
       /\ FieldAt(r.text, 1, r.header, CONTENT_TYPE, i)
       /\ \E k \in i+1 .. r.header-1 :
            /\ ParameterAt(r.text, i+1, BOUNDARY, k)
            /\ BytesAt(r.text, k+1, r.mark) /\ k + Len(r.mark) < r.header
            /\ r.text[k + Len(r.mark) + 1] \in LineEnds

(* The boundary is nowhere in the body but around the one part.            *)
MarkedAt(r, first, second) ==
  /\ IsString(r.mark, LineEnds) /\ r.mark # <<>>
  /\ first + Len(r.mark) <= second - 5 /\ second + Len(r.mark) <= Len(r.text)
  /\ {i \in r.header + 1 .. Len(r.text) + 1 - Len(r.mark) : BytesAt(r.text, i, r.mark)}
       = {first, second}

(* The part ends at last, in front of a line end and two dashes.           *)
PartEnds(text, second, last) ==
  last = IF text[second-4] = CR THEN second - 5 ELSE second - 4

(* The name of the file stands in quotes in the header from .. to.         *)
NameField(r, from, to) ==
  /\ IsString(r.name, LineEnds \cup {SEMI})
  /\ \E i \in from .. to-1 :
       /\ FieldAt(r.text, from, to, DISPOSITION, i)
       /\ \E k \in i+1 .. to-1 :
            /\ ParameterAt(r.text, i+1, FILENAME_IS, k) /\ r.text[k+1] = QUOTE
            /\ BytesAt(r.text, k+2, r.name) /\ r.text[k + Len(r.name) + 2] = QUOTE
            /\ r.text[k + Len(r.name) + 3] \in LineEnds \cup {SEMI}
            /\ k + Len(r.name) + 3 <= to

(* An upload: what follows the header of the part is the file, any bytes.  *)
IsUpload(r, limit) ==
  /\ UploadHeader(r)
  /\ \E first, second \in r.header + 1 .. Len(r.text) :
       /\ MarkedAt(r, first, second)
       /\ \E last, k \in first + Len(r.mark) .. second - 4 :
            /\ PartEnds(r.text, second, last)
            /\ k <= last /\ k < first + Len(r.mark) + limit
            /\ HeaderEnds(r.text, first + Len(r.mark), k)
            /\ \A i \in first + Len(r.mark) .. k : r.text[i] # NUL
            /\ NameField(r, first + Len(r.mark), k)
            /\ r.file = [i \in 1 .. last - k |-> r.text[k+i]]
=============================================================================
