----------------------------- MODULE MCHttpText -----------------------------
(***************************************************************************)
(* TLC's instance of HttpText: uploads of every short file that does not   *)
(* contain the boundary, NUL among its bytes, with both line ends and the  *)
(* header fields in either order, uploads without a name, requests for     *)
(* files with similar names, and three requests that the server turns      *)
(* down, to a server started with a file or none.                          *)
(***************************************************************************)
EXTENDS HttpText, TLC

CONSTANTS
  DASH, b, x, n, m,
  MaxFile     \* bytes of an uploaded file

Mark == <<DASH, b>>

NamesServed == ("" :> <<>>) @@ ("a.txt" :> <<n>>) @@ ("b.txt" :> <<m>>)

Lists == {<<>>, <<<<"a.txt">>>>}

UserOptions ==
  {<<"-h">>, <<"-i", "10.0.0.2">>, <<"-i", "10.0.0.3">>, <<"-i", "here">>, <<"-i">>,
   <<"-m", "2000">>, <<"-m", "many">>, <<"-m">>, <<"a.txt">>, <<"b.txt">>}

GoodAddresses == {"10.0.0.2", "10.0.0.3"}

Sizes == ("2000" :> 2000) @@ ("10.0.0.2" :> 10) @@ ("10.0.0.3" :> 10)

(* A browser takes a boundary that the file does not contain.  With bare   *)
(* line feeds the code takes a CR at the end of a file for the line end.   *)
Files(eol) ==
  {f \in SeqOf({CR, LF, NUL, DASH, b, x}, MaxFile) :
     /\ ~ \E i \in 1 .. Len(f) - 1 : SubSeq(f, i, i + 1) = Mark
     /\ f # <<>> /\ eol = <<LF>> => Last(f) # CR}

Lines(eol, typeFirst, length) ==
  LET type == <<CONTENT_TYPE, x, BOUNDARY>> \o Mark \o eol
      size == <<CONTENT_LENGTH, length>> \o eol
  IN  <<POST, SLASH, SPACE, x>> \o eol
        \o (IF typeFirst THEN type \o size ELSE size \o type) \o eol

Body(eol, name, file, option) ==
  <<DASH, DASH>> \o Mark \o eol
    \o <<DISPOSITION, x, FILENAME_IS, QUOTE>> \o name \o <<QUOTE>> \o option \o eol \o eol
    \o file \o eol \o <<DASH, DASH>> \o Mark \o <<DASH, DASH>>

Upload(eol, typeFirst, name, file, option) ==
  LET body   == Body(eol, name, file, option)
      header == Lines(eol, typeFirst, Len(body))
  IN  [kind |-> "upload", text |-> header \o body, header |-> Len(header),
       mark |-> Mark, name |-> name, file |-> file]

GetText(name) == <<GET, SLASH>> \o name \o <<SPACE, x, CR, LF, CR, LF>>

GetRequest(name) ==
  [kind |-> "get", text |-> GetText(name), header |-> Len(GetText(name)),
   mark |-> <<>>, name |-> name, file |-> <<>>]

Refused(text, header) ==
  [kind |-> "refused", text |-> text, header |-> header, mark |-> <<>>,
   name |-> <<>>, file |-> <<>>]

TextRequests ==
  UNION {{Upload(eol, typeFirst, <<n>>, file, option) :
            typeFirst \in BOOLEAN, file \in Files(eol),
            option \in {<<>>, <<SEMI, x>>}} : eol \in {<<LF>>, <<CR, LF>>}}
  \cup {Upload(<<CR, LF>>, TRUE, <<>>, file, <<>>) : file \in {<<>>, <<x>>}}
  \cup {GetRequest(name) : name \in {<<>>, <<n>>, <<m>>, <<n, m>>, <<n, n>>}}
  \cup {Refused(<<POST, SLASH, SPACE, LF, CONTENT_TYPE, x, LF, LF>>, 8),
        Refused(<<POST, SLASH, SPACE, LF, CONTENT_TYPE, BOUNDARY, b, LF, CONTENT_LENGTH, 1, LF,
                  LF, x>>, 12),
        Refused([i \in 1 .. DEFAULT_SIZE + 1 |-> x], -1)}
=============================================================================
