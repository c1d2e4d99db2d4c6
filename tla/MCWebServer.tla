---------------------------- MODULE MCWebServer ----------------------------
(***************************************************************************)
(* TLC's instance of WebServer: the requests.  One upload fits the buffer, *)
(* one lacks the room for the zero, one is longer; one header never ends.  *)
(***************************************************************************)
EXTENDS WebServer

Request(kind, body) == [kind |-> kind, header |-> 1, body |-> body]

AllRequests ==
  {Request("page", 0), Request("file", 0), Request("upload", 1),
   Request("upload", 2), Request("upload", 3), Request("other", 0),
   [kind |-> "page", header |-> 9, body |-> 0]}
=============================================================================
