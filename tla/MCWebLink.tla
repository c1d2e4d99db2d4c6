----------------------------- MODULE MCWebLink -----------------------------
(***************************************************************************)
(* TLC's instance of WebLink: a page, a file and an upload are requested.  *)
(***************************************************************************)
EXTENDS WebLink

LinkRequest(kind, header, body) ==
  [kind |-> kind, header |-> header, body |-> body]

LinkRequests ==
  {LinkRequest("page", 1, 0), LinkRequest("file", 2, 0),
   LinkRequest("upload", 1, 1)}
=============================================================================
