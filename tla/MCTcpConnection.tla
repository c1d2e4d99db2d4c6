-------------------------- MODULE MCTcpConnection --------------------------
(***************************************************************************)
(* TLC's instance of TcpConnection: the clients are interchangeable.  The  *)
(* sizes and bounds are in the .cfg files.                                 *)
(***************************************************************************)
EXTENDS TcpConnection, TLC

ClientSymmetry == Permutations(Clients)
=============================================================================
