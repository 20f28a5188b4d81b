---------------------------- MODULE MCSocketServer ----------------------------
(* Instances of SocketServer for TLC: all connections of one host, each    *)
(* room in an area of its own.                                             *)
EXTENDS SocketServer, TLC

MCHostOf == [s \in Socket |-> CHOOSE h \in Host : TRUE]
MCAreaOf == [r \in RoomId |-> r]

Symmetry == Permutations(Socket) \cup Permutations(RoomId)
=============================================================================
