-------------------------- MODULE MCTcpMysqlServer --------------------------
(* TcpMysqlServer with room for two connections, for model checking.       *)
EXTENDS TcpMysqlServer, TLC

CONSTANTS c1, c2, c3, c4

Symmetry == Permutations(Conn)
=============================================================================
