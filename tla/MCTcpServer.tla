----------------------------- MODULE MCTcpServer -----------------------------
(* TcpServer with two connections and at most two I/O loops.               *)
EXTENDS TcpServer, TLC

CONSTANTS io1, io2, c1, c2

SingleReactor == {<<>>}
OneIOLoop == {<<io1>>}
AtMostOneIOLoop == {<<>>, <<io1>>}
AtMostTwoIOLoops == {<<>>, <<io1>>, <<io1, io2>>}

Symmetry == Permutations(Conn)
=============================================================================
