---------------------------- MODULE MCTcpServer -----------------------------
(* Instances of TcpServer for TLC.                                         *)
EXTENDS TcpServer, TLC

CONSTANTS base, io1

\* setThreadNum(0), where the base loop does everything, and a pool.
NoneOrOne == {<< >>, <<io1>>}

\* A pool of one loop.
One == {<<io1>>}

=============================================================================
