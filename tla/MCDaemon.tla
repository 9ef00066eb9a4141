------------------------------ MODULE MCDaemon ------------------------------
(* Socket numbers are interchangeable but for the two servers'.            *)
EXTENDS Daemon

ClientSymmetry == Permutations(ClientFd)
=============================================================================
