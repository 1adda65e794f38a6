----------------------------- MODULE MCTcpLinks -----------------------------
EXTENDS TcpLinks, TLC
SameName(k) == {k}
ASSUME PeersKeepTheirNames == SameNames
Symmetry == Permutations(Conn) \cup Permutations(Bundle)
=============================================================================
