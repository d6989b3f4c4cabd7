----------------------------- MODULE MCTCPServer -----------------------------
(* Small instances of TCPServer for TLC.                                   *)
EXTENDS TCPServer, TLC

(* Requests per connection: one each; or two from one client, while the    *)
(* others only connect, wait for a descriptor and go away.                 *)
One == [c \in Conns |-> 1]
Favoured == CHOOSE c \in Conns : TRUE
Uneven == [c \in Conns |-> IF c = Favoured THEN 2 ELSE 0]

(* Connections and descriptors are interchangeable.                        *)
Symmetry == Permutations(Conns) \cup Permutations(Fds)
==============================================================================
