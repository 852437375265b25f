----------------------------- MODULE MCPeerNode -----------------------------
(* Two remote peers. Generation 2 restarts n1 and swaps the addresses, but  *)
(* n2's credential in it does not verify, so it is never applied as a       *)
(* whole; a lookup may give n1's record of it. Generation 3 has new         *)
(* candidates for n1, which keeps the address n2 had, and no n2.            *)
EXTENDS PeerNode

CONSTANTS n1, n2, a1, a2

Rec(addr, inc, cand) == [addr |-> addr, inc |-> inc, cand |-> cand]
World(m, on, bad) == [members |-> m, online |-> on, bad |-> bad]

MCWorlds ==
  << World([i \in {n1, n2} |-> IF i = n1 THEN Rec(a1, 1, 1) ELSE Rec(a2, 1, 1)], {n1, n2}, {}),
     World([i \in {n1, n2} |-> IF i = n1 THEN Rec(a2, 2, 1) ELSE Rec(a1, 1, 1)], {n1, n2}, {n2}),
     World([i \in {n1} |-> Rec(a2, 2, 2)], {n1}, {}) >>
MCInitialPeers == [i \in {n1, n2} |-> IF i = n1 THEN 1 ELSE 2]
=============================================================================
