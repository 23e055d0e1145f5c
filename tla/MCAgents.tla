------------------------------ MODULE MCAgents ------------------------------
(* An instance of Agents for TLC: the first agent always answers, and is   *)
(* farther away than the second, which may not answer.                     *)
EXTENDS Agents, TLC

CONSTANTS a1, a2, h1, h2, r1, r2

MCAddresses == {a1, a2}
MCLatency == (a1 :> {2}) @@ (a2 :> {1, Unreachable})
MCHandlers == {h1, h2}
MCRefreshers == {r1, r2}

(* Two messages handled at once; three one after another, the least for a  *)
(* list, an "on" and an "off" beside a refresher that sorts; two           *)
(* refreshers, started by two lists, and a third list that signals.        *)
Scope(handlers, refreshers, addresses, messages) ==
  [handlers |-> handlers, refreshers |-> refreshers,
   addresses |-> addresses, messages |-> messages]

MCScopes ==
  {Scope({h1, h2}, {r1}, {a1, a2}, 2), Scope({h1}, {r1}, {a1, a2}, 3),
   Scope({h1}, {r1, r2}, {a1}, 3), Scope({h1}, {r1, r2}, {a1, a2}, 2)}
=============================================================================
