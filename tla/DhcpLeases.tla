----------------------------- MODULE DhcpLeases -----------------------------
(***************************************************************************)
(* DhcpCluster from the state an election ends in (DhcpLeasesProofs,       *)
(* ElectionStabilizes): the nodes are connected, the highest leads, and    *)
(* each has its share of the pool. What follows is clients' requests,      *)
(* time, and the news of leases between the nodes, in every order.         *)
(***************************************************************************)
EXTENDS DhcpCluster

Coordinator == CHOOSE i \in Nodes : \A j \in Nodes : j <= i

\* The election is over, and no client has asked for anything.
Stable ==
  /\ up = Nodes /\ link = {p \in Nodes \X Nodes : p[1] # p[2]} /\ lost = {}
  /\ joining = [i \in Nodes |-> {}]
  /\ chan = [p \in Nodes \X Nodes |-> <<>>]
  /\ peers = [i \in Nodes |-> Nodes \ {i}]
  /\ role = [i \in Nodes |-> IF i = Coordinator THEN "Coordinator" ELSE "Follower"]
  /\ coord = [i \in Nodes |-> {Coordinator}]
  /\ majority = [i \in Nodes |-> TRUE]
  /\ timers = [i \in Nodes |-> 0]
  /\ \E order \in Orders(Nodes \ {Coordinator}) :
       svc = [i \in Nodes |->
                NewService(Share(Nodes \ {Coordinator}, IF i = Coordinator THEN 1 ELSE order[i]))]
  /\ acked = {}

StableInit == Stable /\ now = 0 /\ faults = 0 /\ timely = TRUE

LeasesSpec == StableInit /\ [][Next]_vars

-----------------------------------------------------------------------------
\* What a client was acknowledged stands, with exactly that expiry, in the table
\* of the node whose share the address is from: no other request, no news from
\* another node and no pruning takes it away or changes it before it expires.
AckIsRecorded ==
  \A l \in acked : \E i \in Nodes : l \in svc[i].leases /\ l.addr \in Addresses(svc[i].pool)

\* "Every node should have a consistent lease table state" (doc/design.md:39):
\* when the news has arrived, the tables agree on every lease in force.
TablesAgree ==
  (\A p \in Nodes \X Nodes : chan[p] = <<>>) =>
    \A i, j \in Nodes : Unexpired(svc[i].leases, now) = Unexpired(svc[j].leases, now)

\* The leases in force: each node's, of addresses of its own share.
OwnLeases(i) == {l \in svc[i].leases : l.addr \in Addresses(svc[i].pool)}

LeasesInForce == UNION {Unexpired(OwnLeases(i), now) : i \in Nodes}

\* The tables of the nodes, each for its share, are together one address book:
\* the nodes promise what a single service does. No lease in force is withdrawn
\* or shortened, or granted again by another node, by any request, news or
\* pruning at any node.
Book == INSTANCE AddressBook WITH
  book <- LeasesInForce,
  Pool <- Addresses(ConfigPool)

ClusterKeepsAddressBook == Book!Spec
=============================================================================
