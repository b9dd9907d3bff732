------------------------------ MODULE DhtTable ------------------------------
(***************************************************************************)
(* The routing table of a DHT node, for one address family: buckets of     *)
(* nodes, cut only along the path to the node's own id.                    *)
(*                                                                         *)
(* Times are kept as far as the code compares them: a node was asked in    *)
(* the last 15 s or not; it is good (it replied in the last two hours and  *)
(* sent something in the last 15 minutes), stale (it replied, but has been *)
(* silent for 15 minutes) or new (no reply in two hours).                  *)
(***************************************************************************)
EXTENDS DhtIds, Sequences, SequencesExt, TLC

CONSTANTS
    MyId,
    Peers,           \* the other nodes, by id; one address each
    BucketSize,      \* 8 in the program
    MaxBlacklisted,  \* 10 in the program
    AnswerNodes      \* 8: the nodes sent in an answer

ASSUME TableAssumption ==
    /\ MyId \in Ids
    /\ Peers \subseteq Ids \ {MyId}
    /\ {BucketSize, MaxBlacklisted, AnswerNodes} \subseteq Nat \ {0}

VARIABLES
    firsts,     \* the buckets, by the first id of their range
    nodes,      \* the nodes in the table
    cached,     \* the buckets that keep the address of one more candidate
    blacklist,  \* the last addresses blacklisted
    todo        \* what the handler of the last message still has to call

tableVars == <<firsts, nodes, cached, blacklist>>

Node == [pinged : 0..4, asked : BOOLEAN, level : {"new", "stale", "good"}]

\* The calls a handler makes, one after the other: new_node(), insert_search_node()
\* and search_send_get_peers().
NodeCall(id, confirm)   == [call |-> "new_node", id |-> id, confirm |-> confirm]
SearchCall(id, replied) == [call |-> "insert_search_node", id |-> id, replied |-> replied]
AskCall == [call |-> "search_send_get_peers"]

Call == [call : {"new_node"}, id : Peers, confirm : 0..2]
        \cup [call : {"insert_search_node"}, id : Peers, replied : BOOLEAN]
        \cup {AskCall}

TableInit ==
    /\ firsts = {0} /\ nodes = <<>> /\ cached = {}
    /\ blacklist = <<>> /\ todo = <<>>

TableTypeOK ==
    /\ firsts \subseteq Ids /\ 0 \in firsts
    /\ DOMAIN nodes \subseteq Peers
    /\ \A id \in DOMAIN nodes : nodes[id] \in Node /\ (nodes[id].asked => nodes[id].pinged > 0)
    /\ cached \subseteq firsts
    /\ blacklist \in Seq(Peers) /\ Len(blacklist) <= MaxBlacklisted
    /\ todo \in Seq(Call)

-----------------------------------------------------------------------------
\* find_bucket(), the bucket after it (-1 if none) and the one before it.
FindBucket(id) == Max({f \in firsts : f <= id})
NextBucket(f) == IF \E g \in firsts : g > f THEN Min({g \in firsts : g > f}) ELSE -1
PreviousBucket(f) == IF f = 0 THEN -1 ELSE Max({g \in firsts : g < f})

NodesIn(f) == {id \in DOMAIN nodes : FindBucket(id) = f}
MyBucket(f) == FindBucket(MyId) = f

\* node_good()
Good(id) == nodes[id].pinged <= 2 /\ nodes[id].level = "good"

\* What is known of a node met for the first time.
Fresh(confirm) ==
    [pinged |-> 0, asked |-> FALSE, level |-> IF confirm = 2 THEN "good" ELSE "new"]

\* A node that replied after 15 silent minutes is good again with its next message.
Updated(n, confirm) ==
    CASE confirm = 2 -> Fresh(2)
      [] confirm = 1 /\ n.level = "stale" -> [n EXCEPT !.level = "good"]
      [] OTHER -> n

Asked(n) == [n EXCEPT !.pinged = IF n.pinged = 4 THEN 4 ELSE n.pinged + 1, !.asked = TRUE]

\* Some of the nodes, and a new one.
WithNode(kept, id, confirm) ==
    [n \in kept \cup {id} |-> IF n = id THEN Fresh(confirm) ELSE nodes[n]]

Blacklisted(id) == \E i \in DOMAIN blacklist : blacklist[i] = id

Returns == todo' = Tail(todo)

-----------------------------------------------------------------------------
\* new_node(), by the way it ends.

KnownNode(id, confirm) ==
    /\ id \in DOMAIN nodes
    /\ nodes' = [nodes EXCEPT ![id] = Updated(nodes[id], confirm)]
    /\ Returns
    /\ UNCHANGED <<firsts, cached, blacklist>>

\* A mutant: a node counts as bad after one unanswered request.
MutBadNodes(f) == {n \in NodesIn(f) : nodes[n].pinged >= 1 /\ ~nodes[n].asked}

BadNodes(f) == {n \in NodesIn(f) : nodes[n].pinged >= 3 /\ ~nodes[n].asked}

\* A known-bad node makes room.
ReplaceBadNode(id, confirm) ==
    /\ id \notin DOMAIN nodes
    /\ \E bad \in BadNodes(FindBucket(id)) :
          nodes' = WithNode(DOMAIN nodes \ {bad}, id, confirm)
    /\ Returns
    /\ UNCHANGED <<firsts, cached, blacklist>>

AddNode(id, confirm) ==
    /\ id \notin DOMAIN nodes
    /\ BadNodes(FindBucket(id)) = {}
    /\ Cardinality(NodesIn(FindBucket(id))) < BucketSize
    /\ nodes' = WithNode(DOMAIN nodes, id, confirm)
    /\ Returns
    /\ UNCHANGED <<firsts, cached, blacklist>>

BucketFull(id) ==
    /\ id \notin DOMAIN nodes
    /\ BadNodes(FindBucket(id)) = {}
    /\ Cardinality(NodesIn(FindBucket(id))) >= BucketSize

Dubious(f) == {n \in NodesIn(f) : ~Good(n)}

\* The first dubious node not asked lately is sent a ping.
PingDubious(f) ==
    LET candidates == {n \in Dubious(f) : ~nodes[n].asked}
    IN  IF candidates = {} THEN UNCHANGED nodes
        ELSE \E n \in candidates : nodes' = [nodes EXCEPT ![n] = Asked(nodes[n])]

\* A mutant: any full bucket without dubious nodes is cut.
MutSplits(f) == Dubious(f) = {} \/ firsts = {0}

\* The own bucket is cut if all its nodes are good, or if it is the only one.
Splits(f) == MyBucket(f) /\ (Dubious(f) = {} \/ firsts = {0})

\* split_bucket(); new_node() is then called again.
SplitBucket(id) ==
    LET f == FindBucket(id) IN
    /\ BucketFull(id)
    /\ Splits(f)
    /\ PingDubious(f)
    /\ BucketMiddle(f, NextBucket(f)) # -1
    /\ firsts' = firsts \cup {BucketMiddle(f, NextBucket(f))}
    /\ cached' = cached \ {f}
    /\ UNCHANGED <<blacklist, todo>>

\* No room: the address is kept as the bucket's candidate.
CacheNode(id, confirm) ==
    LET f == FindBucket(id) IN
    /\ BucketFull(id)
    /\ ~Splits(f)
    /\ PingDubious(f)
    /\ cached' = cached \cup {f}
    /\ Returns
    /\ UNCHANGED <<firsts, blacklist>>

IgnoreNode(id) ==
    /\ Blacklisted(id)
    /\ Returns
    /\ UNCHANGED tableVars

NewNode(id, confirm) ==
    \/ IgnoreNode(id)
    \/ /\ ~Blacklisted(id)
       /\ \/ KnownNode(id, confirm) \/ ReplaceBadNode(id, confirm) \/ AddNode(id, confirm)
          \/ SplitBucket(id) \/ CacheNode(id, confirm)

-----------------------------------------------------------------------------
\* pinged(): a node in the table was sent a request; from the third on the cached
\* candidate of its bucket is pinged instead.
Pinged(id) ==
    IF id \notin DOMAIN nodes THEN UNCHANGED tableVars
    ELSE /\ nodes' = [nodes EXCEPT ![id] = Asked(nodes[id])]
         /\ cached' = IF nodes[id].pinged >= 2 THEN cached \ {FindBucket(id)} ELSE cached
         /\ UNCHANGED <<firsts, blacklist>>

\* bucket_maintenance() and neighbourhood_maintenance(): a random node of a bucket,
\* or of one next to it, is sent find_node.
Maintenance(id) ==
    /\ id \in DOMAIN nodes
    /\ Pinged(id)
    /\ UNCHANGED todo

\* expire_buckets()
ExpireBuckets ==
    LET dead == {id \in DOMAIN nodes : nodes[id].pinged >= 4} IN
    /\ dead # {}
    /\ nodes' = Restrict(nodes, DOMAIN nodes \ dead)
    /\ cached' = cached \ {FindBucket(id) : id \in dead}
    /\ UNCHANGED <<firsts, blacklist, todo>>

\* blacklist_node(), as far as the table goes: the node becomes easy to discard
\* and the oldest blacklisted address is forgotten.
BlacklistNode(id) ==
    /\ nodes' = IF id \in DOMAIN nodes
                THEN [nodes EXCEPT ![id] = [nodes[id] EXCEPT !.pinged = 4, !.asked = TRUE]]
                ELSE nodes
    /\ cached' = IF id \in DOMAIN nodes THEN cached \ {FindBucket(id)} ELSE cached
    /\ blacklist' = IF Len(blacklist) = MaxBlacklisted
                    THEN Append(Tail(blacklist), id) ELSE Append(blacklist, id)
    /\ UNCHANGED firsts

\* 15 s, 15 minutes or two hours pass for a node.
NodeAges(id) ==
    /\ id \in DOMAIN nodes
    /\ \/ /\ nodes[id].asked
          /\ nodes' = [nodes EXCEPT ![id].asked = FALSE]
       \/ /\ nodes[id].level = "good"
          /\ nodes' = [nodes EXCEPT ![id].level = "stale"]
       \/ /\ nodes[id].level # "new"
          /\ nodes' = [nodes EXCEPT ![id].level = "new"]
    /\ UNCHANGED <<firsts, cached, blacklist, todo>>

-----------------------------------------------------------------------------
\* A mutant: the list is not cut off where a nearer node is found.
MutInsertClosest(list, id, target) ==
    IF Len(list) < AnswerNodes THEN Append(list, id) ELSE list

\* insert_closest_node(): into a list sorted by distance, the farthest drops out.
InsertClosest(list, id, target) ==
    LET i == Cardinality({j \in DOMAIN list : ~Closer(id, list[j], target)})
    IN  SubSeq(SubSeq(list, 1, i) \o <<id>> \o SubSeq(list, i + 1, Len(list)), 1,
               Min({AnswerNodes, Len(list) + 1}))

\* The buckets looked at for an answer: the target's and its neighbours.
AnswerBuckets(target) ==
    LET f == FindBucket(target) IN {f, NextBucket(f), PreviousBucket(f)} \ {-1}

AnswerCandidates(target) ==
    {id \in DOMAIN nodes : FindBucket(id) \in AnswerBuckets(target) /\ Good(id)}

\* send_closest_nodes(): what is answered to find_node and get_peers, the
\* candidates being met in the order given.
ClosestNodes(order, target) ==
    FoldLeft(LAMBDA list, id : InsertClosest(list, id, target), <<>>, order)
=============================================================================
