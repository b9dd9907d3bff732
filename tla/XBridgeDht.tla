----------------------------- MODULE XBridgeDht -----------------------------
(***************************************************************************)
(* A DHT node as the application runs it: dht_periodic() handles one       *)
(* message, then does whatever jobs are due; dht_search() is called by the *)
(* thread's loop.  Everything happens on that one thread, so a message is  *)
(* handled to the end (todo is empty) before the next step.                *)
(*                                                                         *)
(* Peers send what they like.  To keep an instance small, behaviours are   *)
(* told apart by what happens in them: a scenario is chosen once.          *)
(***************************************************************************)
EXTENDS DhtSearch, DhtStorage

CONSTANTS
    MentionedNodes,  \* 8: the nodes in an answer
    Scenarios        \* what happens, which peers there are, how many searches

Activities == {"table", "broken", "search", "storage"}

ASSUME DhtAssumption ==
    /\ MentionedNodes \in Nat
    /\ Scenarios \subseteq [does : SUBSET Activities, peers : SUBSET Peers, searches : Nat]
    /\ Askers \subseteq Peers

VARIABLES
    searches,  \* searches started so far
    scenario

vars == <<firsts, nodes, cached, blacklist, todo, search, storage, tokens, rotated,
          searches, scenario>>

Init ==
    /\ TableInit /\ SearchInit /\ StorageInit
    /\ searches = 0
    /\ scenario \in Scenarios

DhtTypeOK ==
    /\ TableTypeOK /\ SearchTypeOK /\ StorageTypeOK
    /\ searches \in 0..scenario.searches
    /\ scenario \in Scenarios

-----------------------------------------------------------------------------
\* dht_periodic(), one action per kind of message.

\* The next message can be read, and it is not ignored.
Receives(from) == todo = <<>> /\ ~Blacklisted(from)

Calls(list) ==
    /\ todo' = list
    /\ UNCHANGED <<tableVars, search>>

\* PING, FIND_NODE, MESSAGE and BROADCAST: the sender is noted.  The packets of the
\* latter two are then handled or relayed (XBridgeOverlay).
Request(from) ==
    /\ "table" \in scenario.does \/ "search" \in scenario.does
    /\ Receives(from)
    /\ Calls(<<NodeCall(from, 1)>>)
    /\ UNCHANGED <<storageVars, searches>>

\* GET_PEERS: also answered with a token.
GetPeers(from) ==
    /\ "storage" \in scenario.does
    /\ Receives(from)
    /\ Calls(<<NodeCall(from, 1)>>)
    /\ GiveToken(from)
    /\ UNCHANGED searches

AnnouncePeer(from, owner, h) ==
    /\ "storage" \in scenario.does
    /\ Receives(from)
    /\ Calls(<<NodeCall(from, 1)>>)
    /\ Announce(h, from, owner)
    /\ UNCHANGED searches

\* REPLY to a ping, or to a search that is gone.
Pong(from) ==
    /\ "table" \in scenario.does
    /\ Receives(from)
    /\ \E confirm \in {1, 2} : Calls(<<NodeCall(from, confirm)>>)
    /\ UNCHANGED <<storageVars, searches>>

\* REPLY to find_node.
NodesFound(from, mentioned) ==
    /\ "table" \in scenario.does
    /\ Receives(from)
    /\ Calls(<<NodeCall(from, 2)>> \o [i \in DOMAIN mentioned |-> NodeCall(mentioned[i], 0)])
    /\ UNCHANGED <<storageVars, searches>>

\* REPLY to get_peers: the search goes on with the nodes found.
PeersFound(from, mentioned) ==
    /\ "search" \in scenario.does
    /\ search.state # "none"
    /\ Receives(from)
    /\ Calls(<<NodeCall(from, 2)>>
             \o FlattenSeq([i \in DOMAIN mentioned |-> <<NodeCall(mentioned[i], 0),
                                                        SearchCall(mentioned[i], FALSE)>>])
             \o <<AskCall, SearchCall(from, TRUE)>>)
    /\ UNCHANGED <<storageVars, searches>>

\* A REPLY with a shortened transaction id, or with half a node in it.  In the
\* second case, for a search that is known, the sender is put back into it.
BrokenReply(from) ==
    /\ "broken" \in scenario.does
    /\ Receives(from)
    /\ BlacklistNode(from)
    /\ FlushSearchNode(from)
    /\ \/ todo' = <<>>
       \/ search.state # "none" /\ todo' = <<SearchCall(from, TRUE)>>
    /\ UNCHANGED <<storageVars, searches>>

\* The calls of the handler.
Step ==
    /\ todo # <<>>
    /\ LET c == Head(todo) IN
       CASE c.call = "new_node" -> NewNode(c.id, c.confirm) /\ UNCHANGED search
         [] c.call = "insert_search_node" -> InsertCall(c.id, c.replied)
         [] c.call = "search_send_get_peers" -> SearchSendGetPeers
    /\ UNCHANGED <<storageVars, searches>>

-----------------------------------------------------------------------------
\* The jobs of dht_periodic(), the commands of the thread, and the time.

TableJob ==
    /\ "table" \in scenario.does
    /\ todo = <<>>
    /\ ExpireBuckets \/ \E id \in Peers : Maintenance(id) \/ NodeAges(id)
    /\ UNCHANGED <<search, storageVars, searches>>

StartSearch ==
    /\ "search" \in scenario.does
    /\ todo = <<>> /\ searches < scenario.searches
    /\ DhtSearch
    /\ searches' = searches + 1
    /\ UNCHANGED storageVars

SearchJob ==
    /\ todo = <<>>
    /\ PeriodicSearch \/ ExpireSearch
    /\ UNCHANGED <<storageVars, searches>>

\* Only another search for the target asks how old a reply is.
SearchAges ==
    /\ todo = <<>>
    /\ \/ StepAges
       \/ searches < scenario.searches /\ \E i \in DOMAIN search.list : ReplyAges(i)
    /\ UNCHANGED <<storageVars, searches>>

RequestTimesOut ==
    /\ todo = <<>>
    /\ \E i \in DOMAIN search.list : RequestAges(i)
    /\ UNCHANGED <<storageVars, searches>>

StorageJob ==
    /\ "storage" \in scenario.does
    /\ todo = <<>>
    /\ RotateSecrets \/ ExpireStorage \/ Tick
       \/ \E h \in Hashes, a \in Askers : AnnouncementAges(h, a)
    /\ UNCHANGED <<tableVars, todo, search, searches>>

Mentions == UNION {[1..k -> scenario.peers] : k \in 0..MentionedNodes}

Message ==
    \E from \in scenario.peers :
        \/ Request(from) \/ Pong(from) \/ BrokenReply(from)
        \/ \E m \in Mentions : NodesFound(from, m) \/ PeersFound(from, m)
        \/ from \in Askers /\ GetPeers(from)
        \/ \E owner \in Askers, h \in Hashes : from \in Askers /\ AnnouncePeer(from, owner, h)

Next ==
    /\ \/ Message \/ Step
       \/ TableJob \/ StartSearch \/ SearchJob \/ SearchAges \/ RequestTimesOut \/ StorageJob
    /\ UNCHANGED scenario

Spec == Init /\ [][Next]_vars

\* Every call of dht_periodic() reads the clock and, after its message, does the jobs
\* that are due; messages, however many, do not keep it from them.  Nobody has to
\* send anything.
FairSpec ==
    /\ Spec
    /\ WF_vars(Step /\ UNCHANGED scenario)
    /\ SF_vars(SearchJob /\ UNCHANGED scenario)
    /\ SF_vars(StepAges /\ todo = <<>> /\ UNCHANGED <<storageVars, searches, scenario>>)
    /\ SF_vars(RequestTimesOut /\ UNCHANGED scenario)

-----------------------------------------------------------------------------
\* The buckets cover the ids without overlap, only the buckets on the way to the
\* node's own id were ever cut, and none holds more nodes than it may.
OwnPathSplit ==
    /\ \A f \in firsts :
          /\ <<f, NextBucket(f)>> \in Subtrees
          /\ \A id \in IdRange(f, NextBucket(f)) : FindBucket(id) = f
          /\ Cardinality(NodesIn(f)) <= BucketSize
    /\ \A f \in firsts : NextBucket(f) # -1 =>
          CommonBits(f, MyId) # CommonBits(NextBucket(f), MyId)
          \/ MyBucket(f) \/ MyBucket(NextBucket(f))

\* A node leaves the table only if it left three requests in a row unanswered or
\* was blacklisted; a good node never does, whoever else turns up.
RespondersStay ==
    [][\A id \in DOMAIN nodes :
          id \notin DOMAIN nodes' => nodes[id].pinged >= 3 /\ ~Good(id)]_vars

\* In whatever order the table is walked, an answer holds the good nodes of the
\* target's bucket and its neighbours that are nearest by XOR, nearest first.
AnswersAreClosest ==
    \A order \in SetToSeqs(AnswerCandidates(Target)) :
        LET list == ClosestNodes(order, Target) IN
        /\ Len(list) = Min({AnswerNodes, Len(order)})
        /\ \A i, j \in DOMAIN list : i < j => Xor(list[i], Target) < Xor(list[j], Target)
        /\ \A id \in AnswerCandidates(Target) \ ToSet(list), i \in DOMAIN list :
              Xor(list[i], Target) < Xor(id, Target)

\* The list of a search is sorted by distance and holds a node once, whatever
\* comes in from whom and whatever is thrown out.
SearchSorted ==
    \A i, j \in DOMAIN search.list : i < j =>
        Xor(search.list[i].id, Target) < Xor(search.list[j].id, Target)

\* A search that has begun ends even if no peer answers: each node is asked three
\* times at most.  Nodes that break their answers are thrown out and may come back
\* with a new count, so behaviours with them are left out.
SearchEnds ==
    ("broken" \notin scenario.does /\ search.state = "running") ~> search.state = "done"

\* A token is accepted for the 15 minutes after it was given, whenever the secret
\* is changed.
TokensLast ==
    \A a \in Askers : tokens[a].age < RotationTime => TokenMatch(a, a)
=============================================================================
