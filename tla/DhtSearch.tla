----------------------------- MODULE DhtSearch -----------------------------
(***************************************************************************)
(* A search of a DHT node (dht.cpp): the closest nodes met so far are      *)
(* asked for closer ones until the closest live ones have answered.  The   *)
(* program never announces, so the second half of search_step(), which is  *)
(* for searches with a port, is not reached.                               *)
(*                                                                         *)
(* One target; several searches share nothing but the routing table.       *)
(***************************************************************************)
EXTENDS DhtTable

CONSTANTS
    Target,
    SearchNodes,  \* 14: the nodes a search keeps
    LiveNodes,    \* 8: the live ones that have to answer
    Parallel      \* 3: the requests sent in one step

ASSUME SearchAssumption ==
    /\ Target \in Ids
    /\ {SearchNodes, LiveNodes, Parallel} \subseteq Nat \ {0}
    /\ LiveNodes <= SearchNodes

\* state: there is none, it goes on, or it is done.  age: its last step was less
\* than 5 s, 5 to 15 s, or more than 15 s ago.  list: sorted by distance.
VARIABLE search

\* asked: in the last 15 s.  recent: it replied in the last two hours.
Entry == [id : Peers, pinged : 0..3, asked : BOOLEAN, replied : BOOLEAN, recent : BOOLEAN]

SearchInit == search = [state |-> "none", age |-> 0, list |-> <<>>]

SearchTypeOK ==
    /\ search.state \in {"none", "running", "done"}
    /\ search.age \in 0..2
    /\ search.list \in Seq(Entry) /\ Len(search.list) <= SearchNodes

-----------------------------------------------------------------------------
NewEntry(id) ==
    [id |-> id, pinged |-> 0, asked |-> FALSE, replied |-> FALSE, recent |-> FALSE]

Replied(e) == [e EXCEPT !.replied = TRUE, !.recent = TRUE, !.asked = FALSE, !.pinged = 0]

Listed(list, id) == \E i \in DOMAIN list : list[i].id = id

\* A mutant: the node goes before the first one that is nearer.
MutPlaceFor(list, id) ==
    Cardinality({i \in DOMAIN list : Closer(id, list[i].id, Target)})

\* The entries that stay in front of id.
PlaceFor(list, id) ==
    Cardinality({i \in DOMAIN list : ~Closer(id, list[i].id, Target)})

\* insert_search_node()
InsertSearchNode(list, id, replied) ==
    LET i == PlaceFor(list, id)
        e == IF replied THEN Replied(NewEntry(id)) ELSE NewEntry(id)
    IN  IF Listed(list, id)
        THEN [j \in DOMAIN list |-> IF list[j].id = id /\ replied THEN Replied(list[j]) ELSE list[j]]
        ELSE SubSeq(SubSeq(list, 1, i) \o <<e>> \o SubSeq(list, i + 1, Len(list)), 1,
                    Min({SearchNodes, Len(list) + 1}))

\* search_send_get_peers(): whom it may ask, and the entry after it.
MayAsk(e) == e.pinged < 3 /\ ~e.replied /\ ~e.asked

\* A mutant: the request is not counted.
MutAskedEntry(e) == [e EXCEPT !.asked = TRUE]

AskedEntry(e) == [e EXCEPT !.pinged = e.pinged + 1, !.asked = TRUE]

\* The nodes asked, in the table: pinged() for each.
PingedAll(ids) ==
    LET known == ids \cap DOMAIN nodes IN
    /\ nodes' = [id \in DOMAIN nodes |-> IF id \in known THEN Asked(nodes[id]) ELSE nodes[id]]
    /\ cached' = cached \ {FindBucket(id) : id \in {k \in known : nodes[k].pinged >= 2}}
    /\ UNCHANGED <<firsts, blacklist>>

-----------------------------------------------------------------------------
\* The first LiveNodes live nodes have replied; one asked three times is not live.
AllDone(list) ==
    LET live == {i \in DOMAIN list : list[i].pinged < 3}
    IN  \A i \in live :
            Cardinality({j \in live : j < i}) < LiveNodes => list[i].replied

\* The indices asked in one step: the first Parallel that may be.
ToAsk(list) ==
    LET may == {i \in DOMAIN list : MayAsk(list[i])}
    IN  {i \in may : Cardinality({j \in may : j < i}) < Parallel}

\* search_step(), for a search with list, last stepped age ago.
SearchStep(list, age) ==
    \/ /\ AllDone(list)
       /\ search' = [state |-> "done", age |-> 0, list |-> list]
       /\ UNCHANGED tableVars
    \/ /\ ~AllDone(list)
       /\ age < 2
       /\ search' = [state |-> "running", age |-> age, list |-> list]
       /\ UNCHANGED tableVars
    \/ /\ ~AllDone(list)
       /\ age = 2
       /\ search' = [state |-> "running", age |-> 0,
                     list |-> [i \in DOMAIN list |-> IF i \in ToAsk(list)
                                                     THEN AskedEntry(list[i]) ELSE list[i]]]
       /\ PingedAll({list[i].id : i \in ToAsk(list)})

\* What is kept of an earlier search for the same target.
Reused ==
    LET list == search.list
        live == {i \in DOMAIN list : list[i].pinged < 3 /\ list[i].recent}
        nth(k) == CHOOSE i \in live : Cardinality({j \in live : j < i}) = k - 1
    IN  [k \in 1..Cardinality(live) |-> [list[nth(k)] EXCEPT !.pinged = 0, !.replied = FALSE]]

\* insert_search_bucket() for all nodes of some buckets.
InsertNodes(list, ids) ==
    FoldLeft(LAMBDA l, id : InsertSearchNode(l, id, FALSE), list, SetToSeq(ids))

\* dht_search(): the target's bucket, then its neighbours, then the own one.
StartList ==
    LET f == FindBucket(Target)
        one == InsertNodes(Reused, NodesIn(f))
        two == IF Len(one) < SearchNodes
               THEN InsertNodes(one, UNION {NodesIn(g) : g \in AnswerBuckets(Target) \ {f}})
               ELSE one
    IN  IF Len(two) < SearchNodes THEN InsertNodes(two, NodesIn(FindBucket(MyId))) ELSE two

DhtSearch ==
    /\ SearchStep(StartList, IF search.state = "none" THEN 2 ELSE search.age)
    /\ UNCHANGED todo

\* dht_periodic(): running searches are stepped.
PeriodicSearch ==
    /\ search.state = "running"
    /\ search.age > 0
    /\ SearchStep(search.list, search.age)
    /\ search' # search
    /\ UNCHANGED todo

\* The handler of a reply asks one more node, the last one it may ask.
SearchSendGetPeers ==
    LET may == {i \in DOMAIN search.list : MayAsk(search.list[i])} IN
    /\ Returns
    /\ IF may = {} THEN UNCHANGED <<search, tableVars>>
       ELSE /\ search' = [search EXCEPT !.list[Max(may)] = AskedEntry(search.list[Max(may)])]
            /\ PingedAll({search.list[Max(may)].id})

InsertCall(id, replied) ==
    /\ search' = [search EXCEPT !.list = InsertSearchNode(search.list, id, replied)]
    /\ Returns
    /\ UNCHANGED tableVars

\* expire_searches(): 62 minutes after its last step; a running search is stepped
\* more often.
ExpireSearch ==
    /\ search.state = "done"
    /\ search' = [state |-> "none", age |-> 0, list |-> <<>>]
    /\ UNCHANGED <<tableVars, todo>>

\* blacklist_node() discards the node from searches in progress.
FlushSearchNode(id) ==
    LET found == {i \in DOMAIN search.list : search.list[i].id = id} IN
    search' = IF found = {} THEN search
              ELSE [search EXCEPT !.list = RemoveAt(search.list, Min(found))]

\* Seconds pass since the last step, 15 s since a request.
StepAges ==
    /\ search.state = "running" /\ search.age < 2
    /\ search' = [search EXCEPT !.age = search.age + 1]
    /\ UNCHANGED <<tableVars, todo>>

RequestAges(i) ==
    /\ i \in DOMAIN search.list /\ search.list[i].asked
    /\ search' = [search EXCEPT !.list[i].asked = FALSE]
    /\ UNCHANGED <<tableVars, todo>>

ReplyAges(i) ==
    /\ i \in DOMAIN search.list /\ search.list[i].recent
    /\ search' = [search EXCEPT !.list[i].recent = FALSE]
    /\ UNCHANGED <<tableVars, todo>>
=============================================================================
