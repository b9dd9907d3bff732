--------------------------- MODULE XBridgeOverlay ---------------------------
(***************************************************************************)
(* How packets travel: the send queue of each program, the DHT thread that *)
(* works it off, and the programs that relay what is not for them.         *)
(*                                                                         *)
(* The DHT thread repeats: receive at most one datagram; start the         *)
(* searches asked for; if the send signal is up, copy the queue, clear it, *)
(* and send, handle or return one packet after the other; lower the        *)
(* signal.  Other threads (the user's, the timers') push to the queue at   *)
(* any moment, without a lock.  An iteration is cut into the steps between *)
(* which such a push makes a difference.                                   *)
(***************************************************************************)
EXTENDS Integers, Sequences, SequencesExt, FiniteSets

CONSTANTS
    Nodes,       \* programs
    Broadcasts,  \* packets sent with an empty address
    Directs,     \* packets sent to one address
    Addrs,       \* wallet addresses and program ids
    To,          \* direct packet -> address
    Home,        \* address -> the program it belongs to
    WalletAddrs, \* the addresses announced by a wallet; the others are program ids
    Sessions,    \* program -> number of its wallet sessions
    Peers,       \* program -> programs in its routing tables
    IdleFamily,  \* programs with a socket of a family whose table is empty
    Reply,       \* program -> packet -> packets its handlers push in return
    Commands,    \* program -> packets its other threads push
    MaxRestarts  \* bound: how often programs are started again

Packets == Broadcasts \cup Directs

ASSUME OverlayAssumption ==
    /\ Broadcasts \cap Directs = {}
    /\ To \in [Directs -> Addrs]
    /\ Home \in [Addrs -> Nodes]
    /\ WalletAddrs \subseteq Addrs
    /\ Sessions \in [Nodes -> Nat]
    /\ Peers \in [Nodes -> SUBSET Nodes]
    /\ \A n \in Nodes : n \notin Peers[n]
    /\ IdleFamily \subseteq Nodes
    /\ Reply \in [Nodes -> [Packets -> Seq(Packets)]]
    /\ Commands \in [Nodes -> SUBSET Packets]
    /\ MaxRestarts \in Nat

VARIABLES
    node,      \* what each program keeps in memory
    network,   \* datagrams under way
    sent,      \* history: packets pushed to any queue
    handled,   \* history: <<program, packet>> run through the handlers
    restarts

vars == <<node, network, sent, handled, restarts>>

\* A queue entry; tried: it was returned to the queue and its address searched.
Item == [packet : Packets, tried : BOOLEAN]
New(p) == [packet |-> p, tried |-> FALSE]

\* A search is one per address and family; what matters is whether one exists,
\* whether one is still going on, and the programs in their lists.
Search == [status : {"none", "running", "done"}, list : SUBSET Nodes]
NoSearch == [status |-> "none", list |-> {}]

\* The members of XBridgeApp and the locals of dhtThreadProc().  heard and posted
\* are histories, counted up to 2: how often a broadcast was run through the
\* handlers on reception and a packet given to the network since the program was
\* started; late are the packets pushed while the queue was being worked off.
Memory == [up : BOOLEAN, messages : Seq(Item), signalSend : BOOLEAN,
           signalSearch : BOOLEAN, searchStrings : SUBSET Addrs,
           searches : [Addrs -> Search], processed : SUBSET Packets,
           pc : {"select", "copied", "drain"}, batch : Seq(Item),
           heard : [Broadcasts -> 0..2], posted : [Packets -> 0..2],
           late : SUBSET Packets]

Started == [up |-> TRUE, messages |-> <<>>, signalSend |-> FALSE,
            signalSearch |-> FALSE, searchStrings |-> {},
            searches |-> [a \in Addrs |-> NoSearch], processed |-> {},
            pc |-> "select", batch |-> <<>>,
            heard |-> [b \in Broadcasts |-> 0], posted |-> [p \in Packets |-> 0],
            late |-> {}]

Datagram == [packet : Packets, from : Nodes, to : Nodes]

Init ==
    /\ node = [n \in Nodes |-> Started]
    /\ network = {} /\ sent = {} /\ handled = {}
    /\ restarts = 0

TypeOK ==
    /\ node \in [Nodes -> Memory]
    /\ \A n \in Nodes : node[n].signalSearch <=> node[n].searchStrings # {}
    /\ network \subseteq Datagram
    /\ sent \subseteq Packets
    /\ handled \subseteq Nodes \X Packets
    /\ restarts \in 0..MaxRestarts

-----------------------------------------------------------------------------
OneMore(count) == IF count = 0 THEN 1 ELSE 2

\* A mutant: the signal is not raised.
MutOnSend(s, ps) ==
    [s EXCEPT !.messages = @ \o [i \in DOMAIN ps |-> New(ps[i])],
              !.late = IF s.pc = "select" THEN @ ELSE @ \cup ToSet(ps)]

\* onSend() for a sequence of packets.
OnSend(s, ps) ==
    [s EXCEPT !.messages = @ \o [i \in DOMAIN ps |-> New(ps[i])],
              !.signalSend = @ \/ ps # <<>>,
              !.late = IF s.pc = "select" THEN @ ELSE @ \cup ToSet(ps)]

\* A mutant: what was seen is not recognised.
MutIsKnownMessage(s, p) == FALSE

\* isKnownMessage()
IsKnownMessage(s, p) == p \in s.processed

\* A mutant: every address is taken for a local one.
MutIsLocalAddress(n, a) == a \in Addrs

\* isLocalAddress(): an announced wallet address or the program's own id.
IsLocalAddress(n, a) == Home[a] = n

Replies == [n \in Nodes |-> [p \in Packets |-> ToSet(Reply[n][p])]]

\* processPacket(): the handlers and what they push.
ProcessPacket(n, s, p) == OnSend(s, Reply[n][p])

\* A sequence k times over: what the handlers of k sessions push.
Repeated(ps, k) == [i \in 1..k * Len(ps) |-> ps[((i - 1) % Len(ps)) + 1]]

Handling(n, p) ==
    /\ handled' = handled \cup {<<n, p>>}
    /\ sent' = sent \cup Replies[n][p]

-----------------------------------------------------------------------------
\* dht_periodic() with a MESSAGE or BROADCAST, then what follows in the same
\* iteration: searches are started, and the queue is copied if the signal is up.

\* The program's memory after the datagram.
Received(n, s, p) ==
    IF IsKnownMessage(s, p) THEN s
    ELSE IF p \in Broadcasts
         THEN [OnSend(ProcessPacket(n, s, p), <<p>>) EXCEPT !.heard[p] = OneMore(@)]
    ELSE IF IsLocalAddress(n, To[p])
         THEN ProcessPacket(n, s, p)      \* onMessageReceived()
         ELSE OnSend(s, <<p>>)

\* A mutant: the callback does not raise the signal.
MutStartSearches(n, s) ==
    [s EXCEPT !.searches = [a \in Addrs |-> IF a \in s.searchStrings
                                            THEN [status |-> "running", list |-> Peers[n]]
                                            ELSE s.searches[a]],
              !.searchStrings = {}, !.signalSearch = FALSE]

\* dht_search() for every string in the queue, in each family with a socket.  It
\* ends at once where the table is empty, and its callback raises the signal.
StartSearches(n, s) ==
    LET asked == s.searchStrings
        found == [status |-> IF Peers[n] = {} THEN "done" ELSE "running",
                  list   |-> Peers[n]]
    IN  IF ~s.signalSearch THEN s
        ELSE [s EXCEPT
                !.searches = [a \in Addrs |-> IF a \in asked
                                              THEN [found EXCEPT !.list = @ \cup s.searches[a].list]
                                              ELSE s.searches[a]],
                !.searchStrings = {},
                !.signalSearch = FALSE,
                !.signalSend = @ \/ /\ asked # {}
                                    /\ s.messages # <<>>
                                    /\ n \in IdleFamily \/ Peers[n] = {}]

\* std::list<MessagePair> messages = m_messages;
CopyQueue(s) ==
    IF s.signalSend /\ s.messages # <<>>
    THEN [s EXCEPT !.pc = "copied", !.batch = s.messages]
    ELSE [s EXCEPT !.signalSend = FALSE]

FinishIteration(n, s) == CopyQueue(StartSearches(n, s))

Receive(n) ==
    /\ node[n].up /\ node[n].pc = "select"
    /\ \E d \in network :
          LET p == d.packet IN
          /\ d.to = n
          /\ network' = network \ {d}
          /\ node' = [node EXCEPT ![n] = FinishIteration(n, Received(n, @, p))]
          /\ IF ~IsKnownMessage(node[n], p) /\ (p \in Broadcasts \/ IsLocalAddress(n, To[p]))
             THEN Handling(n, p)
             ELSE UNCHANGED <<sent, handled>>
    /\ UNCHANGED restarts

\* select() timed out; an iteration that finds both signals down does nothing.
Timeout(n) ==
    /\ node[n].up /\ node[n].pc = "select"
    /\ node[n].signalSend \/ node[n].signalSearch
    /\ node' = [node EXCEPT ![n] = FinishIteration(n, @)]
    /\ UNCHANGED <<network, sent, handled, restarts>>

\* m_messages.clear(): with whatever was pushed since the queue was copied.
ClearQueue(n) ==
    /\ node[n].pc = "copied"
    /\ node' = [node EXCEPT ![n].pc = "drain", ![n].messages = <<>>, ![n].late = {}]
    /\ UNCHANGED <<network, sent, handled, restarts>>

-----------------------------------------------------------------------------
\* The queue is worked off, one packet after the other.

\* Datagrams to a program that does not run are lost.
Datagrams(n, p, to) ==
    {[packet |-> p, from |-> n, to |-> m] : m \in {k \in to \ {n} : node[k].up}}

\* A mutant: what a program sent itself is not recorded.
MutPosted(s, p) == [s EXCEPT !.posted[p] = OneMore(@)]

\* The first packet was given to the network and is added to the known ones.
Posted(s, p) ==
    [s EXCEPT !.processed = @ \cup {p}, !.posted[p] = OneMore(@)]

SkipKnown(n, s, p) ==
    /\ IsKnownMessage(s, p)
    /\ node' = [node EXCEPT ![n] = s]
    /\ UNCHANGED <<network, sent, handled>>

\* A broadcast goes through the handlers of each session, then to every peer.
SendBroadcast(n, s, p) ==
    /\ ~IsKnownMessage(s, p)
    /\ p \in Broadcasts
    /\ node' = [node EXCEPT ![n] = Posted(OnSend(s, Repeated(Reply[n][p], Sessions[n])), p)]
    /\ network' = network \cup Datagrams(n, p, Peers[n])
    /\ IF Sessions[n] > 0 THEN Handling(n, p) ELSE UNCHANGED <<sent, handled>>

\* isFoundLocal: a wallet address of this program.
HandleLocal(n, s, p) ==
    /\ ~IsKnownMessage(s, p)
    /\ p \in Directs
    /\ To[p] \in WalletAddrs /\ Home[To[p]] = n
    /\ node' = [node EXCEPT ![n] = ProcessPacket(n, s, p)]
    /\ Handling(n, p)
    /\ UNCHANGED network

\* Not a wallet address of this program.
Remote(n, s, p) ==
    /\ ~IsKnownMessage(s, p)
    /\ p \in Directs
    /\ ~(To[p] \in WalletAddrs /\ Home[To[p]] = n)
    /\ UNCHANGED <<sent, handled>>

\* dht_send_message() that finds a search for the address: to all in its list.  (Its
\* return for a value stored here is left out: nobody announces, so nothing is stored.)
SendMessage(n, s, p) ==
    LET search == s.searches[To[p]] IN
    /\ Remote(n, s, p)
    /\ search.status # "none"
    /\ node' = [node EXCEPT ![n] = Posted(s, p)]
    /\ network' = network \cup Datagrams(n, p, search.list)

\* A mutant: the address is queued for a search nobody is told to start.
MutReturnMessage(n, s, item) ==
    LET a == To[item.packet] IN
    /\ Remote(n, s, item.packet)
    /\ s.searches[a].status = "none"
    /\ node' = [node EXCEPT ![n] =
           IF item.tried THEN s
           ELSE [s EXCEPT !.messages = Append(@, [item EXCEPT !.tried = TRUE]),
                          !.searchStrings = @ \cup {a}]]
    /\ UNCHANGED network

\* dht_send_message() that finds none: the packet is returned once for a search,
\* then dropped.
ReturnMessage(n, s, item) ==
    LET a == To[item.packet] IN
    /\ Remote(n, s, item.packet)
    /\ s.searches[a].status = "none"
    /\ node' = [node EXCEPT ![n] =
           IF item.tried THEN s
           ELSE [s EXCEPT !.messages = Append(@, [item EXCEPT !.tried = TRUE]),
                          !.searchStrings = @ \cup {a},
                          !.signalSearch = TRUE]]
    /\ UNCHANGED network

DrainOne(n) ==
    /\ node[n].pc = "drain"
    /\ node[n].batch # <<>>
    /\ LET item == Head(node[n].batch)
           s == [node[n] EXCEPT !.batch = Tail(@)]
       IN  \/ SkipKnown(n, s, item.packet)
           \/ SendBroadcast(n, s, item.packet)
           \/ HandleLocal(n, s, item.packet)
           \/ SendMessage(n, s, item.packet)
           \/ ReturnMessage(n, s, item)
    /\ UNCHANGED restarts

\* m_signalSend = false
EndDrain(n) ==
    /\ node[n].pc = "drain"
    /\ node[n].batch = <<>>
    /\ node' = [node EXCEPT ![n].pc = "select", ![n].signalSend = FALSE]
    /\ UNCHANGED <<network, sent, handled, restarts>>

-----------------------------------------------------------------------------
\* Another thread pushes a packet.
Command(n, p) ==
    /\ node[n].up
    /\ p \in Commands[n] \ sent
    /\ node' = [node EXCEPT ![n] = OnSend(@, <<p>>)]
    /\ sent' = sent \cup {p}
    /\ UNCHANGED <<network, handled, restarts>>

\* A reply to get_peers adds nodes to the list of a running search.
SearchReply(n, a) ==
    /\ node[n].up /\ node[n].pc = "select"
    /\ node[n].searches[a].status = "running"
    /\ \E m \in node[n].searches[a].list :
          node' = [node EXCEPT ![n].searches[a].list = @ \cup (Peers[m] \ {n})]
    /\ UNCHANGED <<network, sent, handled, restarts>>

\* A search that ends in dht_periodic() calls the callback with the closure the
\* loop passed: a null pointer, which the callback takes for the application.
SearchEnds(n, a) ==
    /\ node[n].up /\ node[n].pc = "select"
    /\ node[n].searches[a].status = "running"
    /\ node' = [node EXCEPT ![n] = [Started EXCEPT !.up = FALSE]]
    /\ network' = {d \in network : d.to # n}
    /\ UNCHANGED <<sent, handled, restarts>>

\* Nothing survives in memory, known messages included.
Restart(n) ==
    /\ ~node[n].up
    /\ restarts < MaxRestarts
    /\ restarts' = restarts + 1
    /\ node' = [node EXCEPT ![n] = Started]
    /\ UNCHANGED <<network, sent, handled>>

DhtThread(n) == Receive(n) \/ Timeout(n) \/ ClearQueue(n) \/ DrainOne(n) \/ EndDrain(n)

Next ==
    \E n \in Nodes :
        \/ DhtThread(n)
        \/ \E p \in Packets : Command(n, p)
        \/ \E a \in Addrs : SearchReply(n, a) \/ SearchEnds(n, a)
        \/ Restart(n)

Spec == Init /\ [][Next]_vars

\* The DHT thread never stops by itself, and select() returns when a datagram is
\* there: every datagram sent is assumed to arrive (UDP may lose it).
FairSpec == Spec /\ \A n \in Nodes : WF_vars(DhtThread(n))

-----------------------------------------------------------------------------
\* A program gives each packet to the network at most once while it runs, however
\* often it receives it, builds it again or has it returned (isKnownMessage() and
\* m_processedMessages in dhtThreadProc()).
PostedOnce == \A n \in Nodes, p \in Packets : node[n].posted[p] <= 1

\* A broadcast that arrives over several ways, or comes back to its sender, is
\* run through the handlers on reception at most once: it is known before the
\* next datagram is looked at (dht_periodic(), then the same iteration's drain).
HeardOnce == \A n \in Nodes, b \in Broadcasts : node[n].heard[b] <= 1

\* A packet never waits in the queue with nothing going on that will send it,
\* except one pushed while the queue was being worked off (the signal that goes
\* with it is lowered at the end) and one whose address is being searched.
WaitsForAReason ==
    \A n \in Nodes : LET s == node[n] IN
        s.pc = "select" /\ ~s.signalSend =>
            \A i \in DOMAIN s.messages :
                LET m == s.messages[i] IN
                \/ m.packet \in s.late
                \/ m.tried /\ (s.signalSearch \/ s.searches[To[m.packet]].status = "running")

\* Relaying ends by itself: whatever cycles the tables have, finitely many packets
\* run out of datagrams (dhtThreadProc()).
FloodEnds == []<>(network = {})

\* A search that was started may end without ending the program: "the call-back
\* function is called by the DHT whenever something interesting happens".
SearchIsSurvived == \A n \in Nodes : node[n].up

\* The delivery the packet handlers rely on: broadcasts are for everybody.
Meant == [n \in Nodes |-> Broadcasts \cup {p \in Directs : Home[To[p]] = n}]

Delivery == INSTANCE PacketDelivery

\* Packets are handled only where they are meant to be and only if somebody sent
\* them: the steps of queues, relays, searches and restarts are steps of
\* PacketDelivery or change nothing of it.
ImplementsDelivery == Delivery!Spec
=============================================================================
