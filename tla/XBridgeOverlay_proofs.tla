------------------------ MODULE XBridgeOverlay_proofs ------------------------
(***************************************************************************)
(* The delivery of packets, for any programs, tables and packets: types,   *)
(* that no packet is posted or heard twice, and that the overlay           *)
(* implements PacketDelivery.  All of it follows from one invariant of     *)
(* each program's memory and of the datagrams.                             *)
(***************************************************************************)
EXTENDS XBridgeOverlay, TLAPS

\* A program's memory, when S are the packets that were ever sent.
ItemOf(S) == [packet : S, tried : BOOLEAN]

InBatch(s, b) == \E i \in DOMAIN s.batch : s.batch[i].packet = b

StateOK(s) == s \in Memory /\ (s.signalSearch <=> s.searchStrings # {})
\* Queues hold packets that were sent.
QueuesOK(s, S) == s.messages \in Seq(ItemOf(S)) /\ s.batch \in Seq(ItemOf(S))
\* What was posted is known.
PostedKnown(s) == \A p \in Packets : s.posted[p] <= 1 /\ (s.posted[p] >= 1 => p \in s.processed)
\* What was heard is known before the next datagram is looked at.
HeardKnown(s) ==
    \A b \in Broadcasts :
        /\ s.heard[b] <= 1
        /\ s.heard[b] >= 1 => b \in s.processed \/ (s.pc # "select" /\ InBatch(s, b))

\* The same while one is looked at: it was heard and waits in a queue that is copied next.
HeardOrQueued(s) ==
    \A b \in Broadcasts :
        /\ s.heard[b] <= 1
        /\ s.heard[b] >= 1 => \/ b \in s.processed
                              \/ /\ s.signalSend
                                 /\ \E i \in DOMAIN s.messages : s.messages[i].packet = b

BaseOK(s, S) == StateOK(s) /\ QueuesOK(s, S) /\ PostedKnown(s)
MemoryOK(s, S) == BaseOK(s, S) /\ HeardKnown(s)

DatagramOf(S) == [packet : S, from : Nodes, to : Nodes]

\* The inductive invariant.
IInv ==
    /\ sent \subseteq Packets
    /\ handled \subseteq Nodes \X Packets
    /\ restarts \in 0..MaxRestarts
    /\ network \subseteq DatagramOf(sent)
    /\ node \in [Nodes -> Memory]
    /\ \A n \in Nodes : MemoryOK(node[n], sent)

-----------------------------------------------------------------------------
LEMMA SequencesGrow ==
    ASSUME NEW S, NEW T, S \subseteq T, NEW seq \in Seq(ItemOf(S))
    PROVE  seq \in Seq(ItemOf(T))
<1>1. ItemOf(S) \subseteq ItemOf(T)
  BY DEF ItemOf
<1>2. \A i \in 1..Len(seq) : seq[i] \in ItemOf(T)
  BY <1>1
<1> QED
  BY <1>2

LEMMA MemoryGrows ==
    ASSUME NEW S, NEW T, S \subseteq T, NEW s
    PROVE  /\ BaseOK(s, S) => BaseOK(s, T)
           /\ MemoryOK(s, S) => MemoryOK(s, T)
BY SequencesGrow DEF MemoryOK, BaseOK, QueuesOK

\* The fields a packet pushed to the queue leaves alone.
LEMMA OnSendKeeps ==
    ASSUME NEW S \in SUBSET Packets, NEW s \in Memory, NEW ps \in Seq(S), QueuesOK(s, S)
    PROVE  /\ OnSend(s, ps) \in Memory
           /\ QueuesOK(OnSend(s, ps), S)
           /\ OnSend(s, ps).up = s.up
           /\ OnSend(s, ps).signalSearch = s.signalSearch
           /\ OnSend(s, ps).searchStrings = s.searchStrings
           /\ OnSend(s, ps).searches = s.searches
           /\ OnSend(s, ps).processed = s.processed
           /\ OnSend(s, ps).pc = s.pc
           /\ OnSend(s, ps).batch = s.batch
           /\ OnSend(s, ps).heard = s.heard
           /\ OnSend(s, ps).posted = s.posted
<1> DEFINE new == [i \in DOMAIN ps |-> New(ps[i])]
           queue == s.messages \o new
           signal == s.signalSend \/ ps # <<>>
           late == IF s.pc = "select" THEN s.late ELSE s.late \cup ToSet(ps)
<1>1. new \in Seq(ItemOf(S))
  <2>1. \A i \in DOMAIN ps : New(ps[i]) \in ItemOf(S)
    BY DEF New, ItemOf
  <2> QED
    BY <2>1
<1>2. queue \in Seq(ItemOf(S))
  BY <1>1 DEF QueuesOK
<1>3. queue \in Seq(Item)
  <2>1. ItemOf(Packets) = Item
    BY DEF ItemOf, Item
  <2> QED
    BY <1>2, <2>1, SequencesGrow
<1>4. signal \in BOOLEAN
  OBVIOUS
<1>5. late \subseteq Packets
  <2>1. \A i \in DOMAIN ps : ps[i] \in Packets
    OBVIOUS
  <2>2. ToSet(ps) \subseteq Packets
    BY <2>1 DEF ToSet
  <2> QED
    BY <2>2 DEF Memory
<1>6. OnSend(s, ps) = [s EXCEPT !.messages = queue, !.signalSend = signal, !.late = late]
  BY DEF OnSend
<1> HIDE DEF new, queue, signal, late
<1>7. OnSend(s, ps) \in Memory
  BY <1>3, <1>4, <1>5, <1>6 DEF Memory
<1> QED
  BY <1>2, <1>6, <1>7 DEF Memory, QueuesOK

LEMMA OnSendOK ==
    ASSUME NEW S \in SUBSET Packets, NEW s, BaseOK(s, S), NEW ps \in Seq(S)
    PROVE  /\ BaseOK(OnSend(s, ps), S)
           /\ HeardKnown(s) => HeardKnown(OnSend(s, ps))
<1>1. s \in Memory /\ QueuesOK(s, S)
  BY DEF BaseOK, StateOK
<1>2. StateOK(OnSend(s, ps)) /\ QueuesOK(OnSend(s, ps), S)
  BY <1>1, OnSendKeeps DEF BaseOK, StateOK
<1>3. PostedKnown(OnSend(s, ps))
  BY <1>1, OnSendKeeps DEF BaseOK, PostedKnown
<1>4. HeardKnown(s) => HeardKnown(OnSend(s, ps))
  BY <1>1, OnSendKeeps DEF HeardKnown, InBatch
<1> QED
  BY <1>2, <1>3, <1>4 DEF BaseOK

LEMMA RepeatedType ==
    ASSUME NEW S, NEW ps \in Seq(S), NEW k \in Nat
    PROVE  Repeated(ps, k) \in Seq(S)
<1>1. CASE ps = <<>>
  <2>1. Len(ps) = 0 /\ k * Len(ps) = 0
    BY <1>1
  <2> QED
    BY <2>1 DEF Repeated
<1>2. CASE ps # <<>>
  <2>1. Len(ps) \in Nat \ {0}
    BY <1>2
  <2>2. \A i \in Nat : (i % Len(ps)) + 1 \in 1..Len(ps)
    BY <2>1
  <2>3. k * Len(ps) \in Nat
    BY <2>1
  <2>4. \A i \in 1..k * Len(ps) : ps[((i - 1) % Len(ps)) + 1] \in S
    BY <2>2, <2>3
  <2> QED
    BY <2>3, <2>4 DEF Repeated
<1> QED
  BY <1>1, <1>2

-----------------------------------------------------------------------------
\* The operators of one iteration, each on a program's memory.

LEMMA StartSearchesOK ==
    ASSUME NEW S \in SUBSET Packets, NEW n \in Nodes, NEW s, BaseOK(s, S)
    PROVE  /\ BaseOK(StartSearches(n, s), S)
           /\ StartSearches(n, s).pc = s.pc
           /\ HeardOrQueued(s) => HeardOrQueued(StartSearches(n, s))
<1> DEFINE found == [status |-> IF Peers[n] = {} THEN "done" ELSE "running", list |-> Peers[n]]
           list == [a \in Addrs |-> IF a \in s.searchStrings
                                    THEN [found EXCEPT !.list = @ \cup s.searches[a].list]
                                    ELSE s.searches[a]]
           signal == s.signalSend \/ /\ s.searchStrings # {}
                                     /\ s.messages # <<>>
                                     /\ n \in IdleFamily \/ Peers[n] = {}
<1>1. CASE ~s.signalSearch
  BY <1>1 DEF StartSearches
<1>2. CASE s.signalSearch
  <2>1. s \in Memory
    BY DEF BaseOK, StateOK
  <2>2. list \in [Addrs -> Search]
    <3>1. Peers[n] \subseteq Nodes
      BY OverlayAssumption
    <3>2. \A a \in Addrs : s.searches[a] \in Search
      BY <2>1 DEF Memory
    <3>3. \A a \in Addrs : [found EXCEPT !.list = @ \cup s.searches[a].list] \in Search
      BY <3>1, <3>2 DEF Search
    <3> QED
      BY <3>2, <3>3
  <2>3. signal \in BOOLEAN /\ (s.signalSend => signal)
    OBVIOUS
  <2>4. StartSearches(n, s) = [s EXCEPT !.searches = list, !.searchStrings = {},
                                        !.signalSearch = FALSE, !.signalSend = signal]
    BY <1>2 DEF StartSearches
  <2> HIDE DEF list, signal
  <2> DEFINE t == StartSearches(n, s)
  <2>5. t \in Memory /\ t.signalSearch = FALSE /\ t.searchStrings = {}
    BY <2>1, <2>2, <2>3, <2>4 DEF Memory
  <2>6. /\ t.pc = s.pc /\ t.messages = s.messages /\ t.batch = s.batch
        /\ t.heard = s.heard /\ t.posted = s.posted /\ t.processed = s.processed
        /\ s.signalSend => t.signalSend
    BY <2>1, <2>3, <2>4 DEF Memory
  <2> HIDE DEF t
  <2>7. BaseOK(t, S)
    BY <2>5, <2>6 DEF BaseOK, StateOK, QueuesOK, PostedKnown
  <2>8. HeardOrQueued(s) => HeardOrQueued(t)
    BY <2>6 DEF HeardOrQueued
  <2> QED
    BY <2>6, <2>7, <2>8 DEF t
<1> QED
  BY <1>1, <1>2

\* With no send signal up or nothing queued nothing is copied.
LEMMA CopyQueueOK ==
    ASSUME NEW S \in SUBSET Packets, NEW s, BaseOK(s, S), HeardOrQueued(s)
    PROVE  MemoryOK(CopyQueue(s), S)
<1>1. s \in Memory
  BY DEF BaseOK, StateOK
<1>2. s.messages \in Seq(Item)
  BY <1>1 DEF Memory
<1>3. PICK t : t = CopyQueue(s)
  OBVIOUS
<1>4. /\ t \in Memory
      /\ t.signalSearch = s.signalSearch /\ t.searchStrings = s.searchStrings
      /\ t.heard = s.heard /\ t.posted = s.posted /\ t.processed = s.processed
      /\ t.messages = s.messages /\ t.batch \in {s.batch, s.messages}
      /\ s.signalSend /\ s.messages # <<>> => t.pc = "copied" /\ t.batch = s.messages
  BY <1>1, <1>2, <1>3 DEF CopyQueue, Memory
<1>5. BaseOK(t, S)
  BY <1>4 DEF BaseOK, StateOK, QueuesOK, PostedKnown
<1>6. HeardKnown(t)
  <2> SUFFICES ASSUME NEW b \in Broadcasts
               PROVE  /\ t.heard[b] <= 1
                      /\ t.heard[b] >= 1 =>
                            b \in t.processed \/ (t.pc # "select" /\ InBatch(t, b))
    BY DEF HeardKnown
  <2>1. CASE b \in s.processed \/ ~(s.heard[b] >= 1)
    BY <2>1, <1>4 DEF HeardOrQueued
  <2>2. CASE s.signalSend /\ \E i \in DOMAIN s.messages : s.messages[i].packet = b
    <3>1. s.messages # <<>>
      BY <2>2, <1>2
    <3> QED
      BY <2>2, <3>1, <1>4 DEF HeardOrQueued, InBatch
  <2> QED
    BY <2>1, <2>2 DEF HeardOrQueued
<1> QED
  BY <1>3, <1>5, <1>6 DEF MemoryOK

LEMMA FinishIterationOK ==
    ASSUME NEW S \in SUBSET Packets, NEW n \in Nodes, NEW s, BaseOK(s, S), HeardOrQueued(s)
    PROVE  MemoryOK(FinishIteration(n, s), S)
BY StartSearchesOK, CopyQueueOK DEF FinishIteration

LEMMA HeardAtSelect ==
    ASSUME NEW s, HeardKnown(s), s.pc = "select"
    PROVE  HeardOrQueued(s)
BY DEF HeardKnown, HeardOrQueued

\* What a handler pushes was sent, once its handling is.
LEMMA RepliesSent ==
    ASSUME NEW n \in Nodes, NEW p \in Packets
    PROVE  /\ Replies[n][p] \subseteq Packets
           /\ \A S : Replies[n][p] \subseteq S => Reply[n][p] \in Seq(S)
<1>1. Reply[n][p] \in Seq(Packets)
  BY OverlayAssumption
<1>2. Replies[n][p] = {Reply[n][p][i] : i \in DOMAIN Reply[n][p]}
  BY DEF Replies, ToSet
<1> QED
  BY <1>1, <1>2

\* A broadcast is counted as heard once only: it was not heard before, or it would be
\* known now.
LEMMA HearOnce ==
    ASSUME NEW T \in SUBSET Packets, NEW s, BaseOK(s, T), HeardKnown(s), s.pc = "select",
           NEW p \in Broadcasts, p \in T, p \notin s.processed,
           NEW u, u = [OnSend(s, <<p>>) EXCEPT !.heard[p] = OneMore(@)]
    PROVE  BaseOK(u, T) /\ HeardOrQueued(u)
<1> DEFINE v == OnSend(s, <<p>>)
<1>1. s \in Memory /\ QueuesOK(s, T)
  BY DEF BaseOK, StateOK
<1>2. <<p>> \in Seq(T)
  OBVIOUS
<1>3. BaseOK(v, T) /\ v \in Memory
  BY <1>2, OnSendOK DEF BaseOK, StateOK
<1>4. v.heard = s.heard /\ v.processed = s.processed /\ v.pc = "select"
  BY <1>1, <1>2, OnSendKeeps
<1>5. v.signalSend /\ \E i \in DOMAIN v.messages : v.messages[i].packet = p
  <2>1. v.signalSend
    BY <1>1 DEF OnSend, Memory
  <2>2. v.messages = s.messages \o [i \in DOMAIN <<p>> |-> New((<<p>>)[i])]
    BY <1>1 DEF OnSend, Memory
  <2>3. s.messages \in Seq(Item)
    BY <1>1 DEF Memory
  <2>4. [i \in DOMAIN <<p>> |-> New((<<p>>)[i])] = <<New(p)>>
    OBVIOUS
  <2>5. New(p) \in Item
    BY DEF New, Item, Packets
  <2>6. v.messages[Len(s.messages) + 1] = New(p) /\ Len(s.messages) + 1 \in DOMAIN v.messages
    BY <2>2, <2>3, <2>4, <2>5
  <2>7. New(p).packet = p
    BY DEF New
  <2> QED
    BY <2>1, <2>6, <2>7
<1> HIDE DEF v
<1>6. s.heard \in [Broadcasts -> 0..2] /\ s.heard[p] = 0
  <2>1. s.heard \in [Broadcasts -> 0..2]
    BY <1>1 DEF Memory
  <2>2. s.heard[p] \in 0..2 /\ ~(s.heard[p] >= 1)
    BY <2>1 DEF HeardKnown
  <2> QED
    BY <2>1, <2>2
<1>7. u = [v EXCEPT !.heard = [s.heard EXCEPT ![p] = 1]]
  BY <1>3, <1>4, <1>6 DEF v, OneMore, Memory
<1> DEFINE heard == [s.heard EXCEPT ![p] = 1]
<1>8. heard \in [Broadcasts -> 0..2] /\ heard[p] = 1
  BY <1>6
<1> HIDE DEF heard
<1>9. u = [v EXCEPT !.heard = heard]
  BY <1>7 DEF heard
<1>10. u \in Memory
  BY <1>3, <1>8, <1>9 DEF Memory
<1>11. /\ u.signalSearch = v.signalSearch /\ u.searchStrings = v.searchStrings
      /\ u.messages = v.messages /\ u.batch = v.batch /\ u.posted = v.posted
      /\ u.processed = v.processed /\ u.signalSend = v.signalSend
      /\ u.heard = heard
  BY <1>3, <1>9 DEF Memory
<1>12. BaseOK(u, T)
  BY <1>3, <1>11, <1>10 DEF BaseOK, StateOK, QueuesOK, PostedKnown
<1>13. HeardOrQueued(u)
  <2> SUFFICES ASSUME NEW b \in Broadcasts
               PROVE  /\ u.heard[b] <= 1
                      /\ u.heard[b] >= 1 =>
                           \/ b \in u.processed
                           \/ /\ u.signalSend
                              /\ \E i \in DOMAIN u.messages : u.messages[i].packet = b
    BY DEF HeardOrQueued
  <2>1. CASE b = p
    <3>1. u.heard[b] = 1
      BY <2>1, <1>8, <1>11
    <3>2. u.signalSend
      BY <1>5, <1>11, Zenon
    <3>3. \E i \in DOMAIN u.messages : u.messages[i].packet = b
      BY <2>1, <1>5, <1>11, Zenon
    <3> QED
      BY <3>1, <3>2, <3>3
  <2>2. CASE b # p
    BY <2>2, <1>4, <1>6, <1>11 DEF HeardKnown, heard
  <2> QED
    BY <2>1, <2>2
<1> QED
  BY <1>12, <1>13

LEMMA ReceivedOK ==
    ASSUME NEW T \in SUBSET Packets, NEW n \in Nodes, NEW s, BaseOK(s, T), HeardKnown(s),
           s.pc = "select", NEW p \in T,
           ~IsKnownMessage(s, p) /\ (p \in Broadcasts \/ IsLocalAddress(n, To[p]))
              => Replies[n][p] \subseteq T
    PROVE  BaseOK(Received(n, s, p), T) /\ HeardOrQueued(Received(n, s, p))
<1>1. CASE IsKnownMessage(s, p)
  BY <1>1, HeardAtSelect DEF Received
<1>2. s \in Memory /\ QueuesOK(s, T)
  BY DEF BaseOK, StateOK
<1>3. CASE ~IsKnownMessage(s, p) /\ p \in Broadcasts
  <2>1. Reply[n][p] \in Seq(T)
    BY <1>3, RepliesSent
  <2> DEFINE q == ProcessPacket(n, s, p)
  <2>2. BaseOK(q, T) /\ HeardKnown(q)
    BY <2>1, OnSendOK DEF ProcessPacket
  <2>3. q.pc = "select" /\ p \notin q.processed
    BY <1>2, <1>3, <2>1, OnSendKeeps DEF ProcessPacket, IsKnownMessage
  <2>4. Received(n, s, p) = [OnSend(q, <<p>>) EXCEPT !.heard[p] = OneMore(@)]
    BY <1>3 DEF Received
  <2> HIDE DEF q
  <2> QED
    BY <1>3, <2>2, <2>3, <2>4, HearOnce
<1>4. CASE ~IsKnownMessage(s, p) /\ p \notin Broadcasts /\ IsLocalAddress(n, To[p])
  <2>1. Reply[n][p] \in Seq(T)
    BY <1>4, RepliesSent
  <2>2. OnSend(s, Reply[n][p]).pc = "select"
    BY <1>2, <2>1, OnSendKeeps
  <2> QED
    BY <1>4, <2>1, <2>2, OnSendOK, HeardAtSelect DEF Received, ProcessPacket
<1>5. CASE ~IsKnownMessage(s, p) /\ p \notin Broadcasts /\ ~IsLocalAddress(n, To[p])
  <2>1. <<p>> \in Seq(T)
    OBVIOUS
  <2>2. OnSend(s, <<p>>).pc = "select"
    BY <1>2, <2>1, OnSendKeeps
  <2> QED
    BY <1>5, <2>1, <2>2, OnSendOK, HeardAtSelect DEF Received
<1> QED
  BY <1>1, <1>3, <1>4, <1>5

-----------------------------------------------------------------------------
\* The queue is worked off: the head p is out of the batch and may have been heard.
HeardBut(s, p) ==
    \A b \in Broadcasts :
        /\ s.heard[b] <= 1
        /\ s.heard[b] >= 1 => b \in s.processed \/ InBatch(s, b) \/ b = p

LEMMA TakeHead ==
    ASSUME NEW S \in SUBSET Packets, NEW m, MemoryOK(m, S), m.pc = "drain", m.batch # <<>>,
           NEW s, s = [m EXCEPT !.batch = Tail(@)]
    PROVE  /\ BaseOK(s, S) /\ s.pc = "drain"
           /\ Head(m.batch) \in ItemOf(S)
           /\ HeardBut(s, Head(m.batch).packet)
<1>1. m \in Memory /\ m.batch \in Seq(ItemOf(S)) /\ m.batch \in Seq(Item)
  BY DEF MemoryOK, BaseOK, StateOK, QueuesOK, Memory
<1>2. Tail(m.batch) \in Seq(ItemOf(S)) /\ Tail(m.batch) \in Seq(Item)
  BY <1>1
<1>3. s \in Memory
  BY <1>1, <1>2 DEF Memory
<1>4. /\ s.signalSearch = m.signalSearch /\ s.searchStrings = m.searchStrings
      /\ s.messages = m.messages /\ s.posted = m.posted /\ s.processed = m.processed
      /\ s.heard = m.heard /\ s.pc = "drain" /\ s.batch = Tail(m.batch)
  BY <1>1 DEF Memory
<1>5. BaseOK(s, S)
  BY <1>2, <1>3, <1>4 DEF MemoryOK, BaseOK, StateOK, QueuesOK, PostedKnown
<1>6. ASSUME NEW b, InBatch(m, b), b # Head(m.batch).packet
      PROVE  InBatch(s, b)
  <2>1. PICK i \in DOMAIN m.batch : m.batch[i].packet = b
    BY <1>6 DEF InBatch
  <2>2. i # 1 /\ i \in 1..Len(m.batch)
    BY <1>1, <1>6, <2>1
  <2>3. i - 1 \in DOMAIN Tail(m.batch) /\ Tail(m.batch)[i - 1] = m.batch[i]
    BY <1>1, <2>2
  <2> QED
    BY <1>4, <2>1, <2>3 DEF InBatch
<1>7. HeardBut(s, Head(m.batch).packet)
  BY <1>4, <1>6 DEF MemoryOK, HeardKnown, HeardBut
<1> QED
  BY <1>1, <1>4, <1>5, <1>7

\* A packet that is not a known one was never given to the network.
LEMMA PostedOK ==
    ASSUME NEW S \in SUBSET Packets, NEW s, BaseOK(s, S), s.pc = "drain",
           NEW p \in Packets, HeardBut(s, p), ~IsKnownMessage(s, p)
    PROVE  MemoryOK(Posted(s, p), S)
<1> DEFINE posted == [s.posted EXCEPT ![p] = 1]
           t == Posted(s, p)
<1>1. s \in Memory
  BY DEF BaseOK, StateOK
<1>2. s.posted \in [Packets -> 0..2] /\ s.processed \in SUBSET Packets
  BY <1>1 DEF Memory
<1>3. s.posted[p] = 0
  <2>1. s.posted[p] \in 0..2 /\ ~(s.posted[p] >= 1)
    BY <1>2 DEF BaseOK, PostedKnown, IsKnownMessage
  <2> QED
    BY <2>1
<1>4. posted \in [Packets -> 0..2] /\ posted[p] = 1 /\ \A q \in Packets \ {p} : posted[q] = s.posted[q]
  BY <1>2
<1>5. t = [s EXCEPT !.processed = s.processed \cup {p}, !.posted = posted]
  BY <1>1, <1>3 DEF Posted, OneMore, Memory
<1> HIDE DEF posted, t
<1>6. t \in Memory
  BY <1>1, <1>2, <1>4, <1>5 DEF Memory
<1>7. /\ t.signalSearch = s.signalSearch /\ t.searchStrings = s.searchStrings
      /\ t.messages = s.messages /\ t.batch = s.batch /\ t.heard = s.heard
      /\ t.pc = "drain" /\ t.processed = s.processed \cup {p} /\ t.posted = posted
  BY <1>1, <1>5 DEF Memory
<1>8. PostedKnown(t)
  BY <1>4, <1>7 DEF BaseOK, PostedKnown
<1>9. HeardKnown(t)
  BY <1>7 DEF HeardBut, HeardKnown, InBatch
<1>10. StateOK(t) /\ QueuesOK(t, S)
  BY <1>6, <1>7 DEF BaseOK, StateOK, QueuesOK
<1> QED
  BY <1>8, <1>9, <1>10 DEF MemoryOK, BaseOK, t

\* Pushing to the queue does not change what was heard.
LEMMA OnSendHeard ==
    ASSUME NEW S \in SUBSET Packets, NEW s, BaseOK(s, S), s.pc = "drain",
           NEW p, HeardBut(s, p), NEW ps \in Seq(S)
    PROVE  /\ BaseOK(OnSend(s, ps), S) /\ OnSend(s, ps).pc = "drain"
           /\ HeardBut(OnSend(s, ps), p)
           /\ OnSend(s, ps).processed = s.processed
<1>1. s \in Memory /\ QueuesOK(s, S)
  BY DEF BaseOK, StateOK
<1> QED
  BY <1>1, OnSendOK, OnSendKeeps DEF HeardBut, InBatch

\* A packet that is no broadcast, or is a known one, leaves nothing heard behind.
LEMMA NothingHeard ==
    ASSUME NEW s, s.pc = "drain", NEW p, HeardBut(s, p), p \notin Broadcasts \/ p \in s.processed
    PROVE  HeardKnown(s)
BY DEF HeardBut, HeardKnown

LEMMA StartedOK ==
    ASSUME NEW S \in SUBSET Packets
    PROVE  MemoryOK(Started, S) /\ MemoryOK([Started EXCEPT !.up = FALSE], S)
<1>1. /\ [a \in Addrs |-> NoSearch] \in [Addrs -> Search]
      /\ [b \in Broadcasts |-> 0] \in [Broadcasts -> 0..2]
      /\ [p \in Packets |-> 0] \in [Packets -> 0..2]
      /\ <<>> \in Seq(Item)
  BY DEF NoSearch, Search
<1>2. Started \in Memory
  BY <1>1 DEF Started, Memory
<1>3. [Started EXCEPT !.up = FALSE] \in Memory
  BY <1>2 DEF Memory
<1> QED
  BY <1>2, <1>3 DEF Started, MemoryOK, BaseOK, StateOK, QueuesOK, PostedKnown, HeardKnown

-----------------------------------------------------------------------------
\* The invariant, action by action.

LEMMA StepOfOne ==
    ASSUME IInv, NEW n \in Nodes, NEW t, node' = [node EXCEPT ![n] = t],
           sent \subseteq sent', sent' \subseteq Packets, MemoryOK(t, sent'),
           handled' \subseteq Nodes \X Packets, network' \subseteq DatagramOf(sent'),
           restarts' \in 0..MaxRestarts
    PROVE  IInv'
<1>1. t \in Memory
  BY DEF MemoryOK, BaseOK, StateOK
<1>2. node' \in [Nodes -> Memory]
  BY <1>1 DEF IInv
<1>3. ASSUME NEW m \in Nodes PROVE MemoryOK(node'[m], sent')
  <2>1. CASE m = n
    BY <2>1 DEF IInv
  <2>2. CASE m # n
    <3>1. node'[m] = node[m] /\ MemoryOK(node[m], sent)
      BY <2>2 DEF IInv
    <3> QED
      BY <3>1, MemoryGrows
  <2> QED
    BY <2>1, <2>2
<1> QED
  BY <1>2, <1>3 DEF IInv

LEMMA HandlingOK ==
    ASSUME IInv, NEW n \in Nodes, NEW p \in Packets, Handling(n, p)
    PROVE  /\ sent \subseteq sent' /\ sent' \subseteq Packets
           /\ Replies[n][p] \subseteq sent' /\ Reply[n][p] \in Seq(sent')
           /\ handled' \subseteq Nodes \X Packets
BY RepliesSent DEF Handling, IInv

LEMMA NetworkGrows ==
    ASSUME NEW S, NEW T, S \subseteq T, NEW d, d \subseteq DatagramOf(S)
    PROVE  d \subseteq DatagramOf(T)
BY DEF DatagramOf

LEMMA ReceiveInv ==
    ASSUME IInv, NEW n \in Nodes, Receive(n)
    PROVE  IInv'
<1> DEFINE s == node[n]
<1>1. PICK d \in network :
        /\ network' = network \ {d}
        /\ node' = [node EXCEPT ![n] = FinishIteration(n, Received(n, s, d.packet))]
        /\ IF ~IsKnownMessage(s, d.packet)
               /\ (d.packet \in Broadcasts \/ IsLocalAddress(n, To[d.packet]))
           THEN Handling(n, d.packet)
           ELSE UNCHANGED <<sent, handled>>
  BY DEF Receive, IInv
<1> DEFINE p == d.packet
           t == FinishIteration(n, Received(n, s, p))
<1>2. MemoryOK(s, sent) /\ s.pc = "select" /\ restarts' = restarts
  BY DEF IInv, Receive
<1>3. p \in sent /\ p \in Packets
  BY DEF IInv, DatagramOf
<1>4. /\ sent \subseteq sent' /\ sent' \subseteq Packets /\ handled' \subseteq Nodes \X Packets
      /\ ~IsKnownMessage(s, p) /\ (p \in Broadcasts \/ IsLocalAddress(n, To[p]))
            => Replies[n][p] \subseteq sent'
  BY <1>1, <1>3, HandlingOK DEF IInv
<1>5. BaseOK(s, sent') /\ HeardKnown(s)
  BY <1>2, <1>4, MemoryGrows DEF MemoryOK
<1>6. MemoryOK(t, sent')
  <2>1. BaseOK(Received(n, s, p), sent') /\ HeardOrQueued(Received(n, s, p))
    BY <1>2, <1>3, <1>4, <1>5, ReceivedOK
  <2> QED
    BY <1>4, <2>1, FinishIterationOK
<1>7. network' \subseteq DatagramOf(sent')
  BY <1>1, <1>4, NetworkGrows DEF IInv
<1> HIDE DEF t, s
<1>8. node' = [node EXCEPT ![n] = t]
  BY <1>1 DEF t, s
<1> QED
  BY <1>2, <1>4, <1>6, <1>7, <1>8, StepOfOne DEF IInv

LEMMA TimeoutInv ==
    ASSUME IInv, NEW n \in Nodes, Timeout(n)
    PROVE  IInv'
<1> DEFINE t == FinishIteration(n, node[n])
<1>1. /\ node' = [node EXCEPT ![n] = t]
      /\ sent' = sent /\ network' = network /\ handled' = handled /\ restarts' = restarts
  BY DEF Timeout, IInv
<1>2. MemoryOK(node[n], sent) /\ node[n].pc = "select" /\ sent \subseteq Packets
  BY DEF IInv, Timeout
<1>3. MemoryOK(t, sent')
  BY <1>1, <1>2, HeardAtSelect, FinishIterationOK DEF MemoryOK
<1> HIDE DEF t
<1> QED
  BY <1>1, <1>2, <1>3, StepOfOne DEF IInv

LEMMA ClearQueueInv ==
    ASSUME IInv, NEW n \in Nodes, ClearQueue(n)
    PROVE  IInv'
<1> DEFINE m == node[n]
           t == [m EXCEPT !.pc = "drain", !.messages = <<>>, !.late = {}]
<1>1. m \in Memory /\ MemoryOK(m, sent) /\ m.pc = "copied"
  BY DEF IInv, ClearQueue
<1>2. node' = [node EXCEPT ![n] = t]
  BY DEF ClearQueue, IInv
<1>3. UNCHANGED <<network, sent, handled, restarts>>
  BY DEF ClearQueue
<1>4. t \in Memory
  <2> DEFINE empty == <<>>
             u == [m EXCEPT !.pc = "drain", !.messages = empty]
  <2>1. empty \in Seq(Item)
    OBVIOUS
  <2> HIDE DEF empty
  <2>2. u \in Memory
    BY <1>1, <2>1 DEF Memory
  <2>3. t = [u EXCEPT !.late = {}]
    BY <1>1 DEF empty, Memory
  <2> QED
    BY <2>2, <2>3 DEF Memory
<1>5. /\ t.signalSearch = m.signalSearch /\ t.searchStrings = m.searchStrings
      /\ t.messages = <<>> /\ t.batch = m.batch /\ t.heard = m.heard
      /\ t.pc = "drain" /\ t.processed = m.processed /\ t.posted = m.posted
  BY <1>1 DEF Memory
<1> HIDE DEF t
<1>6. MemoryOK(t, sent)
  BY <1>1, <1>4, <1>5
     DEF MemoryOK, BaseOK, StateOK, QueuesOK, PostedKnown, HeardKnown, InBatch
<1> QED
  BY <1>2, <1>3, <1>6, StepOfOne DEF IInv

\* The datagrams of a packet that was sent.
LEMMA DatagramsOK ==
    ASSUME NEW S \in SUBSET Packets, NEW n \in Nodes, NEW p \in S, NEW to \in SUBSET Nodes
    PROVE  Datagrams(n, p, to) \subseteq DatagramOf(S)
BY DEF Datagrams, DatagramOf

LEMMA DrainOneInv ==
    ASSUME IInv, NEW n \in Nodes, DrainOne(n)
    PROVE  IInv'
<1> DEFINE m == node[n]
           item == Head(m.batch)
           p == item.packet
           s == [m EXCEPT !.batch = Tail(@)]
<1>1. /\ MemoryOK(m, sent) /\ m.pc = "drain" /\ m.batch # <<>>
      /\ sent \subseteq Packets /\ network \subseteq DatagramOf(sent)
      /\ handled \subseteq Nodes \X Packets /\ restarts' \in 0..MaxRestarts
  BY DEF IInv, DrainOne
<1>2. BaseOK(s, sent) /\ s.pc = "drain" /\ item \in ItemOf(sent) /\ HeardBut(s, p)
  BY <1>1, TakeHead
<1>3. p \in sent /\ p \in Packets /\ item.tried \in BOOLEAN
  BY <1>1, <1>2 DEF ItemOf
<1>4. s \in Memory
  BY <1>2 DEF BaseOK, StateOK
<1>5. \/ SkipKnown(n, s, p) \/ SendBroadcast(n, s, p) \/ HandleLocal(n, s, p)
      \/ SendMessage(n, s, p) \/ ReturnMessage(n, s, item)
  BY DEF DrainOne
<1> HIDE DEF m, item, p, s
<1>6. CASE SkipKnown(n, s, p)
  <2>1. /\ node' = [node EXCEPT ![n] = s] /\ UNCHANGED <<network, sent, handled>>
        /\ p \in s.processed
    BY <1>6 DEF SkipKnown, IsKnownMessage
  <2>2. MemoryOK(s, sent')
    BY <1>2, <2>1, NothingHeard DEF MemoryOK
  <2> QED
    BY <1>1, <2>1, <2>2, StepOfOne
<1>7. CASE SendBroadcast(n, s, p)
  <2> DEFINE ps == Repeated(Reply[n][p], Sessions[n])
             t == Posted(OnSend(s, ps), p)
  <2>1. /\ node' = [node EXCEPT ![n] = t] /\ ~IsKnownMessage(s, p)
        /\ network' = network \cup Datagrams(n, p, Peers[n])
        /\ IF Sessions[n] > 0 THEN Handling(n, p) ELSE UNCHANGED <<sent, handled>>
    BY <1>7 DEF SendBroadcast
  <2>2. Sessions[n] \in Nat /\ Peers[n] \in SUBSET Nodes
    BY OverlayAssumption
  <2>3. /\ sent \subseteq sent' /\ sent' \subseteq Packets
        /\ handled' \subseteq Nodes \X Packets /\ ps \in Seq(sent')
    <3>1. CASE Sessions[n] > 0
      BY <1>3, <2>1, <2>2, <3>1, HandlingOK, RepeatedType
    <3>2. CASE ~(Sessions[n] > 0)
      <4>1. Sessions[n] = 0 /\ Reply[n][p] \in Seq(Packets)
        BY <1>3, <2>2, <3>2, OverlayAssumption
      <4>2. ps = <<>>
        BY <4>1 DEF Repeated
      <4> HIDE DEF ps
      <4> QED
        BY <1>1, <2>1, <3>2, <4>2
    <3> QED
      BY <3>1, <3>2
  <2> HIDE DEF ps
  <2>4. BaseOK(s, sent')
    BY <1>2, <2>3, MemoryGrows
  <2>5. /\ BaseOK(OnSend(s, ps), sent') /\ OnSend(s, ps).pc = "drain"
        /\ HeardBut(OnSend(s, ps), p) /\ ~IsKnownMessage(OnSend(s, ps), p)
    BY <1>2, <2>1, <2>3, <2>4, OnSendHeard DEF IsKnownMessage
  <2>6. MemoryOK(t, sent')
    BY <1>3, <2>3, <2>5, PostedOK
  <2>7. network' \subseteq DatagramOf(sent')
    <3>1. Datagrams(n, p, Peers[n]) \subseteq DatagramOf(sent)
      BY <1>1, <1>3, <2>2, DatagramsOK
    <3>2. network' \subseteq DatagramOf(sent)
      BY <1>1, <2>1, <3>1
    <3> QED
      BY <2>3, <3>2, NetworkGrows
  <2> HIDE DEF t
  <2> QED
    BY <1>1, <2>1, <2>3, <2>6, <2>7, StepOfOne
<1>8. CASE HandleLocal(n, s, p)
  <2>1. /\ node' = [node EXCEPT ![n] = ProcessPacket(n, s, p)] /\ Handling(n, p)
        /\ network' = network /\ p \in Directs
    BY <1>8 DEF HandleLocal
  <2>2. /\ sent \subseteq sent' /\ sent' \subseteq Packets /\ Reply[n][p] \in Seq(sent')
        /\ handled' \subseteq Nodes \X Packets
    BY <1>3, <2>1, HandlingOK
  <2>3. BaseOK(s, sent') /\ HeardKnown(s)
    BY <1>2, <2>1, <2>2, MemoryGrows, NothingHeard, OverlayAssumption
  <2>4. MemoryOK(ProcessPacket(n, s, p), sent')
    BY <2>2, <2>3, OnSendOK DEF ProcessPacket, MemoryOK
  <2> QED
    BY <1>1, <2>1, <2>2, <2>4, NetworkGrows, StepOfOne
<1>9. CASE SendMessage(n, s, p)
  <2>1. /\ node' = [node EXCEPT ![n] = Posted(s, p)] /\ ~IsKnownMessage(s, p) /\ p \in Directs
        /\ network' = network \cup Datagrams(n, p, s.searches[To[p]].list)
        /\ UNCHANGED <<sent, handled>>
    BY <1>9 DEF SendMessage, Remote
  <2>2. s.searches[To[p]].list \in SUBSET Nodes
    <3>1. To[p] \in Addrs
      BY <2>1, OverlayAssumption
    <3>2. s.searches[To[p]] \in Search
      BY <1>4, <3>1 DEF Memory
    <3> QED
      BY <3>2 DEF Search
  <2>3. network' \subseteq DatagramOf(sent')
    BY <1>1, <1>3, <2>1, <2>2, DatagramsOK
  <2>4. MemoryOK(Posted(s, p), sent')
    BY <1>1, <1>2, <1>3, <2>1, PostedOK
  <2> QED
    BY <1>1, <2>1, <2>3, <2>4, StepOfOne
<1>10. CASE ReturnMessage(n, s, item)
  <2> DEFINE a == To[p]
             queue == Append(s.messages, [item EXCEPT !.tried = TRUE])
             again == [s EXCEPT !.messages = queue, !.searchStrings = s.searchStrings \cup {a},
                                !.signalSearch = TRUE]
             t == IF item.tried THEN s ELSE again
  <2>1. p \in Directs /\ UNCHANGED <<network, sent, handled>>
    BY <1>10 DEF ReturnMessage, Remote, p
  <2>2. node' = [node EXCEPT ![n] = t]
    BY <1>4, <1>10 DEF ReturnMessage, Memory, p
  <2>3. MemoryOK(s, sent)
    BY <1>2, <2>1, NothingHeard, OverlayAssumption DEF MemoryOK
  <2>4. queue \in Seq(ItemOf(sent)) /\ queue \in Seq(Item)
    <3>1. [item EXCEPT !.tried = TRUE] \in ItemOf(sent)
      BY <1>2 DEF ItemOf
    <3>2. s.messages \in Seq(ItemOf(sent))
      BY <1>2 DEF BaseOK, QueuesOK
    <3> HIDE DEF p, a
    <3>3. queue \in Seq(ItemOf(sent))
      BY <3>1, <3>2
    <3>4. ItemOf(Packets) = Item
      BY DEF ItemOf, Item
    <3> QED
      BY <1>1, <3>3, <3>4, SequencesGrow
  <2>5. a \in Addrs
    BY <2>1, OverlayAssumption
  <2> HIDE DEF queue, a
  <2>6. again \in Memory
    BY <1>4, <2>4, <2>5 DEF Memory
  <2>7. /\ again.messages = queue /\ again.batch = s.batch /\ again.heard = s.heard
        /\ again.posted = s.posted /\ again.processed = s.processed /\ again.pc = s.pc
        /\ again.searchStrings = s.searchStrings \cup {a} /\ again.signalSearch = TRUE
    BY <1>4 DEF Memory
  <2> HIDE DEF again
  <2>8. MemoryOK(again, sent)
    BY <2>3, <2>4, <2>6, <2>7
       DEF MemoryOK, BaseOK, StateOK, QueuesOK, PostedKnown, HeardKnown, InBatch
  <2>9. MemoryOK(t, sent)
    BY <2>3, <2>8
  <2> HIDE DEF t
  <2> QED
    BY <1>1, <2>1, <2>2, <2>9, StepOfOne
<1> QED
  BY <1>5, <1>6, <1>7, <1>8, <1>9, <1>10

LEMMA EndDrainInv ==
    ASSUME IInv, NEW n \in Nodes, EndDrain(n)
    PROVE  IInv'
<1> DEFINE m == node[n]
           t == [m EXCEPT !.pc = "select", !.signalSend = FALSE]
<1>1. m \in Memory /\ MemoryOK(m, sent) /\ m.pc = "drain" /\ m.batch = <<>>
  BY DEF IInv, EndDrain
<1>2. node' = [node EXCEPT ![n] = t] /\ UNCHANGED <<network, sent, handled, restarts>>
  BY DEF EndDrain, IInv
<1>3. t \in Memory
  BY <1>1 DEF Memory
<1>4. /\ t.signalSearch = m.signalSearch /\ t.searchStrings = m.searchStrings
      /\ t.messages = m.messages /\ t.batch = m.batch /\ t.heard = m.heard
      /\ t.processed = m.processed /\ t.posted = m.posted
  BY <1>1 DEF Memory
<1> HIDE DEF t
<1>5. \A b \in Broadcasts : m.heard[b] >= 1 => b \in m.processed
  BY <1>1 DEF MemoryOK, HeardKnown, InBatch
<1>6. MemoryOK(t, sent)
  BY <1>1, <1>3, <1>4, <1>5 DEF MemoryOK, BaseOK, StateOK, QueuesOK, PostedKnown, HeardKnown
<1> QED
  BY <1>2, <1>6, StepOfOne DEF IInv

LEMMA CommandInv ==
    ASSUME IInv, NEW n \in Nodes, NEW p \in Packets, Command(n, p)
    PROVE  IInv'
<1> DEFINE t == OnSend(node[n], <<p>>)
<1>1. /\ node' = [node EXCEPT ![n] = t] /\ sent' = sent \cup {p}
      /\ UNCHANGED <<network, handled, restarts>>
  BY DEF Command, IInv
<1>2. sent \subseteq sent' /\ sent' \subseteq Packets /\ <<p>> \in Seq(sent')
  BY <1>1 DEF IInv
<1>3. BaseOK(node[n], sent') /\ HeardKnown(node[n])
  BY <1>2, MemoryGrows DEF IInv, MemoryOK
<1>4. MemoryOK(t, sent')
  BY <1>2, <1>3, OnSendOK DEF MemoryOK
<1> HIDE DEF t
<1> QED
  BY <1>1, <1>2, <1>4, NetworkGrows, StepOfOne DEF IInv

LEMMA SearchReplyInv ==
    ASSUME IInv, NEW n \in Nodes, NEW a \in Addrs, SearchReply(n, a)
    PROVE  IInv'
<1> DEFINE m == node[n]
<1>1. PICK k \in m.searches[a].list :
        node' = [node EXCEPT ![n].searches[a].list = @ \cup (Peers[k] \ {n})]
  BY DEF SearchReply
<1> DEFINE list == m.searches[a].list \cup (Peers[k] \ {n})
           searches == [m.searches EXCEPT ![a] = [m.searches[a] EXCEPT !.list = list]]
           t == [m EXCEPT !.searches = searches]
<1>2. m \in Memory /\ MemoryOK(m, sent)
  BY DEF IInv
<1>3. node' = [node EXCEPT ![n] = t] /\ UNCHANGED <<network, sent, handled, restarts>>
  BY <1>1 DEF SearchReply, IInv
<1>4. searches \in [Addrs -> Search]
  <2>1. m.searches \in [Addrs -> Search] /\ m.searches[a] \in Search
    BY <1>2 DEF Memory
  <2>2. list \subseteq Nodes
    BY <2>1, OverlayAssumption DEF Search
  <2>3. [m.searches[a] EXCEPT !.list = list] \in Search
    BY <2>1, <2>2 DEF Search
  <2> QED
    BY <2>1, <2>3
<1> HIDE DEF searches
<1>5. t \in Memory
  BY <1>2, <1>4 DEF Memory
<1>6. /\ t.signalSearch = m.signalSearch /\ t.searchStrings = m.searchStrings
      /\ t.messages = m.messages /\ t.batch = m.batch /\ t.heard = m.heard
      /\ t.pc = m.pc /\ t.processed = m.processed /\ t.posted = m.posted
  BY <1>2 DEF Memory
<1> HIDE DEF t
<1>7. MemoryOK(t, sent)
  BY <1>2, <1>5, <1>6 DEF MemoryOK, BaseOK, StateOK, QueuesOK, PostedKnown, HeardKnown, InBatch
<1> QED
  BY <1>3, <1>7, StepOfOne DEF IInv

LEMMA EndInv ==
    ASSUME IInv, NEW n \in Nodes, Restart(n) \/ \E a \in Addrs : SearchEnds(n, a)
    PROVE  IInv'
<1> DEFINE t == IF Restart(n) THEN Started ELSE [Started EXCEPT !.up = FALSE]
<1>1. node' = [node EXCEPT ![n] = t] /\ UNCHANGED <<sent, handled>> /\ network' \subseteq network
  BY DEF Restart, SearchEnds
<1>2. restarts' \in 0..MaxRestarts
  BY OverlayAssumption DEF Restart, SearchEnds, IInv
<1>3. MemoryOK(t, sent)
  BY StartedOK DEF IInv
<1> HIDE DEF t
<1> QED
  BY <1>1, <1>2, <1>3, StepOfOne DEF IInv

LEMMA Invariance == Spec => []IInv
<1>1. Init => IInv
  <2> SUFFICES ASSUME Init PROVE IInv
    OBVIOUS
  <2>1. MemoryOK(Started, sent) /\ Started \in Memory
    BY StartedOK DEF Init, MemoryOK, BaseOK, StateOK
  <2> QED
    BY <2>1, OverlayAssumption DEF Init, IInv
<1>2. IInv /\ [Next]_vars => IInv'
  <2> SUFFICES ASSUME IInv, [Next]_vars PROVE IInv'
    OBVIOUS
  <2>1. ASSUME NEW n \in Nodes, DhtThread(n) PROVE IInv'
    BY <2>1, ReceiveInv, TimeoutInv, ClearQueueInv, DrainOneInv, EndDrainInv DEF DhtThread
  <2>2. ASSUME NEW n \in Nodes, NEW p \in Packets, Command(n, p) PROVE IInv'
    BY <2>2, CommandInv
  <2>3. ASSUME NEW n \in Nodes, NEW a \in Addrs, SearchReply(n, a) PROVE IInv'
    BY <2>3, SearchReplyInv
  <2>4. ASSUME NEW n \in Nodes, Restart(n) \/ \E a \in Addrs : SearchEnds(n, a) PROVE IInv'
    BY <2>4, EndInv
  <2>5. CASE UNCHANGED vars
    BY <2>5 DEF vars, IInv
  <2> QED
    BY <2>1, <2>2, <2>3, <2>4, <2>5 DEF Next
<1> QED
  BY <1>1, <1>2, PTL DEF Spec

-----------------------------------------------------------------------------
\* Whatever the programs, their tables and packets, the memory of each is of its type,
\* and the search signal is up exactly when addresses wait for a search (XBridgeApp).
THEOREM OverlayTypes == Spec => []TypeOK
<1>1. IInv => TypeOK
  BY DEF IInv, MemoryOK, BaseOK, StateOK, TypeOK, DatagramOf, Datagram
<1> QED
  BY <1>1, Invariance, PTL

\* No program gives a packet to the network twice while it runs, with any number of
\* programs, cycles of tables and repetitions (isKnownMessage(), m_processedMessages).
THEOREM NeverPostedTwice == Spec => []PostedOnce
<1>1. IInv => PostedOnce
  BY DEF IInv, MemoryOK, BaseOK, PostedKnown, PostedOnce
<1> QED
  BY <1>1, Invariance, PTL

\* Nor does it run a broadcast through its handlers twice on reception: between that and
\* the moment it is known, no datagram is looked at (dht_periodic(), dhtThreadProc()).
THEOREM NeverHeardTwice == Spec => []HeardOnce
<1>1. IInv => HeardOnce
  BY DEF IInv, MemoryOK, HeardKnown, HeardOnce
<1> QED
  BY <1>1, Invariance, PTL

\* Handling a packet that was sent, where it is meant to be handled, is a step of
\* PacketDelivery.
LEMMA HandlingIsDelivered ==
    ASSUME NEW n \in Nodes, NEW p \in Packets, p \in sent, Handling(n, p),
           p \in Broadcasts \/ Home[To[p]] = n
    PROVE  Delivery!Next
<1>1. p \in Meant[n]
  BY DEF Meant, Packets
<1>2. Delivery!Handle(n, p)
  BY <1>1 DEF Delivery!Handle, Handling
<1> QED
  BY <1>2 DEF Delivery!Next

\* The queues, relays, searches and restarts of the overlay implement PacketDelivery: a
\* packet is handled only by a program it is meant for and only if it was sent.
THEOREM DeliversPackets == Spec => ImplementsDelivery
<1>1. Init => Delivery!Init
  BY DEF Init, Delivery!Init
<1>2. IInv /\ [Next]_vars => [Delivery!Next]_<<sent, handled>>
  <2> SUFFICES ASSUME IInv, [Next]_vars PROVE Delivery!Next \/ UNCHANGED <<sent, handled>>
    OBVIOUS
  <2>1. ASSUME NEW n \in Nodes, Receive(n) PROVE Delivery!Next \/ UNCHANGED <<sent, handled>>
    <3>1. PICK d \in network :
            IF ~IsKnownMessage(node[n], d.packet)
               /\ (d.packet \in Broadcasts \/ IsLocalAddress(n, To[d.packet]))
            THEN Handling(n, d.packet)
            ELSE UNCHANGED <<sent, handled>>
      BY <2>1 DEF Receive
    <3>2. d.packet \in sent /\ d.packet \in Packets
      BY DEF IInv, DatagramOf
    <3> QED
      BY <3>1, <3>2, HandlingIsDelivered DEF IsLocalAddress
  <2>2. ASSUME NEW n \in Nodes, DrainOne(n) PROVE Delivery!Next \/ UNCHANGED <<sent, handled>>
    <3> DEFINE item == Head(node[n].batch)
               s == [node[n] EXCEPT !.batch = Tail(@)]
    <3>1. item \in ItemOf(sent)
      BY <2>2, TakeHead DEF IInv, DrainOne
    <3>2. item.packet \in sent /\ item.packet \in Packets
      BY <3>1 DEF ItemOf, IInv
    <3>3. \/ SkipKnown(n, s, item.packet) \/ SendBroadcast(n, s, item.packet)
          \/ HandleLocal(n, s, item.packet) \/ SendMessage(n, s, item.packet)
          \/ ReturnMessage(n, s, item)
      BY <2>2 DEF DrainOne
    <3> HIDE DEF item, s
    <3>4. \/ UNCHANGED <<sent, handled>>
          \/ /\ Handling(n, item.packet)
             /\ item.packet \in Broadcasts \/ Home[To[item.packet]] = n
      BY <3>3 DEF SkipKnown, SendBroadcast, HandleLocal, SendMessage, ReturnMessage, Remote
    <3> QED
      BY <3>2, <3>4, HandlingIsDelivered
  <2>3. ASSUME NEW n \in Nodes, NEW p \in Packets, Command(n, p) PROVE Delivery!Next
    <3>1. Delivery!SendNew(p)
      BY <2>3 DEF Command, Delivery!SendNew
    <3> QED
      BY <3>1 DEF Delivery!Next
  <2>4. ASSUME NEW n \in Nodes,
               Timeout(n) \/ ClearQueue(n) \/ EndDrain(n) \/ Restart(n)
                  \/ \E a \in Addrs : SearchReply(n, a) \/ SearchEnds(n, a)
        PROVE  UNCHANGED <<sent, handled>>
    BY <2>4 DEF Timeout, ClearQueue, EndDrain, Restart, SearchReply, SearchEnds
  <2>5. CASE UNCHANGED vars
    BY <2>5 DEF vars
  <2> QED
    BY <2>1, <2>2, <2>3, <2>4, <2>5 DEF Next, DhtThread
<1> QED
  BY <1>1, <1>2, Invariance, PTL DEF Spec, ImplementsDelivery, Delivery!Spec
=============================================================================
