------------------------ MODULE XBridgeOverlay_waits ------------------------
(***************************************************************************)
(* Why a packet in the send queue waits, for any programs, tables and      *)
(* packets.  Types come from the invariant of XBridgeOverlay_proofs; what  *)
(* is added says that a packet is in a queue whose signal is down only if  *)
(* it came while the queue was worked off or its address is searched.      *)
(***************************************************************************)
EXTENDS XBridgeOverlay_proofs

\* What a packet waits for.
Reason(s, m) ==
    \/ m.packet \in s.late
    \/ /\ m.tried
       /\ \E a \in Addrs :
             /\ To[m.packet] = a
             /\ a \in s.searchStrings \/ s.searches[a].status = "running"

QueueReason(s) == \A i \in DOMAIN s.messages : Reason(s, s.messages[i])

\* Between iterations the signal is up or each packet has its reason; while the queue
\* is worked off, whose signal will be lowered, each packet pushed has one.
SignalOrReason(s) == s.signalSend \/ QueueReason(s)
WaitsOK(s) ==
    /\ s.pc = "select" => SignalOrReason(s)
    /\ s.pc = "drain" => QueueReason(s)

\* The inductive invariant.
WaitsInv == \A n \in Nodes : WaitsOK(node[n])

-----------------------------------------------------------------------------
\* Reasons depend on the queue, late packets and the searches' states alone.
LEMMA SameReasons ==
    ASSUME NEW s, NEW t, t.messages = s.messages, t.late = s.late,
           t.searchStrings = s.searchStrings,
           \A a \in Addrs : t.searches[a].status = s.searches[a].status
    PROVE  QueueReason(s) => QueueReason(t)
BY DEF QueueReason, Reason

LEMMA NoQueueNoReason ==
    ASSUME NEW s, s.messages = <<>>
    PROVE  QueueReason(s)
BY DEF QueueReason

\* A packet pushed between iterations raises the signal; one pushed while the queue is
\* worked off is late.
LEMMA OnSendWaits ==
    ASSUME NEW S \in SUBSET Packets, NEW s, BaseOK(s, S), NEW ps \in Seq(S)
    PROVE  /\ s.pc = "select" /\ SignalOrReason(s) => SignalOrReason(OnSend(s, ps))
           /\ s.pc # "select" /\ QueueReason(s) => QueueReason(OnSend(s, ps))
           /\ ps # <<>> => OnSend(s, ps).signalSend
<1> DEFINE t == OnSend(s, ps)
           new == [i \in DOMAIN ps |-> New(ps[i])]
<1>1. s \in Memory /\ QueuesOK(s, S)
  BY DEF BaseOK, StateOK
<1>2. /\ t.messages = s.messages \o new
      /\ t.signalSend = (s.signalSend \/ ps # <<>>)
      /\ t.late = IF s.pc = "select" THEN s.late ELSE s.late \cup ToSet(ps)
  BY <1>1 DEF OnSend, Memory
<1>3. t.searchStrings = s.searchStrings /\ t.searches = s.searches
  BY <1>1, OnSendKeeps
<1>4. s.messages \in Seq(Item)
  BY <1>1 DEF Memory
<1>5. new \in Seq(Item) /\ Len(new) = Len(ps) /\ \A i \in DOMAIN ps : new[i].packet = ps[i]
  <2>1. \A i \in DOMAIN ps : New(ps[i]) \in Item /\ New(ps[i]).packet = ps[i]
    BY DEF New, Item
  <2> QED
    BY <2>1
<1> HIDE DEF t, new
<1>6. ASSUME s.pc = "select", SignalOrReason(s)
      PROVE  SignalOrReason(t)
  <2>1. CASE ps # <<>>
    BY <2>1, <1>2 DEF SignalOrReason
  <2>2. CASE ps = <<>>
    <3>1. Len(new) = 0
      BY <1>5, <2>2
    <3>2. t.messages = s.messages
      BY <1>2, <1>4, <1>5, <3>1
    <3> QED
      BY <1>2, <1>3, <1>6, <3>2, SameReasons DEF SignalOrReason
  <2> QED
    BY <2>1, <2>2
<1>7. ASSUME s.pc # "select", QueueReason(s)
      PROVE  QueueReason(t)
  <2> SUFFICES ASSUME NEW i \in DOMAIN t.messages PROVE Reason(t, t.messages[i])
    BY DEF QueueReason
  <2>1. i \in 1..Len(s.messages) + Len(new)
    BY <1>2, <1>4, <1>5
  <2>2. CASE i \in 1..Len(s.messages)
    <3>1. t.messages[i] = s.messages[i] /\ i \in DOMAIN s.messages
      BY <1>2, <1>4, <1>5, <2>2
    <3> QED
      BY <3>1, <1>2, <1>3, <1>7 DEF QueueReason, Reason
  <2>3. CASE i \notin 1..Len(s.messages)
    <3>1. i - Len(s.messages) \in 1..Len(new)
      BY <2>1, <2>3, <1>4, <1>5
    <3>2. t.messages[i] = new[i - Len(s.messages)]
      BY <1>2, <1>4, <1>5, <2>1, <2>3
    <3>3. t.messages[i].packet = ps[i - Len(s.messages)] /\ i - Len(s.messages) \in DOMAIN ps
      BY <3>1, <3>2, <1>5
    <3>4. t.messages[i].packet \in ToSet(ps)
      BY <3>3 DEF ToSet
    <3> QED
      BY <3>4, <1>2, <1>7 DEF Reason
  <2> QED
    BY <2>2, <2>3
<1>8. ps # <<>> => t.signalSend
  BY <1>2
<1> QED
  BY <1>6, <1>7, <1>8 DEF t

\* A search that is started runs, or ended at once and raised the signal.
LEMMA StartSearchesWaits ==
    ASSUME NEW S \in SUBSET Packets, NEW n \in Nodes, NEW s, BaseOK(s, S), SignalOrReason(s)
    PROVE  SignalOrReason(StartSearches(n, s))
<1> DEFINE found == [status |-> IF Peers[n] = {} THEN "done" ELSE "running", list |-> Peers[n]]
           list == [a \in Addrs |-> IF a \in s.searchStrings
                                    THEN [found EXCEPT !.list = @ \cup s.searches[a].list]
                                    ELSE s.searches[a]]
           signal == s.signalSend \/ /\ s.searchStrings # {}
                                     /\ s.messages # <<>>
                                     /\ n \in IdleFamily \/ Peers[n] = {}
           t == StartSearches(n, s)
<1>1. CASE ~s.signalSearch
  BY <1>1 DEF StartSearches
<1>2. CASE s.signalSearch
  <2>1. s \in Memory /\ s.searchStrings # {}
    BY <1>2 DEF BaseOK, StateOK
  <2>2. /\ t.messages = s.messages /\ t.late = s.late
        /\ t.searches = list /\ t.signalSend = signal
    BY <1>2, <2>1 DEF StartSearches, Memory
  <2>3. CASE signal
    BY <2>2, <2>3 DEF SignalOrReason
  <2>4. CASE s.messages = <<>>
    BY <2>2, <2>4, NoQueueNoReason DEF SignalOrReason
  <2>5. CASE ~signal /\ s.messages # <<>>
    <3>1. QueueReason(s) /\ Peers[n] # {}
      BY <2>1, <2>5 DEF SignalOrReason
    <3>2. \A a \in Addrs :
            a \in s.searchStrings \/ s.searches[a].status = "running" =>
              list[a].status = "running"
      BY <3>1
    <3> HIDE DEF t, list
    <3>3. QueueReason(t)
      BY <2>2, <3>1, <3>2 DEF QueueReason, Reason
    <3> QED
      BY <3>3 DEF SignalOrReason, t
  <2> QED
    BY <2>3, <2>4, <2>5
<1> QED
  BY <1>1, <1>2

LEMMA CopyQueueWaits ==
    ASSUME NEW s \in Memory, SignalOrReason(s), s.pc = "select"
    PROVE  WaitsOK(CopyQueue(s))
<1> DEFINE t == CopyQueue(s)
<1>1. CASE s.signalSend /\ s.messages # <<>>
  <2>1. t.pc = "copied"
    BY <1>1 DEF CopyQueue, Memory
  <2> QED
    BY <2>1 DEF WaitsOK
<1>2. CASE ~(s.signalSend /\ s.messages # <<>>)
  <2>1. /\ t.messages = s.messages /\ t.late = s.late /\ t.pc = "select"
        /\ t.searchStrings = s.searchStrings /\ t.searches = s.searches
    BY <1>2 DEF CopyQueue, Memory
  <2>2. QueueReason(s)
    BY <1>2, NoQueueNoReason DEF SignalOrReason
  <2> HIDE DEF t
  <2>3. QueueReason(t)
    BY <2>1, <2>2, SameReasons
  <2> QED
    BY <2>1, <2>3 DEF WaitsOK, SignalOrReason, t
<1> QED
  BY <1>1, <1>2

LEMMA FinishIterationWaits ==
    ASSUME NEW S \in SUBSET Packets, NEW n \in Nodes, NEW s, BaseOK(s, S), s.pc = "select",
           SignalOrReason(s)
    PROVE  WaitsOK(FinishIteration(n, s))
<1> DEFINE t == StartSearches(n, s)
<1>1. t \in Memory /\ t.pc = "select" /\ SignalOrReason(t)
  BY StartSearchesOK, StartSearchesWaits DEF BaseOK, StateOK
<1> HIDE DEF t
<1> QED
  BY <1>1, CopyQueueWaits DEF FinishIteration, t

LEMMA ReceivedWaits ==
    ASSUME NEW T \in SUBSET Packets, NEW n \in Nodes, NEW s, BaseOK(s, T), s.pc = "select",
           SignalOrReason(s), NEW p \in T,
           ~IsKnownMessage(s, p) /\ (p \in Broadcasts \/ IsLocalAddress(n, To[p]))
              => Replies[n][p] \subseteq T
    PROVE  Received(n, s, p).pc = "select" /\ SignalOrReason(Received(n, s, p))
<1>1. CASE IsKnownMessage(s, p)
  BY <1>1 DEF Received
<1>2. s \in Memory /\ QueuesOK(s, T) /\ <<p>> \in Seq(T) /\ <<p>> # <<>>
  BY DEF BaseOK, StateOK
<1>3. CASE ~IsKnownMessage(s, p) /\ p \in Broadcasts
  <2>1. Reply[n][p] \in Seq(T)
    BY <1>3, RepliesSent
  <2> DEFINE q == ProcessPacket(n, s, p)
             v == OnSend(q, <<p>>)
  <2>2. BaseOK(q, T) /\ q.pc = "select"
    BY <1>2, <2>1, OnSendOK, OnSendKeeps DEF ProcessPacket
  <2> HIDE DEF q
  <2>3. v \in Memory /\ v.pc = "select" /\ v.signalSend
    BY <1>2, <2>2, OnSendKeeps, OnSendWaits DEF BaseOK, StateOK
  <2>4. Received(n, s, p) = [v EXCEPT !.heard[p] = OneMore(@)]
    BY <1>3 DEF Received, q
  <2> HIDE DEF v
  <2>5. Received(n, s, p).pc = "select" /\ Received(n, s, p).signalSend
    BY <2>3, <2>4 DEF Memory
  <2> QED
    BY <2>5 DEF SignalOrReason
<1>4. CASE ~IsKnownMessage(s, p) /\ p \notin Broadcasts /\ IsLocalAddress(n, To[p])
  <2>1. Reply[n][p] \in Seq(T)
    BY <1>4, RepliesSent
  <2> QED
    BY <1>2, <1>4, <2>1, OnSendKeeps, OnSendWaits DEF Received, ProcessPacket
<1>5. CASE ~IsKnownMessage(s, p) /\ p \notin Broadcasts /\ ~IsLocalAddress(n, To[p])
  BY <1>2, <1>5, OnSendKeeps, OnSendWaits DEF Received
<1> QED
  BY <1>1, <1>3, <1>4, <1>5

-----------------------------------------------------------------------------
\* The invariant, action by action.

LEMMA WaitsOfOne ==
    ASSUME IInv, WaitsInv, NEW n \in Nodes, NEW t, node' = [node EXCEPT ![n] = t], WaitsOK(t)
    PROVE  WaitsInv'
<1> SUFFICES ASSUME NEW m \in Nodes PROVE WaitsOK(node'[m])
  BY DEF WaitsInv
<1>1. CASE m = n
  BY <1>1 DEF IInv
<1>2. CASE m # n
  BY <1>2 DEF IInv, WaitsInv
<1> QED
  BY <1>1, <1>2

LEMMA ReceiveWaits ==
    ASSUME IInv, WaitsInv, NEW n \in Nodes, Receive(n)
    PROVE  WaitsInv'
<1> DEFINE s == node[n]
<1>1. PICK d \in network :
        /\ node' = [node EXCEPT ![n] = FinishIteration(n, Received(n, s, d.packet))]
        /\ IF ~IsKnownMessage(s, d.packet)
               /\ (d.packet \in Broadcasts \/ IsLocalAddress(n, To[d.packet]))
           THEN Handling(n, d.packet)
           ELSE UNCHANGED <<sent, handled>>
  BY DEF Receive, IInv
<1> DEFINE p == d.packet
           r == Received(n, s, p)
<1>2. MemoryOK(s, sent) /\ s.pc = "select" /\ SignalOrReason(s)
  BY DEF IInv, Receive, WaitsInv, WaitsOK
<1>3. p \in sent /\ p \in Packets
  BY DEF IInv, DatagramOf
<1>4. /\ sent \subseteq sent' /\ sent' \subseteq Packets
      /\ ~IsKnownMessage(s, p) /\ (p \in Broadcasts \/ IsLocalAddress(n, To[p]))
            => Replies[n][p] \subseteq sent'
  BY <1>1, <1>3, HandlingOK DEF IInv
<1>5. BaseOK(s, sent') /\ HeardKnown(s)
  BY <1>2, <1>4, MemoryGrows DEF MemoryOK
<1>6. BaseOK(r, sent')
  BY <1>2, <1>3, <1>4, <1>5, ReceivedOK
<1>7. r.pc = "select" /\ SignalOrReason(r)
  BY <1>2, <1>3, <1>4, <1>5, ReceivedWaits
<1> HIDE DEF r, s
<1>8. WaitsOK(FinishIteration(n, r))
  BY <1>4, <1>6, <1>7, FinishIterationWaits
<1> QED
  BY <1>1, <1>8, WaitsOfOne DEF r, s

LEMMA TimeoutWaits ==
    ASSUME IInv, WaitsInv, NEW n \in Nodes, Timeout(n)
    PROVE  WaitsInv'
<1>1. node' = [node EXCEPT ![n] = FinishIteration(n, node[n])]
  BY DEF Timeout, IInv
<1>2. BaseOK(node[n], sent) /\ node[n].pc = "select" /\ SignalOrReason(node[n])
  BY DEF IInv, MemoryOK, Timeout, WaitsInv, WaitsOK
<1>3. WaitsOK(FinishIteration(n, node[n]))
  BY <1>2, FinishIterationWaits DEF IInv
<1> QED
  BY <1>1, <1>3, WaitsOfOne

LEMMA ClearQueueWaits ==
    ASSUME IInv, WaitsInv, NEW n \in Nodes, ClearQueue(n)
    PROVE  WaitsInv'
<1> DEFINE t == [node[n] EXCEPT !.pc = "drain", !.messages = <<>>, !.late = {}]
<1>1. node' = [node EXCEPT ![n] = t]
  BY DEF ClearQueue, IInv
<1>2. t.messages = <<>>
  BY DEF IInv, Memory
<1> HIDE DEF t
<1> QED
  BY <1>1, <1>2, NoQueueNoReason, WaitsOfOne DEF WaitsOK, SignalOrReason

LEMMA DrainOneWaits ==
    ASSUME IInv, WaitsInv, NEW n \in Nodes, DrainOne(n)
    PROVE  WaitsInv'
<1> DEFINE m == node[n]
           item == Head(m.batch)
           p == item.packet
           s == [m EXCEPT !.batch = Tail(@)]
<1>1. /\ MemoryOK(m, sent) /\ m.pc = "drain" /\ m.batch # <<>> /\ QueueReason(m)
      /\ sent \subseteq Packets /\ m \in Memory
  BY DEF IInv, DrainOne, WaitsInv, WaitsOK
<1>2. BaseOK(s, sent) /\ s.pc = "drain" /\ item \in ItemOf(sent)
  BY <1>1, TakeHead
<1>3. p \in sent /\ p \in Packets /\ item.tried \in BOOLEAN
  BY <1>1, <1>2 DEF ItemOf
<1>4. s \in Memory
  BY <1>2 DEF BaseOK, StateOK
<1>5. QueueReason(s)
  <2>1. /\ s.messages = m.messages /\ s.late = m.late
        /\ s.searchStrings = m.searchStrings /\ s.searches = m.searches
    BY <1>1 DEF Memory
  <2> HIDE DEF s, m
  <2> QED
    BY <1>1, <2>1, SameReasons
<1>6. \/ SkipKnown(n, s, p) \/ SendBroadcast(n, s, p) \/ HandleLocal(n, s, p)
      \/ SendMessage(n, s, p) \/ ReturnMessage(n, s, item)
  BY DEF DrainOne
<1> HIDE DEF m, item, p, s
\* What is posted is none of the reasons.
<1>7. ASSUME NEW v \in Memory, v.pc = "drain", QueueReason(v)
      PROVE  WaitsOK(v) /\ WaitsOK(Posted(v, p))
  <2> DEFINE t == Posted(v, p)
  <2>1. /\ t.messages = v.messages /\ t.late = v.late /\ t.pc = "drain"
        /\ t.searchStrings = v.searchStrings /\ t.searches = v.searches
    BY <1>7 DEF Posted, Memory
  <2> HIDE DEF t
  <2>2. QueueReason(t)
    BY <1>7, <2>1, SameReasons
  <2> QED
    BY <1>7, <2>1, <2>2 DEF WaitsOK, t
<1>8. CASE SkipKnown(n, s, p)
  BY <1>2, <1>4, <1>5, <1>7, <1>8, WaitsOfOne DEF SkipKnown
<1>9. CASE SendBroadcast(n, s, p)
  <2> DEFINE ps == Repeated(Reply[n][p], Sessions[n])
             v == OnSend(s, ps)
  <2>1. node' = [node EXCEPT ![n] = Posted(v, p)]
    BY <1>9 DEF SendBroadcast
  <2>2. ps \in Seq(Packets)
    BY <1>3, OverlayAssumption, RepeatedType
  <2>3. BaseOK(s, Packets)
    BY <1>1, <1>2, MemoryGrows
  <2> HIDE DEF ps
  <2>4. v \in Memory /\ v.pc = "drain" /\ QueueReason(v)
    BY <1>2, <1>4, <1>5, <2>2, <2>3, OnSendKeeps, OnSendWaits DEF BaseOK
  <2> HIDE DEF v
  <2> QED
    BY <1>7, <2>1, <2>4, WaitsOfOne
<1>10. CASE HandleLocal(n, s, p)
  <2> DEFINE v == OnSend(s, Reply[n][p])
  <2>1. node' = [node EXCEPT ![n] = v]
    BY <1>10 DEF HandleLocal, ProcessPacket
  <2>2. Reply[n][p] \in Seq(Packets)
    BY <1>3, OverlayAssumption
  <2>3. BaseOK(s, Packets)
    BY <1>1, <1>2, MemoryGrows
  <2>4. v \in Memory /\ v.pc = "drain" /\ QueueReason(v)
    BY <1>2, <1>4, <1>5, <2>2, <2>3, OnSendKeeps, OnSendWaits DEF BaseOK
  <2> HIDE DEF v
  <2> QED
    BY <1>7, <2>1, <2>4, WaitsOfOne
<1>11. CASE SendMessage(n, s, p)
  BY <1>2, <1>4, <1>5, <1>7, <1>11, WaitsOfOne DEF SendMessage
<1>12. CASE ReturnMessage(n, s, item)
  <2> DEFINE a == To[p]
             returned == [item EXCEPT !.tried = TRUE]
             again == [s EXCEPT !.messages = Append(s.messages, returned),
                                !.searchStrings = s.searchStrings \cup {a},
                                !.signalSearch = TRUE]
             t == IF item.tried THEN s ELSE again
  <2>1. p \in Directs /\ a \in Addrs
    BY <1>12, OverlayAssumption DEF ReturnMessage, Remote, p
  <2>2. node' = [node EXCEPT ![n] = t]
    BY <1>4, <1>12 DEF ReturnMessage, Memory, p
  <2>3. returned.packet = p /\ returned.tried = TRUE
    BY <1>2 DEF ItemOf, p
  <2>4. /\ again.messages = Append(s.messages, returned) /\ again.late = s.late
        /\ again.searchStrings = s.searchStrings \cup {a} /\ again.searches = s.searches
        /\ again.pc = "drain"
    BY <1>2, <1>4 DEF Memory
  <2>5. s.messages \in Seq(Item)
    BY <1>4 DEF Memory
  <2> HIDE DEF again, returned
  <2>6. QueueReason(again)
    <3> SUFFICES ASSUME NEW i \in DOMAIN again.messages PROVE Reason(again, again.messages[i])
      BY DEF QueueReason
    <3>1. CASE i \in DOMAIN s.messages
      <4>1. again.messages[i] = s.messages[i]
        BY <2>4, <2>5, <3>1
      <4> QED
        BY <1>5, <2>4, <3>1, <4>1 DEF QueueReason, Reason
    <3>2. CASE i \notin DOMAIN s.messages
      <4>1. again.messages[i] = returned
        BY <2>4, <2>5, <3>2
      <4> QED
        BY <2>1, <2>3, <2>4, <4>1 DEF Reason
    <3> QED
      BY <3>1, <3>2
  <2>7. WaitsOK(t)
    BY <1>2, <1>5, <2>4, <2>6 DEF WaitsOK
  <2> HIDE DEF t
  <2> QED
    BY <2>2, <2>7, WaitsOfOne
<1> QED
  BY <1>6, <1>8, <1>9, <1>10, <1>11, <1>12

LEMMA EndDrainWaits ==
    ASSUME IInv, WaitsInv, NEW n \in Nodes, EndDrain(n)
    PROVE  WaitsInv'
<1> DEFINE m == node[n]
           t == [m EXCEPT !.pc = "select", !.signalSend = FALSE]
<1>1. m \in Memory /\ QueueReason(m)
  BY DEF IInv, EndDrain, WaitsInv, WaitsOK
<1>2. node' = [node EXCEPT ![n] = t]
  BY DEF EndDrain, IInv
<1>3. /\ t.messages = m.messages /\ t.late = m.late
      /\ t.searchStrings = m.searchStrings /\ t.searches = m.searches
  BY <1>1 DEF Memory
<1> HIDE DEF t, m
<1>4. QueueReason(t)
  BY <1>1, <1>3, SameReasons
<1> QED
  BY <1>2, <1>4, WaitsOfOne DEF WaitsOK, SignalOrReason

LEMMA CommandWaits ==
    ASSUME IInv, WaitsInv, NEW n \in Nodes, NEW p \in Packets, Command(n, p)
    PROVE  WaitsInv'
<1> DEFINE m == node[n]
           t == OnSend(m, <<p>>)
<1>1. node' = [node EXCEPT ![n] = t]
  BY DEF Command, IInv
<1>2. /\ BaseOK(m, Packets) /\ m \in Memory /\ QueuesOK(m, Packets) /\ WaitsOK(m)
      /\ <<p>> \in Seq(Packets)
  BY MemoryGrows DEF IInv, MemoryOK, BaseOK, WaitsInv
<1> HIDE DEF m
<1>3. t.pc = m.pc
  BY <1>2, OnSendKeeps
<1>4. WaitsOK(t)
  BY <1>2, <1>3, OnSendWaits DEF WaitsOK
<1> HIDE DEF t
<1> QED
  BY <1>1, <1>4, WaitsOfOne

LEMMA SearchReplyWaits ==
    ASSUME IInv, WaitsInv, NEW n \in Nodes, NEW a \in Addrs, SearchReply(n, a)
    PROVE  WaitsInv'
<1> DEFINE m == node[n]
<1>1. PICK k \in m.searches[a].list :
        node' = [node EXCEPT ![n].searches[a].list = @ \cup (Peers[k] \ {n})]
  BY DEF SearchReply
<1> DEFINE list == m.searches[a].list \cup (Peers[k] \ {n})
           searches == [m.searches EXCEPT ![a] = [m.searches[a] EXCEPT !.list = list]]
           t == [m EXCEPT !.searches = searches]
<1>2. m \in Memory /\ WaitsOK(m)
  BY DEF IInv, WaitsInv
<1>3. node' = [node EXCEPT ![n] = t]
  BY <1>1 DEF IInv
<1>4. \A b \in Addrs : searches[b].status = m.searches[b].status
  <2>1. m.searches \in [Addrs -> Search] /\ m.searches[a] \in Search
    BY <1>2 DEF Memory
  <2> QED
    BY <2>1 DEF Search
<1> HIDE DEF searches
<1>5. /\ t.messages = m.messages /\ t.late = m.late /\ t.pc = m.pc
      /\ t.signalSend = m.signalSend
      /\ t.searchStrings = m.searchStrings /\ t.searches = searches
  BY <1>2 DEF Memory
<1> HIDE DEF t, m
<1>6. WaitsOK(t)
  BY <1>2, <1>4, <1>5, SameReasons DEF WaitsOK, SignalOrReason
<1> QED
  BY <1>3, <1>6, WaitsOfOne

LEMMA StartedWaits == WaitsOK(Started) /\ WaitsOK([Started EXCEPT !.up = FALSE])
BY DEF Started, WaitsOK, SignalOrReason, QueueReason

LEMMA EndWaits ==
    ASSUME IInv, WaitsInv, NEW n \in Nodes, Restart(n) \/ \E a \in Addrs : SearchEnds(n, a)
    PROVE  WaitsInv'
<1> DEFINE t == IF Restart(n) THEN Started ELSE [Started EXCEPT !.up = FALSE]
<1>1. node' = [node EXCEPT ![n] = t]
  BY DEF Restart, SearchEnds
<1>2. WaitsOK(t)
  BY StartedWaits
<1> HIDE DEF t
<1> QED
  BY <1>1, <1>2, WaitsOfOne

-----------------------------------------------------------------------------
\* No packet waits for nothing: while the send signal is down, whatever is in a queue was
\* pushed while the queue was worked off, or came back from a failed send and its address
\* is searched (onSend(), callback(), dhtThreadProc()).
THEOREM NothingIsForgotten == Spec => []WaitsForAReason
<1>1. Init => WaitsInv
  BY StartedWaits DEF Init, WaitsInv
<1>2. IInv /\ WaitsInv /\ [Next]_vars => WaitsInv'
  <2> SUFFICES ASSUME IInv, WaitsInv, [Next]_vars PROVE WaitsInv'
    OBVIOUS
  <2>1. ASSUME NEW n \in Nodes, DhtThread(n) PROVE WaitsInv'
    BY <2>1, ReceiveWaits, TimeoutWaits, ClearQueueWaits, DrainOneWaits, EndDrainWaits
       DEF DhtThread
  <2>2. ASSUME NEW n \in Nodes, NEW p \in Packets, Command(n, p) PROVE WaitsInv'
    BY <2>2, CommandWaits
  <2>3. ASSUME NEW n \in Nodes, NEW a \in Addrs, SearchReply(n, a) PROVE WaitsInv'
    BY <2>3, SearchReplyWaits
  <2>4. ASSUME NEW n \in Nodes, Restart(n) \/ \E a \in Addrs : SearchEnds(n, a)
        PROVE  WaitsInv'
    BY <2>4, EndWaits
  <2>5. CASE UNCHANGED vars
    BY <2>5 DEF vars, WaitsInv
  <2> QED
    BY <2>1, <2>2, <2>3, <2>4, <2>5 DEF Next
<1>3. IInv /\ WaitsInv => WaitsForAReason
  <2> SUFFICES ASSUME IInv, WaitsInv, NEW n \in Nodes,
                      node[n].pc = "select", ~node[n].signalSend,
                      NEW i \in DOMAIN node[n].messages
               PROVE  LET m == node[n].messages[i] IN
                      \/ m.packet \in node[n].late
                      \/ m.tried /\ \/ node[n].signalSearch
                                    \/ node[n].searches[To[m.packet]].status = "running"
    BY DEF WaitsForAReason
  <2>1. Reason(node[n], node[n].messages[i])
    BY DEF WaitsInv, WaitsOK, SignalOrReason, QueueReason
  <2>2. node[n].searchStrings # {} => node[n].signalSearch
    BY DEF IInv, MemoryOK, BaseOK, StateOK
  <2> QED
    BY <2>1, <2>2 DEF Reason
<1> QED
  BY <1>1, <1>2, <1>3, Invariance, PTL DEF Spec
=============================================================================
