----------------------------- MODULE OrderList ------------------------------
(***************************************************************************)
(* The orders a user sees (XBridgeTransactionsModel) next to the orders    *)
(* the application has (m_pendingTransactions, m_transactions).            *)
(*                                                                         *)
(* Three threads: the user interface, the DHT thread with the packet       *)
(* handlers, and the service thread with the 20 s job.  Notifications are  *)
(* run by the thread that sends them, so they change the list between any  *)
(* two steps of the user interface; the list has no lock.  Two threads     *)
(* inside one call on the list are undefined behaviour and are left out.   *)
(*                                                                         *)
(* Packets may come late, twice or in another order than they were sent,   *)
(* and the program may be restarted at any step: it stores none of this.   *)
(***************************************************************************)
EXTENDS Integers, Sequences, SequencesExt, FiniteSets, Functions

CONSTANTS
    Own,               \* ids of the orders placed here
    Offers,            \* ids of other users' orders
    SwapIds,           \* ids hubs give to the swaps of own orders
    HeldAs,            \* own order -> the id of the swap a hub makes of it
    Nothing,           \* no order: the null id
    ExpireAfter,       \* ticks of time in 60 s ...
    EraseAfter,        \* ... and in 300 s
    Steps,             \* bound: the later swap states enumerated; the list treats all alike
    MaxAnnouncements   \* bound: how often hubs announce orders

ASSUME OrderListAssumption ==
    /\ Own \cap Offers = {} /\ (Own \cup Offers) \cap SwapIds = {}
    /\ Nothing \notin Own \cup Offers \cup SwapIds
    /\ HeldAs \in [Own -> SwapIds] /\ IsInjective(HeldAs)
    /\ ExpireAfter \in Nat /\ EraseAfter \in Nat /\ ExpireAfter < EraseAfter
    /\ Steps \subseteq {"trCreated", "trSigned", "trCommited", "trFinished", "trRollback",
                        "trDropped", "trCancelled"}
    /\ MaxAnnouncements \in Nat

VARIABLES
    rows,        \* XBridgeTransactionsModel::m_transactions, newest first
    pending,     \* XBridgeApp::m_pendingTransactions
    swaps,       \* XBridgeApp::m_transactions: id -> state
    applied,     \* swaps some hub has our HoldApply for, whatever became of us since
    placed,      \* own orders that were given an id
    notices,     \* what a packet handler still has to notify
    ui,          \* where the user-interface thread is
    dialog,      \* m_pendingId of the open order dialog
    announced,   \* announcements heard (bounded)
    raced,       \* ids whose row the user interface and a handler changed at once
    lost         \* ids whose own row was erased, for its silence or by a restart

orderVars == <<rows, pending, swaps, applied, placed, notices, ui, dialog, announced, raced, lost>>

Ids == Own \cup Offers \cup SwapIds

\* XBridgeTransactionDescr::State, in its order.
State == <<"trNew", "trPending", "trAccepting", "trHold", "trCreated", "trSigned",
           "trCommited", "trFinished", "trRollback", "trDropped", "trCancelled", "trExpired">>
States == Range(State)
Before(s, t) == \E i, j \in DOMAIN State : i < j /\ State[i] = s /\ State[j] = t

\* A row: mine says that its "from" address is set; silent is the time since txtime.
Row(id, mine, state) == [id |-> id, mine |-> mine, state |-> state, silent |-> 0]

OrderListTypeOK ==
    /\ rows \in Seq([id : Ids, mine : BOOLEAN, state : States, silent : 0..EraseAfter])
    /\ pending \subseteq placed /\ placed \subseteq Own
    /\ \A o \in pending : swaps[HeldAs[o]] = "absent"    \* never in both maps
    /\ swaps \in [SwapIds -> States \cup {"absent"}] /\ applied \subseteq SwapIds
    /\ notices \in Seq([kind : {"id", "state"}, id : Ids, new : Ids \cup {Nothing},
                        state : States])
    /\ ui \in [at : {"idle", "show", "accept", "menu", "cancelled"},
               order : Own \cup {Nothing}, slot : Nat, id : Ids \cup {Nothing}, size : Nat]
    /\ dialog \in Ids \cup {Nothing}
    /\ announced \in 0..MaxAnnouncements
    /\ raced \subseteq Ids /\ lost \subseteq Ids

\* A row number is kept as slot, and the list's length with it as size.
Idle == [at |-> "idle", order |-> Nothing, slot |-> 0, id |-> Nothing, size |-> 0]

OrderListInit ==
    /\ rows = <<>> /\ pending = {} /\ applied = {} /\ placed = {} /\ notices = <<>>
    /\ swaps = [n \in SwapIds |-> "absent"]
    /\ ui = Idle /\ dialog = Nothing /\ announced = 0 /\ raced = {} /\ lost = {}

\* The names an order goes by: its own id and its swap's.
Names(id) == {id} \cup IF id \in Own THEN {HeldAs[id]} ELSE {}

-----------------------------------------------------------------------------
\* What each notification does to the list.  Every loop stops at its first match.

HasRow(r, id) == \E i \in DOMAIN r : r[i].id = id
First(r, id) == CHOOSE i \in DOMAIN r : r[i].id = id /\ \A j \in 1..i - 1 : r[j].id # id

\* A mutant: the announcement of an own order replaces its row.
MutReceived(r, tx) ==
    IF HasRow(r, tx.id) THEN [r EXCEPT ![First(r, tx.id)] = tx] ELSE <<tx>> \o r

Renewed(row, state) ==
    [row EXCEPT !.state = IF Before(row.state, state) THEN state ELSE row.state,
                !.silent = 0]

Received(r, tx) ==
    IF ~HasRow(r, tx.id) THEN <<tx>> \o r
    ELSE LET i == First(r, tx.id)
         IN  [r EXCEPT ![i] = IF ~r[i].mine THEN tx ELSE Renewed(r[i], tx.state)]

StateChanged(r, id, state) ==
    IF HasRow(r, id) THEN [r EXCEPT ![First(r, id)].state = state] ELSE r

\* A mutant: the two ids are swapped.
MutIdChanged(r, id, new) ==
    IF HasRow(r, new) THEN [r EXCEPT ![First(r, new)].id = id] ELSE r

IdChanged(r, id, new) ==
    IF HasRow(r, id) THEN [r EXCEPT ![First(r, id)].id = new] ELSE r

Apply(r, n) ==
    IF n.kind = "id" THEN IdChanged(r, n.id, n.new) ELSE StateChanged(r, n.id, n.state)

IdNotice(id, new) == [kind |-> "id", id |-> id, new |-> new, state |-> "trNew"]
StateNotice(id, s) == [kind |-> "state", id |-> id, new |-> Nothing, state |-> s]

-----------------------------------------------------------------------------
\* The packet handlers, on the DHT thread.  The next packet is taken when the
\* last one's notifications are out.

Deliver ==
    /\ notices # <<>>
    /\ rows' = Apply(rows, Head(notices))
    /\ notices' = Tail(notices)
    /\ UNCHANGED <<pending, swaps, applied, placed, ui, dialog, announced, raced, lost>>

\* processPendingTransaction(): a hub announces an order, maybe our own.
ProcessPendingTransaction(id) ==
    /\ notices = <<>>
    /\ announced < MaxAnnouncements
    /\ id \in Offers \cup placed
    /\ announced' = announced + 1
    /\ rows' = Received(rows, Row(id, FALSE, "trPending"))
    /\ UNCHANGED <<pending, swaps, applied, placed, notices, ui, dialog, raced, lost>>

\* The user interface is between telling the application and changing its list.
Touching(id) ==
    \/ ui.at \in {"show", "accept"} /\ id \in Names(ui.order)
    \/ ui.at = "cancelled" /\ id \in Names(ui.id)

\* A mutant: the order stays in m_pendingTransactions.
MutProcessTransactionHold(o) ==
    /\ notices = <<>>
    /\ o \in pending
    /\ swaps' = [swaps EXCEPT ![HeldAs[o]] = "trHold"]
    /\ applied' = applied \cup {HeldAs[o]}
    /\ notices' = <<IdNotice(o, HeldAs[o]), StateNotice(o, "trHold")>>
    /\ UNCHANGED <<rows, pending, placed, ui, dialog, announced, raced, lost>>

\* processTransactionHold().  Its second notification still has the old id.
ProcessTransactionHold(o) ==
    /\ notices = <<>>
    /\ o \in pending
    /\ pending' = pending \ {o}
    /\ swaps' = [swaps EXCEPT ![HeldAs[o]] = "trHold"]
    /\ applied' = applied \cup {HeldAs[o]}
    /\ notices' = <<IdNotice(o, HeldAs[o]), StateNotice(o, "trHold")>>
    /\ raced' = IF Touching(o) THEN raced \cup Names(o) ELSE raced
    /\ UNCHANGED <<rows, placed, ui, dialog, announced, lost>>

\* processTransactionInit() puts a new descriptor in the map, whatever is there: a hub
\* sends it for a swap we applied to, but it may come late, again, or to a program
\* that has been restarted since.  It tells nobody.
ProcessTransactionInit(n) ==
    /\ notices = <<>>
    /\ n \in applied
    /\ swaps' = [swaps EXCEPT ![n] = "trNew"]
    /\ UNCHANGED <<rows, pending, applied, placed, notices, ui, dialog, announced, raced, lost>>

\* The other handlers, of a swap in the map: each sets the state it stands for, whatever
\* the swap's state was, and notifies it.
ProcessSwapPacket(n, state) ==
    /\ notices = <<>>
    /\ swaps[n] # "absent"
    /\ swaps' = [swaps EXCEPT ![n] = state]
    /\ notices' = <<StateNotice(n, state)>>
    /\ raced' = IF Touching(n) THEN raced \cup {n} ELSE raced
    /\ UNCHANGED <<rows, pending, applied, placed, ui, dialog, announced, lost>>

\* A cancel, a finish and a drop of what is no swap here are only shown.  An order
\* still offered can only be cancelled; the other two name swaps.
ProcessUnknownEnd(id, state) ==
    /\ notices = <<>>
    /\ IF id \in SwapIds THEN swaps[id] = "absent"
                         ELSE id \in Offers \cup placed /\ state = "trCancelled"
    /\ notices' = <<StateNotice(id, state)>>
    /\ UNCHANGED <<rows, pending, swaps, applied, placed, ui, dialog, announced, raced, lost>>

-----------------------------------------------------------------------------
\* The service thread: sendListOfTransactions() offers again what is pending.

SendListOfTransactions ==
    /\ pending # {}
    /\ rows' = [i \in DOMAIN rows |->
                   IF rows[i].id \in pending /\ First(rows, rows[i].id) = i
                   THEN [rows[i] EXCEPT !.state = "trPending"] ELSE rows[i]]
    /\ UNCHANGED <<pending, swaps, applied, placed, notices, ui, dialog, announced, raced, lost>>

-----------------------------------------------------------------------------
\* The user interface.

\* sendXBridgeTransaction(): the order has no row yet when its state is notified.
Place(o) ==
    /\ o \notin placed
    /\ placed' = placed \cup {o}
    /\ pending' = pending \cup {o}

\* newTransaction(): the order goes out, then its row goes in.
NewTransaction(o) ==
    /\ ui = Idle /\ dialog = Nothing
    /\ Place(o)
    /\ ui' = [Idle EXCEPT !.at = "show", !.order = o]
    /\ UNCHANGED <<rows, swaps, applied, notices, dialog, announced, raced, lost>>

ShowTransaction ==
    /\ ui.at = "show"
    /\ rows' = Received(rows, Row(ui.order, TRUE, "trNew"))
    /\ ui' = Idle
    /\ UNCHANGED <<pending, swaps, applied, placed, notices, dialog, announced, raced, lost>>

\* onAcceptTransaction(): the dialog keeps the offer's id while offers come and go.
OnAcceptTransaction(i) ==
    /\ ui = Idle /\ dialog = Nothing
    /\ ~rows[i].mine /\ rows[i].state = "trPending"
    /\ dialog' = rows[i].id
    /\ UNCHANGED <<rows, pending, swaps, applied, placed, notices, ui, announced, raced, lost>>

\* newTransactionFromPending(): the offer's row becomes an own order's, which
\* gets its id when the order is out, through a reference into the vector.
NewTransactionFromPending(o) ==
    /\ ui = Idle /\ dialog # Nothing
    /\ dialog' = Nothing
    /\ \/ /\ HasRow(rows, dialog)
          /\ Place(o)
          /\ LET i == First(rows, dialog)
             IN  /\ rows' = [rows EXCEPT ![i].mine = TRUE, ![i].state = "trAccepting"]
                 /\ ui' = [at |-> "accept", order |-> o, slot |-> i, id |-> dialog,
                           size |-> Len(rows)]
       \/ /\ ~HasRow(rows, dialog)
          /\ UNCHANGED <<rows, pending, placed, ui>>
    /\ UNCHANGED <<swaps, applied, notices, announced, raced, lost>>

\* A row inserted meanwhile has moved or reallocated the vector: the id goes to
\* the row now in that slot, or to freed memory.
GiveAcceptedId ==
    /\ ui.at = "accept"
    /\ LET moved == Len(rows) # ui.size
       IN  /\ \/ rows' = [rows EXCEPT ![ui.slot].id = ui.order, ![ui.slot].silent = 0]
              \/ moved /\ UNCHANGED rows
           /\ raced' = IF moved THEN raced \cup Names(ui.order) \cup Names(rows[ui.slot].id)
                                ELSE raced
    /\ ui' = Idle
    /\ UNCHANGED <<pending, swaps, applied, placed, notices, dialog, announced, lost>>

\* onContextMenu(): the menu keeps a row number.
OnContextMenu(i) ==
    /\ ui = Idle
    /\ rows[i].mine
    /\ ui' = [Idle EXCEPT !.at = "menu", !.slot = i]
    /\ UNCHANGED <<rows, pending, swaps, applied, placed, notices, dialog, announced, raced, lost>>

\* onCancelTransaction(), answered yes: whatever order is in that row by then.
CancelXBridgeTransaction ==
    /\ ui.at = "menu"
    /\ LET id == IF ui.slot \in DOMAIN rows THEN rows[ui.slot].id ELSE Nothing
       IN  /\ pending' = pending \ {id}
           /\ swaps' = IF id \in SwapIds /\ swaps[id] # "absent"
                       THEN [swaps EXCEPT ![id] = "trCancelled"] ELSE swaps
           /\ ui' = [Idle EXCEPT !.at = "cancelled", !.id = id]
           /\ raced' = IF notices # <<>> /\ Head(notices).id \in Names(id)
                       THEN raced \cup Names(id) ELSE raced
    /\ UNCHANGED <<rows, applied, placed, notices, dialog, announced, lost>>

CancelAnsweredNo ==
    /\ ui.at = "menu"
    /\ ui' = Idle
    /\ UNCHANGED <<rows, pending, swaps, applied, placed, notices, dialog, announced, raced, lost>>

ShowCancelled ==
    /\ ui.at = "cancelled"
    /\ rows' = [i \in DOMAIN rows |->
                   IF rows[i].id = ui.id THEN [rows[i] EXCEPT !.state = "trCancelled"]
                                         ELSE rows[i]]
    /\ ui' = Idle
    /\ UNCHANGED <<pending, swaps, applied, placed, notices, dialog, announced, raced, lost>>

\* onTimer(), every 3 s, also while the question is on the screen.

\* A mutant: only a row that is still pending may go.
MutErased(row) == row.state = "trPending" /\ row.silent >= EraseAfter

Erased(row) == row.state = "trExpired" /\ row.silent >= EraseAfter

Expired(row) ==
    IF row.state = "trPending" /\ row.silent >= ExpireAfter
    THEN [row EXCEPT !.state = "trExpired"] ELSE row

Checked(r) ==
    LET upTo[i \in 0..Len(r)] ==
            IF i = 0 THEN <<>>
            ELSE IF Erased(r[i]) THEN upTo[i - 1]
            ELSE Append(upTo[i - 1], Expired(r[i]))
    IN  upTo[Len(r)]

OnTimer ==
    /\ ui.at \in {"idle", "menu"}
    /\ rows' = Checked(rows)
    /\ lost' = lost \cup UNION {Names(rows[i].id) :
                                  i \in {j \in DOMAIN rows : Erased(rows[j]) /\ rows[j].mine}}
    /\ UNCHANGED <<pending, swaps, applied, placed, notices, ui, dialog, announced, raced>>

\* Time: each tick every row has been silent a little longer.
Tick ==
    /\ \E i \in DOMAIN rows : rows[i].silent < EraseAfter
    /\ rows' = [i \in DOMAIN rows |->
                   [rows[i] EXCEPT !.silent = IF @ < EraseAfter THEN @ + 1 ELSE @]]
    /\ UNCHANGED <<pending, swaps, applied, placed, notices, ui, dialog, announced, raced, lost>>

\* The program ends, at whatever step, and is started again: its orders and their
\* rows are gone, while hubs go on with the swaps it applied to.
Restart ==
    /\ rows' = <<>> /\ pending' = {} /\ notices' = <<>>
    /\ swaps' = [n \in SwapIds |-> "absent"]
    /\ ui' = Idle /\ dialog' = Nothing
    /\ lost' = lost \cup UNION {Names(o) : o \in placed}
    /\ UNCHANGED <<applied, placed, announced, raced>>

-----------------------------------------------------------------------------
Ends == {"trFinished", "trDropped", "trCancelled"}

Handlers ==
    \/ Deliver
    \/ \E id \in Offers \cup Own : ProcessPendingTransaction(id)
    \/ \E id \in Ids, s \in Ends : ProcessUnknownEnd(id, s)
    \/ \E o \in Own : ProcessTransactionHold(o)
    \/ \E n \in SwapIds : ProcessTransactionInit(n) \/ \E s \in Steps : ProcessSwapPacket(n, s)

User ==
    \/ \E o \in Own : NewTransaction(o) \/ NewTransactionFromPending(o)
    \/ \E i \in DOMAIN rows : OnAcceptTransaction(i) \/ OnContextMenu(i)
    \/ CancelXBridgeTransaction \/ CancelAnsweredNo

Interface == ShowTransaction \/ GiveAcceptedId \/ ShowCancelled

OrderListNext ==
    Handlers \/ SendListOfTransactions \/ User \/ Interface \/ OnTimer \/ Tick \/ Restart

\* Threads keep running, time passes and the 3 s timer fires; users and other
\* nodes owe nothing, except that an open question is answered.
OrderListFairness ==
    /\ WF_orderVars(Deliver) /\ WF_orderVars(Interface) /\ WF_orderVars(CancelAnsweredNo)
    /\ WF_orderVars(Tick) /\ SF_orderVars(OnTimer)

-----------------------------------------------------------------------------
\* When no notification is on its way and the user interface is in no call, each
\* swap is shown: one row, marked as the user's own, carries its id and its state.
\* Excepted are: swaps in trHold and trNew, of which the list is never told; orders
\* whose row was erased for its silence; swaps of orders from before a restart, which
\* the next Init brings back without a row; and orders the user interface and a
\* handler changed at the same time.
SwapFollowed ==
    notices = <<>> /\ ui.at \in {"idle", "menu"} =>
        \A n \in SwapIds \ (raced \cup lost) :
            swaps[n] # "absent" =>
                \E i \in DOMAIN rows :
                    /\ rows[i].id = n /\ rows[i].mine
                    /\ swaps[n] \in {"trHold", "trNew"} \/ rows[i].state = swaps[n]
                    /\ \A j \in DOMAIN rows : rows[j].id = n => j = i

\* When hubs stop announcing an order of another user, the 3 s timer first marks its
\* row expired and then erases it, through accepted orders, cancels and notifications
\* that come in between.  Only a row somebody's cancel was shown in stays: no code
\* erases it while the program runs.
OffersLeave ==
    <>[](\A i \in DOMAIN rows :
            ~rows[i].mine /\ rows[i].id \in Offers => rows[i].state = "trCancelled")

-----------------------------------------------------------------------------
\* Why swaps are followed: OrderInv is inductive.  An order is taken when its row
\* was told the swap's id; busy while the user interface is sending it out.  Only a
\* restart loses a swap that was applied to.
Renaming(o) == notices # <<>> /\ Head(notices) = IdNotice(o, HeldAs[o])
Taken(o) == swaps[HeldAs[o]] # "absent" /\ ~Renaming(o)
Current(o) == IF Taken(o) THEN HeldAs[o] ELSE o
Busy(o) == ui.at \in {"show", "accept"} /\ ui.order = o

AtMostOne(r, id) == \A i, j \in DOMAIN r : r[i].id = id /\ r[j].id = id => i = j
OwnRow(r, id) ==
    HasRow(r, id) /\ AtMostOne(r, id) /\ \A i \in DOMAIN r : r[i].id = id => r[i].mine
InState(r, id, state) == \A i \in DOMAIN r : r[i].id = id => r[i].state = state

\* The row the user interface holds a reference to, while it is the same row.
Held == ui.at = "accept" /\ Len(rows) = ui.size

\* Handlers notify an own order's new id and then its state, or one state.
NoticesInOrder ==
    \/ notices = <<>>
    \/ \E o \in placed :
          /\ notices = <<IdNotice(o, HeldAs[o]), StateNotice(o, "trHold")>>
          /\ HeldAs[o] \in raced \cup lost \/ swaps[HeldAs[o]] = "trHold"
    \/ \E id \in Ids, s \in States :
          /\ notices = <<StateNotice(id, s)>>
          /\ id \in SwapIds \ raced => swaps[id] \in {s, "absent"}

Followed(o) ==
    LET n == HeldAs[o] IN
    /\ o \notin placed => ~HasRow(rows, o)
    /\ ~Taken(o) => ~HasRow(rows, n)
    /\ Busy(o) => swaps[n] = "absent" /\ (Held => ~HasRow(rows, o) /\ rows[ui.slot].mine)
    /\ IF Busy(o) THEN AtMostOne(rows, o)
       ELSE o \in placed => OwnRow(rows, Current(o))
    /\ \/ swaps[n] \in {"absent", "trHold", "trNew"}
       \/ InState(rows, n, swaps[n])
       \/ notices = <<StateNotice(n, swaps[n])>>
       \/ ui.at = "cancelled" /\ ui.id = n /\ swaps[n] = "trCancelled"
    /\ ui.at = "cancelled" /\ ui.id = n =>
          swaps[n] \in {"absent", "trHold", "trNew", "trCancelled"}
    \* what the user may accept is not this order's row
    /\ dialog # n /\ (dialog = o => Taken(o))
    /\ Held => rows[ui.slot].id # n /\ (rows[ui.slot].id = o => Taken(o))

\* At every step, also while notifications are on their way and the user interface
\* is in a call: an own order has one row, under the id the list was last told, and
\* what the list does not show yet is in the next notification or in that call.
OrderInv ==
    /\ OrderListTypeOK
    /\ \A n \in SwapIds : swaps[n] \in {"absent", "trHold", "trNew", "trCancelled"} \cup Steps
    /\ \A n \in SwapIds : swaps[n] # "absent" => n \in applied
    /\ \A o \in Own : HeldAs[o] \in applied =>
          o \in placed \ pending /\ (HeldAs[o] \in lost \/ swaps[HeldAs[o]] # "absent")
    /\ NoticesInOrder
    /\ ui.at \in {"show", "accept"} => ui.order \in placed
    /\ ui.at = "accept" => ui.slot \in DOMAIN rows /\ Len(rows) >= ui.size
    /\ \A o \in Own : HeldAs[o] \notin raced \cup lost => Followed(o)

=============================================================================
