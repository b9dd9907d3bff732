----------------------------- MODULE HubThreads -----------------------------
(***************************************************************************)
(* The order book of a hub as its threads see it, lock by lock: the DHT    *)
(* thread handles one offer after the other (processTransaction() and      *)
(* createTransaction()), while each run of the timer job                   *)
(* eraseExpiredPendingTransactions() is on a service thread of its own     *)
(* (the timer rotates them and does not wait for the last one).            *)
(*                                                                         *)
(* A step ends where the thread takes or gives back a mutex: what it does  *)
(* while it holds one that guards the data is atomic for the others.       *)
(* XBridgeHub has the same code with every call in one step.               *)
(***************************************************************************)
EXTENDS Naturals, Sequences, FiniteSets, SequencesExt

CONSTANTS
    Records,     \* the records made of the offers that arrive, one for each
    Jobs,        \* runs of the timer job
    Hash1,       \* record -> its key in the book
    Hash2,       \* record -> the key of the offer that would match it
    None         \* no record, or no thread

DhtThread == "dht"
Threads == Jobs \cup {DhtThread}
Keys == {Hash1[r] : r \in Records}

VARIABLES
    pendingTransactions,       \* the book: key -> record or None
    pendingTransactionsLock,   \* m_pendingTransactionsLock: thread or None
    lock,                      \* m_lock of each record: thread or None
    joined, expired,           \* sets of records
    offer,                     \* the offer the DHT thread works on, or None
    at,                        \* thread -> the mutex it is about to take, or what is next
    list,                      \* job -> the records it copied and has still to look at
    retranslated               \* offers handled to the end

vars == <<pendingTransactions, pendingTransactionsLock, lock, joined, expired, offer,
          at, list, retranslated>>

Init ==
    /\ pendingTransactions = [k \in Keys |-> None]
    /\ pendingTransactionsLock = None
    /\ lock = [r \in Records |-> None]
    /\ joined = {} /\ expired = {} /\ retranslated = {}
    /\ offer = None
    /\ at = [t \in Threads |-> "start"]
    /\ list = [j \in Jobs |-> <<>>]

Goes(t, place) == at' = [at EXCEPT ![t] = place]

\* The record in the book that the offer matches.
Match == pendingTransactions[Hash2[offer]]

\* createTransaction() lists the new offer, over whatever has its key.
Listed(book) == [book EXCEPT ![Hash1[offer]] = offer]

-----------------------------------------------------------------------------
\* A packet with an offer is taken up, one that was not seen yet.
Receive(r) ==
    /\ at[DhtThread] = "start"
    /\ r \notin retranslated
    /\ offer' = r /\ Goes(DhtThread, "book")
    /\ UNCHANGED <<pendingTransactions, pendingTransactionsLock, lock, joined, expired,
                   list, retranslated>>

\* Nothing matches: the offer enters the book under the book's lock.
EnterBook ==
    /\ at[DhtThread] = "book" /\ pendingTransactionsLock = None
    /\ Match = None
    /\ pendingTransactions' = Listed(pendingTransactions)
    /\ Goes(DhtThread, "retranslate")
    /\ UNCHANGED <<pendingTransactionsLock, lock, joined, expired, offer, list, retranslated>>

\* Something matches: keep the book's lock and ask for the record's.
FindMatch ==
    /\ at[DhtThread] = "book" /\ pendingTransactionsLock = None
    /\ Match # None
    /\ pendingTransactionsLock' = DhtThread
    /\ Goes(DhtThread, "record")
    /\ UNCHANGED <<pendingTransactions, lock, joined, expired, offer, list, retranslated>>

\* Both locks are held: an expired match is dropped for the offer, one that is
\* joined already stays beside it, a new one is joined with it.
TryJoin ==
    /\ at[DhtThread] = "record" /\ lock[Match] = None
    /\ pendingTransactionsLock' = None
    /\ \/ /\ Match \in expired
          /\ pendingTransactions' = Listed([pendingTransactions EXCEPT ![Hash2[offer]] = None])
          /\ Goes(DhtThread, "retranslate") /\ UNCHANGED joined
       \/ /\ Match \in joined \ expired
          /\ pendingTransactions' = Listed(pendingTransactions)
          /\ Goes(DhtThread, "retranslate") /\ UNCHANGED joined
       \/ /\ Match \notin joined \cup expired
          /\ joined' = joined \cup {Match}
          /\ Goes(DhtThread, "erase") /\ UNCHANGED pendingTransactions
    /\ UNCHANGED <<lock, expired, offer, list, retranslated>>

\* The joined record leaves the book under a lock taken anew.
Move ==
    /\ at[DhtThread] = "erase" /\ pendingTransactionsLock = None
    /\ pendingTransactions' = [pendingTransactions EXCEPT ![Hash2[offer]] = None]
    /\ Goes(DhtThread, "retranslate")
    /\ UNCHANGED <<pendingTransactionsLock, lock, joined, expired, offer, list, retranslated>>

\* processTransaction() goes on: Holds for a joined offer, then the packet.
Retranslate ==
    /\ at[DhtThread] = "retranslate"
    /\ retranslated' = retranslated \cup {offer}
    /\ offer' = None /\ Goes(DhtThread, "start")
    /\ UNCHANGED <<pendingTransactions, pendingTransactionsLock, lock, joined, expired, list>>

-----------------------------------------------------------------------------
\* pendingTransactions(): the job copies the book, in the order of its keys.
CopyBook(j) ==
    /\ at[j] = "start" /\ pendingTransactionsLock = None
    /\ \E s \in SetToAllKPermutations(Range(pendingTransactions) \ {None}) :
          /\ Len(s) = Cardinality(Range(pendingTransactions) \ {None})
          /\ list' = [list EXCEPT ![j] = s]
    /\ Goes(j, "next")
    /\ UNCHANGED <<pendingTransactions, pendingTransactionsLock, lock, joined, expired, offer,
                   retranslated>>

\* An offer that has not expired is locked, looked at and left alone.
SkipRecord(j) ==
    /\ at[j] = "next" /\ list[j] # <<>>
    /\ lock[Head(list[j])] = None
    /\ Head(list[j]) \notin expired
    /\ list' = [list EXCEPT ![j] = Tail(@)]
    /\ UNCHANGED <<pendingTransactions, pendingTransactionsLock, lock, joined, expired, offer, at,
                   retranslated>>

\* An expired one is kept locked while the book's lock is asked for.
LockExpired(j) ==
    /\ at[j] = "next" /\ list[j] # <<>>
    /\ lock[Head(list[j])] = None
    /\ Head(list[j]) \in expired
    /\ lock' = [lock EXCEPT ![Head(list[j])] = j]
    /\ Goes(j, "book")
    /\ UNCHANGED <<pendingTransactions, pendingTransactionsLock, joined, expired, offer, list,
                   retranslated>>

\* deletePendingTransactions(): whatever has the key now leaves the book.
DeletePending(j) ==
    /\ at[j] = "book" /\ pendingTransactionsLock = None
    /\ pendingTransactions' = [pendingTransactions EXCEPT ![Hash1[Head(list[j])]] = None]
    /\ lock' = [lock EXCEPT ![Head(list[j])] = None]
    /\ list' = [list EXCEPT ![j] = Tail(@)]
    /\ Goes(j, "next")
    /\ UNCHANGED <<pendingTransactionsLock, joined, expired, offer, retranslated>>

\* A listed offer reaches its TTL.
Expire(r) ==
    /\ r \in Range(pendingTransactions) \ expired
    /\ expired' = expired \cup {r}
    /\ UNCHANGED <<pendingTransactions, pendingTransactionsLock, lock, joined, offer, at, list,
                   retranslated>>

Handler == EnterBook \/ FindMatch \/ TryJoin \/ Move \/ Retranslate
Job(j) == CopyBook(j) \/ SkipRecord(j) \/ LockExpired(j) \/ DeletePending(j)

Next ==
    \/ \E r \in Records : Receive(r) \/ Expire(r)
    \/ Handler
    \/ \E j \in Jobs : Job(j)

\* A thread whose mutex is free takes it in the end: nobody holds one for ever
\* unless it waits for another, so strong fairness asks no more of the mutexes.
FairSpec ==
    /\ Init /\ [][Next]_vars
    /\ SF_vars(Handler)
    /\ \A j \in Jobs : SF_vars(Job(j))

-----------------------------------------------------------------------------
\* processTransaction() lists or joins an offer "..and retranslate[s]" it
\* (xbridgesession.cpp:561): whatever the timer does meanwhile, the handler of
\* an offer comes to its end and the packet goes on.
OfferIsRetranslated == \A r \in Records : offer = r ~> r \in retranslated
=============================================================================
