# XBridge: a TLA+ model of the cross-chain exchange

XBridge lets two users trade coins of different chains without trusting each
other.  Programs form an overlay on top of a DHT; some of them, the *hubs*, have
an exchange enabled, keep an order book and lead two *clients* through a swap.
This directory models the exchange protocol, the overlay that carries its packets,
the DHT below it and the client's side towards user and wallets, checks them with
TLC and proves the properties that matter most with TLAPS.  Paths below are relative to `src/src/`.

## 1. The system

| Part | Where | State | Operations |
|---|---|---|---|
| Exchange transaction record | `xbridgetransaction.cpp` | state, two acknowledgement flags, raw pay/revert transactions and payment hashes of both members, confirmation counter, time of last touch | `increaseStateCounter`, `setRawPayTx`, `updateRawRevTx`, `setTxHash`, `confirm`, `tryJoin`, `isExpired` |
| Exchange (hub) | `xbridgeexchange.cpp` | `m_pendingTransactions` (order book), `m_transactions`, `m_unconfirmed`, `m_walletTransactions` | `createTransaction`, `deletePendingTransactions`, `deleteTransaction`, `updateTransactionWhen...Received`, `updateTransaction` |
| Session: packet handlers and timer jobs | `xbridgesession.cpp` | wallet credentials only | `processTransaction...` for hub and client, `checkFinishedTransactions`, `eraseExpiredPendingTransactions`, `sendListOfTransactions`, `requestUnconfirmedTx` |
| Application | `xbridgeapp.cpp` | a client's `m_pendingTransactions`, `m_transactions`, `m_unconfirmed`; send queue, known messages, session and address tables, address book | `sendXBridgeTransaction`, `cancelXBridgeTransaction`, `onSend`, `onMessageReceived`, `onBroadcastReceived`, the DHT thread loop |
| Timer and service threads | `xbridge.cpp` | a ring of io services | `onTimer` posts five jobs every 20 s |
| DHT | `dht/dht.cpp` | buckets, searches, stored values, tokens | adapted public DHT library, with message and broadcast commands |
| User interface | `ui/` | list of orders with their own states | follows notifications |
| Wallet RPC, coin transactions, scripts, keys | `bitcoinrpc.cpp`, `script.cpp`, `key.cpp`, ... | none of the protocol | HTTP/JSON, serialisation, cryptography |
| Settings, logging, crash reports, third-party code | `util/`, `ExceptionHandler.cpp`, `3rdparty/`, `json/` | none of the protocol | |

How the parts interact: a user's order is broadcast (`xbcTransaction`); hubs with
wallets for both currencies enter it in their book or join it with a mirrored one;
then, for one swap,

    hub  -> both clients    Hold   Init         Create   Sign    Commit    Confirm    Finished
    both clients -> hub     Apply  Initialized  Created  Signed  Commited  Confirmed

and each arrow to the right waits for *both* acknowledgements of the step before.
In Create a client's wallet signs a payment (not sent yet) and prepares a revert
transaction that spends it; in Sign the *other* client signs that revert
transaction; in Commit the payment is sent.  Packets travel as UDP between DHT
nodes and are relayed by everyone.  All packet handlers run on the program's one DHT
thread; the timer's jobs run on service threads that change every 20 s, so that two
runs of one job may overlap; the user's commands run on the thread of the user
interface.  The timer rolls back what was not touched for `TTL` seconds.

What is hard: packets lost, late, repeated or overtaken while the client handlers
never look at the state they are in; a user who cancels, a wallet call that fails
or a timeout in the middle of any step; hubs that know nothing of each other;
restarts that forget everything; threads that share the records, the send queue
and the list the user sees, some without a lock.  What makes the parts correct:

* record: an acknowledgement counts for its phase and its sender only;
* hub: nobody is told to pay early, a swap that may have been paid is closed openly
  (Finished or Rollback, never both), nothing is kept for ever;
* client: one swap per order, a payment never made without the means to take it
  back, and taken back only when its own swap was rolled back;
* both: a swap announced finished was paid on both sides; swaps settle when
  nothing fails;
* delivery: a packet is handled where it is meant to be and only if it was sent; no
  packet goes round in circles or waits for nothing;
* DHT: good nodes stay, answers and searches are nearest first, searches end, tokens
  last;
* the client towards the user: the list shows each swap as it is, money adds up, a
  payment can be taken back, an address that is shown is served.

`PROJECT.json` lists every hazard at its line with the properties about it.

## 2. Modules

| Module | Models | State and correspondence |
|---|---|---|
| `XBridgeTransaction` | the record as operators | `AckAddress` is the table hidden in `increaseStateCounter`; the setters keep the code's crossed indices (`SetTxHash` files the first member's payment as `txhash2`) |
| `XBridgePackets` | packets, network | `net` everything ever sent, `seen` what was processed since it was last sent; a handler takes any packet in `Deliverable` |
| `XBridgeHub` | `XBridgeExchange`, hub-side handlers, hub timer jobs | `book`, `transactions`, `hubUnconfirmed`, `walletTransactions`, each a function of the hub; `Acknowledge` is what six handlers share |
| `XBridgeClient` | client-side handlers, user commands, wallets | `pending`, `swaps`, `unconfirmed` of the program; `built`, `paid`, `reverted` of wallets and coin networks |
| `XBridgeSwap` | everything composed | `Next`, fairness, all properties, the inductive invariants, the refinement mapping |
| `SwapContract` | abstract specification | what two users may rely on: sign, pay, revert, finish |
| `MCSwap`, `MCTwoSwaps` | instances | two orders; two swaps of one client |
| `XBridgeSwap_proofs`, `_reverts`, `_refinement` | theorems | section 5 |
| `HubThreads`, `MCHubThreads` | the hub's book mutex by mutex | `at` says which mutex a thread is about to take; `createTransaction` on the DHT thread, runs of `eraseExpiredPendingTransactions` beside it |
| `PacketDelivery` | abstract specification | `sent` and `handled`: what a program may count on |
| `XBridgeOverlay`, `MCOverlay` | send queue, DHT thread loop, relays, known messages, searches and retries, restarts | `node[n]` is the memory of a program: `messages`, `batch` (the copied list), `processed`, `signalSend`, `signalSearch`, `searches`; `network` the datagrams under way |
| `XBridgeOverlay_proofs`, `_waits` | theorems | section 5 |
| `DhtIds` | ids, distances, middle and random id of a bucket | operators of `dht.cpp` |
| `DhtTable` | routing table | `firsts` (where buckets begin), `nodes`, `cached`, `blacklist`; `todo` the calls the current message still has to make |
| `DhtSearch` | a search | `search.list` sorted, each entry asked and replied |
| `DhtStorage` | stored peers and tokens | `storage`; `tokens` with their age, `rotated` the time since the secret changed |
| `XBridgeDht`, `MCDht` | `dht_periodic` and `dht_search` composed | one message handled to its end, then the jobs that are due |
| `XBridgeDht_proofs` | theorems | section 5 |
| `DhtWire` | the messages: send functions and `parse_message` | a message is a sequence of items; buffers cut it |
| `OrderList` | the user's list of orders against the application's | `rows`, `pending`, `swaps`, `notices` are the program's memory, `applied` what hubs know; `ui.at` where the user interface is in its call |
| `WalletRpc`, `WalletPayments` | wallet calls, coins, payments and reverts as amounts | `unspent`, and per swap `payment`, `revert`, `stage`, `payout` |
| `AddressBook` | addresses asked of wallets, session table, entries shown | `sessionAddrs`, `listed` |
| `XBridgeClientApp`, `MCClientApp` | these three together | `part` says which of them a behaviour is about: they share no state |
| `XBridgeClientApp_proofs` | theorems | section 5 |
| `Counting` | lemmas | induction over numbers and finite sets, sums, powers, division |
| `PacketLayout`, `CoinCodec`, `TextCodes`, `Uint256` | packets, coin transactions, texts and hashes as bytes and words | operators only |
| `MCEncodings` | those four and `DhtWire` at small widths | assumptions TLC evaluates |

An action is one whole handler.  The hub's handlers hold the record's lock from
the first read to the last write, so this is what other handlers see of them.  A
client handler reads its descriptor under `m_txLocker` and changes it afterwards
without it; since all handlers run on the DHT thread, no other handler gets in
between.  Where threads do meet, the modules cut their code where the others can see it:
`HubThreads` at the mutexes, `XBridgeOverlay` at the queue, `OrderList` between the calls of
the user interface and the notifications that other threads run on its list.

Abstractions, and why they are safe to reason with:

* An order stands for its id, an order with its partner for the joined id
  (a hash of both).  The book's key is what an order gives and takes (`hash1`), so
  two users' identical offers collide as in the code.  Because the key of the
  entry found *is* the mirrored key, the later checks of `tryJoin` cannot fail.
* A coin transaction is its hash; a revert transaction is the payment it spends
  and whether it is signed.  The raw pay transaction in Created and Sign is
  dropped: the code only looks at its lock time, which this program always sets.
* A second payment built by the same wallet may spend the same coins; the model
  lets the network accept both, which is more than it would.
* Time has no length: a record in use may be found expired at any moment, however
  recently it was touched, so `updateTimestamp` changes nothing in the model.  From
  then on it is `listed`: `checkFinishedTransactions` works through a copied list and
  does not ask again, so a swap that moved on meanwhile is rolled back all the
  same.  That `eraseExpiredPendingTransactions` may delete an offer that has just
  replaced the expired one it listed is in `HubThreads`; that the list of finished
  transactions may hold a record replaced by a later swap of the same id is not
  modelled.
* The client's descriptor in `m_unconfirmed` is a shared pointer; `Watch.shared`
  says whether a later change of the swap's `payTxId` is seen through it.
* `revertXBridgeTransaction` takes the first descriptor with the local id in the
  order of a map keyed by hashes: any of them.
* `cancel()` and `drop()` of the hub's record are never called; nobody in the
  repository sends `xbcReceivedTransaction` or `xbcTransactionDropped`.  The last two
  are the constants `HubWalletReports` and `ForeignHub`, FALSE unless a run is about
  them.  A rebroadcast Cancel is recognised as known, so the handler's last
  line sends nothing new.
* Setters that return false for an unknown sender skip `increaseStateCounter`; the
  model calls it anyway, which changes nothing, because such a sender matches
  neither acknowledgement address and both flags are never set at once.
* A packet may be processed again because every node that sees a direct packet
  relays it, a received packet is recorded as known only when it is sent on, and a
  broadcast runs through the handlers on reception and once more for each local
  wallet session.

* `XBridgePackets` assumes no more of the network than `PacketDelivery` gives, and
  `XBridgeOverlay` is shown to implement that.  UDP's losses are in the former; in the
  overlay a datagram is lost when a program dies with it, and the fairness of its
  liveness properties assumes the rest to arrive.
* In the overlay a search is who is in its list and whether it goes on: `dht_send_message`
  sends to the whole list of a search for the address, whatever its state, and
  returns the packet when there is none.  Its early return for a value stored under the
  address (`dht.cpp:2816`) is left out: packets for local wallets never get there, and no
  program of this kind announces an address, so nothing is stored.  How a search picks and orders nodes is in
  `DhtSearch`.
* The DHT keeps time as far as the code compares it (within 15 s, within 15 minutes,
  within two hours; a token's age in thirds of the rotation time); one address family;
  the nodes of a bucket in any order.  Peers send what they like.
* In `OrderList` a handler sets the state of any swap in the map, whatever it was:
  packets come late, twice and in any order.  Only what a hub would not send is left out:
  it sends Init for swaps it has a HoldApply of (`applied`, which a restart does not
  undo).  `raced` marks the orders that the user interface and a handler changed at the
  same time, and `lost` those whose row was erased, for its silence or by a restart:
  `SwapFollowed` claims nothing of them.  For swaps from before a restart it is false:
  an Init that comes after it puts a swap in the map (`xbridgesession.cpp:754`) that has
  no row, and Create and Commit go on with it.  Two threads inside one call on the list are
  undefined behaviour and are left out.
* Hashes, texts, packets and coin transactions are computed at small widths (a byte of
  16 values, a hash of two words); signatures and hash functions are not modelled.

Constants that switch a source of trouble on: `Timeouts`, `RpcFailures`,
`UserCancels`, `Resends` (the client's timer repeats offers), `HubRestarts`,
`ClientRestarts`, `HubWalletReports`, `ForeignHub`.  Bounds: `MaxDuplicates`
(packets processed more often than sent) and `MaxPayments` (payments one address
builds for one swap).  The proofs hold for all their values.

## 3. Runs

The runs stop where the system may really stop (all work done, a packet lost
and no timeouts), hence `CHECK_DEADLOCK FALSE` in all but `dht`.

| Run | Instance | What it shows |
|---|---|---|
| `swap_failures` | Ann and Bob with an order each, timeouts, failing wallets, cancelling users, a foreign hub's drops; `TimerSpec` | `TypeOK`, `PayerCanRevert`, `HubClosesPaidSwaps`, `NeverFinishedAndRolledBack`, `RevertedOnlyIfRolledBack`, `HubForgets`; the inductive `ClosedInv` and `ClosesInv` (161,921 states) |
| `swap_duplicates` | 2 repeated packets, 2 payments, client restarts | `NoPaymentBeforeBothSigned`; the inductive `PaymentInv`; `ImplementsContract` (refinement of `SwapContract`) |
| `swap_restarts` | hub restarts, repeated offers, hub wallets that report payments | `FinishedMeansBothPaid`, `CommitCarriesSignedRevert`, `NoPaymentBeforeBothSigned` (404,000 states) |
| `swap_settles` | `FairSpec`, two complete hubs | `OneSwapPerOrder`, `JoinedOrdersSettle` |
| `overlay` | a client and a hub that know each other through a relay; four packets, one restart | `TypeOK`, `PostedOnce`, `HeardOnce`, `WaitsForAReason`, `FloodEnds`, `OrderIsAnswered`, `ImplementsDelivery` (397,022 states) |
| `dht` | ids of two bits, three peers, buckets of one node, answers and searches of two | `DhtTypeOK`, `OwnPathSplit`, `RespondersStay`, `AnswersAreClosest`, `SearchSorted`, `SearchEnds`, `TokensLast` (511,498 states) |
| `client_app` | an own and a foreign order, restarts at any step; two swaps, one below the fee, paid from two coins; two wallets that share a key; all of `MCEncodings` | `ClientAppTypeOK`, `SwapFollowed`, `OffersLeave`, `MoneyAccounted`, `PaymentCanBeReverted`, `ListedIsServed`; the inductive `OrderInv` and `WalletInv` (851,656 states) |

The bounds are enough for what the properties are about: two repeated packets let
an acknowledgement of one phase come back in two later ones; two payments are
what one repeated Create builds; two complete hubs are the least that lets one order
be offered two swaps.  `PayerCanRevert` and `CommitCarriesSignedRevert` fail as soon as
one packet is repeated (next section), so the runs that check them show that nothing
*else* breaks them.  In the overlay the relay is on every way, so every packet of client
and hub is searched for, returned and retried, broadcasts come back to their sender,
and a restart empties the known messages in the middle of it.  With two-bit ids, three
peers and buckets of one node the table splits once, evicts, caches and refuses to split
the half without the own id; a search of two nodes has to throw one out for a third.  An
answer of two has never more than two candidates in this run, so that it keeps the
nearest of many is only proved (`AnswersAreNearest`).  Two swaps from two coins contend
for the coins; two announcements let a row expire and return, or two orders be offered.
`Steps` has a step of a swap and its cancel, because the list compares neither with
anything but an announcement's `trPending`, which is before all of them.  With one own
order a restart leaves nothing for `SwapFollowed` to say of it; orders placed after
others were lost are in the proof, which has any number of them.

**What the encodings are checked for** (`MCEncodings`): sums, differences, shifts,
comparisons and hex of `uint256` mean the numbers they stand for; addresses survive
base58 and base64; coin transactions are read back, and one cut short never passes for
a locked one; every handler reads from a packet what its sender wrote, at every offset, for
currencies of up to seven letters (one of eight runs into the amount after it); a wallet's
stream is cut into packets whatever the pieces it arrives in; DHT questions and
answers are read as they were written, cut ones are ignored.  Two of the statements
record limits: a packet of more than 4095 bytes on the wire is sent and never read, because
the receive buffer (`xbridgeapp.cpp:487`) is half the send buffer; and an announcement is
never accepted, because `send_announce_peer` misses a `goto fail` (`dht.cpp:3214`) and so
leaves its port and token out.  The program searches with port 0 only and never announces.

**Fairness.**  `TimerSpec`: `onTimer` re-arms itself and posts the jobs every 20 s, and
a record's age only grows, so a job that stays possible is run and a record that
stays in use is found expired some time (a swap has finitely many packets).  `FairSpec` adds that a packet that can be handled is
handled, i.e. a network that delivers; only `swap_settles` uses it, without timeouts:
what it shows is completion within the TTL.  Users, restarts, repeated offers and
outside programs are never fair.  `JoinedOrdersSettle` excepts orders whose partner was taken by the other hub: hubs
may split the same two orders between them, and the code has no way back.  With
repeated offers or a repeated packet it does not hold, because a swap is started over.

`overlay`: the DHT thread of each program that runs is weakly fair, since its loop has no
way out and `select` returns when a datagram is there; commands, restarts and ends of
searches are not fair.  `OrderIsAnswered` excepts behaviours in which a program
restarts or dies.  `dht`: every `dht_periodic` reads the clock and does what is due, so the
steps of a message are weakly fair, and the ageing of entries, requests timing out and
the search job strongly, because messages that keep arriving do not hold them up; no peer ever has
to answer.  `SearchEnds` excepts peers that break their answers: a node thrown out and put
back has a new count.  `client_app`: handlers deliver notifications, the user interface
finishes its calls and its 3 s timer keeps running; hubs and users are not fair, nor are
restarts.  `OffersLeave` excepts rows that show a cancel: `onTimer` erases only what is
`trExpired`, so they stay as long as the program runs.
`threads_wait`: a thread whose mutex is free takes it in the end.

## 4. What the checks found

Each is a run that expects one violation, with a comment of the code it contradicts.

* `unsigned_revert` (`xbridgeexchange.cpp:285`).  The hub stores a Created packet's
  revert transaction before it looks at the state.  A late copy overwrites the
  signed one, and Commit carries an unsigned transaction; the packet's definition
  (`xbridgepacket.h:137`) says signed.  The client pays and cannot revert.
* `restarted_swap` (`xbridgeexchange.cpp:216`).  An order offered again by its timer
  after it was joined is a new book entry; repeated on both sides, the two are joined
  again under the same id, and the new record replaces the running swap.
  `xbridgetransaction.cpp:420`: "can be joined only new transactions".
* `wrong_revert` (`xbridgesession.cpp:2395`).  Init replaces the descriptor by one
  without the local id ("non this client transaction", line 742), but rollback
  looks the swap up by that id ("for rollback need local transaction id", line
  2379): with two swaps the wrong payment is taken back.
* `search_ends` (`xbridgeapp.cpp:559`).  `dht_periodic` is called with a null closure, which
  `callback` takes for the application when a search is done: the first search that
  ends there ends the program.  The comment at line 355 expects it to be called then.
* `threads_wait` (`xbridgeexchange.cpp:174`).  `createTransaction` takes the book's mutex,
  then the matching record's; the job that erases expired offers takes the record's, then the
  book's.  Ten states lead to both waiting for ever, the DHT thread with them; with one
  order of locking the same property holds.

Not a run, because the model switches the reports on and no program in the repository sends
them: with hub wallets that report payments, a repeated Commited makes the hub
wait again for a payment already counted (`xbridgeexchange.cpp:337`); `confirm()` counts it
twice and the swap is finished with one payment.  `swap_restarts` checks
`FinishedMeansBothPaid` with reports and without repeated packets.

## 5. Theorems

For every set of orders, hubs, clients, wallets and peers, every bound and every failure
switch that the second column does not name:

| Theorem | States |
|---|---|
| `XBridgeSwap_proofs!TypeCorrect` | `Spec => []TypeOK` |
| `XBridgeSwap_proofs!NoEarlyPayment` | `Spec => []NoPaymentBeforeBothSigned` |
| `XBridgeSwap_proofs!OneSwap` | `Spec => []OneSwapPerOrder` |
| `XBridgeSwap_proofs!FinishedIsPaid` | without hub wallet reports, `Spec => []FinishedMeansBothPaid` |
| `XBridgeSwap_proofs!PhasesCountPayments` | without hub wallet reports, `Spec => []PaymentInv` |
| `XBridgeSwap_refinement!Refinement` | without hub wallet reports, `Spec => ImplementsContract` |
| `XBridgeSwap_reverts!PayersCanRevert` | without repeated packets and mirrored own orders, `Spec => []PayerCanRevert` |
| `XBridgeSwap_reverts!CommitsCarrySignedReverts` | likewise, `Spec => []CommitCarriesSignedRevert` |
| `XBridgeSwap_reverts!SwapsRunOnce` | likewise and without hub wallet reports, `Spec => []ClosedInv` |
| `XBridgeSwap_reverts!NeverBothEnds` | likewise, `Spec => []NeverFinishedAndRolledBack` |
| `XBridgeSwap_reverts!RevertsAreOrdered` | one order for each client, `Spec => []RevertedOnlyIfRolledBack` |
| `XBridgeSwap_reverts!SwapsJoinOnce` | without repeated packets, repeated offers, hub restarts and hub wallet reports, `Spec => []ClosesInv` |
| `XBridgeSwap_reverts!PaidSwapsAreClosed` | likewise, `Spec => []HubClosesPaidSwaps` |
| `XBridgeOverlay_proofs!OverlayTypes` | `Spec => []TypeOK` |
| `XBridgeOverlay_proofs!NeverPostedTwice` | `Spec => []PostedOnce` |
| `XBridgeOverlay_proofs!NeverHeardTwice` | `Spec => []HeardOnce` |
| `XBridgeOverlay_proofs!DeliversPackets` | `Spec => ImplementsDelivery` |
| `XBridgeOverlay_waits!NothingIsForgotten` | `Spec => []WaitsForAReason` |
| `XBridgeClientApp_proofs!ClientAppTypesOK` | `Spec => []ClientAppTypeOK` |
| `XBridgeClientApp_proofs!MoneyInvariant` | `Spec => []WalletInv` |
| `XBridgeClientApp_proofs!WalletBalances` | `Spec => []MoneyAccounted` |
| `XBridgeClientApp_proofs!RevertsAreTaken` | `Spec => []PaymentCanBeReverted` |
| `XBridgeClientApp_proofs!OrderInvariant` | `Spec => []OrderInv` |
| `XBridgeClientApp_proofs!SwapsAreFollowed` | `Spec => []SwapFollowed` |
| `XBridgeClientApp_proofs!ListedAddressesAreServed` | `Spec => []ListedIsServed` |
| `XBridgeDht_proofs!DhtTypesOK` | `Spec => []DhtTypeOK` |
| `XBridgeDht_proofs!BucketsFollowThePath` | `Spec => []OwnPathSplit` |
| `XBridgeDht_proofs!GoodNodesAreKept` | `Spec => RespondersStay` |
| `XBridgeDht_proofs!SearchesAreSorted` | `Spec => []SearchSorted` |
| `XBridgeDht_proofs!AnswersAreNearest` | `Spec => []AnswersAreClosest` |
| `XBridgeDht_proofs!TokensAreAccepted` | `Spec => []TokensLast` |
| `XBridgeDht_proofs!CloserComparesByXor` | `xorcmp()` compares the XOR distances as numbers |
| `XBridgeDht_proofs!BucketArithmetic` | the random id and the middle of a bucket |

That is every invariant and every action property the passing runs check.  The constants'
assumptions are TLC-evaluated in the runs: `OrderAssumption`, `NodeAssumption`,
`HubAssumption`, `ClientAssumption` (types; an order gives one asset and takes another; one
program owns both addresses of an order), `OverlayAssumption`, `OrderListAssumption`,
`WalletAssumption` (finite coins and swaps; sums fit the 64 bits of an amount),
`BookAssumption`, and those of the DHT (types; sizes at least 1; own and target ids among the
ids).  The hypotheses in the table
are constants' values or relations that instances have, and each has its reason:

* no hub wallet reports: true of this repository; the repeated Commited of section 4;
* no repeated packets (`MaxDuplicates = 0`): `unsigned_revert`;
* one order for each client: `wrong_revert`;
* no mirrored own orders (`NoSelfTrade`): a client whose two orders mirror each other
  keeps both sides of their swap in one descriptor, so what one side was given to
  revert with is overwritten for the other;
* no repeated offers, no hub restarts: a swap joined again, or forgotten, after the
  orders to pay is closed by nobody (the hazard at `xbridgesession.cpp:1922`).

**Swaps: what is paid.**  `net` and `paid` only grow, so a fact "this packet was sent" or "this
was paid" is never lost; most of each proof is that frame, stated once as lemmas.
None of the three safety properties is inductive by itself:

* *no early payment*: the chain is payment <- Commit packet <- record in `trCreated`
  with both flags <- Signed packets.  `PhaseMeansSigned` says a flag in that phase
  stands for a Signed packet in `net`; `CommitMeansSigned` carries it to Commit;
  `OwnPayments` ties the payment a client sends to the swap it is told to commit;
  `CoinOrdersAddressed` rules out a Commit for a third party.
* *one swap per order*: `HoldsAddressed` and `AppliedMeansNotPending`: an order
  that applied for a hold has left the pending orders and, its id being used up
  (`placed`), never returns.
* *finished is paid*: `CommitedMeansPaid` and `PhaseMeansPaid` do for payments what
  the first chain does for signatures.

`SwapInv` and `PaymentInv` are their conjunctions; TLC checks the latter as an invariant of
`swap_duplicates`.  The refinement maps a swap to the sides that signed, paid and
reverted and to whether Finished was sent; each step changes at most one side of
one of them, and the invariants give the abstract guards.  `TwoParty` restricts
the last two to swaps of two programs: a program that trades with itself keeps both
sides in one descriptor.

**Swaps: what can be taken back.**  The invariants are in layers, each with its own
hypotheses.  `RevertInv` says where each revert transaction came from: one filed with a
record, carried by a packet or kept by a client spends a payment of that side.  `OnceInv` adds that
phases are passed once.  `seen` is what a repeated packet would get around: a flag in
a phase stands for a packet *heard* in it, so the same Created cannot come back
after its revert transaction was replaced by the signed one; hence each side builds one
payment, the revert transactions are there before they are needed and signed before
the orders to pay, and a payer holds the signed one.  `ClosedInv` adds that a swap that ended runs
no more.  `ClosesInv` is about the hub alone: the offer that made a record was heard,
is not heard again, and so the record of a swap that was told to pay stays in its last two
phases until it is ended.  `RevertsAreOrdered` needs neither: with one order for each client the
descriptor that rollback finds is the swap's.  TLC checks `ClosedInv` and `ClosesInv`
in `swap_failures`.

**Overlay.**  The invariant `IInv` is what each program's memory has to satisfy together:
*posted is known* (a packet given to the network is in the known messages, so
`isKnownMessage` drops it the next time); *heard is known or in hand* (a broadcast run through
the handlers on reception is known already or in the queue or batch that the same
iteration works off before the next datagram is read); and *queues hold sent packets*, which
makes every handling one of `PacketDelivery`.  None of the three is inductive alone: a returned
packet goes back into the queue unposted, and a restart forgets known messages, posts
and hearings together.

`NothingIsForgotten` adds `WaitsInv`: between iterations of the loop the send signal is up or
every queued packet has its reason; while the queue is worked off, which ends with the
signal lowered, every packet pushed is late, or came back and has its address searched
or about to be.  Starting the searches leaves each address asked for with a running search,
or raises the signal where a search ends at once; an answer changes neither, and a
search that ends later stops the program (section 4), whose queue is then lost.

**The client towards user and wallets.**  The parts share no variables, so each has an
inductive invariant.  `OrderInv`: an own order has one row, under the id the list was
last told; what the list does not show yet is in the next notification or in the call the
user interface is in; notifications stay in the order of the changes they tell.  A
repeated Init can only start a swap anew that is in the map, unless a restart emptied it:
so the invariant also says that a swap that was applied to is there or `lost`, and that
its order is offered no more.  That such a swap was reached from an own order
(`SwapsAreOwn`) is a small invariant beside it.  The code finds an accepted order's row again by position, and the
model's `GiveAcceptedId` notices a change of the list in between by its length: comparing
the ids at the position, as it did before the proof, misses a change when the rows on both
sides of it are alike.  `WalletInv`: a payment is worth its inputs but for fee and rounding and has
its revert transaction; outputs come from transactions that were sent.  `MoneyAccounted` is a sum over swaps of which a step
changes one summand (`Counting`).  `BookInv` says which session got which address.

**DHT.**  An id is a path of bits and a bucket the ids that begin with one path.  Cutting a
bucket in the middle replaces a leaf of that tree by its two children (`CutTree`,
`CutPath`, from `BucketArithmetic`), and only the leaf with the node's own id is cut;
`TableInv` keeps the tree and the number of nodes in each leaf; `RespondersStay` goes
through the ways a node can leave.  `CloserComparesByXor` turns `xorcmp()` into a
comparison of numbers, after which inserting into the sorted list of a search and into
an answer is one lemma (`SortedInsert`).  `SearchInv` follows the list through every step of
a search, `AnswersAreNearest` folds the insertion over any order of the candidates:
after k of them the list holds the nearest of those k.  `TokenInv` relates the age of a token, how many secrets ago it was made
and the time since the last rotation.

**Induction.**  The library's induction rules take an operator as a parameter, which the
provers cannot instantiate.  `Counting` states induction without one: a non-empty set of finite
sets has a smallest member (from the well-foundedness of strict inclusion), and a set of numbers with 0
and all successors has all.  With it the folds of the community modules (`FoldLeft`, `SumSet`,
`FlattenSeq`) and sums over finite sets are proved about by showing that the function they choose
exists and what it is after k elements.

Only model-checked: the liveness properties `JoinedOrdersSettle`, `HubForgets`, `FloodEnds`,
`OrderIsAnswered`, `SearchEnds`, `OffersLeave` and `OfferIsRetranslated` (fairness and ENABLED are out
of the prover's reach), and the encodings, whose statements in
`MCEncodings` run through every text, packet and transaction of a small width.

## 6. Not modelled

* Script evaluation, keys, encryption, big numbers (`script.cpp`, `key.cpp`, `keystore.cpp`,
  `crypter.cpp`, `bignum.h`): cryptography taken over from coin wallets that the exchange does
  not call or uses as a black box; coin transactions are known by hash and amounts.
* HTTP and JSON of the wallet calls, settings, logging, crash reports, the delegate
  library, breakpad: I/O without protocol state.
* Qt dialogs and windows: layout and input checks; their calls into the list of
  orders are the user's actions in `OrderList`.
* In the DHT: the second address family, rate limiting, table dumps, bucket
  maintenance's choice of a random neighbour.
* Threads inside one call of an unprotected container, mutexes destroyed while locked:
  undefined behaviour without outcomes to choose from.  The hazards in `PROJECT.json` say so at
  their lines.

What could follow: proofs that packets are read as they were written, for any width; `HubThreads` extended to the running swaps, for the list that
`checkFinishedTransactions` copies; a composition of `XBridgeSwap` over `XBridgeOverlay` in place
of the delivery it assumes.
