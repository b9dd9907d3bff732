----------------------------- MODULE AddressBook ----------------------------
(***************************************************************************)
(* The addresses a program answers for: every 20 s a service thread asks   *)
(* each wallet for its accounts and their addresses, stores each address   *)
(* in m_sessionAddrs and shows it in the address book, from which the user *)
(* takes the addresses of an order.  m_addressBookLock is held throughout, *)
(* m_sessionsLock for each address.                                        *)
(***************************************************************************)
EXTENDS Integers, FiniteSets, WalletRpc

CONSTANTS
    Wallets,      \* currencies with a session
    Accounts,     \* account names
    Addresses,    \* 20-byte addresses, without the version byte of their coin
    NoWallet,
    Has           \* wallet -> account -> its addresses

ASSUME BookAssumption ==
    /\ NoWallet \notin Wallets
    /\ Has \in [Wallets -> [Accounts -> SUBSET Addresses]]

VARIABLES
    sessionAddrs, \* m_sessionAddrs: address -> the session that handles its packets
    listed,       \* XBridgeAddressBookModel: address -> the currency it is shown with
    todo,         \* wallets the running job has still to ask
    entries,      \* <<wallet, address>> pairs the running job has still to store
    shown         \* a stored pair the user interface is still to be told of

bookVars == <<sessionAddrs, listed, todo, entries, shown>>

BookInit ==
    /\ sessionAddrs = [a \in Addresses |-> NoWallet]
    /\ listed = [a \in Addresses |-> NoWallet]
    /\ todo = {} /\ entries = {} /\ shown = {}

BookTypeOK ==
    /\ sessionAddrs \in [Addresses -> Wallets \cup {NoWallet}]
    /\ listed \in [Addresses -> Wallets \cup {NoWallet}]
    /\ todo \subseteq Wallets
    /\ entries \subseteq Wallets \X Addresses
    /\ shown \subseteq Wallets \X Addresses /\ Cardinality(shown) <= 1

Resting == entries = {} /\ shown = {}

\* getAddressBook(), of the next 20 s job.
GetAddressBook ==
    /\ todo = {} /\ Resting
    /\ todo' = Wallets
    /\ UNCHANGED <<sessionAddrs, listed, entries, shown>>

\* rpc::requestAddressBook(): a wallet that does not list its accounts is left
\* out, an account whose addresses it does not give is skipped.
RequestAddressBook(w) ==
    /\ w \in todo /\ Resting
    /\ todo' = todo \ {w}
    /\ \E accounts \in Answers("object"), given \in SUBSET Accounts :
          entries' = IF ListAccounts(accounts)
                     THEN {w} \X UNION {Has[w][account] : account \in given} ELSE {}
    /\ UNCHANGED <<sessionAddrs, listed, shown>>

\* A mutant: only the first wallet that reports an address is kept.
MutStorageStore(w, a) ==
    /\ <<w, a>> \in entries /\ shown = {}
    /\ entries' = entries \ {<<w, a>>}
    /\ UNCHANGED sessionAddrs
    /\ shown' = {<<w, a>>}
    /\ UNCHANGED <<listed, todo>>

\* storageStore(): the last wallet to report an address handles its packets.
StorageStore(w, a) ==
    /\ <<w, a>> \in entries /\ shown = {}
    /\ entries' = entries \ {<<w, a>>}
    /\ sessionAddrs' = [sessionAddrs EXCEPT ![a] = w]
    /\ shown' = {<<w, a>>}
    /\ UNCHANGED <<listed, todo>>

\* onAddressBookEntryReceived(): an address is listed once, as it came first.
OnAddressBookEntryReceived(w, a) ==
    /\ <<w, a>> \in shown
    /\ shown' = {}
    /\ listed' = IF listed[a] = NoWallet THEN [listed EXCEPT ![a] = w] ELSE listed
    /\ UNCHANGED <<sessionAddrs, todo, entries>>

BookNext ==
    \/ GetAddressBook
    \/ \E w \in Wallets :
          \/ RequestAddressBook(w)
          \/ \E a \in Addresses : StorageStore(w, a) \/ OnAddressBookEntryReceived(w, a)

-----------------------------------------------------------------------------
Owns(w, a) == \E account \in Accounts : a \in Has[w][account]

\* An order can be placed with any address the book shows: packets for it are
\* handled by a session whose wallet owns it.  When the same key is in two wallets
\* that may be the session of the other currency.
ListedIsServed ==
    \A a \in Addresses :
        listed[a] # NoWallet => sessionAddrs[a] # NoWallet /\ Owns(sessionAddrs[a], a)

=============================================================================
