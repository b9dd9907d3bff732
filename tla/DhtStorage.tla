----------------------------- MODULE DhtStorage -----------------------------
(***************************************************************************)
(* What a DHT node stores for others (dht.cpp): under a hash, the          *)
(* addresses that announced themselves with a token they had been given.   *)
(* A token is made from the asker's address and a secret that changes; the *)
(* secret before it is still accepted.                                     *)
(*                                                                         *)
(* Time goes in ticks of a third of RotationTime; the rotation is due      *)
(* once RotationTime (900 s) has passed and happens up to 1800 s later.    *)
(***************************************************************************)
EXTENDS Integers, FiniteSets, Functions, TLC

CONSTANTS
    Askers,      \* addresses
    Hashes,      \* hashes announced for, none of them 0
    MaxHashes,   \* 16384 in the program
    MaxPeers     \* 2048 addresses under a hash

ASSUME StorageAssumption == {MaxHashes, MaxPeers} \subseteq Nat \ {0}

RotationTime == 3

VARIABLES
    storage,  \* hash -> address -> was it announced in the last 32 minutes?
    tokens,   \* the last token given to each: how many secrets ago, and its age
    rotated   \* the time since the last rotation, as far as it matters

storageVars == <<storage, tokens, rotated>>

NoToken == [secret |-> 2, age |-> RotationTime]
Token == [secret : 0..2, age : 0..RotationTime]

StorageInit ==
    /\ storage = <<>>
    /\ tokens = [a \in Askers |-> NoToken]
    /\ rotated = 0

StorageTypeOK ==
    /\ DOMAIN storage \subseteq Hashes /\ Cardinality(DOMAIN storage) <= MaxHashes
    /\ \A h \in DOMAIN storage :
          /\ DOMAIN storage[h] \in (SUBSET Askers) \ {{}}
          /\ Cardinality(DOMAIN storage[h]) <= MaxPeers
          /\ \A a \in DOMAIN storage[h] : storage[h][a] \in BOOLEAN
    /\ tokens \in [Askers -> Token]
    /\ rotated \in 0..RotationTime

-----------------------------------------------------------------------------
PeersOf(h) == IF h \in DOMAIN storage THEN storage[h] ELSE <<>>

\* A mutant: one hash and one address too many.
MutNoRoom(h, a) ==
    \/ h \notin DOMAIN storage /\ Cardinality(DOMAIN storage) > MaxHashes
    \/ a \notin DOMAIN PeersOf(h) /\ Cardinality(DOMAIN PeersOf(h)) > MaxPeers

NoRoom(h, a) ==
    \/ h \notin DOMAIN storage /\ Cardinality(DOMAIN storage) >= MaxHashes
    \/ a \notin DOMAIN PeersOf(h) /\ Cardinality(DOMAIN PeersOf(h)) >= MaxPeers

\* storage_store(): under a new hash, or as one more address, if there is room.
Stored(h, a) ==
    LET peers == [b \in DOMAIN PeersOf(h) \cup {a} |-> IF b = a THEN TRUE ELSE storage[h][b]]
    IN  IF NoRoom(h, a) THEN storage
        ELSE [g \in DOMAIN storage \cup {h} |-> IF g = h THEN peers ELSE storage[g]]

\* make_token() with the present secret, for the answer to get_peers.
GiveToken(a) ==
    /\ tokens' = [tokens EXCEPT ![a] = [secret |-> 0, age |-> 0]]
    /\ UNCHANGED <<storage, rotated>>

\* token_match(): the token given to this address, by the present or the last secret.
TokenMatch(owner, a) == owner = a /\ tokens[owner].secret <= 1

\* announce_peer with the token given to owner; without a match an error is sent.
Announce(h, a, owner) ==
    /\ TokenMatch(owner, a)
    /\ storage' = Stored(h, a)
    /\ UNCHANGED <<tokens, rotated>>

\* A mutant: the secret replaced is forgotten.
MutOlder(secret) == 2

Older(secret) == IF secret = 0 THEN 1 ELSE 2

\* rotate_secrets()
RotateSecrets ==
    /\ rotated = RotationTime
    /\ rotated' = 0
    /\ tokens' = [a \in Askers |-> [tokens[a] EXCEPT !.secret = Older(tokens[a].secret)]]
    /\ UNCHANGED storage

\* expire_storage(): what was not announced again in time, and hashes left with
\* nothing.
ExpireStorage ==
    LET fresh(h) == {a \in DOMAIN storage[h] : storage[h][a]}
        kept == {h \in DOMAIN storage : fresh(h) # {}}
    IN  /\ storage' = [h \in kept |-> Restrict(storage[h], fresh(h))]
        /\ storage' # storage
        /\ UNCHANGED <<tokens, rotated>>

Tick ==
    LET Later(t) == IF t = RotationTime THEN t ELSE t + 1 IN
    /\ rotated' = Later(rotated)
    /\ tokens' = [a \in Askers |-> [tokens[a] EXCEPT !.age = Later(tokens[a].age)]]
    /\ tokens' # tokens \/ rotated' # rotated
    /\ UNCHANGED storage

\* 32 minutes pass since an announcement.
AnnouncementAges(h, a) ==
    /\ h \in DOMAIN storage /\ a \in DOMAIN storage[h]
    /\ storage[h][a]
    /\ storage' = [storage EXCEPT ![h][a] = FALSE]
    /\ UNCHANGED <<tokens, rotated>>
=============================================================================
