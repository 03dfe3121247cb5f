------------------------------- MODULE Wallet -------------------------------
(***************************************************************************)
(* The wallet's keys (src/src/wallet.cpp, src/src/crypter.cpp): the key    *)
(* pool, the reservations made from it, and the encryption of a wallet,    *)
(* against wallet.dat (src/src/walletdb.cpp, src/src/db.cpp).              *)
(*                                                                         *)
(* A step is at most one write to the file, after each of which the        *)
(* process may be killed.  cs_wallet is held by the call in progress, but  *)
(* CWallet::KeepKey and the end of CWallet::Lock do without it.  Keys are  *)
(* numbered in the order of their creation, a secret is given by its key.  *)
(* Passphrases, metadata, the default key and transactions are left out,   *)
(* and AddReserveKey, which nothing calls.  A failure that EncryptWallet   *)
(* answers with exit(1) is a kill.                                         *)
(***************************************************************************)
EXTENDS Naturals, Sequences, FiniteSets, FiniteSetsExt, Functions

CONSTANTS
  Holders,          \* the CReserveKey objects
  GetKeyFromPool,   \* a caller that wants a key for good
  TopUpKeyPool,     \* a caller that only fills the pool
  KeyPool,          \* -keypool
  MaxKeys, MaxMasters, MaxKills  \* bounds: keys made, encryptions, kills

ASSUME WalletAssumption ==
  /\ KeyPool \in Nat /\ {MaxKeys, MaxMasters} \subseteq Nat /\ MaxKills \in Nat
  /\ GetKeyFromPool # TopUpKeyPool /\ {GetKeyFromPool, TopUpKeyPool} \cap Holders = {}

VARIABLES
  phase, caller, fresh,     \* the call in progress, and the key it has just made
  mapKeys, mapCryptedKeys,  \* the latter: the master key each is encrypted with
  mapMasterKeys, fUseCrypto, vMasterKey, setKeyPool,
  reserved,                 \* nIndex and vchPubKey of each holder
  db, rewrite,              \* wallet.dat and wallet.dat.rewrite
  nKeys, nMasters, kills,   \* made so far
  issued, bornPlain,        \* keys kept; keys that were ever stored unencrypted
  replaced                  \* a start found no wallet.dat after the first one

process == <<phase, caller, fresh>>
store   == <<mapKeys, mapCryptedKeys, mapMasterKeys, fUseCrypto>>
files   == <<db, rewrite>>
made    == <<nKeys, nMasters, kills>>
history == <<issued, bornPlain, replaced>>
vars    == <<process, store, vMasterKey, setKeyPool, reserved, files, made, history>>

(* -1 and the invalid key *)
NoIndex == 0
NoKey   == 0
Nothing == [nIndex |-> NoIndex, key |-> NoKey]

(* maps: one entry written, and one over another *)
With(f, x, v) == [y \in DOMAIN f \union {x} |-> IF y = x THEN v ELSE f[y]]
Merged(f, g) == [y \in DOMAIN f \union DOMAIN g |-> IF y \in DOMAIN f THEN f[y] ELSE g[y]]

(* the absence of a file *)
NoFile == [exists |-> FALSE]

EmptyFile == [key |-> {}, ckey |-> << >>, mkey |-> << >>, pool |-> << >>]

Init ==
  /\ phase = "free" /\ caller = TopUpKeyPool /\ fresh = NoKey
  /\ mapKeys = {} /\ mapCryptedKeys = << >> /\ mapMasterKeys = << >> /\ fUseCrypto = FALSE
  /\ vMasterKey = NoKey /\ setKeyPool = {}
  /\ reserved = [h \in Holders |-> Nothing]
  /\ db = EmptyFile /\ rewrite = NoFile
  /\ nKeys = 0 /\ nMasters = 0 /\ kills = 0
  /\ issued = {} /\ bornPlain = {} /\ replaced = FALSE

IsLocked == fUseCrypto /\ vMasterKey = NoKey
Running == phase # "off"
HaveKey(k) == k \in mapKeys \union DOMAIN mapCryptedKeys

-----------------------------------------------------------------------------
(* GenerateNewKey, AddKey, AddCryptedKey: into the key store and the file  *)

FileWithoutNewCKeys(f, k) == IF fUseCrypto THEN f ELSE [f EXCEPT !.key = @ \union {k}]
FileWithKey(f, k) ==
  IF fUseCrypto THEN [f EXCEPT !.ckey = With(@, k, vMasterKey)]
  ELSE [f EXCEPT !.key = @ \union {k}]

GenerateNewKey ==
  /\ ~IsLocked /\ nKeys < MaxKeys
  /\ nKeys' = nKeys + 1 /\ fresh' = nKeys'
  /\ db' = FileWithKey(db, nKeys')
  /\ IF fUseCrypto
       THEN /\ mapCryptedKeys' = With(mapCryptedKeys, nKeys', vMasterKey)
            /\ UNCHANGED <<mapKeys, bornPlain>>
       ELSE /\ mapKeys' = mapKeys \union {nKeys'} /\ bornPlain' = bornPlain \union {nKeys'}
            /\ UNCHANGED mapCryptedKeys
  /\ UNCHANGED <<caller, mapMasterKeys, fUseCrypto, vMasterKey, setKeyPool, reserved,
                 rewrite, nMasters, kills, issued, replaced>>

WritePool(f, nIndex, k) == [f EXCEPT !.pool = With(@, nIndex, k)]
ErasePool(f, nIndex) == [f EXCEPT !.pool = Restrict(@, DOMAIN @ \ {nIndex})]

AddToPool(nIndex) ==
  /\ db' = WritePool(db, nIndex, fresh)
  /\ setKeyPool' = setKeyPool \union {nIndex}
  /\ UNCHANGED <<caller, fresh, store, vMasterKey, reserved, rewrite, made, history>>

-----------------------------------------------------------------------------
(* TopUpKeyPool, by itself or on the way to a key                          *)

Unreserved(c) == c \in Holders => reserved[c] = Nothing

Call(c) ==
  /\ phase = "free" /\ Unreserved(c)
  /\ c = TopUpKeyPool => ~IsLocked
  /\ phase' = IF IsLocked THEN "reserve" ELSE "topup"
  /\ caller' = c
  /\ UNCHANGED <<fresh, store, vMasterKey, setKeyPool, reserved, files, made, history>>

TopUpKey ==
  /\ phase = "topup" /\ Cardinality(setKeyPool) < KeyPool + 1
  /\ GenerateNewKey
  /\ phase' = "record"

(* the wallet was locked meanwhile, and AddKey fails *)
TopUpThrows ==
  /\ phase = "topup" /\ Cardinality(setKeyPool) < KeyPool + 1 /\ IsLocked
  /\ phase' = "free"
  /\ UNCHANGED <<caller, fresh, store, vMasterKey, setKeyPool, reserved, files, made, history>>

nEnd == IF setKeyPool = {} THEN 1 ELSE Max(setKeyPool) + 1

TopUpRecord ==
  /\ phase = "record"
  /\ AddToPool(nEnd)
  /\ phase' = "topup"

TopUpReturns ==
  /\ phase = "topup" /\ Cardinality(setKeyPool) >= KeyPool + 1
  /\ phase' = IF caller = TopUpKeyPool THEN "free" ELSE "reserve"
  /\ UNCHANGED <<caller, fresh, store, vMasterKey, setKeyPool, reserved, files, made, history>>

-----------------------------------------------------------------------------
(* ReserveKeyFromKeyPool                                                   *)

Readable(nIndex) == nIndex \in DOMAIN db.pool /\ HaveKey(db.pool[nIndex])

(* nothing to reserve: the wallet is locked *)
ReserveNone ==
  /\ phase = "reserve" /\ setKeyPool = {}
  /\ phase' = "free"
  /\ UNCHANGED <<caller, fresh, store, vMasterKey, setKeyPool, reserved, files, made, history>>

ReserveKey ==
  /\ phase = "reserve" /\ setKeyPool # {} /\ caller \in Holders
  /\ LET nIndex == Min(setKeyPool) IN
       /\ setKeyPool' = setKeyPool \ {nIndex}
       /\ reserved' = [reserved EXCEPT ![caller] =
            [nIndex |-> nIndex,
             key |-> IF Readable(nIndex) THEN db.pool[nIndex] ELSE NoKey]]  \* or throws
  /\ phase' = "free"
  /\ UNCHANGED <<caller, fresh, store, vMasterKey, files, made, history>>

(* GetKeyFromPool keeps the key at once *)
ReserveAndKeep ==
  /\ phase = "reserve" /\ setKeyPool # {} /\ caller = GetKeyFromPool
  /\ LET nIndex == Min(setKeyPool) IN
       /\ setKeyPool' = setKeyPool \ {nIndex}
       /\ IF Readable(nIndex)
            THEN db' = ErasePool(db, nIndex) /\ issued' = issued \union {db.pool[nIndex]}
            ELSE UNCHANGED <<db, issued>>
  /\ phase' = "free"
  /\ UNCHANGED <<caller, fresh, store, vMasterKey, reserved, rewrite, made, bornPlain, replaced>>

(* a second call of GetReservedKey, after the first one threw, fails its assertion *)
AssertionFails(h) ==
  /\ phase = "free" /\ reserved[h].nIndex # NoIndex /\ reserved[h].key = NoKey
  /\ phase' = "off"
  /\ UNCHANGED <<caller, fresh, store, vMasterKey, setKeyPool, reserved, files, made, history>>

(* not while Rewrite has the file *)
KeepsOnlyInMemory(f, nIndex) == f
KeepKeyErases(f, nIndex) == ErasePool(f, nIndex)

KeepKey(h) ==
  /\ Running /\ phase \notin {"copied", "removed"} /\ reserved[h].key # NoKey
  /\ db' = KeepKeyErases(db, reserved[h].nIndex)
  /\ issued' = issued \union {reserved[h].key}
  /\ reserved' = [reserved EXCEPT ![h] = Nothing]
  /\ UNCHANGED <<process, store, vMasterKey, setKeyPool, rewrite, made, bornPlain, replaced>>

ReturnKey(h) ==
  /\ phase = "free" /\ reserved[h].nIndex # NoIndex
  /\ setKeyPool' = setKeyPool \union {reserved[h].nIndex}
  /\ reserved' = [reserved EXCEPT ![h] = Nothing]
  /\ UNCHANGED <<process, store, vMasterKey, files, made, history>>

-----------------------------------------------------------------------------
(* Lock and Unlock                                                         *)

Lock ==
  /\ phase \in {"free", "topup", "record", "reserve"} /\ vMasterKey # NoKey
  /\ vMasterKey' = NoKey
  /\ UNCHANGED <<process, store, setKeyPool, reserved, files, made, history>>

(* the master keys that open the first encrypted key, which is all that is tried *)
Opening ==
  IF DOMAIN mapCryptedKeys = {} THEN Range(mapMasterKeys)
  ELSE Range(mapCryptedKeys) \cap Range(mapMasterKeys)

Unlock ==
  /\ phase = "free" /\ IsLocked
  /\ vMasterKey' \in Opening
  /\ UNCHANGED <<process, store, setKeyPool, reserved, files, made, history>>

-----------------------------------------------------------------------------
(* EncryptWallet                                                           *)

EncryptKeys ==
  /\ phase = "free" /\ ~fUseCrypto /\ nMasters < MaxMasters
  /\ nMasters' = nMasters + 1 /\ mapMasterKeys' = Append(mapMasterKeys, nMasters')
  /\ mapCryptedKeys' = [k \in mapKeys |-> nMasters']
  /\ mapKeys' = {} /\ fUseCrypto' = TRUE
  /\ phase' = "encrypted"
  /\ UNCHANGED <<caller, fresh, vMasterKey, setKeyPool, reserved, files, nKeys, kills, history>>

(* what the transaction has written: WriteMasterKey, WriteCryptedKey *)
Committed(f) ==
  [f EXCEPT !.key = @ \ DOMAIN mapCryptedKeys, !.ckey = Merged(mapCryptedKeys, @), !.mkey = mapMasterKeys]

TxnCommit ==
  /\ phase = "encrypted"
  /\ db' = Committed(db)
  /\ vMasterKey' \in Opening
  /\ phase' = "erase"
  /\ UNCHANGED <<caller, fresh, store, setKeyPool, reserved, rewrite, made, history>>

(* NewKeyPool *)
ErasePoolRecord ==
  /\ phase = "erase" /\ setKeyPool # {}
  /\ db' = ErasePool(db, Min(setKeyPool))
  /\ setKeyPool' = setKeyPool \ {Min(setKeyPool)}
  /\ UNCHANGED <<process, store, vMasterKey, reserved, rewrite, made, history>>

NewPoolKey ==
  /\ \/ phase = "erase" /\ setKeyPool = {} /\ KeyPool > 0
     \/ phase = "newpool" /\ Cardinality(setKeyPool) < KeyPool
  /\ GenerateNewKey
  /\ phase' = "newrecord"

NewPoolRecord ==
  /\ phase = "newrecord"
  /\ AddToPool(Cardinality(setKeyPool) + 1)
  /\ phase' = "newpool"

(* Rewrite copies to the other file without overwriting what it finds there; *)
(* it holds cs_db, so that only a kill comes between two of its records      *)
RewriteDue ==
  \/ phase = "erase" /\ setKeyPool = {} /\ KeyPool = 0
  \/ phase = "newpool" /\ Cardinality(setKeyPool) >= KeyPool

CopiedInto(f, g) ==
  IF f = NoFile THEN g
  ELSE [key |-> f.key \union g.key, ckey |-> Merged(f.ckey, g.ckey),
        mkey |-> Merged(f.mkey, g.mkey), pool |-> Merged(f.pool, g.pool)]

RewriteCopies ==
  /\ RewriteDue
  /\ rewrite' = CopiedInto(rewrite, db)
  /\ vMasterKey' = NoKey
  /\ phase' = "copied"
  /\ UNCHANGED <<caller, fresh, store, setKeyPool, reserved, db, made, history>>

(* killed on the way: the cursor goes by record type, and by then there is *)
(* no plain key                                                            *)
Beginning(f, K, M, P) ==
  [f EXCEPT !.ckey = Restrict(@, K), !.mkey = Restrict(@, M), !.pool = Restrict(@, P)]

RewriteCutShort ==
  /\ RewriteDue /\ kills < MaxKills
  /\ \E K \in SUBSET DOMAIN db.ckey, M \in SUBSET DOMAIN db.mkey, P \in SUBSET DOMAIN db.pool :
       /\ M \union P # {} => K = DOMAIN db.ckey
       /\ P # {} => M = DOMAIN db.mkey
       /\ rewrite' = CopiedInto(rewrite, Beginning(db, K, M, P))
  /\ kills' = kills + 1 /\ phase' = "off"
  /\ UNCHANGED <<caller, fresh, store, vMasterKey, setKeyPool, reserved, db, nKeys, nMasters, history>>

RewriteRemoves ==
  /\ phase = "copied"
  /\ db' = NoFile
  /\ phase' = "removed"
  /\ UNCHANGED <<caller, fresh, store, vMasterKey, setKeyPool, reserved, rewrite, made, history>>

RewriteRenames ==
  /\ phase = "removed"
  /\ db' = rewrite /\ rewrite' = NoFile
  /\ phase' = "free"
  /\ UNCHANGED <<caller, fresh, store, vMasterKey, setKeyPool, reserved, made, history>>

-----------------------------------------------------------------------------
(* The process ends anywhere; LoadWallet reads what is there               *)

Kill ==
  /\ Running /\ kills < MaxKills
  /\ kills' = kills + 1 /\ phase' = "off"
  /\ UNCHANGED <<caller, fresh, store, vMasterKey, setKeyPool, reserved, files, nKeys, nMasters, history>>

(* refused with DB_CORRUPT when plain and encrypted keys are mixed *)
Loads(f) == f.key = {} \/ DOMAIN f.ckey = {}

Start ==
  LET f == IF db = NoFile THEN EmptyFile ELSE db
  IN /\ phase = "off" /\ Loads(f)
     /\ phase' = "free" /\ caller' = TopUpKeyPool /\ fresh' = NoKey
     /\ db' = f /\ replaced' = (replaced \/ db = NoFile)
     /\ mapKeys' = f.key /\ mapCryptedKeys' = f.ckey /\ mapMasterKeys' = f.mkey
     /\ fUseCrypto' = (DOMAIN f.ckey # {}) /\ vMasterKey' = NoKey
     /\ setKeyPool' = DOMAIN f.pool
     /\ reserved' = [h \in Holders |-> Nothing]
     /\ UNCHANGED <<rewrite, made, issued, bornPlain>>

Next ==
  \/ \E c \in Holders \union {GetKeyFromPool, TopUpKeyPool} : Call(c)
  \/ TopUpKey \/ TopUpThrows \/ TopUpRecord \/ TopUpReturns
  \/ ReserveNone \/ ReserveKey \/ ReserveAndKeep
  \/ \E h \in Holders : AssertionFails(h) \/ KeepKey(h) \/ ReturnKey(h)
  \/ Lock \/ Unlock
  \/ EncryptKeys \/ TxnCommit \/ ErasePoolRecord \/ NewPoolKey \/ NewPoolRecord
  \/ RewriteCopies \/ RewriteCutShort \/ RewriteRemoves \/ RewriteRenames
  \/ Kill \/ Start

Spec == Init /\ [][Next]_vars

-----------------------------------------------------------------------------
(* Properties                                                              *)

Recoverable(f) == f.key \union {k \in DOMAIN f.ckey : f.ckey[k] \in Range(f.mkey)}

(* Every key that was given out, and every one in memory, can be recovered *)
(* from wallet.dat, or from wallet.dat.rewrite while Rewrite has removed   *)
(* the former: whatever is in progress when the process ends (the comments *)
(* at wallet.cpp:452 and 461 rely on it), and a start is never refused for *)
(* a mixture of plain and encrypted keys.  It is not claimed once a start  *)
(* has found no wallet.dat and made a new one.                             *)
KeysRecoverable ==
  replaced \/
    LET f == IF db = NoFile THEN rewrite ELSE db
    IN /\ issued \union mapKeys \union DOMAIN mapCryptedKeys \subseteq Recoverable(f)
       /\ Loads(f)

(* A key that has been kept is out of the pool for good: no record in the  *)
(* file names it, so no reservation, whatever indexes were used again, and *)
(* no restart gives it out a second time.                                  *)
KeptIsGone ==
  [][/\ db' # NoFile => Range(db'.pool) \cap issued' = {}
     /\ \A h \in Holders : reserved'[h].key # reserved[h].key => reserved'[h].key \notin issued]_vars

(* "Mark old keypool keys as used, and generate all new keys"              *)
(* (wallet.cpp:1686), "The keypool has been flushed" (rpcwallet.cpp:1836): *)
(* once EncryptWallet has returned, the pool has no key that was stored    *)
(* unencrypted.                                                            *)
(* The code does not keep it: README, section 5.                           *)
PoolFlushed ==
  phase = "free" /\ fUseCrypto /\ kills = 0 => Range(db.pool) \cap bornPlain = {}

(* assert(vchPubKey.IsValid()) in GetReservedKey (wallet.cpp:2000)         *)
(* The code does not keep it: README, section 5.                           *)
ReservedKeyValid ==
  phase = "free" => \A h \in Holders : reserved[h].nIndex # NoIndex => reserved[h].key # NoKey

(* No two reservations are of the same key.                                *)
(* The code does not keep it: README, section 5.                           *)
NotShared ==
  \A g, h \in Holders : g # h /\ reserved[g].key = reserved[h].key => reserved[g].key = NoKey

(* "losing keys is considered a catastrophic error" (walletdb.cpp:646):    *)
(* after a start every key that was given out is in the wallet.            *)
(* The code does not keep it: README, section 5.                           *)
NoKeyLost == Running => \A k \in issued : HaveKey(k)
=============================================================================
