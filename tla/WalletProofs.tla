---------------------------- MODULE WalletProofs ----------------------------
(***************************************************************************)
(* Proofs about Wallet for every size of the key pool and any number of    *)
(* reservations, keys, encryptions and kills.                              *)
(***************************************************************************)
EXTENDS Wallet, SequenceTheorems, TLAPS

-----------------------------------------------------------------------------
(* The inductive invariant                                                 *)

IsFile(f) == f = [key |-> f.key, ckey |-> f.ckey, mkey |-> f.mkey, pool |-> f.pool]

Keys(f) == f.key \union DOMAIN f.ckey

(* The file with the keys: the other one while Rewrite has removed it.     *)
Main == IF db = NoFile THEN rewrite ELSE db

(* NewKeyPool and Rewrite, up to the copy *)
Flushing == {"erase", "newrecord", "newpool"}

FilesInv ==
  /\ phase \in {"free", "topup", "record", "reserve", "encrypted", "copied", "removed", "off"}
                  \union Flushing
  /\ nKeys \in Nat /\ nMasters \in Nat
  /\ db = NoFile \/ IsFile(db)
  /\ rewrite = NoFile \/ IsFile(rewrite)
  /\ db = NoFile => phase \in {"removed", "off"}
  /\ phase \in {"copied", "removed"} \/ db = NoFile => rewrite # NoFile
  /\ phase = "removed" => db = NoFile
  /\ rewrite # NoFile => rewrite.key = {}

(* Whose keys are where.  Keys are numbered, so a new one is nowhere.      *)
KeysInv ==
  /\ db # NoFile => Keys(db) \subseteq 1 .. nKeys /\ Range(db.pool) \subseteq Keys(db)
  /\ rewrite # NoFile =>
       Keys(rewrite) \subseteq 1 .. nKeys /\ Range(rewrite.pool) \subseteq Keys(rewrite)
  /\ issued \subseteq 1 .. nKeys
  /\ DOMAIN reserved = Holders
  /\ \A h \in Holders : reserved[h] = [nIndex |-> reserved[h].nIndex, key |-> reserved[h].key]
  /\ \A h \in Holders : reserved[h].key \in 0 .. nKeys
  /\ phase \in {"record", "newrecord"} =>
       /\ fresh \in Keys(db) /\ fresh \notin Range(db.pool) \union issued
       /\ \A h \in Holders : fresh # reserved[h].key

(* The key store against the file.                                         *)
StoreInv ==
  Running =>
    /\ ~fUseCrypto =>
         /\ DOMAIN mapCryptedKeys = {} /\ DOMAIN Main.ckey = {}
         /\ mapKeys = Main.key /\ vMasterKey = NoKey
         /\ phase \notin Flushing \union {"encrypted", "copied", "removed"}
    /\ fUseCrypto => mapKeys = {} /\ (phase # "encrypted" => Main.key = {})
    /\ phase = "encrypted" => DOMAIN db.ckey = {} /\ DOMAIN mapCryptedKeys = db.key /\ vMasterKey = NoKey

SameMap(f, g) == DOMAIN f = DOMAIN g /\ \A x \in DOMAIN f : f[x] = g[x]

(* The same when no start has replaced wallet.dat: every encrypted key has *)
(* its master key in the file.                                             *)
MasterInv ==
  ~replaced =>
    /\ Main.mkey \in Seq(Nat)
    /\ \A k \in DOMAIN Main.ckey : Main.ckey[k] \in Range(Main.mkey)
    /\ issued \union mapKeys \union DOMAIN mapCryptedKeys \subseteq Keys(Main)
    /\ \A h \in Holders : reserved[h].key \in Keys(Main) \union {NoKey}
    /\ Running =>
         /\ mapMasterKeys \in Seq(Nat)
         /\ phase # "encrypted" =>
              /\ mapMasterKeys = Main.mkey /\ SameMap(mapCryptedKeys, Main.ckey)
              /\ vMasterKey # NoKey => vMasterKey \in Range(mapMasterKeys)
         /\ phase = "encrypted" =>
              /\ mapMasterKeys = Append(db.mkey, nMasters)
              /\ \A k \in DOMAIN mapCryptedKeys : mapCryptedKeys[k] \in Range(mapMasterKeys)
    /\ phase = "copied" => rewrite.mkey = db.mkey /\ SameMap(rewrite.ckey, db.ckey)
    /\ Loads(Main)

(* A pool names each key once, none that was kept, and one that is         *)
(* reserved only at the index of the reservation.                          *)
Injective(pool) == \A m, n \in DOMAIN pool : pool[m] = pool[n] => m = n
ReservedAt(pool) ==
  \A h \in Holders : \A m \in DOMAIN pool :
    pool[m] = reserved[h].key => m = reserved[h].nIndex
PoolOK(pool) == Range(pool) \cap issued = {} /\ ReservedAt(pool)

PoolInv ==
  /\ db # NoFile => Injective(db.pool) /\ PoolOK(db.pool)
  /\ rewrite # NoFile => Injective(rewrite.pool)
  /\ phase \in {"copied", "removed"} \/ db = NoFile => PoolOK(rewrite.pool)

(* What a kill has left in wallet.dat.rewrite, as long as it may still be  *)
(* copied into: keys that nothing else knows of.                           *)
Leftover ==
  rewrite # NoFile /\ db # NoFile /\ (DOMAIN db.ckey = {} \/ phase \in Flushing)

LeftoverInv ==
  Leftover =>
    /\ Range(rewrite.pool) \cap (issued \union Range(db.pool)) = {}
    /\ \A h \in Holders : reserved[h].key \notin Range(rewrite.pool)
    /\ phase \in {"record", "newrecord"} => fresh \notin Range(rewrite.pool)
    /\ ~replaced =>
         /\ DOMAIN rewrite.ckey = {} /\ DOMAIN rewrite.mkey \subseteq DOMAIN db.mkey
         /\ \A n \in DOMAIN rewrite.mkey : rewrite.mkey[n] = db.mkey[n]

IndInv == FilesInv /\ KeysInv /\ StoreInv /\ MasterInv /\ PoolInv /\ LeftoverInv

-----------------------------------------------------------------------------
(* Maps and files                                                          *)

LEMMA EraseMap ==
  ASSUME NEW f, NEW n, NEW g, g = Restrict(f, DOMAIN f \ {n})
  PROVE  /\ DOMAIN g = DOMAIN f \ {n}
         /\ \A m \in DOMAIN g : g[m] = f[m]
         /\ Range(g) \subseteq Range(f)
         /\ Injective(f) => Injective(g)
         /\ Injective(f) /\ n \in DOMAIN f => f[n] \notin Range(g)
<1>1. DOMAIN g = DOMAIN f \ {n} /\ \A m \in DOMAIN g : g[m] = f[m]
  BY DEF Restrict
<1>2. Range(g) \subseteq Range(f)
  BY <1>1 DEF Range
<1>3. Injective(f) => Injective(g)
  BY <1>1 DEF Injective
<1>4. Injective(f) /\ n \in DOMAIN f => f[n] \notin Range(g)
  BY <1>1 DEF Range, Injective
<1> QED BY <1>1, <1>2, <1>3, <1>4

(* What the three writes leave of a file.                                  *)
LEMMA FileWithKeyStep ==
  ASSUME NEW f, IsFile(f), NEW k
  PROVE  LET g == FileWithKey(f, k)
         IN  /\ IsFile(g) /\ g.mkey = f.mkey /\ g.pool = f.pool
             /\ IF fUseCrypto THEN g.key = f.key /\ g.ckey = With(f.ckey, k, vMasterKey)
                              ELSE g.key = f.key \union {k} /\ g.ckey = f.ckey
             /\ Keys(g) = Keys(f) \union {k}
<1> DEFINE g == FileWithKey(f, k)
<1>1. CASE fUseCrypto
  <2>1. g = [f EXCEPT !.ckey = With(f.ckey, k, vMasterKey)]
    BY <1>1 DEF FileWithKey
  <2>2. PICK c : c = With(f.ckey, k, vMasterKey)
    OBVIOUS
  <2>3. DOMAIN c = DOMAIN f.ckey \union {k}
    BY <2>2 DEF With
  <2> HIDE DEF g
  <2>4. IsFile(g) /\ g.mkey = f.mkey /\ g.pool = f.pool /\ g.key = f.key /\ g.ckey = c
    BY <2>1, <2>2 DEF IsFile
  <2> QED BY <1>1, <2>2, <2>3, <2>4 DEF Keys, g
<1>2. CASE ~fUseCrypto
  <2>1. g = [f EXCEPT !.key = f.key \union {k}]
    BY <1>2 DEF FileWithKey
  <2> HIDE DEF g
  <2>2. IsFile(g) /\ g.mkey = f.mkey /\ g.pool = f.pool /\ g.key = f.key \union {k} /\ g.ckey = f.ckey
    BY <2>1 DEF IsFile
  <2> QED BY <1>2, <2>2 DEF Keys, g
<1> QED BY <1>1, <1>2

LEMMA WritePoolStep ==
  ASSUME NEW f, IsFile(f), NEW n, NEW k
  PROVE  LET g == WritePool(f, n, k)
         IN  /\ IsFile(g) /\ g.key = f.key /\ g.ckey = f.ckey /\ g.mkey = f.mkey
             /\ g.pool = With(f.pool, n, k)
             /\ Keys(g) = Keys(f)
<1> PICK p : p = With(f.pool, n, k)
  OBVIOUS
<1>1. WritePool(f, n, k) = [f EXCEPT !.pool = p]
  BY DEF WritePool
<1> QED BY <1>1 DEF IsFile, Keys

LEMMA ErasePoolStep ==
  ASSUME NEW f, IsFile(f), NEW n
  PROVE  LET g == ErasePool(f, n)
         IN  /\ IsFile(g) /\ g.key = f.key /\ g.ckey = f.ckey /\ g.mkey = f.mkey
             /\ g.pool = Restrict(f.pool, DOMAIN f.pool \ {n})
             /\ Keys(g) = Keys(f)
<1> PICK p : p = Restrict(f.pool, DOMAIN f.pool \ {n})
  OBVIOUS
<1>1. ErasePool(f, n) = [f EXCEPT !.pool = p]
  BY DEF ErasePool
<1> QED BY <1>1 DEF IsFile, Keys

LEMMA FileExists == \A f : IsFile(f) => f # NoFile
<1> SUFFICES ASSUME NEW f, IsFile(f), f = NoFile PROVE FALSE
  OBVIOUS
<1>1. DOMAIN f = {"key", "ckey", "mkey", "pool"}
  BY DEF IsFile
<1>2. DOMAIN f = {"exists"}
  BY DEF NoFile
<1> QED BY <1>1, <1>2

-----------------------------------------------------------------------------
(* Steps that write to neither file                                        *)

Ordinary == {"free", "topup", "reserve"}

(* Steps of a call that change neither keys nor reservations, and the end  *)
(* of the process.                                                         *)
LEMMA QuietInd ==
  ASSUME IndInv, UNCHANGED <<store, db, rewrite, nKeys, nMasters, issued, replaced, reserved>>,
         \/ phase' = "off"
         \/ phase' = phase /\ fresh' = fresh
         \/ phase \in Ordinary /\ phase' \in Ordinary,
         \/ vMasterKey' \in {NoKey, vMasterKey}
         \/ fUseCrypto /\ phase \in Ordinary /\ vMasterKey' \in Range(mapMasterKeys)
  PROVE  IndInv'
<1> USE DEF store, Ordinary
<1>1. FilesInv'
  BY DEF IndInv, FilesInv
<1>2. KeysInv'
  BY DEF IndInv, KeysInv
<1>3. StoreInv'
  BY DEF IndInv, StoreInv, Main, Running, Flushing
<1>4. MasterInv'
  BY DEF IndInv, MasterInv, Main, Running, Flushing, Loads
<1>5. PoolInv'
  BY DEF IndInv, PoolInv, PoolOK, ReservedAt
<1>6. LeftoverInv'
  BY DEF IndInv, LeftoverInv, Leftover, Flushing
<1> QED BY <1>1, <1>2, <1>3, <1>4, <1>5, <1>6 DEF IndInv

LEMMA QuietStepsInd ==
  ASSUME IndInv,
         \/ \E c \in Holders \union {GetKeyFromPool, TopUpKeyPool} : Call(c)
         \/ TopUpThrows \/ TopUpReturns \/ ReserveNone \/ Lock \/ Unlock \/ Kill
         \/ \E h \in Holders : AssertionFails(h)
  PROVE  IndInv'
<1> USE DEF Ordinary, files, made, history, process, store
<1>1. ASSUME NEW c, Call(c) PROVE IndInv'
  BY <1>1, QuietInd DEF Call
<1>2. CASE TopUpThrows
  BY <1>2, QuietInd DEF TopUpThrows
<1>3. CASE TopUpReturns
  BY <1>3, QuietInd DEF TopUpReturns
<1>4. CASE ReserveNone
  BY <1>4, QuietInd DEF ReserveNone
<1>5. CASE Lock
  BY <1>5, QuietInd DEF Lock
<1>6. CASE Unlock
  <2>1. Opening \subseteq Range(mapMasterKeys)
    BY DEF Opening
  <2>2. fUseCrypto
    BY <1>6 DEF Unlock, IsLocked
  <2> QED BY <1>6, <2>1, <2>2, QuietInd DEF Unlock
<1>7. CASE Kill
  BY <1>7, QuietInd DEF Kill
<1>8. ASSUME NEW h, AssertionFails(h) PROVE IndInv'
  BY <1>8, QuietInd DEF AssertionFails
<1> QED BY <1>1, <1>2, <1>3, <1>4, <1>5, <1>6, <1>7, <1>8

(* A reservation that is made or ended, with the files as they are.        *)
LEMMA ReservedInd ==
  ASSUME IndInv, NEW h \in Holders, NEW r,
         reserved' = [reserved EXCEPT ![h] = r],
         r = [nIndex |-> r.nIndex, key |-> r.key],
         r.key = NoKey \/ (r.nIndex \in DOMAIN db.pool /\ r.key = db.pool[r.nIndex]),
         phase \in Ordinary, phase' \in Ordinary,
         UNCHANGED <<store, vMasterKey, db, rewrite, nKeys, nMasters, issued, replaced>>
  PROVE  IndInv'
<1> USE DEF store, Ordinary
<1>1. FilesInv' /\ db # NoFile /\ nKeys \in Nat
  BY DEF IndInv, FilesInv
<1>2. reserved'[h] = r /\ \A g \in Holders \ {h} : reserved'[g] = reserved[g]
  BY DEF IndInv, KeysInv
<1>3. r.key # NoKey => r.key \in Range(db.pool) /\ r.key \in Keys(db)
  BY <1>1 DEF Range, IndInv, KeysInv
<1>4. r.key \in 0 .. nKeys
  BY <1>1, <1>3 DEF IndInv, KeysInv, NoKey
<1>5. KeysInv'
  BY <1>2, <1>4 DEF IndInv, KeysInv
<1>6. StoreInv'
  BY DEF IndInv, StoreInv, Main, Running, Flushing
<1>7. MasterInv'
  <2>1. r.key \in Keys(Main) \union {NoKey}
    BY <1>1, <1>3 DEF Main
  <2>2. Main' = Main /\ ~replaced' => \A g \in Holders : reserved'[g].key \in Keys(Main) \union {NoKey}
    BY <1>2, <2>1 DEF IndInv, MasterInv, Main
  <2> QED BY <2>2 DEF IndInv, MasterInv, Main, Running, Loads
<1>8. ReservedAt(db.pool)'
  <2>1. \A m \in DOMAIN db.pool : db.pool[m] = r.key => m = r.nIndex
    <3>1. \A m \in DOMAIN db.pool : db.pool[m] \in Range(db.pool)
      BY DEF Range
    <3>2. NoKey \notin Range(db.pool)
      BY <1>1 DEF IndInv, KeysInv, NoKey
    <3>3. Injective(db.pool)
      BY <1>1 DEF IndInv, PoolInv
    <3> QED BY <3>1, <3>2, <3>3 DEF Injective
  <2> QED BY <1>1, <1>2, <2>1 DEF IndInv, PoolInv, PoolOK, ReservedAt
<1>9. PoolInv'
  BY <1>1, <1>8 DEF IndInv, PoolInv, PoolOK
<1>10. LeftoverInv'
  <2>1. Leftover => r.key \notin Range(rewrite.pool)
    <3>1. rewrite # NoFile => NoKey \notin Range(rewrite.pool)
      BY <1>1 DEF IndInv, KeysInv, NoKey
    <3> QED BY <1>1, <1>3, <3>1 DEF IndInv, LeftoverInv, Leftover
  <2> QED BY <1>2, <2>1 DEF IndInv, LeftoverInv, Leftover, Flushing
<1> QED BY <1>1, <1>5, <1>6, <1>7, <1>9, <1>10 DEF IndInv

LEMMA ReserveKeyInd == ASSUME IndInv, ReserveKey PROVE IndInv'
<1> DEFINE n == Min(setKeyPool)
           k == IF Readable(n) THEN db.pool[n] ELSE NoKey
           r == [nIndex |-> n, key |-> k]
<1>1. /\ caller \in Holders /\ reserved' = [reserved EXCEPT ![caller] = r]
      /\ phase \in Ordinary /\ phase' \in Ordinary
      /\ UNCHANGED <<store, vMasterKey, db, rewrite, nKeys, nMasters, issued, replaced>>
  BY DEF ReserveKey, Ordinary, files, made, history
<1>2. k = NoKey \/ (n \in DOMAIN db.pool /\ k = db.pool[n])
  BY DEF Readable
<1> HIDE DEF n, k
<1>3. r.nIndex = n /\ r.key = k
  OBVIOUS
<1> HIDE DEF r
<1>4. r = [nIndex |-> r.nIndex, key |-> r.key]
  BY <1>3 DEF r
<1> QED BY <1>1, <1>2, <1>3, <1>4, ReservedInd

LEMMA ReturnKeyInd == ASSUME IndInv, NEW h \in Holders, ReturnKey(h) PROVE IndInv'
<1>1. /\ reserved' = [reserved EXCEPT ![h] = Nothing]
      /\ phase \in Ordinary /\ phase' \in Ordinary
      /\ UNCHANGED <<store, vMasterKey, db, rewrite, nKeys, nMasters, issued, replaced>>
  BY DEF ReturnKey, Ordinary, files, made, history, process
<1>2. Nothing = [nIndex |-> Nothing.nIndex, key |-> Nothing.key] /\ Nothing.key = NoKey
  BY DEF Nothing
<1> QED BY <1>1, <1>2, ReservedInd

-----------------------------------------------------------------------------
(* Steps that write to the pool                                            *)

(* The record of an index is erased, and the keys of new are kept.         *)
LEMMA ErasedInd ==
  ASSUME IndInv, NEW n, NEW new,
         db # NoFile, db' = ErasePool(db, n), issued' = issued \union new,
         new \cap Range(db'.pool) = {}, new \subseteq 1 .. nKeys,
         ~replaced => new \subseteq Keys(db),
         Leftover => new \cap Range(rewrite.pool) = {},
         phase \in {"record", "newrecord"} => fresh \notin new,
         DOMAIN reserved' = Holders,
         \A h \in Holders : reserved'[h] \in {reserved[h], Nothing},
         phase \notin {"copied", "removed"},
         \/ phase' = phase /\ fresh' = fresh
         \/ phase \in Ordinary /\ phase' \in Ordinary,
         UNCHANGED <<store, vMasterKey, rewrite, nKeys, nMasters, replaced>>
  PROVE  IndInv'
<1> USE DEF store, Ordinary
<1>1. IsFile(db) /\ nKeys \in Nat
  BY DEF IndInv, FilesInv
<1>2. /\ IsFile(db') /\ db'.key = db.key /\ db'.ckey = db.ckey /\ db'.mkey = db.mkey
      /\ db'.pool = Restrict(db.pool, DOMAIN db.pool \ {n})
      /\ Keys(db') = Keys(db)
  BY <1>1, ErasePoolStep
<1>3. /\ DOMAIN db'.pool = DOMAIN db.pool \ {n}
      /\ \A m \in DOMAIN db'.pool : db'.pool[m] = db.pool[m]
      /\ Range(db'.pool) \subseteq Range(db.pool)
      /\ Injective(db.pool) => Injective(db'.pool)
  <2>1. /\ DOMAIN db'.pool = DOMAIN db.pool \ {n}
        /\ \A m \in DOMAIN db'.pool : db'.pool[m] = db.pool[m]
    BY <1>2 DEF Restrict
  <2>2. Range(db'.pool) \subseteq Range(db.pool)
    BY <2>1 DEF Range
  <2>3. Injective(db.pool) => Injective(db'.pool)
    BY <2>1 DEF Injective
  <2> QED BY <2>1, <2>2, <2>3
<1>4. db' # NoFile /\ Main = db /\ Main' = db'
  BY <1>2, FileExists DEF Main
<1>5. FilesInv'
  BY <1>2, <1>4 DEF IndInv, FilesInv
<1>6. \A h \in Holders : /\ reserved'[h] = [nIndex |-> reserved'[h].nIndex, key |-> reserved'[h].key]
                         /\ reserved'[h].key \in {reserved[h].key, NoKey}
                         /\ reserved'[h].key \in 0 .. nKeys
                         /\ reserved'[h].key # NoKey => reserved'[h] = reserved[h]
  BY <1>1 DEF IndInv, KeysInv, Nothing, NoKey
<1>7. phase \in {"record", "newrecord"} => fresh # NoKey
  BY <1>1 DEF IndInv, KeysInv, NoKey
<1>8. KeysInv'
  BY <1>2, <1>3, <1>4, <1>6, <1>7 DEF IndInv, KeysInv
<1>9. StoreInv'
  BY <1>2, <1>4 DEF IndInv, StoreInv, Running, Flushing
<1>10. MasterInv'
  BY <1>2, <1>4, <1>6 DEF IndInv, MasterInv, Running, Loads
<1>11. PoolInv'
  <2>1. NoKey \notin Range(db.pool) /\ \A m \in DOMAIN db.pool : db.pool[m] \in Range(db.pool)
    BY <1>1 DEF IndInv, KeysInv, NoKey, Range
  <2>2. ReservedAt(db.pool)'
    BY <1>3, <1>6, <2>1 DEF IndInv, PoolInv, PoolOK, ReservedAt
  <2> QED BY <1>3, <1>4, <2>2 DEF IndInv, PoolInv, PoolOK
<1>12. LeftoverInv'
  <2>1. rewrite # NoFile => NoKey \notin Range(rewrite.pool)
    BY <1>1 DEF IndInv, KeysInv, NoKey
  <2> QED BY <1>2, <1>3, <1>4, <1>6, <2>1 DEF IndInv, LeftoverInv, Leftover, Flushing
<1> QED BY <1>5, <1>8, <1>9, <1>10, <1>11, <1>12 DEF IndInv

LEMMA KeepKeyInd == ASSUME IndInv, NEW h \in Holders, KeepKey(h) PROVE IndInv'
<1> DEFINE n == reserved[h].nIndex
           k == reserved[h].key
<1>1. /\ db' = ErasePool(db, n) /\ issued' = issued \union {k}
      /\ reserved' = [reserved EXCEPT ![h] = Nothing] /\ k # NoKey
      /\ phase \notin {"copied", "removed", "off"} /\ phase' = phase /\ fresh' = fresh
      /\ UNCHANGED <<store, vMasterKey, rewrite, nKeys, nMasters, replaced>>
  BY DEF KeepKey, KeepKeyErases, Running, process, made
<1>2. db # NoFile /\ IsFile(db) /\ nKeys \in Nat
  BY <1>1 DEF IndInv, FilesInv
<1>3. /\ DOMAIN reserved' = Holders
      /\ \A g \in Holders : reserved'[g] \in {reserved[g], Nothing}
  BY <1>1 DEF IndInv, KeysInv
<1>4. k \in 1 .. nKeys /\ (phase \in {"record", "newrecord"} => fresh # k)
  BY <1>1, <1>2 DEF IndInv, KeysInv, NoKey
<1>5. ~replaced => k \in Keys(db)
  BY <1>1, <1>2 DEF IndInv, MasterInv, Main
<1>6. Leftover => k \notin Range(rewrite.pool)
  BY DEF IndInv, LeftoverInv
<1>7. k \notin Range(db'.pool)
  <2>1. db'.pool = Restrict(db.pool, DOMAIN db.pool \ {n})
    BY <1>1, <1>2, ErasePoolStep
  <2>2. /\ DOMAIN db'.pool = DOMAIN db.pool \ {n}
        /\ \A m \in DOMAIN db'.pool : db'.pool[m] = db.pool[m]
    BY <2>1 DEF Restrict
  <2>3. \A m \in DOMAIN db.pool : db.pool[m] = k => m = n
    BY <1>2 DEF IndInv, PoolInv, PoolOK, ReservedAt
  <2> QED BY <2>2, <2>3 DEF Range
<1> HIDE DEF k, n
<1>8. /\ {k} \cap Range(db'.pool) = {} /\ {k} \subseteq 1 .. nKeys
      /\ ~replaced => {k} \subseteq Keys(db)
      /\ Leftover => {k} \cap Range(rewrite.pool) = {}
      /\ phase \in {"record", "newrecord"} => fresh \notin {k}
  BY <1>4, <1>5, <1>6, <1>7
<1> QED BY <1>1, <1>2, <1>3, <1>8, ErasedInd

LEMMA ReserveAndKeepInd == ASSUME IndInv, ReserveAndKeep PROVE IndInv'
<1> DEFINE n == Min(setKeyPool)
           k == db.pool[n]
<1>1. /\ phase = "reserve" /\ phase' = "free"
      /\ UNCHANGED <<store, vMasterKey, reserved, rewrite, nKeys, nMasters, replaced>>
      /\ IF Readable(n) THEN db' = ErasePool(db, n) /\ issued' = issued \union {k}
                        ELSE UNCHANGED <<db, issued>>
  BY DEF ReserveAndKeep, made
<1>2. CASE ~Readable(n)
  BY <1>1, <1>2, QuietInd DEF Ordinary
<1>3. CASE Readable(n)
  <2>1. /\ db # NoFile /\ IsFile(db) /\ nKeys \in Nat
        /\ phase \in Ordinary /\ phase' \in Ordinary /\ phase \notin {"copied", "removed"}
        /\ phase \notin {"record", "newrecord"}
    BY <1>1 DEF IndInv, FilesInv, Ordinary
  <2>2. n \in DOMAIN db.pool
    BY <1>3 DEF Readable
  <2>3. k \in Range(db.pool) /\ k \in Keys(db) /\ k \in 1 .. nKeys
    BY <2>1, <2>2 DEF Range, IndInv, KeysInv
  <2>4. db' = ErasePool(db, n) /\ issued' = issued \union {k}
    BY <1>1, <1>3
  <2>5. k \notin Range(db'.pool)
    <3>1. db'.pool = Restrict(db.pool, DOMAIN db.pool \ {n}) /\ Injective(db.pool)
      BY <2>1, <2>4, ErasePoolStep DEF IndInv, PoolInv
    <3> QED BY <2>2, <3>1, EraseMap
  <2>6. Leftover => k \notin Range(rewrite.pool)
    BY <2>3 DEF IndInv, LeftoverInv
  <2>7. DOMAIN reserved' = Holders /\ \A g \in Holders : reserved'[g] \in {reserved[g], Nothing}
    BY <1>1 DEF IndInv, KeysInv
  <2> HIDE DEF k, n
  <2>8. /\ {k} \cap Range(db'.pool) = {} /\ {k} \subseteq 1 .. nKeys
        /\ ~replaced => {k} \subseteq Keys(db)
        /\ Leftover => {k} \cap Range(rewrite.pool) = {}
    BY <2>3, <2>5, <2>6
  <2> QED BY <1>1, <2>1, <2>4, <2>7, <2>8, ErasedInd
<1> QED BY <1>2, <1>3

LEMMA ErasePoolRecordInd == ASSUME IndInv, ErasePoolRecord PROVE IndInv'
<1>1. /\ db' = ErasePool(db, Min(setKeyPool)) /\ issued' = issued \union {}
      /\ phase = "erase" /\ phase' = phase /\ fresh' = fresh
      /\ UNCHANGED <<store, vMasterKey, reserved, rewrite, nKeys, nMasters, replaced>>
  BY DEF ErasePoolRecord, process, made, history
<1>2. db # NoFile
  BY <1>1 DEF IndInv, FilesInv
<1>3. DOMAIN reserved' = Holders /\ \A g \in Holders : reserved'[g] \in {reserved[g], Nothing}
  BY <1>1 DEF IndInv, KeysInv
<1>4. /\ {} \cap Range(db'.pool) = {} /\ {} \subseteq 1 .. nKeys
      /\ ~replaced => {} \subseteq Keys(db)
      /\ Leftover => {} \cap Range(rewrite.pool) = {}
      /\ phase \in {"record", "newrecord"} => fresh \notin {}
      /\ phase \notin {"copied", "removed"}
  BY <1>1
<1> QED BY <1>1, <1>2, <1>3, <1>4, ErasedInd

(* The key that was made last goes into the pool, over what was there.     *)
LEMMA AddToPoolInd ==
  ASSUME IndInv, NEW n, AddToPool(n),
         \/ phase = "record" /\ phase' = "topup"
         \/ phase = "newrecord" /\ phase' = "newpool"
  PROVE  IndInv'
<1> USE DEF store
<1>1. /\ db' = WritePool(db, n, fresh)
      /\ UNCHANGED <<store, vMasterKey, reserved, rewrite, nKeys, nMasters, issued, replaced>>
  BY DEF AddToPool, made, history
<1>2. IsFile(db) /\ nKeys \in Nat /\ db # NoFile
  BY DEF IndInv, FilesInv
<1>3. /\ IsFile(db') /\ db'.key = db.key /\ db'.ckey = db.ckey /\ db'.mkey = db.mkey
      /\ db'.pool = With(db.pool, n, fresh)
      /\ Keys(db') = Keys(db)
  BY <1>1, <1>2, WritePoolStep
<1>4. /\ DOMAIN db'.pool = DOMAIN db.pool \union {n} /\ db'.pool[n] = fresh
      /\ \A m \in DOMAIN db.pool \ {n} : db'.pool[m] = db.pool[m]
      /\ Range(db'.pool) \subseteq Range(db.pool) \union {fresh}
      /\ Injective(db.pool) /\ fresh \notin Range(db.pool) => Injective(db'.pool)
  <2>1. /\ DOMAIN db'.pool = DOMAIN db.pool \union {n} /\ db'.pool[n] = fresh
        /\ \A m \in DOMAIN db.pool \ {n} : db'.pool[m] = db.pool[m]
    BY <1>3 DEF With
  <2>2. Range(db'.pool) \subseteq Range(db.pool) \union {fresh}
    BY <2>1 DEF Range
  <2>3. Injective(db.pool) /\ fresh \notin Range(db.pool) => Injective(db'.pool)
    BY <2>1 DEF Injective, Range
  <2> QED BY <2>1, <2>2, <2>3
<1>5. db' # NoFile /\ Main = db /\ Main' = db'
  BY <1>2, <1>3, FileExists DEF Main
<1>6. /\ fresh \in Keys(db) /\ fresh \notin Range(db.pool) \union issued
      /\ \A h \in Holders : fresh # reserved[h].key
  BY DEF IndInv, KeysInv
<1>7. FilesInv'
  BY <1>1, <1>3, <1>5 DEF IndInv, FilesInv, Flushing
<1>8. KeysInv'
  BY <1>1, <1>2, <1>3, <1>4, <1>5, <1>6 DEF IndInv, KeysInv
<1>9. StoreInv'
  BY <1>1, <1>3, <1>5 DEF IndInv, StoreInv, Running, Flushing
<1>10. MasterInv'
  BY <1>1, <1>3, <1>5 DEF IndInv, MasterInv, Running, Loads
<1>11. PoolInv'
  <2>1. ReservedAt(db.pool)'
    BY <1>1, <1>2, <1>4, <1>6 DEF IndInv, PoolInv, PoolOK, ReservedAt
  <2> QED BY <1>1, <1>2, <1>4, <1>5, <1>6, <2>1 DEF IndInv, PoolInv, PoolOK
<1>12. LeftoverInv'
  <2>1. Leftover' => Leftover
    BY <1>1, <1>2, <1>3 DEF Leftover, Flushing
  <2>2. Leftover => fresh \notin Range(rewrite.pool)
    BY DEF IndInv, LeftoverInv
  <2> QED BY <1>1, <1>3, <1>4, <2>1, <2>2 DEF IndInv, LeftoverInv
<1> QED BY <1>7, <1>8, <1>9, <1>10, <1>11, <1>12 DEF IndInv

-----------------------------------------------------------------------------
(* New keys                                                                *)

LEMMA GenerateNewKeyInd ==
  ASSUME IndInv, GenerateNewKey,
         \/ phase = "topup" /\ phase' = "record"
         \/ phase \in {"erase", "newpool"} /\ phase' = "newrecord"
  PROVE  IndInv'
<1> DEFINE k == nKeys + 1
<1>1. /\ nKeys' = k /\ fresh' = k /\ db' = FileWithKey(db, k)
      /\ fUseCrypto => vMasterKey # NoKey
      /\ fUseCrypto => mapCryptedKeys' = With(mapCryptedKeys, k, vMasterKey) /\ mapKeys' = mapKeys
      /\ ~fUseCrypto => mapKeys' = mapKeys \union {k} /\ mapCryptedKeys' = mapCryptedKeys
      /\ UNCHANGED <<mapMasterKeys, fUseCrypto, vMasterKey, reserved, rewrite, nMasters, issued, replaced>>
  BY DEF GenerateNewKey, IsLocked
<1>2. IsFile(db) /\ nKeys \in Nat /\ db # NoFile
  BY DEF IndInv, FilesInv
<1>3. /\ IsFile(db') /\ db'.mkey = db.mkey /\ db'.pool = db.pool
      /\ fUseCrypto => db'.key = db.key /\ db'.ckey = With(db.ckey, k, vMasterKey)
      /\ ~fUseCrypto => db'.key = db.key \union {k} /\ db'.ckey = db.ckey
      /\ Keys(db') = Keys(db) \union {k}
  BY <1>1, <1>2, FileWithKeyStep
<1>4. db' # NoFile /\ Main = db /\ Main' = db'
  BY <1>2, <1>3, FileExists DEF Main
<1>5. k \in Nat /\ k \notin 0 .. nKeys /\ k \in 1 .. k /\ 1 .. nKeys \subseteq 1 .. k
      /\ 0 .. nKeys \subseteq 0 .. k /\ 1 .. nKeys \subseteq 0 .. nKeys
  BY <1>2
<1> HIDE DEF k
<1>6. FilesInv'
  BY <1>1, <1>3, <1>4, <1>5 DEF IndInv, FilesInv, Flushing
<1>7. KeysInv'
  <2>1. /\ Keys(db) \subseteq 1 .. nKeys /\ Range(db.pool) \subseteq Keys(db)
        /\ issued \subseteq 1 .. nKeys
        /\ \A h \in Holders : reserved[h].key \in 0 .. nKeys
    BY <1>2 DEF IndInv, KeysInv
  <2>2. Keys(db') \subseteq 1 .. k /\ Range(db'.pool) \subseteq Keys(db') /\ k \in Keys(db')
    BY <1>3, <1>5, <2>1
  <2>3. k \notin Range(db.pool) \union issued /\ \A h \in Holders : k # reserved[h].key
    BY <1>5, <2>1
  <2> QED BY <1>1, <1>3, <1>4, <1>5, <2>1, <2>2, <2>3 DEF IndInv, KeysInv
<1>8. StoreInv'
  <2>1. Running /\ phase # "encrypted" /\ phase' # "encrypted" /\ phase' \notin {"copied", "removed"}
    BY DEF Running
  <2> QED BY <1>1, <1>3, <1>4, <2>1 DEF IndInv, StoreInv, Running, Flushing
<1>9. MasterInv'
  <2> SUFFICES ASSUME ~replaced PROVE MasterInv'
    BY <1>1 DEF MasterInv
  <2>1. /\ db.mkey \in Seq(Nat) /\ mapMasterKeys = db.mkey /\ SameMap(mapCryptedKeys, db.ckey)
        /\ vMasterKey # NoKey => vMasterKey \in Range(db.mkey)
        /\ \A c \in DOMAIN db.ckey : db.ckey[c] \in Range(db.mkey)
        /\ issued \union mapKeys \union DOMAIN mapCryptedKeys \subseteq Keys(db)
        /\ \A h \in Holders : reserved[h].key \in Keys(db) \union {NoKey}
        /\ Loads(db)
    BY <1>4 DEF IndInv, MasterInv, Running
  <2>2. /\ SameMap(mapCryptedKeys', db'.ckey)
        /\ \A c \in DOMAIN db'.ckey : db'.ckey[c] \in Range(db.mkey)
    <3>1. CASE fUseCrypto
      BY <1>1, <1>3, <2>1, <3>1 DEF SameMap, With
    <3>2. CASE ~fUseCrypto
      BY <1>1, <1>3, <2>1, <3>2 DEF SameMap
    <3> QED BY <3>1, <3>2
  <2>3. mapKeys' \union DOMAIN mapCryptedKeys' \subseteq Keys(db')
    <3>1. CASE fUseCrypto
      BY <1>1, <1>3, <2>1, <3>1 DEF With
    <3>2. CASE ~fUseCrypto
      BY <1>1, <1>3, <2>1, <3>2
    <3> QED BY <3>1, <3>2
  <2>4. Loads(db')
    <3>1. (fUseCrypto => db.key = {}) /\ (~fUseCrypto => DOMAIN db.ckey = {})
      BY <1>4 DEF IndInv, StoreInv, Running
    <3> QED BY <1>3, <3>1 DEF Loads
  <2> QED BY <1>1, <1>3, <1>4, <2>1, <2>2, <2>3, <2>4 DEF MasterInv
<1>10. PoolInv'
  BY <1>1, <1>2, <1>3, <1>4 DEF IndInv, PoolInv, PoolOK, ReservedAt
<1>11. LeftoverInv'
  <2>1. Leftover' => Leftover
    <3>1. fUseCrypto => k \in DOMAIN db'.ckey
      BY <1>3 DEF With
    <3> QED BY <1>1, <1>2, <1>3, <3>1 DEF Leftover, Flushing
  <2>2. Leftover => k \notin Range(rewrite.pool)
    BY <1>5 DEF IndInv, KeysInv, Leftover
  <2> QED BY <1>1, <1>3, <2>1, <2>2 DEF IndInv, LeftoverInv
<1> QED BY <1>6, <1>7, <1>8, <1>9, <1>10, <1>11 DEF IndInv

-----------------------------------------------------------------------------
(* EncryptWallet and the start                                             *)

LEMMA EncryptKeysInd == ASSUME IndInv, EncryptKeys PROVE IndInv'
<1> USE DEF files, history
<1>1. /\ phase = "free" /\ phase' = "encrypted" /\ ~fUseCrypto /\ fUseCrypto' = TRUE
      /\ nMasters' = nMasters + 1 /\ mapMasterKeys' = Append(mapMasterKeys, nMasters')
      /\ mapCryptedKeys' = [k \in mapKeys |-> nMasters'] /\ mapKeys' = {}
      /\ UNCHANGED <<vMasterKey, reserved, db, rewrite, nKeys, issued, replaced>>
  BY DEF EncryptKeys
<1>2. nMasters' \in Nat /\ db # NoFile /\ Main = db /\ Main' = db
  BY <1>1 DEF IndInv, FilesInv, Main
<1>3. /\ DOMAIN db.ckey = {} /\ mapKeys = db.key /\ vMasterKey = NoKey
      /\ DOMAIN mapCryptedKeys' = db.key
      /\ \A k \in db.key : mapCryptedKeys'[k] = nMasters'
  BY <1>1, <1>2 DEF IndInv, StoreInv, Running
<1>4. FilesInv'
  BY <1>1, <1>2 DEF IndInv, FilesInv
<1>5. KeysInv'
  BY <1>1 DEF IndInv, KeysInv
<1>6. StoreInv'
  BY <1>1, <1>2, <1>3 DEF StoreInv, Running
<1>7. MasterInv'
  <2> SUFFICES ASSUME ~replaced PROVE MasterInv'
    BY <1>1 DEF MasterInv
  <2>1. /\ db.mkey \in Seq(Nat) /\ mapMasterKeys = db.mkey
        /\ \A c \in DOMAIN db.ckey : db.ckey[c] \in Range(db.mkey)
        /\ issued \union mapKeys \union DOMAIN mapCryptedKeys \subseteq Keys(db)
        /\ \A h \in Holders : reserved[h].key \in Keys(db) \union {NoKey}
        /\ Loads(db)
    BY <1>1, <1>2 DEF IndInv, MasterInv, Running
  <2>2. mapMasterKeys' \in Seq(Nat) /\ mapMasterKeys' = Append(db.mkey, nMasters')
    BY <1>1, <1>2, <2>1
  <2>3. nMasters' \in Range(mapMasterKeys')
    <3>1. /\ Len(db.mkey) + 1 \in DOMAIN Append(db.mkey, nMasters')
          /\ Append(db.mkey, nMasters')[Len(db.mkey) + 1] = nMasters'
      BY <1>2, <2>1
    <3> QED BY <2>2, <3>1 DEF Range
  <2>4. DOMAIN mapCryptedKeys' \subseteq Keys(db)
    BY <1>3 DEF Keys
  <2> QED BY <1>1, <1>2, <1>3, <2>1, <2>2, <2>3, <2>4 DEF MasterInv
<1>8. PoolInv'
  BY <1>1, <1>2 DEF IndInv, PoolInv, PoolOK, ReservedAt
<1>9. LeftoverInv'
  BY <1>1 DEF IndInv, LeftoverInv, Leftover, Flushing
<1> QED BY <1>4, <1>5, <1>6, <1>7, <1>8, <1>9 DEF IndInv

LEMMA TxnCommitInd == ASSUME IndInv, TxnCommit PROVE IndInv'
<1>1. /\ phase = "encrypted" /\ phase' = "erase" /\ db' = Committed(db)
      /\ vMasterKey' \in Opening
      /\ UNCHANGED <<store, reserved, rewrite, nKeys, nMasters, issued, replaced>>
  BY DEF TxnCommit, made, history
<1>2. IsFile(db) /\ db # NoFile /\ Main = db
  BY <1>1 DEF IndInv, FilesInv, Main
<1>3. fUseCrypto /\ mapKeys = {} /\ DOMAIN db.ckey = {} /\ DOMAIN mapCryptedKeys = db.key
  BY <1>1 DEF IndInv, StoreInv, Running
<1>4. PICK c : c = Merged(mapCryptedKeys, db.ckey)
  OBVIOUS
<1>5. DOMAIN c = DOMAIN mapCryptedKeys /\ \A k \in DOMAIN c : c[k] = mapCryptedKeys[k]
  BY <1>3, <1>4 DEF Merged
<1>6. db' = [db EXCEPT !.key = db.key \ DOMAIN mapCryptedKeys, !.ckey = c, !.mkey = mapMasterKeys]
  BY <1>1, <1>4 DEF Committed
<1>7. /\ IsFile(db') /\ db'.key = {} /\ db'.ckey = c /\ db'.mkey = mapMasterKeys
      /\ db'.pool = db.pool
  BY <1>2, <1>3, <1>6 DEF IsFile
<1>8. Keys(db') = Keys(db)
  BY <1>3, <1>5, <1>7 DEF Keys
<1>9. db' # NoFile /\ Main' = db'
  BY <1>7, FileExists DEF Main
<1> USE DEF store
<1>10. FilesInv'
  BY <1>1, <1>7, <1>9 DEF IndInv, FilesInv, Flushing
<1>11. KeysInv'
  BY <1>1, <1>2, <1>7, <1>8, <1>9 DEF IndInv, KeysInv
<1>12. StoreInv'
  BY <1>1, <1>3, <1>7, <1>9 DEF StoreInv, Running
<1>13. Opening \subseteq Range(mapMasterKeys)
  BY DEF Opening
<1>14. MasterInv'
  <2> SUFFICES ASSUME ~replaced PROVE MasterInv'
    BY <1>1 DEF MasterInv
  <2>1. /\ mapMasterKeys \in Seq(Nat)
        /\ \A k \in DOMAIN mapCryptedKeys : mapCryptedKeys[k] \in Range(mapMasterKeys)
        /\ issued \union mapKeys \union DOMAIN mapCryptedKeys \subseteq Keys(db)
        /\ \A h \in Holders : reserved[h].key \in Keys(db) \union {NoKey}
    BY <1>1, <1>2 DEF IndInv, MasterInv, Running
  <2>2. SameMap(mapCryptedKeys, c) /\ Loads(db')
    BY <1>5, <1>7 DEF SameMap, Loads
  <2> QED BY <1>1, <1>5, <1>7, <1>8, <1>9, <1>13, <2>1, <2>2 DEF MasterInv
<1>15. PoolInv'
  BY <1>1, <1>2, <1>7, <1>9 DEF IndInv, PoolInv, PoolOK, ReservedAt
<1>16. LeftoverInv'
  <2>1. Leftover' => Leftover
    BY <1>1, <1>2, <1>3 DEF Leftover
  <2>2. ~replaced => /\ DOMAIN db.mkey \subseteq DOMAIN mapMasterKeys
                     /\ \A n \in DOMAIN db.mkey : mapMasterKeys[n] = db.mkey[n]
    <3> SUFFICES ASSUME ~replaced
                 PROVE  /\ DOMAIN db.mkey \subseteq DOMAIN mapMasterKeys
                        /\ \A n \in DOMAIN db.mkey : mapMasterKeys[n] = db.mkey[n]
      OBVIOUS
    <3>1. db.mkey \in Seq(Nat) /\ mapMasterKeys = Append(db.mkey, nMasters) /\ nMasters \in Nat
      BY <1>1, <1>2 DEF IndInv, MasterInv, FilesInv, Running
    <3> QED BY <3>1
  <2> QED BY <1>1, <1>7, <2>1, <2>2 DEF IndInv, LeftoverInv
<1> QED BY <1>10, <1>11, <1>12, <1>14, <1>15, <1>16 DEF IndInv

(* Records of wallet.dat are put into the other file: all of them, or those *)
(* in g when the process is killed.                                        *)
LEMMA CopiedInd ==
  ASSUME IndInv, NEW g, IsFile(g), g.key = {}, rewrite' = CopiedInto(rewrite, g),
         DOMAIN g.ckey \subseteq DOMAIN db.ckey, Range(g.pool) \subseteq Keys(g),
         DOMAIN g.mkey \subseteq DOMAIN db.mkey, \A n \in DOMAIN g.mkey : g.mkey[n] = db.mkey[n],
         DOMAIN g.pool \subseteq DOMAIN db.pool, \A n \in DOMAIN g.pool : g.pool[n] = db.pool[n],
         phase \in {"erase", "newpool"},
         \/ phase' = "copied" /\ g = db /\ vMasterKey' = NoKey
         \/ phase' = "off",
         UNCHANGED <<store, reserved, db, nKeys, nMasters, issued, replaced>>
  PROVE  IndInv'
<1>1. phase \in {"erase", "newpool"} /\ phase' \in {"copied", "off"}
      /\ UNCHANGED <<store, reserved, db, nKeys, nMasters, issued, replaced>>
  OBVIOUS
<1>2. IsFile(db) /\ db # NoFile /\ Main = db /\ Main' = db /\ nKeys \in Nat
  BY <1>1 DEF IndInv, FilesInv, Main
<1>3. fUseCrypto /\ mapKeys = {} /\ db.key = {}
  BY <1>1, <1>2 DEF IndInv, StoreInv, Running, Flushing
<1> DEFINE c == Merged(rewrite.ckey, g.ckey)
           m == Merged(rewrite.mkey, g.mkey)
           p == Merged(rewrite.pool, g.pool)
<1>4. rewrite # NoFile => rewrite' = [key |-> rewrite.key \union g.key, ckey |-> c, mkey |-> m, pool |-> p]
  BY DEF CopiedInto
<1>5. rewrite = NoFile => rewrite' = g
  BY DEF CopiedInto
<1> HIDE DEF c, m, p
<1>6. IsFile(rewrite') /\ rewrite' # NoFile /\ rewrite'.key = {}
  <2>1. CASE rewrite = NoFile
    BY <1>5, <2>1, FileExists
  <2>2. CASE rewrite # NoFile
    <3>1. IsFile(rewrite') /\ rewrite'.key = {}
      BY <1>3, <1>4, <2>2 DEF IndInv, FilesInv, IsFile
    <3> QED BY <3>1, FileExists
  <2> QED BY <2>1, <2>2
<1>7. rewrite # NoFile => rewrite'.ckey = c /\ rewrite'.mkey = m /\ rewrite'.pool = p
  BY <1>4
<1>8. DOMAIN c = DOMAIN rewrite.ckey \union DOMAIN g.ckey
  BY DEF c, Merged
<1>9. rewrite # NoFile => Leftover
  BY <1>1, <1>2 DEF Leftover, Flushing
<1>10. /\ DOMAIN p = DOMAIN rewrite.pool \union DOMAIN g.pool
       /\ \A x \in DOMAIN rewrite.pool : p[x] = rewrite.pool[x]
       /\ \A x \in DOMAIN g.pool \ DOMAIN rewrite.pool : p[x] = g.pool[x]
       /\ Range(p) \subseteq Range(rewrite.pool) \union Range(g.pool)
       /\ (Injective(rewrite.pool) /\ Injective(g.pool) /\ Range(rewrite.pool) \cap Range(g.pool) = {})
            => Injective(p)
  <2>1. /\ DOMAIN p = DOMAIN rewrite.pool \union DOMAIN g.pool
        /\ \A x \in DOMAIN rewrite.pool : p[x] = rewrite.pool[x]
        /\ \A x \in DOMAIN g.pool \ DOMAIN rewrite.pool : p[x] = g.pool[x]
    BY DEF p, Merged
  <2>2. Range(p) \subseteq Range(rewrite.pool) \union Range(g.pool)
    BY <2>1 DEF Range
  <2>3. ASSUME Injective(rewrite.pool), Injective(g.pool), Range(rewrite.pool) \cap Range(g.pool) = {},
               NEW x \in DOMAIN p, NEW y \in DOMAIN p, p[x] = p[y]
        PROVE  x = y
    <3>1. /\ x \in DOMAIN rewrite.pool => p[x] \in Range(rewrite.pool)
          /\ x \notin DOMAIN rewrite.pool => p[x] \in Range(g.pool)
          /\ y \in DOMAIN rewrite.pool => p[y] \in Range(rewrite.pool)
          /\ y \notin DOMAIN rewrite.pool => p[y] \in Range(g.pool)
      BY <2>1 DEF Range
    <3>2. CASE x \in DOMAIN rewrite.pool /\ y \in DOMAIN rewrite.pool
      BY <2>1, <2>3, <3>2 DEF Injective
    <3>3. CASE x \notin DOMAIN rewrite.pool /\ y \notin DOMAIN rewrite.pool
      BY <2>1, <2>3, <3>3 DEF Injective
    <3> QED BY <2>3, <3>1, <3>2, <3>3
  <2>4. Injective(rewrite.pool) /\ Injective(g.pool) /\ Range(rewrite.pool) \cap Range(g.pool) = {}
          => Injective(p)
    BY <2>3 DEF Injective
  <2> QED BY <2>1, <2>2, <2>4
<1>11. rewrite # NoFile =>
         /\ Keys(rewrite') = Keys(rewrite) \union Keys(g)
         /\ Range(rewrite'.pool) \subseteq Range(rewrite.pool) \union Range(g.pool)
  BY <1>3, <1>6, <1>7, <1>8, <1>10 DEF Keys, IndInv, FilesInv
<1> USE DEF store
<1>12. Keys(g) \subseteq 1 .. nKeys /\ Range(g.pool) \subseteq Range(db.pool)
       /\ (Injective(db.pool) => Injective(g.pool))
  <2>1. Keys(g) \subseteq Keys(db) /\ Keys(db) \subseteq 1 .. nKeys
    BY <1>2 DEF Keys, IndInv, KeysInv
  <2>2. Range(g.pool) \subseteq Range(db.pool)
    BY DEF Range
  <2>3. Injective(db.pool) => Injective(g.pool)
    BY DEF Injective
  <2> QED BY <2>1, <2>2, <2>3
<1>13. FilesInv'
  BY <1>1, <1>2, <1>6 DEF IndInv, FilesInv
<1>14. KeysInv'
  <2>1. Keys(rewrite') \subseteq 1 .. nKeys /\ Range(rewrite'.pool) \subseteq Keys(rewrite')
    <3>1. CASE rewrite = NoFile
      BY <1>2, <1>5, <1>12, <3>1
    <3>2. CASE rewrite # NoFile
      BY <1>2, <1>11, <1>12, <3>2 DEF IndInv, KeysInv
    <3> QED BY <3>1, <3>2
  <2> QED BY <1>1, <2>1 DEF IndInv, KeysInv
<1>15. StoreInv'
  BY <1>1, <1>2, <1>3 DEF IndInv, StoreInv, Running
<1>16. MasterInv'
  <2> SUFFICES ASSUME ~replaced PROVE MasterInv'
    BY <1>1 DEF MasterInv
  <2>1. db.mkey \in Seq(Nat)
    BY <1>2 DEF IndInv, MasterInv
  <2>2. ASSUME g = db PROVE rewrite'.mkey = db.mkey /\ SameMap(rewrite'.ckey, db.ckey)
    <3>1. CASE rewrite = NoFile
      BY <1>5, <2>2, <3>1 DEF SameMap
    <3>2. CASE rewrite # NoFile
      <4>1. /\ DOMAIN rewrite.ckey = {} /\ DOMAIN rewrite.mkey \subseteq DOMAIN db.mkey
            /\ \A n \in DOMAIN rewrite.mkey : rewrite.mkey[n] = db.mkey[n]
        BY <1>9, <3>2 DEF IndInv, LeftoverInv
      <4>2. SameMap(c, db.ckey)
        BY <2>2, <4>1 DEF SameMap, c, Merged
      <4>3. m = [n \in DOMAIN db.mkey |-> db.mkey[n]]
        <5>1. DOMAIN rewrite.mkey \union DOMAIN db.mkey = DOMAIN db.mkey
          BY <4>1
        <5> QED BY <2>2, <4>1, <5>1 DEF m, Merged
      <4>4. m = db.mkey
        BY <2>1, <4>3
      <4> QED BY <1>7, <3>2, <4>2, <4>4
    <3> QED BY <3>1, <3>2
  <2> QED BY <1>1, <1>2, <2>2 DEF IndInv, MasterInv, Running
<1>17. Injective(rewrite'.pool) /\ PoolOK(rewrite.pool)'
  <2>1. Injective(g.pool) /\ PoolOK(db.pool) /\ PoolOK(g.pool)
    <3>1. Injective(db.pool) /\ PoolOK(db.pool)
      BY <1>2 DEF IndInv, PoolInv
    <3> QED BY <1>12, <3>1 DEF PoolOK, ReservedAt
  <2>2. CASE rewrite = NoFile
    BY <1>1, <1>5, <2>2, <2>1 DEF PoolOK, ReservedAt
  <2>3. CASE rewrite # NoFile
    <3>1. /\ Injective(rewrite.pool) /\ Injective(g.pool) /\ PoolOK(g.pool)
          /\ Range(rewrite.pool) \cap (issued \union Range(g.pool)) = {}
          /\ \A h \in Holders : reserved[h].key \notin Range(rewrite.pool)
      BY <1>9, <1>12, <2>3, <2>1 DEF IndInv, PoolInv, LeftoverInv
    <3>2. Injective(p)
      BY <1>10, <3>1
    <3>3. Range(p) \cap issued = {}
      BY <1>10, <3>1 DEF PoolOK
    <3>4. \A x \in DOMAIN rewrite.pool : rewrite.pool[x] \in Range(rewrite.pool)
      BY DEF Range
    <3>5. \A h \in Holders : \A x \in DOMAIN p : p[x] = reserved[h].key => x = reserved[h].nIndex
      BY <1>10, <3>1, <3>4 DEF PoolOK, ReservedAt
    <3> QED BY <1>1, <1>7, <2>3, <3>2, <3>3, <3>5 DEF PoolOK, ReservedAt
  <2> QED BY <2>2, <2>3
<1>18. PoolInv'
  BY <1>1, <1>2, <1>17 DEF IndInv, PoolInv, PoolOK, ReservedAt
<1>19. LeftoverInv'
  <2> SUFFICES ASSUME Leftover' PROVE LeftoverInv'
    BY DEF LeftoverInv
  <2>1. DOMAIN db.ckey = {}
    BY <1>1 DEF Leftover, Flushing
  <2>2. Range(db.pool) = {} /\ Range(g.pool) = {} /\ DOMAIN g.ckey = {}
    BY <1>2, <1>3, <1>12, <2>1 DEF Keys, IndInv, KeysInv
  <2>3. CASE rewrite = NoFile
    <3>1. rewrite' = g
      BY <1>5, <2>3
    <3> QED BY <1>1, <2>1, <2>2, <3>1 DEF LeftoverInv
  <2>4. CASE rewrite # NoFile
    <3>1. /\ Range(rewrite.pool) \cap (issued \union Range(db.pool)) = {}
          /\ \A h \in Holders : reserved[h].key \notin Range(rewrite.pool)
          /\ ~replaced =>
               /\ DOMAIN rewrite.ckey = {} /\ DOMAIN rewrite.mkey \subseteq DOMAIN db.mkey
               /\ \A n \in DOMAIN rewrite.mkey : rewrite.mkey[n] = db.mkey[n]
      BY <1>9, <2>4 DEF IndInv, LeftoverInv
    <3>2. Range(rewrite'.pool) \subseteq Range(rewrite.pool)
      BY <1>11, <2>2, <2>4
    <3>3. ~replaced => /\ DOMAIN c = {}
                       /\ DOMAIN m \subseteq DOMAIN db.mkey
                       /\ \A n \in DOMAIN m : m[n] = db.mkey[n]
      BY <1>8, <2>2, <3>1 DEF m, Merged
    <3> QED BY <1>1, <1>7, <2>2, <2>4, <3>1, <3>2, <3>3 DEF LeftoverInv
  <2> QED BY <2>3, <2>4
<1> QED BY <1>13, <1>14, <1>15, <1>16, <1>18, <1>19 DEF IndInv

LEMMA RewriteCopiesInd == ASSUME IndInv, RewriteCopies PROVE IndInv'
<1>1. /\ phase \in {"erase", "newpool"} /\ phase' = "copied" /\ vMasterKey' = NoKey
      /\ rewrite' = CopiedInto(rewrite, db)
      /\ UNCHANGED <<store, reserved, db, nKeys, nMasters, issued, replaced>>
  BY DEF RewriteCopies, RewriteDue, made, history
<1>2. IsFile(db) /\ db.key = {} /\ Range(db.pool) \subseteq Keys(db)
  BY <1>1 DEF IndInv, FilesInv, KeysInv, StoreInv, Running, Main, Flushing
<1> QED BY ONLY IndInv, <1>1, <1>2, CopiedInd

LEMMA BeginningIs ==
  ASSUME NEW f, IsFile(f), NEW K, NEW M, NEW P
  PROVE  LET g == Beginning(f, K, M, P)
         IN  /\ IsFile(g) /\ g.key = f.key /\ g.ckey = Restrict(f.ckey, K)
             /\ g.mkey = Restrict(f.mkey, M) /\ g.pool = Restrict(f.pool, P)
<1> DEFINE g == Beginning(f, K, M, P)
<1>1. PICK c, m, p : c = Restrict(f.ckey, K) /\ m = Restrict(f.mkey, M) /\ p = Restrict(f.pool, P)
  OBVIOUS
<1>2. g = [f EXCEPT !.ckey = c, !.mkey = m, !.pool = p]
  BY <1>1 DEF Beginning
<1> HIDE DEF g
<1>3. IsFile(g) /\ g.key = f.key /\ g.ckey = c /\ g.mkey = m /\ g.pool = p
  BY <1>2 DEF IsFile
<1> QED BY <1>1, <1>3 DEF g

LEMMA RewriteCutShortInd == ASSUME IndInv, RewriteCutShort PROVE IndInv'
<1>1. PICK K \in SUBSET DOMAIN db.ckey, M \in SUBSET DOMAIN db.mkey, P \in SUBSET DOMAIN db.pool :
        /\ M \union P # {} => K = DOMAIN db.ckey
        /\ rewrite' = CopiedInto(rewrite, Beginning(db, K, M, P))
  BY DEF RewriteCutShort
<1> DEFINE g == Beginning(db, K, M, P)
<1>2. /\ phase \in {"erase", "newpool"} /\ phase' = "off"
      /\ UNCHANGED <<store, reserved, db, nKeys, nMasters, issued, replaced>>
  BY DEF RewriteCutShort, RewriteDue, history
<1>3. IsFile(db) /\ db.key = {} /\ Range(db.pool) \subseteq Keys(db)
  BY <1>2 DEF IndInv, FilesInv, KeysInv, StoreInv, Running, Main, Flushing
<1>4. /\ IsFile(g) /\ g.key = {} /\ g.ckey = Restrict(db.ckey, K)
      /\ g.mkey = Restrict(db.mkey, M) /\ g.pool = Restrict(db.pool, P)
  BY <1>3, BeginningIs
<1>5. rewrite' = CopiedInto(rewrite, g)
  BY <1>1
<1> HIDE DEF g
<1>6. /\ DOMAIN g.ckey = K /\ DOMAIN g.mkey = M /\ DOMAIN g.pool = P
      /\ \A n \in DOMAIN g.mkey : g.mkey[n] = db.mkey[n]
      /\ \A n \in DOMAIN g.pool : g.pool[n] = db.pool[n]
  BY <1>4 DEF Restrict
<1>7. Range(g.pool) \subseteq Keys(g)
  <2>1. CASE P = {}
    BY <1>6, <2>1 DEF Range
  <2>2. CASE P # {}
    <3>1. K = DOMAIN db.ckey
      BY <1>1, <2>2
    <3>2. Range(g.pool) \subseteq Range(db.pool)
      BY <1>6 DEF Range
    <3> QED BY <1>3, <1>4, <1>6, <3>1, <3>2 DEF Keys
  <2> QED BY <2>1, <2>2
<1> QED BY <1>2, <1>4, <1>5, <1>6, <1>7, CopiedInd

LEMMA RewriteRemovesInd == ASSUME IndInv, RewriteRemoves PROVE IndInv'
<1>1. /\ phase = "copied" /\ phase' = "removed" /\ db' = NoFile
      /\ UNCHANGED <<store, vMasterKey, reserved, rewrite, nKeys, nMasters, issued, replaced>>
  BY DEF RewriteRemoves, made, history
<1>2. db # NoFile /\ rewrite # NoFile /\ Main = db /\ Main' = rewrite /\ rewrite.key = {}
  BY <1>1 DEF IndInv, FilesInv, Main
<1>3. fUseCrypto /\ mapKeys = {} /\ db.key = {}
  BY <1>1, <1>2 DEF IndInv, StoreInv, Running
<1> USE DEF store
<1>4. FilesInv'
  BY <1>1, <1>2 DEF IndInv, FilesInv
<1>5. KeysInv'
  BY <1>1, <1>2 DEF IndInv, KeysInv
<1>6. StoreInv'
  BY <1>1, <1>2, <1>3 DEF IndInv, StoreInv, Running
<1>7. MasterInv'
  <2> SUFFICES ASSUME ~replaced PROVE MasterInv'
    BY <1>1 DEF MasterInv
  <2>1. rewrite.mkey = db.mkey /\ SameMap(rewrite.ckey, db.ckey)
    BY <1>1 DEF IndInv, MasterInv
  <2>2. Keys(rewrite) = Keys(db)
    BY <1>2, <1>3, <2>1 DEF Keys, SameMap
  <2>3. /\ db.mkey \in Seq(Nat) /\ mapMasterKeys = db.mkey /\ SameMap(mapCryptedKeys, db.ckey)
        /\ vMasterKey # NoKey => vMasterKey \in Range(mapMasterKeys)
        /\ \A k \in DOMAIN db.ckey : db.ckey[k] \in Range(db.mkey)
        /\ issued \union mapKeys \union DOMAIN mapCryptedKeys \subseteq Keys(db)
        /\ \A h \in Holders : reserved[h].key \in Keys(db) \union {NoKey}
    BY <1>1, <1>2 DEF IndInv, MasterInv, Running
  <2>4. /\ SameMap(mapCryptedKeys, rewrite.ckey)
        /\ \A k \in DOMAIN rewrite.ckey : rewrite.ckey[k] \in Range(rewrite.mkey)
    BY <2>1, <2>3 DEF SameMap
  <2>5. Loads(rewrite)
    BY <1>2 DEF Loads
  <2> QED BY <1>1, <1>2, <2>1, <2>2, <2>3, <2>4, <2>5 DEF MasterInv
<1>8. PoolInv'
  BY <1>1, <1>2 DEF IndInv, PoolInv, PoolOK, ReservedAt
<1>9. LeftoverInv'
  BY <1>1 DEF LeftoverInv, Leftover
<1> QED BY <1>4, <1>5, <1>6, <1>7, <1>8, <1>9 DEF IndInv

LEMMA RewriteRenamesInd == ASSUME IndInv, RewriteRenames PROVE IndInv'
<1>1. /\ phase = "removed" /\ phase' = "free" /\ db' = rewrite /\ rewrite' = NoFile
      /\ UNCHANGED <<store, vMasterKey, reserved, nKeys, nMasters, issued, replaced>>
  BY DEF RewriteRenames, made, history
<1>2. db = NoFile /\ rewrite # NoFile /\ Main = rewrite /\ Main' = rewrite
  BY <1>1 DEF IndInv, FilesInv, Main
<1> USE DEF store
<1>3. FilesInv'
  BY <1>1, <1>2 DEF IndInv, FilesInv
<1>4. KeysInv'
  BY <1>1, <1>2 DEF IndInv, KeysInv
<1>5. StoreInv'
  BY <1>1, <1>2 DEF IndInv, StoreInv, Running, Flushing
<1>6. MasterInv'
  BY <1>1, <1>2 DEF IndInv, MasterInv, Running
<1>7. PoolInv'
  BY <1>1, <1>2 DEF IndInv, PoolInv, PoolOK, ReservedAt
<1>8. LeftoverInv'
  BY <1>1 DEF LeftoverInv, Leftover
<1> QED BY <1>3, <1>4, <1>5, <1>6, <1>7, <1>8 DEF IndInv

LEMMA EmptyFileIs ==
  /\ IsFile(EmptyFile) /\ Keys(EmptyFile) = {} /\ Range(EmptyFile.pool) = {}
  /\ DOMAIN EmptyFile.pool = {} /\ DOMAIN EmptyFile.ckey = {} /\ EmptyFile.key = {}
  /\ EmptyFile.mkey \in Seq(Nat)
<1>1. /\ EmptyFile.key = {} /\ EmptyFile.ckey = << >> /\ EmptyFile.mkey = << >>
      /\ EmptyFile.pool = << >> /\ IsFile(EmptyFile)
  BY DEF EmptyFile, IsFile
<1>2. DOMAIN << >> = {} /\ << >> \in Seq(Nat)
  OBVIOUS
<1> QED BY <1>1, <1>2 DEF Keys, Range

LEMMA StartInd == ASSUME IndInv, Start PROVE IndInv'
<1> DEFINE f == IF db = NoFile THEN EmptyFile ELSE db
<1>1. /\ phase = "off" /\ phase' = "free" /\ Loads(f) /\ db' = f
      /\ replaced' = (replaced \/ db = NoFile)
      /\ mapKeys' = f.key /\ mapCryptedKeys' = f.ckey /\ mapMasterKeys' = f.mkey
      /\ fUseCrypto' = (DOMAIN f.ckey # {}) /\ vMasterKey' = NoKey
      /\ reserved' = [h \in Holders |-> Nothing]
      /\ UNCHANGED <<rewrite, nKeys, nMasters, issued>>
  BY DEF Start, made
<1>2. /\ db = NoFile => f = EmptyFile
      /\ db # NoFile => f = db
  OBVIOUS
<1> HIDE DEF f
<1>3. IsFile(f) /\ f # NoFile /\ nKeys \in Nat /\ Main' = f
  BY <1>1, <1>2, EmptyFileIs, FileExists DEF IndInv, FilesInv, Main
<1>4. /\ DOMAIN reserved' = Holders
      /\ \A h \in Holders :
           /\ reserved'[h] = [nIndex |-> reserved'[h].nIndex, key |-> reserved'[h].key]
           /\ reserved'[h].key = NoKey
  BY <1>1 DEF Nothing
<1>5. Keys(f) \subseteq 1 .. nKeys /\ Range(f.pool) \subseteq Keys(f)
  BY <1>2, EmptyFileIs DEF IndInv, KeysInv
<1>6. /\ NoKey \in 0 .. nKeys /\ NoKey \notin Range(f.pool)
      /\ rewrite # NoFile => NoKey \notin Range(rewrite.pool)
  BY <1>3, <1>5 DEF IndInv, KeysInv, NoKey
<1>7. FilesInv'
  BY <1>1, <1>3 DEF IndInv, FilesInv
<1>8. KeysInv'
  BY <1>1, <1>3, <1>4, <1>5, <1>6 DEF IndInv, KeysInv
<1>9. StoreInv'
  <2>1. f.key = {} \/ DOMAIN f.ckey = {}
    BY <1>1 DEF Loads
  <2> QED BY <1>1, <1>3, <2>1 DEF StoreInv, Flushing
<1>10. MasterInv'
  <2> SUFFICES ASSUME ~replaced, db # NoFile PROVE MasterInv'
    BY <1>1 DEF MasterInv
  <2>1. f = db /\ Main = db
    BY <1>2 DEF Main
  <2>2. /\ f.mkey \in Seq(Nat) /\ \A k \in DOMAIN f.ckey : f.ckey[k] \in Range(f.mkey)
        /\ issued \subseteq Keys(f)
    BY <2>1 DEF IndInv, MasterInv
  <2>3. f.key \union DOMAIN f.ckey \subseteq Keys(f) /\ SameMap(f.ckey, f.ckey)
    BY DEF Keys, SameMap
  <2> QED BY <1>1, <1>3, <1>4, <2>2, <2>3 DEF MasterInv
<1>11. PoolInv'
  <2>1. \A m \in DOMAIN f.pool : f.pool[m] \in Range(f.pool)
    BY DEF Range
  <2>2. ReservedAt(db.pool)'
    <3> SUFFICES ASSUME NEW h \in Holders, NEW m \in DOMAIN f.pool, f.pool[m] = reserved'[h].key
                 PROVE  m = reserved'[h].nIndex
      BY <1>1 DEF ReservedAt
    <3> QED BY <1>4, <1>6, <2>1
  <2>3. Injective(f.pool) /\ Range(f.pool) \cap issued = {}
    BY <1>2, EmptyFileIs DEF IndInv, PoolInv, PoolOK, Injective
  <2> QED BY <1>1, <1>3, <2>2, <2>3 DEF IndInv, PoolInv, PoolOK, ReservedAt
<1>12. LeftoverInv'
  <2> SUFFICES ASSUME Leftover' PROVE LeftoverInv'
    BY DEF LeftoverInv
  <2>1. rewrite # NoFile /\ DOMAIN f.ckey = {}
    BY <1>1 DEF Leftover, Flushing
  <2>2. CASE db = NoFile
    BY <1>1, <1>2, <1>4, <1>6, <2>1, <2>2, EmptyFileIs DEF IndInv, PoolInv, PoolOK, LeftoverInv
  <2>3. CASE db # NoFile
    <3>1. Leftover /\ f = db
      BY <1>2, <2>1, <2>3 DEF Leftover
    <3> QED BY <1>1, <1>4, <1>6, <2>1, <3>1 DEF IndInv, LeftoverInv
  <2> QED BY <2>2, <2>3
<1> QED BY <1>7, <1>8, <1>9, <1>10, <1>11, <1>12 DEF IndInv

-----------------------------------------------------------------------------
(* The theorems                                                            *)

LEMMA InitInd == Init => IndInv
<1> SUFFICES ASSUME Init PROVE IndInv
  OBVIOUS
<1> USE EmptyFileIs DEF Init
<1>1. db = EmptyFile /\ IsFile(db) /\ db # NoFile /\ rewrite = NoFile /\ Main = db
  BY FileExists DEF Main
<1>2. DOMAIN << >> = {} /\ DOMAIN mapCryptedKeys = {} /\ EmptyFile.ckey = << >> /\ EmptyFile.mkey = << >>
  BY DEF EmptyFile
<1>3. FilesInv
  BY <1>1 DEF FilesInv
<1>4. KeysInv
  BY <1>1 DEF KeysInv, Nothing, NoKey
<1>5. StoreInv
  BY <1>1, <1>2 DEF StoreInv, Flushing
<1>6. MasterInv
  BY <1>1, <1>2 DEF MasterInv, SameMap, Nothing, Loads
<1>7. PoolInv
  BY <1>1 DEF PoolInv, PoolOK, ReservedAt, Injective
<1>8. LeftoverInv
  BY <1>1 DEF LeftoverInv, Leftover
<1> QED BY <1>3, <1>4, <1>5, <1>6, <1>7, <1>8 DEF IndInv

LEMMA NextInd == ASSUME IndInv, [Next]_vars PROVE IndInv'
<1>1. CASE TopUpKey
  BY <1>1, GenerateNewKeyInd DEF TopUpKey
<1>2. CASE TopUpRecord
  BY <1>2, AddToPoolInd DEF TopUpRecord
<1>3. CASE NewPoolKey
  BY <1>3, GenerateNewKeyInd DEF NewPoolKey
<1>4. CASE NewPoolRecord
  BY <1>4, AddToPoolInd DEF NewPoolRecord
<1>5. CASE UNCHANGED vars
  BY <1>5, QuietInd DEF vars, process, store, files, made, history
<1> QED BY <1>1, <1>2, <1>3, <1>4, <1>5, QuietStepsInd, ReserveKeyInd, ReserveAndKeepInd, KeepKeyInd,
           ReturnKeyInd, EncryptKeysInd, TxnCommitInd, ErasePoolRecordInd, RewriteCopiesInd, RewriteCutShortInd,
           RewriteRemovesInd, RewriteRenamesInd, StartInd DEF Next

(* Memory, wallet.dat and wallet.dat.rewrite agree in every state, with    *)
(* the process killed after any write.                                     *)
THEOREM FilesAgree == Spec => []IndInv
BY InitInd, NextInd, PTL DEF Spec

(* Every key that was given out, or is in memory, can be recovered from    *)
(* what is on disk, and a start is never refused: EncryptWallet may be     *)
(* interrupted anywhere.                                                   *)
THEOREM NoKeyOutOfReach == Spec => []KeysRecoverable
<1>1. IndInv => KeysRecoverable
  <2> SUFFICES ASSUME IndInv, ~replaced
               PROVE  /\ issued \union mapKeys \union DOMAIN mapCryptedKeys \subseteq Recoverable(Main)
                      /\ Loads(Main)
    BY DEF KeysRecoverable, Main
  <2>1. Keys(Main) \subseteq Recoverable(Main)
    BY DEF Keys, Recoverable, IndInv, MasterInv
  <2> QED BY <2>1 DEF IndInv, MasterInv
<1> QED BY <1>1, FilesAgree, PTL

(* A key that was kept is never in the pool again, and no reservation      *)
(* names it afterwards, whatever NewKeyPool did to the index in between.   *)
THEOREM KeptForGood == Spec => KeptIsGone
<1> DEFINE A == /\ db' # NoFile => Range(db'.pool) \cap issued' = {}
                /\ \A h \in Holders : reserved'[h].key # reserved[h].key => reserved'[h].key \notin issued
<1>1. IndInv /\ IndInv' /\ [Next]_vars => A
  <2> SUFFICES ASSUME IndInv, IndInv', [Next]_vars PROVE A
    OBVIOUS
  <2>1. db' # NoFile => Range(db'.pool) \cap issued' = {}
    BY DEF IndInv, PoolInv, PoolOK
  <2>2. NoKey \notin issued
    BY DEF IndInv, KeysInv, NoKey
  <2>3. DOMAIN reserved = Holders
    BY DEF IndInv, KeysInv
  <2>4. ASSUME NEW h \in Holders, reserved'[h].key # reserved[h].key PROVE reserved'[h].key \notin issued
    <3>1. CASE ReserveKey
      <4> DEFINE n == Min(setKeyPool)
      <4>1. /\ reserved' = [reserved EXCEPT ![caller] =
                 [nIndex |-> n, key |-> IF Readable(n) THEN db.pool[n] ELSE NoKey]]
            /\ phase = "reserve"
        BY <3>1 DEF ReserveKey
      <4> HIDE DEF n
      <4>2. reserved'[h].key = IF Readable(n) THEN db.pool[n] ELSE NoKey
        BY <2>3, <2>4, <4>1
      <4>3. db # NoFile
        BY <4>1 DEF IndInv, FilesInv
      <4>4. Readable(n) => db.pool[n] \in Range(db.pool)
        BY DEF Readable, Range
      <4> QED BY <2>2, <4>2, <4>3, <4>4 DEF IndInv, PoolInv, PoolOK
    <3>2. CASE \E g \in Holders : KeepKey(g) \/ ReturnKey(g)
      <4>1. PICK g \in Holders : reserved' = [reserved EXCEPT ![g] = Nothing]
        BY <3>2 DEF KeepKey, ReturnKey
      <4>2. reserved'[h].key = NoKey
        BY <2>3, <2>4, <4>1 DEF Nothing
      <4> QED BY <2>2, <4>2
    <3>3. CASE Start
      BY <2>2, <3>3 DEF Start, Nothing
    <3>4. CASE UNCHANGED reserved
      BY <2>4, <3>4
    <3>5. \/ ReserveKey \/ Start \/ UNCHANGED reserved
          \/ \E g \in Holders : KeepKey(g) \/ ReturnKey(g)
      BY DEF Next, vars, Call, TopUpKey, TopUpThrows, TopUpRecord, TopUpReturns, ReserveNone,
                  ReserveAndKeep, AssertionFails, Lock, Unlock, EncryptKeys, TxnCommit, ErasePoolRecord,
                  NewPoolKey, NewPoolRecord, RewriteCopies, RewriteCutShort, RewriteRemoves, RewriteRenames, Kill,
                  GenerateNewKey, AddToPool
    <3> QED BY <3>1, <3>2, <3>3, <3>4, <3>5
  <2> QED BY <2>1, <2>4
<1>2. IndInv /\ IndInv' /\ [Next]_vars => [A]_vars
  BY <1>1
<1> HIDE DEF A
<1>3. Spec => [][A]_vars
  BY <1>2, FilesAgree, PTL DEF Spec
<1> QED BY <1>3 DEF A, KeptIsGone
=============================================================================
