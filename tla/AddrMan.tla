------------------------------ MODULE AddrMan ------------------------------
(***************************************************************************)
(* The address manager (src/src/addrman.cpp, src/src/addrman.h): buckets   *)
(* of new addresses, an address in up to NEW_BUCKETS_PER_ADDRESS of them,  *)
(* buckets of tried ones, and the indexes over both that must agree.       *)
(*                                                                         *)
(* Every call holds cs, so a call is one step.  Which bucket an address    *)
(* belongs to is a keyed hash.  Times and attempts only decide which entry *)
(* of a full bucket goes: any of them may.  Select, Attempt and Connected  *)
(* change nothing else and are left out.                                   *)
(***************************************************************************)
EXTENDS Integers, Sequences, FiniteSets, Functions

CONSTANTS
  Addresses, Sources, NewBuckets, TriedBuckets,
  GetNewBucket,     \* of an address heard from a source
  GetTriedBucket,   \* of an address
  NEW_BUCKET_SIZE, TRIED_BUCKET_SIZE, NEW_BUCKETS_PER_ADDRESS,
  MaxIds            \* bound: ids given out since the last load

ASSUME AddrManAssumption ==
  /\ GetNewBucket \in [Addresses \X Sources -> NewBuckets]
  /\ GetTriedBucket \in [Addresses -> TriedBuckets]
  /\ {NEW_BUCKET_SIZE, TRIED_BUCKET_SIZE, NEW_BUCKETS_PER_ADDRESS} \subseteq Nat \ {0}
  /\ MaxIds \in Nat /\ IsFiniteSet(NewBuckets)

VARIABLES nIdCount, mapInfo, mapAddr, vRandom, nTried, vvTried, nNew, vvNew

addrManVars == <<nIdCount, mapInfo, mapAddr, vRandom, nTried, vvTried, nNew, vvNew>>

AddrManInit ==
  /\ nIdCount = 0 /\ mapInfo = << >> /\ mapAddr = << >> /\ vRandom = << >>
  /\ nTried = 0 /\ vvTried = [b \in TriedBuckets |-> {}]
  /\ nNew = 0 /\ vvNew = [b \in NewBuckets |-> {}]

Ids == DOMAIN mapInfo

-----------------------------------------------------------------------------
(* The random order, as a pair of the vector and the positions in mapInfo  *)

SwapRandom(v, info, p, q) ==
  [v |-> [v EXCEPT ![p] = v[q], ![q] = v[p]],
   info |-> [info EXCEPT ![v[p]].nRandomPos = q, ![v[q]].nRandomPos = p]]

(* the entry leaves: swapped with the last, popped, erased *)
EraseWithoutSwap(v, info, id) ==
  [v |-> SelectSeq(v, LAMBDA x : x # id),
   info |-> Restrict(info, DOMAIN info \ {id})]
Erase(v, info, id) ==
  LET s == SwapRandom(v, info, info[id].nRandomPos, Len(v))
  IN [v |-> SubSeq(s.v, 1, Len(v) - 1), info |-> Restrict(s.info, DOMAIN info \ {id})]

-----------------------------------------------------------------------------
(* Add_                                                                    *)

(* A full bucket loses one entry, and mapInfo that entry if this was its   *)
(* last bucket.  w is the state of the call.                               *)
LastReference(w, id) == w.info[id].nRefCount = 1

ShrinkNew(w, b, id) ==
  IF LastReference(w, id)
    THEN LET e == Erase(w.v, w.info, id)
         IN [info |-> e.info, v |-> e.v, vvNew |-> [w.vvNew EXCEPT ![b] = @ \ {id}],
             mapAddr |-> Restrict(w.mapAddr, DOMAIN w.mapAddr \ {w.info[id].addr}),
             nNew |-> w.nNew - 1]
    ELSE [w EXCEPT !.info[id].nRefCount = @ - 1, !.vvNew[b] = @ \ {id}]

Becomes(w) ==
  /\ mapInfo' = w.info /\ vRandom' = w.v /\ vvNew' = w.vvNew
  /\ mapAddr' = w.mapAddr /\ nNew' = w.nNew

Current == [info |-> mapInfo, v |-> vRandom, vvNew |-> vvNew, mapAddr |-> mapAddr, nNew |-> nNew]

Insert(w, id, b) ==
  LET counted == [w EXCEPT !.info[id].nRefCount = @ + 1]
      into(x) == [x EXCEPT !.vvNew[b] = @ \union {id}]
  IN IF id \in w.vvNew[b] THEN Becomes(w)
     ELSE IF Cardinality(w.vvNew[b]) = NEW_BUCKET_SIZE
       THEN \E old \in w.vvNew[b] : Becomes(into(ShrinkNew(counted, b, old)))
       ELSE Becomes(into(counted))

(* Create *)
Created(addr, source) ==
  [info |-> [id \in Ids \union {nIdCount} |->
               IF id \in Ids THEN mapInfo[id]
               ELSE [addr |-> addr, source |-> source, nRefCount |-> 0, fInTried |-> FALSE,
                     fSuccess |-> FALSE, nRandomPos |-> Len(vRandom) + 1]],
   v |-> Append(vRandom, nIdCount), vvNew |-> vvNew,
   mapAddr |-> [a \in DOMAIN mapAddr \union {addr} |->
                  IF a = addr THEN nIdCount ELSE mapAddr[a]],
   nNew |-> nNew + 1]

AddNew(addr, source) ==
  /\ addr \notin DOMAIN mapAddr /\ nIdCount < MaxIds
  /\ nIdCount' = nIdCount + 1
  /\ Insert(Created(addr, source), nIdCount, GetNewBucket[<<addr, source>>])
  /\ UNCHANGED <<nTried, vvTried>>

(* seen again, with news and luck *)
MayAddAgainIfTried(id) == mapInfo[id].nRefCount # NEW_BUCKETS_PER_ADDRESS
MayAddAgain(id) == ~mapInfo[id].fInTried /\ mapInfo[id].nRefCount # NEW_BUCKETS_PER_ADDRESS

AddAgain(addr, source) ==
  /\ addr \in DOMAIN mapAddr /\ MayAddAgain(mapAddr[addr])
  /\ Insert(Current, mapAddr[addr], GetNewBucket[<<addr, source>>])
  /\ UNCHANGED <<nIdCount, nTried, vvTried>>

-----------------------------------------------------------------------------
(* Good_ and MakeTried                                                     *)

Known(addr) == addr \in DOMAIN mapAddr
HoldingBuckets(id) == {b \in NewBuckets : id \in vvNew[b]}

TakenOut(id) == [b \in NewBuckets |-> vvNew[b] \ {id}]

GoodAgain(addr) ==
  /\ Known(addr)
  /\ mapInfo[mapAddr[addr]].fInTried \/ HoldingBuckets(mapAddr[addr]) = {}
  /\ mapInfo' = [mapInfo EXCEPT ![mapAddr[addr]].fSuccess = TRUE]
  /\ UNCHANGED <<nIdCount, mapAddr, vRandom, nTried, vvTried, nNew, vvNew>>

(* there is place in its bucket of tried addresses *)
MakeTried(addr) ==
  LET id == mapAddr[addr]
      b  == GetTriedBucket[addr]
  IN /\ Known(addr) /\ ~mapInfo[id].fInTried /\ HoldingBuckets(id) # {}
     /\ Cardinality(vvTried[b]) < TRIED_BUCKET_SIZE
     /\ vvNew' = TakenOut(id) /\ nNew' = nNew - 1
     /\ vvTried' = [vvTried EXCEPT ![b] = @ \union {id}] /\ nTried' = nTried + 1
     /\ mapInfo' = [mapInfo EXCEPT
                      ![id].nRefCount = @ - Cardinality(HoldingBuckets(id)),
                      ![id].fInTried = TRUE, ![id].fSuccess = TRUE]
     /\ UNCHANGED <<nIdCount, mapAddr, vRandom>>

(* the evicted entry's own bucket, or the one that the new one left *)
BackTo(new, old, origin) ==
  LET own == GetNewBucket[<<mapInfo[old].addr, mapInfo[old].source>>]
  IN IF Cardinality(TakenOut(new)[own]) < NEW_BUCKET_SIZE THEN own ELSE origin

(* The entry to evict: the position that is returned need not be that of   *)
(* the least recently tried one, for the entries are swapped meanwhile.    *)
SelectTried(b) == vvTried[b]

(* or an entry goes back to the new addresses *)
MakeTriedEvicting(addr) ==
  LET id == mapAddr[addr]
      b  == GetTriedBucket[addr]
  IN /\ Known(addr) /\ ~mapInfo[id].fInTried
     /\ Cardinality(vvTried[b]) >= TRIED_BUCKET_SIZE
     /\ \E origin \in HoldingBuckets(id), old \in SelectTried(b) :
          /\ vvNew' = [TakenOut(id) EXCEPT ![BackTo(id, old, origin)] = @ \union {old}]
          /\ vvTried' = [vvTried EXCEPT ![b] = (@ \ {old}) \union {id}]
          /\ mapInfo' = [mapInfo EXCEPT
                           ![id].nRefCount = @ - Cardinality(HoldingBuckets(id)),
                           ![id].fInTried = TRUE, ![id].fSuccess = TRUE,
                           ![old].fInTried = FALSE, ![old].nRefCount = 1]
     /\ UNCHANGED <<nIdCount, mapAddr, vRandom, nTried, nNew>>

-----------------------------------------------------------------------------
(* GetAddr_ shuffles, one swap at a time                                   *)

GetAddr(p, q) ==
  /\ p < q
  /\ LET s == SwapRandom(vRandom, mapInfo, p, q)
     IN vRandom' = s.v /\ mapInfo' = s.info
  /\ UNCHANGED <<nIdCount, mapAddr, nTried, vvTried, nNew, vvNew>>

(* Writing peers.dat and reading it at the next start: the new entries are *)
(* numbered in the order of their ids, then the tried ones, and only the   *)
(* new buckets are in the file.                                            *)
Earlier(id, other) ==
  IF mapInfo[id].fInTried = mapInfo[other].fInTried THEN other < id
  ELSE mapInfo[id].fInTried
NewId(id) == Cardinality({other \in Ids : Earlier(id, other)})
OldId(n) == CHOOSE id \in Ids : NewId(id) = n

Reload ==
  LET n == Cardinality(Ids)
      again == [b \in NewBuckets |-> {NewId(id) : id \in vvNew[b]}]
      tried == {k \in 0 .. n - 1 : mapInfo[OldId(k)].fInTried}
  IN /\ nIdCount' = n
     /\ mapInfo' = [k \in 0 .. n - 1 |->
                      [mapInfo[OldId(k)] EXCEPT !.nRandomPos = k + 1,
                         !.nRefCount = Cardinality({b \in NewBuckets : k \in again[b]})]]
     /\ mapAddr' = [a \in DOMAIN mapAddr |-> NewId(mapAddr[a])]
     /\ vRandom' = [k \in 1 .. n |-> k - 1]
     /\ vvNew' = again
     /\ vvTried' = [b \in TriedBuckets |->
                      {k \in tried : GetTriedBucket[mapInfo[OldId(k)].addr] = b}]
     /\ UNCHANGED <<nTried, nNew>>

AddrManNext ==
  \/ \E a \in Addresses, s \in Sources : AddNew(a, s) \/ AddAgain(a, s)
  \/ \E a \in Addresses : GoodAgain(a) \/ MakeTried(a) \/ MakeTriedEvicting(a)
  \/ \E p, q \in DOMAIN vRandom : GetAddr(p, q)
  \/ Reload

AddrManSpec == AddrManInit /\ [][AddrManNext]_addrManVars

-----------------------------------------------------------------------------
(* Properties                                                              *)

(* What Check_ looks for under DEBUG_ADDRMAN (addrman.cpp:434-490): every  *)
(* index agrees with every other and with the counters, an entry is either *)
(* tried, in its one bucket, or new, in as many buckets as it is counted;  *)
(* and "only a limited number of addresses" is kept (addrman.h:100).       *)
CheckPasses ==
  /\ Len(vRandom) = nTried + nNew /\ Cardinality(Ids) = nTried + nNew
  /\ \A id \in Ids :
       LET info == mapInfo[id]
           tried == {b \in TriedBuckets : id \in vvTried[b]} IN
       /\ IF info.fInTried
            THEN info.fSuccess /\ info.nRefCount = 0 /\ tried = {GetTriedBucket[info.addr]}
            ELSE info.nRefCount \in 1 .. NEW_BUCKETS_PER_ADDRESS /\ tried = {}
       /\ info.nRefCount = Cardinality(HoldingBuckets(id))
       /\ Known(info.addr) /\ mapAddr[info.addr] = id
       /\ info.nRandomPos \in DOMAIN vRandom /\ vRandom[info.nRandomPos] = id
  /\ Cardinality({id \in Ids : mapInfo[id].fInTried}) = nTried
  /\ \A b \in NewBuckets : vvNew[b] \subseteq Ids /\ Cardinality(vvNew[b]) <= NEW_BUCKET_SIZE
  /\ \A b \in TriedBuckets :
       vvTried[b] \subseteq Ids /\ Cardinality(vvTried[b]) <= TRIED_BUCKET_SIZE

(* Addresses "are never deleted while in the tried table, only possibly    *)
(* evicted back to the new table" (addrman.h:216): an address that was     *)
(* ever connected to survives the eviction, also when both buckets are     *)
(* full and when peers.dat is read again.                                  *)
TriedNeverDeleted ==
  [][\A a \in DOMAIN mapAddr : mapInfo[mapAddr[a]].fInTried =>
       /\ a \in DOMAIN mapAddr'
       /\ mapInfo'[mapAddr'[a]].fInTried \/ mapInfo'[mapAddr'[a]].nRefCount = 1]_addrManVars
=============================================================================
