------------------------- MODULE BlockDownloadProofs -------------------------
(***************************************************************************)
(* Proofs about BlockDownload for any set of nodes, any finite set of      *)
(* blocks and every value of the limits and timeouts.                      *)
(***************************************************************************)
EXTENDS BlockDownload, FiniteSetTheorems, TLAPS

-----------------------------------------------------------------------------
(* The inductive invariant: TypeOK, EntriesExact and CountersExact again,  *)
(* arranged by what a handler changes together.                            *)

QueueInv ==
  /\ vBlocksToDownload \in [Nodes -> SUBSET Blocks]
  /\ nBlocksToDownload \in [Nodes -> Nat]
  /\ mapBlocksToDownload \in [Blocks -> Nodes \union {NoNode}]
  /\ ahead \in [Blocks -> SUBSET Blocks]
  /\ \A b \in Blocks, p \in Nodes :
       (b \in vBlocksToDownload[p]) <=> (mapBlocksToDownload[b] = p)
  /\ \A p \in Nodes : nBlocksToDownload[p] = Cardinality(vBlocksToDownload[p])

FlightInv ==
  /\ vBlocksInFlight \in [Nodes -> SUBSET Blocks]
  /\ nBlocksInFlight \in [Nodes -> 0 .. MAX_BLOCKS_IN_TRANSIT_PER_PEER]
  /\ mapBlocksInFlight \in [Blocks -> Nodes \union {NoNode}]
  /\ \A b \in Blocks, p \in Nodes :
       (b \in vBlocksInFlight[p]) <=> (mapBlocksInFlight[b] = p)
  /\ \A p \in Nodes : nBlocksInFlight[p] = Cardinality(vBlocksInFlight[p])

PeersInv ==
  /\ mapNodeState \subseteq Nodes
  /\ fDisconnect \subseteq mapNodeState /\ nVersion \subseteq mapNodeState

(* No block is listed twice, and none for a node without its state.        *)
OwnersInv ==
  \A b \in Blocks :
    /\ mapBlocksToDownload[b] = NoNode \/ mapBlocksInFlight[b] = NoNode
    /\ mapBlocksToDownload[b] \in mapNodeState \union {NoNode}
    /\ mapBlocksInFlight[b] \in mapNodeState \union {NoNode}

ClockInv ==
  /\ age \in [Blocks -> Nat] /\ ageProcess \in [Blocks -> Nat]
  /\ idle \in [Nodes -> Nat] /\ idleProcess \in [Nodes -> Nat]

ScoreInv ==
  /\ nMisbehavior \in [Nodes -> 0 .. BanScore]
  /\ fShouldBan \in [Nodes -> BOOLEAN]

IndInv == QueueInv /\ FlightInv /\ PeersInv /\ OwnersInv /\ ClockInv /\ ScoreInv

-----------------------------------------------------------------------------
(* Sizes                                                                   *)

(* Sets of blocks are finite and have a size.                              *)
LEMMA BlocksFinite ==
  ASSUME NEW S \in SUBSET Blocks
  PROVE  IsFiniteSet(S) /\ Cardinality(S) \in Nat
<1>1. IsFiniteSet(S)
  BY FS_Subset, DownloadAssumption
<1> QED BY <1>1, FS_CardinalityType

(* Removing part of a list takes as much off its size.                     *)
LEMMA SizeWithout ==
  ASSUME NEW V \in SUBSET Blocks, NEW S \in SUBSET V
  PROVE  /\ Cardinality(V \ S) = Cardinality(V) - Cardinality(S)
         /\ Cardinality(S) <= Cardinality(V)
<1>1. IsFiniteSet(V)
  BY BlocksFinite
<1>2. V \intersect S = S
  OBVIOUS
<1> QED BY <1>1, <1>2, FS_Difference, FS_Subset

(* Adding blocks that are not in a list adds their number to its size.     *)
LEMMA SizeWith ==
  ASSUME NEW V \in SUBSET Blocks, NEW S \in SUBSET Blocks, V \intersect S = {}
  PROVE  Cardinality(V \union S) = Cardinality(V) + Cardinality(S)
<1>1. IsFiniteSet(V) /\ IsFiniteSet(S)
  BY BlocksFinite
<1>2. Cardinality(V) \in Nat /\ Cardinality(S) \in Nat
  BY BlocksFinite
<1>3. Cardinality(V \union S) = Cardinality(V) + Cardinality(S) - Cardinality({})
  BY <1>1, FS_Union
<1> QED BY <1>2, <1>3, FS_EmptySet

-----------------------------------------------------------------------------
(* The handlers of the lists                                               *)

(* Removing blocks from the lists of blocks to download keeps lists,       *)
(* counters and map in agreement, and the blocks are then in no such list. *)
LEMMA QueuedRemoved ==
  ASSUME QueueInv, NEW S \in SUBSET Blocks, RemoveQueued(S)
  PROVE  /\ QueueInv'
         /\ \A b \in Blocks : mapBlocksToDownload'[b] =
              IF b \in S THEN NoNode ELSE mapBlocksToDownload[b]
<1>1. vBlocksToDownload' \in [Nodes -> SUBSET Blocks]
  BY DEF QueueInv, RemoveQueued
<1>2. mapBlocksToDownload' \in [Blocks -> Nodes \union {NoNode}]
  BY Zenon DEF QueueInv, RemoveQueued
<1>3. ahead' \in [Blocks -> SUBSET Blocks]
  BY DEF QueueInv, RemoveQueued
<1>4. \A b \in Blocks : mapBlocksToDownload'[b] =
        IF b \in S THEN NoNode ELSE mapBlocksToDownload[b]
  BY Zenon DEF RemoveQueued
<1>5. \A b \in Blocks, p \in Nodes :
        (b \in vBlocksToDownload'[p]) <=> (mapBlocksToDownload'[b] = p)
  BY <1>4, DownloadAssumption DEF QueueInv, RemoveQueued, QueuedAt
<1>6. ASSUME NEW p \in Nodes
      PROVE  /\ nBlocksToDownload'[p] = Cardinality(vBlocksToDownload'[p])
             /\ nBlocksToDownload'[p] \in Nat
  <2> DEFINE V == vBlocksToDownload[p]
             R == QueuedAt(S, p)
  <2>1. V \in SUBSET Blocks /\ R \in SUBSET V
    BY DEF QueueInv, QueuedAt
  <2>2. nBlocksToDownload'[p] = Cardinality(V) - Cardinality(R)
    BY DEF QueueInv, RemoveQueued
  <2>3. vBlocksToDownload'[p] = V \ R
    BY DEF RemoveQueued
  <2>4. V \ R \in SUBSET Blocks
    BY <2>1
  <2>5. Cardinality(V \ R) \in Nat
    BY <2>4, BlocksFinite
  <2> HIDE DEF V, R
  <2> QED BY <2>1, <2>2, <2>3, <2>5, SizeWithout
<1>7. nBlocksToDownload' \in [Nodes -> Nat]
  <2>1. nBlocksToDownload' = [q \in Nodes |-> nBlocksToDownload'[q]]
    BY DEF RemoveQueued
  <2> QED BY <2>1, <1>6
<1> QED BY <1>1, <1>2, <1>3, <1>4, <1>5, <1>6, <1>7 DEF QueueInv

(* The same for the blocks in flight.                                      *)
LEMMA InFlightRemoved ==
  ASSUME FlightInv, NEW S \in SUBSET Blocks, RemoveInFlight(S)
  PROVE  /\ FlightInv'
         /\ \A b \in Blocks : mapBlocksInFlight'[b] =
              IF b \in S THEN NoNode ELSE mapBlocksInFlight[b]
<1>1. vBlocksInFlight' \in [Nodes -> SUBSET Blocks]
  BY DEF FlightInv, RemoveInFlight, InFlightWithout
<1>2. mapBlocksInFlight' \in [Blocks -> Nodes \union {NoNode}]
  BY Zenon DEF FlightInv, RemoveInFlight
<1>4. \A b \in Blocks : mapBlocksInFlight'[b] =
        IF b \in S THEN NoNode ELSE mapBlocksInFlight[b]
  BY Zenon DEF RemoveInFlight
<1>5. \A b \in Blocks, p \in Nodes :
        (b \in vBlocksInFlight'[p]) <=> (mapBlocksInFlight'[b] = p)
  BY <1>4, DownloadAssumption DEF FlightInv, RemoveInFlight, InFlightWithout, InFlightAt
<1>6. ASSUME NEW p \in Nodes
      PROVE  /\ nBlocksInFlight'[p] = Cardinality(vBlocksInFlight'[p])
             /\ nBlocksInFlight'[p] \in 0 .. MAX_BLOCKS_IN_TRANSIT_PER_PEER
  <2> DEFINE V == vBlocksInFlight[p]
             R == InFlightAt(S, p)
  <2>1. V \in SUBSET Blocks /\ R \in SUBSET V
    BY DEF FlightInv, InFlightAt
  <2>2. nBlocksInFlight'[p] = Cardinality(V) - Cardinality(R)
    BY DEF FlightInv, RemoveInFlight, CountWithout
  <2>3. vBlocksInFlight'[p] = V \ R
    BY DEF RemoveInFlight, InFlightWithout
  <2>4. V \ R \in SUBSET Blocks /\ R \in SUBSET Blocks
    BY <2>1
  <2>5. Cardinality(V \ R) \in Nat /\ Cardinality(R) \in Nat
    BY <2>4, BlocksFinite
  <2>6. Cardinality(V) \in 0 .. MAX_BLOCKS_IN_TRANSIT_PER_PEER
    BY DEF FlightInv
  <2> HIDE DEF V, R
  <2> QED BY <2>1, <2>2, <2>3, <2>5, <2>6, SizeWithout, DownloadAssumption
<1>7. nBlocksInFlight' \in [Nodes -> 0 .. MAX_BLOCKS_IN_TRANSIT_PER_PEER]
  <2>1. nBlocksInFlight' = [q \in Nodes |-> nBlocksInFlight'[q]]
    BY DEF RemoveInFlight, CountWithout
  <2> QED BY <2>1, <1>6
<1> QED BY <1>1, <1>2, <1>4, <1>5, <1>6, <1>7 DEF FlightInv

(* Requesting the first blocks of a list, no more than there is room for,  *)
(* keeps the lists in agreement and within the limit.                      *)
LEMMA Requested ==
  ASSUME QueueInv, FlightInv, OwnersInv,
         NEW p \in Nodes, NEW S \in SUBSET vBlocksToDownload[p],
         Cardinality(S) <= Room(p), MarkBlocksAsInFlight(p, S)
  PROVE  /\ QueueInv' /\ FlightInv'
         /\ \A b \in Blocks : mapBlocksToDownload'[b] =
              IF b \in S THEN NoNode ELSE mapBlocksToDownload[b]
         /\ \A b \in Blocks : mapBlocksInFlight'[b] =
              IF b \in S THEN p ELSE mapBlocksInFlight[b]
<1>1. S \in SUBSET Blocks
  BY DEF QueueInv
<1>2. /\ QueueInv'
      /\ \A b \in Blocks : mapBlocksToDownload'[b] =
           IF b \in S THEN NoNode ELSE mapBlocksToDownload[b]
  BY <1>1, QueuedRemoved DEF MarkBlocksAsInFlight
<1>3. \A b \in S : mapBlocksInFlight[b] = NoNode
  BY <1>1, DownloadAssumption DEF QueueInv, OwnersInv
<1>4. \A q \in Nodes : InFlightAt(S, q) = {}
  BY <1>3, DownloadAssumption DEF InFlightAt
<1>5. /\ InFlightWithout(S) = vBlocksInFlight
      /\ CountWithout(S) = nBlocksInFlight
  <2>1. ASSUME NEW q \in Nodes
        PROVE  nBlocksInFlight[q] - Cardinality(InFlightAt(S, q)) = nBlocksInFlight[q]
    <3>1. Cardinality(InFlightAt(S, q)) = 0
      BY <1>4, FS_EmptySet, Zenon
    <3> QED BY <3>1, DownloadAssumption DEF FlightInv
  <2>2. \A q \in Nodes : vBlocksInFlight[q] \ InFlightAt(S, q) = vBlocksInFlight[q]
    BY <1>4
  <2>3. /\ vBlocksInFlight = [q \in Nodes |-> vBlocksInFlight[q]]
        /\ nBlocksInFlight = [q \in Nodes |-> nBlocksInFlight[q]]
    BY DEF FlightInv
  <2>4. InFlightWithout(S) = [q \in Nodes |-> vBlocksInFlight[q]]
    BY <2>2, Zenon DEF InFlightWithout
  <2>5. CountWithout(S) = [q \in Nodes |-> nBlocksInFlight[q]]
    BY <2>1, Zenon DEF CountWithout
  <2> QED BY <2>3, <2>4, <2>5, Zenon
<1>6. /\ vBlocksInFlight' = [vBlocksInFlight EXCEPT ![p] = @ \union S]
      /\ nBlocksInFlight' = [nBlocksInFlight EXCEPT ![p] = @ + Cardinality(S)]
  BY <1>5, Zenon DEF MarkBlocksAsInFlight
<1>7. \A b \in Blocks : mapBlocksInFlight'[b] = IF b \in S THEN p ELSE mapBlocksInFlight[b]
  BY Zenon DEF MarkBlocksAsInFlight
<1>8. FlightInv'
  <2>1. vBlocksInFlight' \in [Nodes -> SUBSET Blocks]
    BY <1>1, <1>6 DEF FlightInv
  <2>2. mapBlocksInFlight' \in [Blocks -> Nodes \union {NoNode}]
    BY Zenon DEF FlightInv, MarkBlocksAsInFlight
  <2>3. \A b \in Blocks, q \in Nodes :
          (b \in vBlocksInFlight'[q]) <=> (mapBlocksInFlight'[b] = q)
    BY <1>3, <1>6, <1>7, DownloadAssumption DEF FlightInv
  <2>4. /\ vBlocksInFlight[p] \in SUBSET Blocks
        /\ vBlocksInFlight[p] \intersect S = {}
    BY <1>1, <1>3, DownloadAssumption DEF FlightInv
  <2>5. Cardinality(vBlocksInFlight[p] \union S) = nBlocksInFlight[p] + Cardinality(S)
    BY <1>1, <2>4, SizeWith DEF FlightInv
  <2>6. Cardinality(S) \in Nat
    BY <1>1, BlocksFinite
  <2>7. nBlocksInFlight[p] + Cardinality(S) \in 0 .. MAX_BLOCKS_IN_TRANSIT_PER_PEER
    BY <2>6, DownloadAssumption DEF Room, FlightInv
  <2>8. nBlocksInFlight' \in [Nodes -> 0 .. MAX_BLOCKS_IN_TRANSIT_PER_PEER]
    BY <1>6, <2>7 DEF FlightInv
  <2>9. \A q \in Nodes : nBlocksInFlight'[q] = Cardinality(vBlocksInFlight'[q])
    BY <1>6, <2>5 DEF FlightInv
  <2> QED BY <2>1, <2>2, <2>3, <2>8, <2>9 DEF FlightInv
<1> QED BY <1>2, <1>7, <1>8

(* A block that is in no list joins the list of one node.                  *)
LEMMA Queued ==
  ASSUME QueueInv, NEW p \in Nodes, NEW hash \in Blocks, AddBlockToQueue(p, hash)
  PROVE  /\ QueueInv'
         /\ \A b \in Blocks : mapBlocksToDownload'[b] =
              IF b = hash THEN p ELSE mapBlocksToDownload[b]
<1>1. \A b \in Blocks : mapBlocksToDownload'[b] =
        IF b = hash THEN p ELSE mapBlocksToDownload[b]
  BY DEF AddBlockToQueue, QueueInv
<1>2. hash \notin vBlocksToDownload[p] \/ mapBlocksToDownload[hash] = p
  BY DEF QueueInv
<1>3. /\ vBlocksToDownload' \in [Nodes -> SUBSET Blocks]
      /\ mapBlocksToDownload' \in [Blocks -> Nodes \union {NoNode}]
      /\ ahead' \in [Blocks -> SUBSET Blocks]
      /\ nBlocksToDownload' \in [Nodes -> Nat]
  BY DEF AddBlockToQueue, QueueInv
<1>4. mapBlocksToDownload[hash] = NoNode
  BY DEF AddBlockToQueue, Listed
<1>5. \A b \in Blocks, q \in Nodes :
        (b \in vBlocksToDownload'[q]) <=> (mapBlocksToDownload'[b] = q)
  BY <1>1, <1>4, DownloadAssumption DEF AddBlockToQueue, QueueInv
<1>6. hash \notin vBlocksToDownload[p] /\ vBlocksToDownload[p] \in SUBSET Blocks
  BY <1>4, DownloadAssumption DEF QueueInv
<1>7. Cardinality(vBlocksToDownload[p] \union {hash}) = nBlocksToDownload[p] + 1
  BY <1>6, BlocksFinite, FS_AddElement DEF QueueInv
<1>8. \A q \in Nodes : nBlocksToDownload'[q] = Cardinality(vBlocksToDownload'[q])
  BY <1>7 DEF AddBlockToQueue, QueueInv
<1> QED BY <1>1, <1>3, <1>5, <1>8 DEF QueueInv

(* The score stays below its cap.                                          *)
LEMMA Scored ==
  ASSUME ScoreInv, NEW p \in Nodes, NEW howmuch \in Nat, Misbehaving(p, howmuch)
  PROVE  ScoreInv'
<1>1. nMisbehavior[p] + howmuch \in Nat
  BY DEF ScoreInv
<1>2. Capped(nMisbehavior[p] + howmuch, BanScore) \in 0 .. BanScore
  BY <1>1, DownloadAssumption DEF Capped
<1>3. nMisbehavior' \in [Nodes -> 0 .. BanScore]
  BY <1>2 DEF Misbehaving, ScoreInv
<1>4. fShouldBan' \in [Nodes -> BOOLEAN]
  BY Zenon DEF Misbehaving, ScoreInv
<1> QED BY <1>3, <1>4 DEF ScoreInv

(* A processed message moves the clocks of its node only to earlier times  *)
(* of their own kind.                                                      *)
LEMMA Processed ==
  ASSUME ClockInv, NEW p \in Nodes, MessageProcessed(p)
  PROVE  ClockInv'
<1>1. AgeAtMessage(p) \in [Blocks -> Nat]
  BY DEF ClockInv, AgeAtMessage
<1> QED BY <1>1 DEF ClockInv, MessageProcessed

-----------------------------------------------------------------------------
(* One step                                                                *)

(* It holds initially.                                                     *)
LEMMA InitInv == Init => IndInv
<1> SUFFICES ASSUME Init PROVE IndInv
  OBVIOUS
<1> USE DEF Init
<1>1. QueueInv
  BY FS_EmptySet, DownloadAssumption DEF QueueInv
<1>2. FlightInv
  BY FS_EmptySet, DownloadAssumption DEF FlightInv
<1>3. PeersInv /\ OwnersInv /\ ClockInv /\ ScoreInv
  BY DownloadAssumption DEF PeersInv, OwnersInv, ClockInv, ScoreInv
<1> QED BY <1>1, <1>2, <1>3 DEF IndInv

(* What a step leaves alone keeps its part of the invariant.               *)
LEMMA UnchangedParts ==
  /\ QueueInv /\ UNCHANGED queue => QueueInv'
  /\ FlightInv /\ UNCHANGED flight => FlightInv'
  /\ ClockInv /\ UNCHANGED clock => ClockInv'
  /\ ScoreInv /\ UNCHANGED score => ScoreInv'
  /\ PeersInv /\ UNCHANGED peers => PeersInv'
  /\ OwnersInv /\ UNCHANGED <<queue, flight>> /\ mapNodeState \subseteq mapNodeState'
       => OwnersInv'
<1>1. QueueInv /\ UNCHANGED queue => QueueInv'
  BY DEF QueueInv, queue
<1>2. FlightInv /\ UNCHANGED flight => FlightInv'
  BY DEF FlightInv, flight
<1>3. ClockInv /\ UNCHANGED clock => ClockInv'
  BY DEF ClockInv, clock
<1>4. ScoreInv /\ UNCHANGED score => ScoreInv'
  BY DEF ScoreInv, score
<1>5. PeersInv /\ UNCHANGED peers => PeersInv'
  BY DEF PeersInv, peers
<1>6. OwnersInv /\ UNCHANGED <<queue, flight>> /\ mapNodeState \subseteq mapNodeState'
        => OwnersInv'
  BY DEF OwnersInv, queue, flight
<1> QED BY <1>1, <1>2, <1>3, <1>4, <1>5, <1>6

(* A node comes, or is to go.                                              *)
LEMMA ConnectionSteps ==
  ASSUME IndInv, NEW p \in Nodes, InitializeNode(p) \/ Disconnect(p)
  PROVE  IndInv'
<1>1. UNCHANGED <<queue, flight, clock, score>> /\ mapNodeState \subseteq mapNodeState'
  BY DEF InitializeNode, Disconnect
<1>2. PeersInv'
  BY DEF IndInv, PeersInv, InitializeNode, Disconnect
<1> QED BY <1>1, <1>2, UnchangedParts DEF IndInv

(* A node is deleted with everything that is listed for it.                *)
LEMMA FinalizeStep ==
  ASSUME IndInv, NEW p \in Nodes, FinalizeNode(p)
  PROVE  IndInv'
<1> USE DEF IndInv
<1>1. \A b \in Blocks : mapBlocksToDownload'[b] =
        IF mapBlocksToDownload[b] = p THEN NoNode ELSE mapBlocksToDownload[b]
  BY DEF FinalizeNode, MapWithoutNode, QueueInv
<1>2. \A b \in Blocks : mapBlocksInFlight'[b] =
        IF mapBlocksInFlight[b] = p THEN NoNode ELSE mapBlocksInFlight[b]
  BY DEF FinalizeNode, MapWithoutNode, FlightInv
<1>3. QueueInv'
  <2>1. /\ vBlocksToDownload' \in [Nodes -> SUBSET Blocks]
        /\ nBlocksToDownload' \in [Nodes -> Nat]
    BY DEF FinalizeNode, QueueInv
  <2>2. mapBlocksToDownload' \in [Blocks -> Nodes \union {NoNode}]
    BY DEF FinalizeNode, MapWithoutNode, QueueInv
  <2>3. ahead' \in [Blocks -> SUBSET Blocks]
    BY DEF FinalizeNode, QueueInv
  <2>4. \A b \in Blocks, q \in Nodes :
          (b \in vBlocksToDownload'[q]) <=> (mapBlocksToDownload'[b] = q)
    BY <1>1, DownloadAssumption DEF FinalizeNode, QueueInv
  <2>5. \A q \in Nodes : nBlocksToDownload'[q] = Cardinality(vBlocksToDownload'[q])
    BY FS_EmptySet DEF FinalizeNode, QueueInv
  <2> QED BY <2>1, <2>2, <2>3, <2>4, <2>5 DEF QueueInv
<1>4. FlightInv'
  <2>1. /\ vBlocksInFlight' \in [Nodes -> SUBSET Blocks]
        /\ nBlocksInFlight' \in [Nodes -> 0 .. MAX_BLOCKS_IN_TRANSIT_PER_PEER]
    BY DownloadAssumption DEF FinalizeNode, FlightInv
  <2>2. mapBlocksInFlight' \in [Blocks -> Nodes \union {NoNode}]
    BY DEF FinalizeNode, MapWithoutNode, FlightInv
  <2>4. \A b \in Blocks, q \in Nodes :
          (b \in vBlocksInFlight'[q]) <=> (mapBlocksInFlight'[b] = q)
    BY <1>2, DownloadAssumption DEF FinalizeNode, FlightInv
  <2>5. \A q \in Nodes : nBlocksInFlight'[q] = Cardinality(vBlocksInFlight'[q])
    BY FS_EmptySet DEF FinalizeNode, FlightInv
  <2> QED BY <2>1, <2>2, <2>4, <2>5 DEF FlightInv
<1>5. PeersInv'
  BY DEF FinalizeNode, PeersInv
<1>6. OwnersInv'
  BY <1>1, <1>2 DEF FinalizeNode, OwnersInv
<1>7. ClockInv'
  BY DEF FinalizeNode, ClockInv
<1>8. ScoreInv'
  <2>1. nMisbehavior' \in [Nodes -> 0 .. BanScore]
    BY DownloadAssumption DEF FinalizeNode, ScoreInv
  <2>2. fShouldBan' \in [Nodes -> BOOLEAN]
    BY Zenon DEF FinalizeNode, ScoreInv
  <2> QED BY <2>1, <2>2 DEF ScoreInv
<1> QED BY <1>3, <1>4, <1>5, <1>6, <1>7, <1>8

(* Messages that change no list.                                           *)
LEMMA MessageSteps ==
  ASSUME IndInv, NEW p \in Nodes,
         VersionMessage(p) \/ OtherMessage(p) \/ MisbehavingPeer(p)
  PROVE  IndInv'
<1> USE DEF IndInv
<1>1. UNCHANGED <<queue, flight>> /\ UNCHANGED mapNodeState
  BY DEF VersionMessage, OtherMessage, MisbehavingPeer, peers
<1>2. ClockInv'
  BY Processed, UnchangedParts DEF VersionMessage, OtherMessage, MisbehavingPeer
<1>3. PeersInv'
  BY DEF VersionMessage, OtherMessage, MisbehavingPeer, PeersInv, peers
<1>4. ScoreInv'
  <2>1. CASE MisbehavingPeer(p)
    BY <2>1, Scored, DownloadAssumption DEF MisbehavingPeer
  <2>2. CASE VersionMessage(p) \/ OtherMessage(p)
    BY <2>2, UnchangedParts DEF VersionMessage, OtherMessage
  <2> QED BY <2>1, <2>2
<1> QED BY <1>1, <1>2, <1>3, <1>4, UnchangedParts

(* A block is announced.                                                   *)
LEMMA InvStep ==
  ASSUME IndInv, NEW p \in Nodes, NEW hash \in Blocks, Inv(p, hash)
  PROVE  IndInv'
<1> USE DEF IndInv
<1>1. /\ QueueInv'
      /\ \A b \in Blocks : mapBlocksToDownload'[b] =
           IF b = hash THEN p ELSE mapBlocksToDownload[b]
  BY Queued DEF Inv
<1>2. FlightInv' /\ PeersInv'
  BY UnchangedParts DEF Inv
<1>3. ClockInv'
  BY Processed DEF Inv
<1>4. ScoreInv'
  BY Scored, UnchangedParts, DownloadAssumption DEF Inv, AddBlockToQueue
<1>5. mapBlocksInFlight[hash] = NoNode
  BY DEF Inv, AddBlockToQueue, Listed
<1>6. p \in mapNodeState /\ UNCHANGED <<mapBlocksInFlight, mapNodeState>>
  BY DEF Inv, Greeted, flight, peers
<1>7. OwnersInv'
  BY <1>1, <1>5, <1>6 DEF OwnersInv
<1> QED BY <1>1, <1>2, <1>3, <1>4, <1>7

(* A block arrives, from whomever it was or was not asked.                 *)
LEMMA BlockStep ==
  ASSUME IndInv, NEW p \in Nodes, NEW hash \in Blocks, BlockMessage(p, hash)
  PROVE  IndInv'
<1> USE DEF IndInv
<1>1. {hash} \in SUBSET Blocks
  OBVIOUS
<1>2. /\ QueueInv'
      /\ \A b \in Blocks : mapBlocksToDownload'[b] =
           IF b \in {hash} THEN NoNode ELSE mapBlocksToDownload[b]
  BY <1>1, QueuedRemoved DEF BlockMessage, MarkBlockAsReceived
<1>3. /\ FlightInv'
      /\ \A b \in Blocks : mapBlocksInFlight'[b] =
           IF b \in {hash} THEN NoNode ELSE mapBlocksInFlight[b]
  BY <1>1, InFlightRemoved DEF BlockMessage, MarkBlockAsReceived
<1>4. PeersInv' /\ ScoreInv' /\ UNCHANGED mapNodeState
  BY UnchangedParts DEF BlockMessage, peers
<1>5. OwnersInv'
  BY <1>2, <1>3, <1>4 DEF OwnersInv
<1>6. ClockInv'
  <2>1. AgeAtMessage(p) \in [Blocks -> Nat]
    BY DEF ClockInv, AgeAtMessage
  <2> QED BY <2>1 DEF ClockInv, BlockMessage, MarkBlockAsReceived
<1> QED BY <1>2, <1>3, <1>4, <1>5, <1>6

(* A peer is given up.                                                     *)
LEMMA GiveUpSteps ==
  ASSUME IndInv, NEW p \in Nodes, SendMessagesBans(p) \/ SendMessagesStalls(p)
  PROVE  IndInv'
<1> USE DEF IndInv
<1>1. UNCHANGED <<queue, flight, clock, mapNodeState>> /\ BanDone(p)
  BY DEF SendMessagesBans, SendMessagesStalls
<1>2. PeersInv'
  BY DEF SendMessagesBans, SendMessagesStalls, PeersInv, CanSend, Greeted
<1>3. ScoreInv'
  BY <1>1, Zenon DEF BanDone, ScoreInv
<1> QED BY <1>1, <1>2, <1>3, UnchangedParts

(* The blocks a peer is asked for.                                         *)
LEMMA RequestStep ==
  ASSUME IndInv, NEW p \in Nodes, SendMessagesRequests(p)
  PROVE  IndInv'
<1> USE DEF IndInv
<1>1. PICK S \in SUBSET vBlocksToDownload[p] :
        /\ MarkBlocksAsInFlight(p, S)
        /\ \/ Cardinality(S) = Requests(p) /\ UNCHANGED fDisconnect
           \/ Cardinality(S) < Requests(p) /\ fDisconnect' = fDisconnect \union {p}
  BY DEF SendMessagesRequests
<1>2. S \in SUBSET Blocks
  BY DEF QueueInv
<1>3. Cardinality(S) <= Room(p)
  <2>1. Cardinality(S) \in Nat
    BY <1>2, BlocksFinite
  <2>2. nBlocksToDownload[p] \in Nat /\ nBlocksInFlight[p] \in Nat
    BY DEF QueueInv, FlightInv
  <2> QED BY <1>1, <2>1, <2>2, DownloadAssumption DEF Requests, Room
<1>4. /\ QueueInv' /\ FlightInv'
      /\ \A b \in Blocks : mapBlocksToDownload'[b] =
           IF b \in S THEN NoNode ELSE mapBlocksToDownload[b]
      /\ \A b \in Blocks : mapBlocksInFlight'[b] =
           IF b \in S THEN p ELSE mapBlocksInFlight[b]
  BY <1>1, <1>3, Requested
<1>5. p \in mapNodeState /\ UNCHANGED mapNodeState
  BY DEF SendMessagesRequests, CanSend, Greeted
<1>6. OwnersInv'
  BY <1>4, <1>5 DEF OwnersInv
<1>7. PeersInv'
  BY <1>1, <1>5 DEF PeersInv, SendMessagesRequests
<1>8. ClockInv'
  BY <1>1 DEF ClockInv, MarkBlocksAsInFlight
<1>9. ScoreInv'
  BY Zenon DEF SendMessagesRequests, BanDone, ScoreInv
<1> QED BY <1>4, <1>6, <1>7, <1>8, <1>9

(* Time passes.                                                            *)
LEMMA TickStep ==
  ASSUME IndInv, Tick
  PROVE  IndInv'
<1> USE DEF IndInv
<1>1. UNCHANGED <<queue, flight, score, peers>> /\ UNCHANGED mapNodeState
  BY DEF Tick, peers
<1>3. /\ 2 * BLOCK_DOWNLOAD_TIMEOUT + 1 \in Nat
      /\ BLOCK_DOWNLOAD_TIMEOUT + 1 \in Nat
  BY DownloadAssumption
<1>4. \A b \in Blocks : Capped(age[b] + 1, 2 * BLOCK_DOWNLOAD_TIMEOUT + 1) \in Nat
  BY <1>3 DEF ClockInv, Capped
<1>5. \A p \in Nodes : Capped(idle[p] + 1, BLOCK_DOWNLOAD_TIMEOUT + 1) \in Nat
  BY <1>3 DEF ClockInv, Capped
<1>6. age' \in [Blocks -> Nat] /\ idle' \in [Nodes -> Nat]
  BY <1>4, <1>5 DEF Tick, ClockInv
<1>7. ClockInv'
  BY <1>6 DEF ClockInv, Tick
<1> QED BY <1>1, <1>7, UnchangedParts

(* Every step keeps the invariant.                                         *)
LEMMA NextInv == IndInv /\ [Next]_vars => IndInv'
<1> SUFFICES ASSUME IndInv, [Next]_vars PROVE IndInv'
  OBVIOUS
<1>1. CASE UNCHANGED vars
  <2>1. UNCHANGED <<queue, flight, clock, score, peers, mapNodeState>>
    BY <1>1 DEF vars, peers
  <2> QED BY <2>1, UnchangedParts DEF IndInv
<1>2. CASE Tick
  BY <1>2, TickStep
<1>3. ASSUME NEW p \in Nodes,
             \/ InitializeNode(p) \/ Disconnect(p) \/ FinalizeNode(p)
             \/ VersionMessage(p) \/ OtherMessage(p) \/ MisbehavingPeer(p)
             \/ \E hash \in Blocks : Inv(p, hash) \/ BlockMessage(p, hash)
             \/ SendMessagesBans(p) \/ SendMessagesStalls(p) \/ SendMessagesRequests(p)
      PROVE  IndInv'
  BY <1>3, ConnectionSteps, FinalizeStep, MessageSteps, InvStep, BlockStep, GiveUpSteps,
     RequestStep
<1> QED BY <1>1, <1>2, <1>3 DEF Next

(* The invariant holds in every state of every behaviour.                  *)
LEMMA Invariance == Spec => []IndInv
<1> QED BY InitInv, NextInv, PTL DEF Spec

-----------------------------------------------------------------------------
(* The results                                                             *)

(* The state of the block download is well typed and no peer has more      *)
(* than MAX_BLOCKS_IN_TRANSIT_PER_PEER requests open.                      *)
THEOREM TypeCorrect == Spec => []TypeOK
<1>1. IndInv => TypeOK
  BY DEF IndInv, QueueInv, FlightInv, PeersInv, ClockInv, ScoreInv, TypeOK
<1> QED BY <1>1, Invariance, PTL

(* The maps and the lists of blocks to download and in flight agree and    *)
(* only name nodes that have their state, whatever order peers announce,   *)
(* deliver, misbehave and leave in.                                        *)
THEOREM EntriesAgree == Spec => []EntriesExact
<1>1. IndInv => EntriesExact
  BY DEF IndInv, QueueInv, FlightInv, OwnersInv, EntriesExact
<1> QED BY <1>1, Invariance, PTL

(* The counters are the sizes of the lists.                                *)
THEOREM CountersAgree == Spec => []CountersExact
<1>1. IndInv => CountersExact
  BY DEF IndInv, QueueInv, FlightInv, CountersExact
<1> QED BY <1>1, Invariance, PTL
=============================================================================
