---------------------------- MODULE BlockDownload ----------------------------
(***************************************************************************)
(* Which block is asked of which peer (src/src/main.cpp, CNodeState and    *)
(* the functions on mapBlocksToDownload and mapBlocksInFlight), and when a *)
(* peer is given up (the stall check and the ban score of SendMessages,    *)
(* the inactivity check of src/src/net.cpp).                               *)
(*                                                                         *)
(* Everything happens with cs_main held, so a handler is one step; only    *)
(* fDisconnect is set by other threads at any moment.  The two lists of a  *)
(* peer are sets: ahead[b] is what precedes b in the list of blocks to     *)
(* download, and the list of blocks in flight is ordered by age.           *)
(*                                                                         *)
(* Times are kept as differences, in units that divide                     *)
(* BLOCK_DOWNLOAD_TIMEOUT: age[b] = now - nTime, idle[p] = now -           *)
(* nLastBlockReceive, and the same differences at nLastBlockProcess, which *)
(* the stall check reads, as ageProcess[b] and idleProcess[p] (0 when the  *)
(* request, or the receipt, is later than nLastBlockProcess).              *)
(*                                                                         *)
(* Whether AlreadyHave() holds of a block and whether blocks are being     *)
(* imported is decided elsewhere: an inv or a block message may take       *)
(* effect here, or be a message without effect (OtherMessage).  A message  *)
(* with a bad header or checksum is dropped before it is dispatched        *)
(* (main.cpp:4831): it only makes the socket thread's inactivity check     *)
(* wait, and is a stuttering step here.                                    *)
(*                                                                         *)
(* The code never uses a NodeId twice; here the id of a finished node may  *)
(* come back, which only adds behaviours.                                  *)
(***************************************************************************)
EXTENDS Integers, FiniteSets

CONSTANTS
  Nodes, NoNode, Blocks,
  Local,                            \* nodes whose address is local, never banned
  Deleted,                          \* nodes that are deleted once disconnected
  MAX_BLOCKS_IN_TRANSIT_PER_PEER,
  BLOCK_DOWNLOAD_TIMEOUT,
  QueueLimit, QueuePenalty,         \* 5000 and 10 in AddBlockToQueue
  BanScore,                         \* -banscore
  Penalties                         \* howmuch, wherever else Misbehaving is called

ASSUME DownloadAssumption ==
  /\ NoNode \notin Nodes /\ Local \subseteq Nodes /\ Deleted \subseteq Nodes
  /\ IsFiniteSet(Blocks)
  /\ MAX_BLOCKS_IN_TRANSIT_PER_PEER \in Nat \ {0}
  /\ BLOCK_DOWNLOAD_TIMEOUT \in Nat \ {0}
  /\ QueueLimit \in Nat /\ QueuePenalty \in Nat
  /\ BanScore \in Nat \ {0} /\ Penalties \subseteq Nat

VARIABLES
  mapNodeState,           \* nodes that have a CNodeState
  fDisconnect,            \* nodes to be disconnected
  nVersion,               \* nodes that have sent their version message
  vBlocksToDownload, nBlocksToDownload, ahead,
  vBlocksInFlight, nBlocksInFlight, age, ageProcess,
  idle, idleProcess,
  mapBlocksToDownload, mapBlocksInFlight,
  nMisbehavior, fShouldBan

queue  == <<vBlocksToDownload, nBlocksToDownload, ahead, mapBlocksToDownload>>
flight == <<vBlocksInFlight, nBlocksInFlight, mapBlocksInFlight>>
clock  == <<age, ageProcess, idle, idleProcess>>
score  == <<nMisbehavior, fShouldBan>>
peers  == <<mapNodeState, fDisconnect, nVersion>>
vars   == <<queue, flight, clock, score, peers>>

Init ==
  /\ mapNodeState = {} /\ fDisconnect = {} /\ nVersion = {}
  /\ vBlocksToDownload = [p \in Nodes |-> {}] /\ nBlocksToDownload = [p \in Nodes |-> 0]
  /\ vBlocksInFlight = [p \in Nodes |-> {}] /\ nBlocksInFlight = [p \in Nodes |-> 0]
  /\ mapBlocksToDownload = [b \in Blocks |-> NoNode]
  /\ mapBlocksInFlight = [b \in Blocks |-> NoNode]
  /\ ahead = [b \in Blocks |-> {}]
  /\ age = [b \in Blocks |-> 0] /\ ageProcess = [b \in Blocks |-> 0]
  /\ idle = [p \in Nodes |-> 0] /\ idleProcess = [p \in Nodes |-> 0]
  /\ nMisbehavior = [p \in Nodes |-> 0] /\ fShouldBan = [p \in Nodes |-> FALSE]

-----------------------------------------------------------------------------
(* Misbehaving; the score counts up to the threshold it is compared with   *)

Capped(n, limit) == IF n < limit THEN n ELSE limit

Misbehaving(p, howmuch) ==
  LET total == Capped(nMisbehavior[p] + howmuch, BanScore)
  IN /\ nMisbehavior' = [nMisbehavior EXCEPT ![p] = total]
     /\ fShouldBan' = [fShouldBan EXCEPT
          ![p] = @ \/ (howmuch # 0 /\ total = BanScore)]

-----------------------------------------------------------------------------
(* The lists of blocks to download and in flight                           *)

(* the lists, counters and maps without the blocks S, which leave the list *)
(* of the node that the map names                                          *)
QueuedAt(S, q) == {b \in S : mapBlocksToDownload[b] = q}
InFlightAt(S, q) == {b \in S : mapBlocksInFlight[b] = q}

RemoveQueued(S) ==
  /\ vBlocksToDownload' = [q \in Nodes |-> vBlocksToDownload[q] \ QueuedAt(S, q)]
  /\ nBlocksToDownload' = [q \in Nodes |->
       nBlocksToDownload[q] - Cardinality(QueuedAt(S, q))]
  /\ mapBlocksToDownload' = [b \in Blocks |->
       IF b \in S THEN NoNode ELSE mapBlocksToDownload[b]]
  /\ ahead' = [b \in Blocks |-> IF b \in S THEN {} ELSE ahead[b] \ S]

InFlightWithout(S) == [q \in Nodes |-> vBlocksInFlight[q] \ InFlightAt(S, q)]
CountKept(S) == nBlocksInFlight
CountWithout(S) == [q \in Nodes |-> nBlocksInFlight[q] - Cardinality(InFlightAt(S, q))]

RemoveInFlight(S) ==
  /\ vBlocksInFlight' = InFlightWithout(S)
  /\ nBlocksInFlight' = CountWithout(S)
  /\ mapBlocksInFlight' = [b \in Blocks |->
       IF b \in S THEN NoNode ELSE mapBlocksInFlight[b]]

(* nLastBlockReceive is for a requested block that the peer itself sends   *)
IsAnyReceipt(p, hash) == mapBlocksInFlight[hash] # NoNode
IsReceipt(p, hash) == mapBlocksInFlight[hash] = p

(* every message that is processed first sets nLastBlockProcess            *)
AgeAtMessage(p) == [b \in Blocks |->
  IF b \in vBlocksInFlight[p] THEN age[b] ELSE ageProcess[b]]

MarkBlockAsReceived(p, hash) ==
  /\ RemoveQueued({hash})
  /\ RemoveInFlight({hash})
  /\ age' = [age EXCEPT ![hash] = 0]
  /\ ageProcess' = [AgeAtMessage(p) EXCEPT ![hash] = 0]
  /\ idle' = [idle EXCEPT ![p] = IF IsReceipt(p, hash) THEN 0 ELSE @]
  /\ idleProcess' = [idleProcess EXCEPT ![p] = IF IsReceipt(p, hash) THEN 0 ELSE idle[p]]

MessageProcessed(p) ==
  /\ ageProcess' = AgeAtMessage(p)
  /\ idleProcess' = [idleProcess EXCEPT ![p] = idle[p]]
  /\ UNCHANGED <<age, idle>>

Listed(hash) == mapBlocksToDownload[hash] # NoNode \/ mapBlocksInFlight[hash] # NoNode

AddBlockToQueue(p, hash) ==
  /\ ~Listed(hash)
  /\ vBlocksToDownload' = [vBlocksToDownload EXCEPT ![p] = @ \union {hash}]
  /\ ahead' = [ahead EXCEPT ![hash] = vBlocksToDownload[p]]
  /\ nBlocksToDownload' = [nBlocksToDownload EXCEPT ![p] = @ + 1]
  /\ mapBlocksToDownload' = [mapBlocksToDownload EXCEPT ![hash] = p]
  /\ IF nBlocksToDownload[p] + 1 > QueueLimit
       THEN Misbehaving(p, QueuePenalty)
       ELSE UNCHANGED score

(* MarkBlockAsInFlight for the blocks S, one after the other               *)
MarkBlocksAsInFlight(p, S) ==
  /\ RemoveQueued(S)
  /\ vBlocksInFlight' = [InFlightWithout(S) EXCEPT ![p] = @ \union S]
  /\ nBlocksInFlight' = [CountWithout(S) EXCEPT ![p] = @ + Cardinality(S)]
  /\ mapBlocksInFlight' = [b \in Blocks |-> IF b \in S THEN p ELSE mapBlocksInFlight[b]]
  /\ age' = [b \in Blocks |-> IF b \in S THEN 0 ELSE age[b]]
  /\ ageProcess' = [b \in Blocks |-> IF b \in S THEN 0 ELSE ageProcess[b]]
  /\ IF nBlocksInFlight[p] = 0 /\ S # {}
       THEN /\ idle' = [idle EXCEPT ![p] = 0]
            /\ idleProcess' = [idleProcess EXCEPT ![p] = 0]
       ELSE UNCHANGED <<idle, idleProcess>>

-----------------------------------------------------------------------------
(* Connections                                                             *)

(* the constructor of CNode; without a node its CNodeState has the initial *)
(* values                                                                  *)
InitializeNode(p) ==
  /\ p \notin mapNodeState
  /\ mapNodeState' = mapNodeState \union {p}
  /\ UNCHANGED <<fDisconnect, nVersion, queue, flight, clock, score>>

(* the peer closes the connection, an error, an obsolete version, nothing  *)
(* received for 90 minutes, shutdown                                       *)
Disconnect(p) ==
  /\ p \in mapNodeState \ fDisconnect
  /\ fDisconnect' = fDisconnect \union {p}
  /\ UNCHANGED <<mapNodeState, nVersion, queue, flight, clock, score>>

(* what the destructor of CNode erases from the two maps *)
MapKeepsNode(map, list) == map
MapWithoutNode(map, list) == [b \in Blocks |-> IF b \in list THEN NoNode ELSE map[b]]

FinalizeNode(p) ==
  /\ p \in mapNodeState /\ p \in fDisconnect
  /\ mapBlocksInFlight' = MapWithoutNode(mapBlocksInFlight, vBlocksInFlight[p])
  /\ mapBlocksToDownload' = MapWithoutNode(mapBlocksToDownload, vBlocksToDownload[p])
  /\ mapNodeState' = mapNodeState \ {p}
  /\ fDisconnect' = fDisconnect \ {p} /\ nVersion' = nVersion \ {p}
  /\ vBlocksToDownload' = [vBlocksToDownload EXCEPT ![p] = {}]
  /\ nBlocksToDownload' = [nBlocksToDownload EXCEPT ![p] = 0]
  /\ vBlocksInFlight' = [vBlocksInFlight EXCEPT ![p] = {}]
  /\ nBlocksInFlight' = [nBlocksInFlight EXCEPT ![p] = 0]
  /\ ahead' = [b \in Blocks |-> IF b \in vBlocksToDownload[p] THEN {} ELSE ahead[b]]
  /\ age' = [b \in Blocks |-> IF b \in vBlocksInFlight[p] THEN 0 ELSE age[b]]
  /\ ageProcess' = [b \in Blocks |-> IF b \in vBlocksInFlight[p] THEN 0 ELSE ageProcess[b]]
  /\ idle' = [idle EXCEPT ![p] = 0] /\ idleProcess' = [idleProcess EXCEPT ![p] = 0]
  /\ nMisbehavior' = [nMisbehavior EXCEPT ![p] = 0]
  /\ fShouldBan' = [fShouldBan EXCEPT ![p] = FALSE]

-----------------------------------------------------------------------------
(* ProcessMessage                                                          *)

Greeted(p) == p \in mapNodeState /\ p \in nVersion

VersionMessage(p) ==
  /\ p \in mapNodeState /\ p \notin nVersion
  /\ nVersion' = nVersion \union {p}
  /\ MessageProcessed(p)
  /\ UNCHANGED <<mapNodeState, fDisconnect, queue, flight, score>>

(* an inv of a block that the node does not have *)
Inv(p, hash) ==
  /\ Greeted(p)
  /\ AddBlockToQueue(p, hash)
  /\ MessageProcessed(p)
  /\ UNCHANGED <<peers, flight>>

(* any other message, and an inv or a block message without effect here *)
OtherMessage(p) ==
  /\ Greeted(p)
  /\ MessageProcessed(p)
  /\ UNCHANGED <<peers, queue, flight, score>>

(* a message that is punished, or a block of the peer that another thread  *)
(* finds invalid                                                           *)
MisbehavingPeer(p) ==
  /\ p \in mapNodeState
  /\ \E howmuch \in Penalties : Misbehaving(p, howmuch)
  /\ MessageProcessed(p) \/ UNCHANGED clock
  /\ UNCHANGED <<peers, queue, flight>>

BlockMessage(p, hash) ==
  /\ Greeted(p)
  /\ MarkBlockAsReceived(p, hash)
  /\ UNCHANGED <<peers, score>>

-----------------------------------------------------------------------------
(* SendMessages                                                            *)

CanSend(p) == Greeted(p) /\ p \notin fDisconnect

MustBan(p) == fShouldBan[p] /\ p \notin Local
BanDone(p) == fShouldBan' = [fShouldBan EXCEPT ![p] = FALSE] /\ UNCHANGED nMisbehavior

BansOnlyAddress(p) ==
  /\ CanSend(p) /\ MustBan(p)
  /\ BanDone(p)
  /\ UNCHANGED <<peers, queue, flight, clock>>
SendMessagesBans(p) ==
  /\ CanSend(p) /\ MustBan(p)
  /\ fDisconnect' = fDisconnect \union {p}
  /\ BanDone(p)
  /\ UNCHANGED <<mapNodeState, nVersion, queue, flight, clock>>

(* the front of vBlocksInFlight has the greatest age *)
Overdue(b) == ageProcess[b] > 2 * BLOCK_DOWNLOAD_TIMEOUT
Stalling(p) ==
  /\ nBlocksInFlight[p] # 0
  /\ idleProcess[p] > BLOCK_DOWNLOAD_TIMEOUT
  /\ \E b \in vBlocksInFlight[p] : Overdue(b)

SendMessagesStalls(p) ==
  /\ CanSend(p) /\ ~MustBan(p) /\ Stalling(p)
  /\ fDisconnect' = fDisconnect \union {p}
  /\ BanDone(p)
  /\ UNCHANGED <<mapNodeState, nVersion, queue, flight, clock>>

(* the first blocks of the list, as many as there is room for; fewer if    *)
(* another thread sets fDisconnect during the loop                         *)
NewestFirst(p, S) == \A b \in vBlocksToDownload[p] : ahead[b] \intersect S # {} => b \in S
Front(p, S) == \A b \in S : ahead[b] \subseteq S
Room(p) == MAX_BLOCKS_IN_TRANSIT_PER_PEER - nBlocksInFlight[p]
Requests(p) == IF nBlocksToDownload[p] < Room(p) THEN nBlocksToDownload[p] ELSE Room(p)

SendMessagesRequests(p) ==
  /\ CanSend(p) /\ ~MustBan(p) /\ ~Stalling(p)
  /\ \E S \in SUBSET vBlocksToDownload[p] :
       /\ Front(p, S)
       /\ MarkBlocksAsInFlight(p, S)
       /\ \/ Cardinality(S) = Requests(p) /\ UNCHANGED fDisconnect
          \/ Cardinality(S) < Requests(p) /\ fDisconnect' = fDisconnect \union {p}
  /\ BanDone(p)
  /\ UNCHANGED <<mapNodeState, nVersion>>

SendMessages(p) ==
  SendMessagesBans(p) \/ SendMessagesStalls(p) \/ SendMessagesRequests(p)

(* time passes; differences count up to the bounds they are compared with  *)
InFlight(b) == mapBlocksInFlight[b] # NoNode
Tick ==
  /\ age' = [b \in Blocks |-> IF InFlight(b)
       THEN Capped(age[b] + 1, 2 * BLOCK_DOWNLOAD_TIMEOUT + 1) ELSE age[b]]
  /\ idle' = [p \in Nodes |-> IF nBlocksInFlight[p] # 0
       THEN Capped(idle[p] + 1, BLOCK_DOWNLOAD_TIMEOUT + 1) ELSE idle[p]]
  /\ UNCHANGED <<ageProcess, idleProcess, peers, queue, flight, score>>

-----------------------------------------------------------------------------
Next ==
  \/ \E p \in Nodes :
       \/ InitializeNode(p) \/ Disconnect(p) \/ FinalizeNode(p)
       \/ VersionMessage(p) \/ OtherMessage(p) \/ MisbehavingPeer(p)
       \/ \E hash \in Blocks : Inv(p, hash) \/ BlockMessage(p, hash)
       \/ SendMessagesBans(p) \/ SendMessagesStalls(p) \/ SendMessagesRequests(p)
  \/ Tick

Spec == Init /\ [][Next]_vars

(* The handler thread visits every node and time passes.  The socket       *)
(* thread deletes a disconnected node if it was accepted, or marked as a   *)
(* network node in time (DisconnectedIsDeleted of NetNode); nothing is     *)
(* assumed of what peers send.                                             *)
Fairness ==
  /\ WF_vars(Tick)
  /\ \A p \in Nodes : WF_vars(SendMessages(p))
  /\ \A p \in Deleted : WF_vars(FinalizeNode(p))

FairSpec == Spec /\ Fairness

-----------------------------------------------------------------------------
TypeOK ==
  /\ mapNodeState \subseteq Nodes
  /\ fDisconnect \subseteq mapNodeState /\ nVersion \subseteq mapNodeState
  /\ vBlocksToDownload \in [Nodes -> SUBSET Blocks]
  /\ vBlocksInFlight \in [Nodes -> SUBSET Blocks]
  /\ nBlocksToDownload \in [Nodes -> Nat]
  /\ nBlocksInFlight \in [Nodes -> 0 .. MAX_BLOCKS_IN_TRANSIT_PER_PEER]
  /\ mapBlocksToDownload \in [Blocks -> Nodes \union {NoNode}]
  /\ mapBlocksInFlight \in [Blocks -> Nodes \union {NoNode}]
  /\ ahead \in [Blocks -> SUBSET Blocks]
  /\ age \in [Blocks -> Nat] /\ ageProcess \in [Blocks -> Nat]
  /\ idle \in [Nodes -> Nat] /\ idleProcess \in [Nodes -> Nat]
  /\ nMisbehavior \in [Nodes -> 0 .. BanScore] /\ fShouldBan \in [Nodes -> BOOLEAN]

(* A block is in the list that its map entry names and in no other list,   *)
(* and the node that the entry names still has its state: State() is       *)
(* never NULL and no iterator is stale in MarkBlockAsReceived.             *)
EntriesExact ==
  /\ \A b \in Blocks, p \in Nodes :
       /\ (b \in vBlocksToDownload[p]) <=> (mapBlocksToDownload[b] = p)
       /\ (b \in vBlocksInFlight[p]) <=> (mapBlocksInFlight[b] = p)
  /\ \A b \in Blocks :
       /\ mapBlocksToDownload[b] = NoNode \/ mapBlocksInFlight[b] = NoNode
       /\ mapBlocksToDownload[b] \in mapNodeState \union {NoNode}
       /\ mapBlocksInFlight[b] \in mapNodeState \union {NoNode}

(* The counters, which the loops and the stall check trust before they     *)
(* read the front of a list, are the sizes of the lists.                   *)
CountersExact ==
  \A p \in Nodes :
    /\ nBlocksToDownload[p] = Cardinality(vBlocksToDownload[p])
    /\ nBlocksInFlight[p] = Cardinality(vBlocksInFlight[p])

(* No message of the peer was dispatched since the clock last moved.       *)
Unheard(p) ==
  \/ idleProcess[p] # idle[p]
  \/ \E b \in vBlocksInFlight[p] : ageProcess[b] # age[b]

(* A block leaves the list of a peer (it is requested, it arrives, or the  *)
(* peer is given up) unless at last no message of the peer is dispatched   *)
(* any more and yet it is not disconnected.  This takes the first-in       *)
(* first-out order and the stall check together.                           *)
QueuedLeaves ==
  \A b \in Blocks, p \in Deleted :
    <>[](b \in vBlocksToDownload[p]) => <>[]Unheard(p)

(* A request stays open for ever only at a peer that keeps sending other   *)
(* requested blocks, for which the stall check never triggers, or at one   *)
(* of which no message is dispatched any more, which it does not see.      *)
Delivers(p) == \E c \in vBlocksInFlight[p] : BlockMessage(p, c)
OpenOnlyIfDelivering ==
  \A b \in Blocks, p \in Deleted :
    <>[](b \in vBlocksInFlight[p]) => <>[]Unheard(p) \/ []<><<Delivers(p)>>_vars

(* A peer that reached the ban score is disconnected, unless its address   *)
(* is local or it never sends its version message.                         *)
BannedLeaves ==
  \A p \in Nodes \ Local :
    fShouldBan[p] /\ p \in nVersion ~> p \in fDisconnect \/ p \notin mapNodeState
=============================================================================
