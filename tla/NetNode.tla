------------------------------ MODULE NetNode ------------------------------
(***************************************************************************)
(* The life of a CNode (src/src/net.cpp, src/src/net.h): who has a pointer *)
(* to it, what keeps it alive, when ThreadSocketHandler deletes it, and    *)
(* the slots for outbound connections that nodes carry (CSemaphoreGrant,   *)
(* src/src/sync.h).                                                        *)
(*                                                                         *)
(* cs_vNodes makes the steps under it atomic; it is held over the whole    *)
(* removal pass of the socket thread.  A member of Nodes is a place in     *)
(* memory and may be used again.  Sockets, buffers, bans, the sync node    *)
(* and the choice of addresses are left out: a peer may connect, and a     *)
(* connection end, at any time.                                            *)
(***************************************************************************)
EXTENDS Integers, FiniteSets

CONSTANTS
  Nodes, Addrs, Openers,
  Kinds,        \* of connection attempts: address, name, oneshot, onetry
  Freed, NoNode, NoThread,
  Socket,       \* ThreadSocketHandler
  MaxInbound,   \* nMaxConnections - MAX_OUTBOUND_CONNECTIONS
  nMaxOutbound

CNodes ==
  [addr : Addrs, byName : BOOLEAN, fInbound : BOOLEAN, fNetworkNode : BOOLEAN,
   fDisconnect : BOOLEAN, grantOutbound : BOOLEAN, nRefCount : Int]

ASSUME NetNodeAssumption ==
  /\ MaxInbound \in Nat /\ nMaxOutbound \in Nat
  /\ Freed \notin CNodes /\ NoNode \notin Nodes
  /\ Socket \notin Openers /\ NoThread \notin Openers \union {Socket}

VARIABLES
  node,                        \* the objects, Freed where there is none
  vNodes, vNodesDisconnected,
  value,                       \* of semOutbound
  mDisposableMutex,            \* the thread that is in ~CSemaphoreGrant
  sockPc, sockCopy, sockTodo, sockNode,
  msgPc, msgCopy,
  opener,
  found                        \* places where ConnectNode has found a node

lists   == <<vNodes, vNodesDisconnected>>
slots   == <<value, mDisposableMutex>>
socket  == <<sockPc, sockCopy, sockTodo, sockNode>>
handler == <<msgPc, msgCopy>>
others  == <<opener, found>>
vars    == <<node, lists, slots, socket, handler, others>>

CNode(a, byName, inbound) ==
  [addr |-> a, byName |-> byName, fInbound |-> inbound, fNetworkNode |-> FALSE,
   fDisconnect |-> FALSE, grantOutbound |-> FALSE, nRefCount |-> 1]

Idle == [pc |-> "idle"]

Init ==
  /\ node = [n \in Nodes |-> Freed]
  /\ vNodes = {} /\ vNodesDisconnected = {}
  /\ value = nMaxOutbound /\ mDisposableMutex = NoThread
  /\ sockPc = "top" /\ sockCopy = {} /\ sockTodo = {} /\ sockNode = NoNode
  /\ msgPc = "top" /\ msgCopy = {}
  /\ opener = [t \in Openers |-> Idle]
  /\ found = {}

(* the socket thread has taken sockNode out of vNodes, and is not done *)
Removing == sockPc \in {"post", "clear", "finish"}

(* cs_vNodes is free *)
Unlocked == sockPc # "remove" /\ ~Removing

Live(n) == node[n] # Freed

(* a place where ConnectNode has found a node is not used again *)
Allocatable(n) == ~Live(n) /\ n \notin found

Written(n, field, v) == [node EXCEPT ![n][field] = v]

(* nodes of a copy are still there, see ReferencesProtect *)
Disconnecting(ns) ==
  [n \in Nodes |-> IF n \in ns /\ Live(n) THEN [node[n] EXCEPT !.fDisconnect = TRUE] ELSE node[n]]

Counted(f, ns, d) ==
  [n \in Nodes |-> IF n \in ns /\ f[n] # Freed THEN [f[n] EXCEPT !.nRefCount = @ + d] ELSE f[n]]
AddRef(ns) == Counted(node, ns, 1)
Release(ns) == Counted(node, ns, -1)

Granted(b) == IF b THEN 1 ELSE 0

(* ~CSemaphoreGrant: gives up when another thread is in one *)
Destroy(t, b) ==
  IF mDisposableMutex = NoThread
    THEN mDisposableMutex' = t /\ value' = value + Granted(b)
    ELSE UNCHANGED <<mDisposableMutex, value>>

-----------------------------------------------------------------------------
(* ThreadSocketHandler                                                     *)

StartRemoving ==
  /\ sockPc = "top"
  /\ sockPc' = "remove" /\ sockTodo' = vNodes
  /\ UNCHANGED <<node, lists, slots, sockCopy, sockNode, handler, others>>

Removable(n) == node[n].fDisconnect \/ node[n].nRefCount <= 0

(* erases the node, and begins grantOutbound.Release() *)
RemoveNode(n) ==
  /\ sockPc = "remove" /\ n \in sockTodo
  /\ sockTodo' = sockTodo \ {n}
  /\ IF Removable(n)
       THEN /\ vNodes' = vNodes \ {n} /\ sockNode' = n
            /\ sockPc' = IF node[n].grantOutbound THEN "post" ELSE "finish"
       ELSE UNCHANGED <<vNodes, sockPc, sockNode>>
  /\ UNCHANGED <<node, vNodesDisconnected, slots, sockCopy, handler, others>>

RemovalPosts ==
  /\ sockPc = "post"
  /\ value' = value + 1
  /\ sockPc' = "clear"
  /\ UNCHANGED <<node, lists, mDisposableMutex, sockCopy, sockTodo, sockNode, handler, others>>

StillHasGrant(n) == node[n].grantOutbound
GrantAfterRelease(n) == FALSE

RemovalClears ==
  /\ sockPc = "clear"
  /\ node' = Written(sockNode, "grantOutbound", GrantAfterRelease(sockNode))
  /\ sockPc' = "finish"
  /\ UNCHANGED <<lists, slots, sockCopy, sockTodo, sockNode, handler, others>>

OwesReleaseNetworkOnly(n) == node[n].fNetworkNode
OwesRelease(n) == node[n].fNetworkNode \/ node[n].fInbound

FinishRemoving ==
  /\ sockPc = "finish"
  /\ node' = Counted(Disconnecting({sockNode}), {sockNode}, IF OwesRelease(sockNode) THEN -1 ELSE 0)
  /\ vNodesDisconnected' = vNodesDisconnected \union {sockNode}
  /\ sockPc' = "remove" /\ sockNode' = NoNode
  /\ UNCHANGED <<vNodes, slots, sockCopy, sockTodo, handler, others>>

StartDeleting ==
  /\ sockPc = "remove" /\ sockTodo = {}
  /\ sockPc' = "delete" /\ sockTodo' = vNodesDisconnected
  /\ UNCHANGED <<node, lists, slots, sockCopy, sockNode, handler, others>>

DeleteNode(n) ==
  /\ sockPc = "delete" /\ n \in sockTodo
  /\ sockTodo' = sockTodo \ {n}
  /\ IF node[n].nRefCount <= 0
       THEN /\ vNodesDisconnected' = vNodesDisconnected \ {n}
            /\ node' = [node EXCEPT ![n] = Freed]
            /\ Destroy(Socket, node[n].grantOutbound)
       ELSE UNCHANGED <<vNodesDisconnected, node, slots>>
  /\ sockPc' = IF mDisposableMutex' = Socket THEN "destroyed" ELSE "delete"
  /\ UNCHANGED <<vNodes, sockCopy, sockNode, handler, others>>

LeaveDestructor ==
  /\ sockPc = "destroyed"
  /\ mDisposableMutex' = NoThread /\ sockPc' = "delete"
  /\ UNCHANGED <<node, lists, value, sockCopy, sockTodo, sockNode, handler, others>>

Accept(n, a) ==
  /\ sockPc = "delete" /\ sockTodo = {} /\ Allocatable(n)
  /\ Cardinality({m \in vNodes : node[m].fInbound}) < MaxInbound
  /\ node' = [node EXCEPT ![n] = CNode(a, FALSE, TRUE)]
  /\ vNodes' = vNodes \union {n}
  /\ sockPc' = "copy"
  /\ UNCHANGED <<vNodesDisconnected, slots, sockCopy, sockTodo, sockNode, handler, others>>

CopyNodes ==
  /\ sockPc = "copy" \/ (sockPc = "delete" /\ sockTodo = {})
  /\ node' = AddRef(vNodes) /\ sockCopy' = vNodes
  /\ sockPc' = "service"
  /\ UNCHANGED <<lists, slots, sockTodo, sockNode, handler, others>>

(* servicing the sockets: some connections are closed, or were silent for  *)
(* too long, which only the next removal pass of this thread acts on       *)
ReleaseNodes ==
  /\ sockPc = "service"
  /\ \E ns \in SUBSET sockCopy : node' = Counted(Disconnecting(ns), sockCopy, -1)
  /\ sockCopy' = {}
  /\ sockPc' = "top"
  /\ UNCHANGED <<lists, slots, sockTodo, sockNode, handler, others>>

SocketThread ==
  \/ StartRemoving \/ RemovalPosts \/ RemovalClears \/ FinishRemoving \/ StartDeleting \/ LeaveDestructor
  \/ CopyNodes \/ ReleaseNodes
  \/ \E n \in Nodes : RemoveNode(n) \/ DeleteNode(n) \/ \E a \in Addrs : Accept(n, a)

-----------------------------------------------------------------------------
(* ThreadMessageHandler                                                    *)

CopiedWithoutRef(ns) == node
Copied(ns) == AddRef(ns)

HandlerCopies ==
  /\ msgPc = "top" /\ Unlocked
  /\ node' = Copied(vNodes) /\ msgCopy' = vNodes
  /\ msgPc' = "process"
  /\ UNCHANGED <<lists, slots, socket, others>>

(* ProcessMessages and SendMessages: each may end the connection *)
HandlerProcesses ==
  /\ msgPc = "process"
  /\ \E ns \in SUBSET msgCopy : node' = Disconnecting(ns)
  /\ msgPc' = "release"
  /\ UNCHANGED <<lists, slots, socket, msgCopy, others>>

HandlerReleases ==
  /\ msgPc = "release" /\ Unlocked
  /\ node' = Release(msgCopy) /\ msgCopy' = {}
  /\ msgPc' = "top"
  /\ UNCHANGED <<lists, slots, socket, others>>

MessageThread == HandlerCopies \/ HandlerProcesses \/ HandlerReleases

-----------------------------------------------------------------------------
(* ThreadOpenConnections, ThreadOpenAddedConnections, ProcessOneShot and   *)
(* addnode onetry, through OpenNetworkConnection and ConnectNode.  What    *)
(* follows a use of a deleted node is not modelled: the thread stops.      *)

Goes(t, pc) == opener' = [opener EXCEPT ![t].pc = pc]
Returns(t) ==
  opener' = [opener EXCEPT ![t] =
    IF opener[t].kind = "onetry" THEN Idle ELSE [pc |-> "return", grant |-> opener[t].grant]]

(* the constructor of the grant waits; onetry calls ConnectNode without one *)
Open(t, a, kind) ==
  /\ opener[t].pc = "idle"
  /\ kind # "onetry" => value > 0
  /\ value' = value - Granted(kind # "onetry")
  /\ opener' = [opener EXCEPT ![t] =
       [pc |-> IF kind = "onetry" THEN "connect" ELSE "find", addr |-> a, kind |-> kind,
        grant |-> kind # "onetry", pnode |-> NoNode, ref |-> 0]]
  /\ UNCHANGED <<node, lists, mDisposableMutex, socket, handler, found>>

ByName(t) == opener[t].kind # "address"

AlreadyConnected(t) ==
  \E n \in vNodes : node[n].addr = opener[t].addr /\ (ByName(t) => node[n].byName)

OpenerFinds(t) ==
  /\ opener[t].pc = "find" /\ Unlocked
  /\ IF AlreadyConnected(t) THEN Returns(t)
     ELSE Goes(t, IF ByName(t) THEN "connect" ELSE "findagain")
  /\ UNCHANGED <<node, lists, slots, socket, handler, found>>

(* ConnectNode: a node that has appeared since.  Its count is read and     *)
(* written without cs_vNodes.                                              *)
FindsNode(t, n) ==
  /\ opener[t].pc = "findagain" /\ Unlocked
  /\ n \in vNodes /\ node[n].addr = opener[t].addr
  /\ opener' = [opener EXCEPT ![t].pc = "addref", ![t].pnode = n]
  /\ found' = found \union {n}
  /\ UNCHANGED <<node, lists, slots, socket, handler>>

FindsNone(t) ==
  /\ opener[t].pc = "findagain" /\ Unlocked /\ ~AlreadyConnected(t)
  /\ Goes(t, "connect")
  /\ UNCHANGED <<node, lists, slots, socket, handler, found>>

ReadsCount(t) ==
  /\ opener[t].pc = "addref" /\ Live(opener[t].pnode)
  /\ opener' = [opener EXCEPT ![t].pc = "count", ![t].ref = node[opener[t].pnode].nRefCount]
  /\ UNCHANGED <<node, lists, slots, socket, handler, found>>

(* either of two racing updates may be lost *)
WritesCount(t) ==
  /\ opener[t].pc = "count" /\ Live(opener[t].pnode)
  /\ LET n == opener[t].pnode
     IN  \/ node' = Written(n, "nRefCount", opener[t].ref + 1)
         \/ node[n].nRefCount # opener[t].ref /\ UNCHANGED node
  /\ opener' = [opener EXCEPT ![t].pc = "move", ![t].ref = 0]
  /\ UNCHANGED <<lists, slots, socket, handler, found>>

ConnectFails(t) ==
  /\ opener[t].pc = "connect"
  /\ Returns(t)
  /\ UNCHANGED <<node, lists, slots, socket, handler, found>>

Connects(t, n) ==
  /\ opener[t].pc = "connect" /\ Allocatable(n) /\ Unlocked
  /\ node' = [node EXCEPT ![n] = CNode(opener[t].addr, ByName(t), FALSE)]
  /\ vNodes' = vNodes \union {n}
  /\ IF opener[t].kind = "onetry" THEN Returns(t)
     ELSE opener' = [opener EXCEPT ![t].pc = "move", ![t].pnode = n]
  /\ UNCHANGED <<vNodesDisconnected, slots, socket, handler, found>>

(* MoveTo: releases the grant that the node has, if any, and stores the    *)
(* thread's own.  Nothing orders these steps with those of another MoveTo  *)
(* or of the removal pass on the same node.                                *)
MoveTests(t) ==
  /\ opener[t].pc = "move" /\ Live(opener[t].pnode)
  /\ Goes(t, IF node[opener[t].pnode].grantOutbound THEN "post" ELSE "store")
  /\ UNCHANGED <<node, lists, slots, socket, handler, found>>

MovePosts(t) ==
  /\ opener[t].pc = "post" /\ Live(opener[t].pnode)
  /\ value' = value + 1
  /\ Goes(t, "clear")
  /\ UNCHANGED <<node, lists, mDisposableMutex, socket, handler, found>>

MoveClears(t) ==
  /\ opener[t].pc = "clear" /\ Live(opener[t].pnode)
  /\ node' = Written(opener[t].pnode, "grantOutbound", FALSE)
  /\ Goes(t, "restore")
  /\ UNCHANGED <<lists, slots, socket, handler, found>>

MoveStores(t) ==
  /\ opener[t].pc \in {"store", "restore"} /\ Live(opener[t].pnode)
  /\ node' = Written(opener[t].pnode, "grantOutbound", TRUE)
  /\ opener' = [opener EXCEPT ![t].pc = "mark", ![t].grant = FALSE]
  /\ UNCHANGED <<lists, slots, socket, handler, found>>

SetsNetworkNode(t) ==
  /\ opener[t].pc = "mark" /\ Live(opener[t].pnode)
  /\ node' = Written(opener[t].pnode, "fNetworkNode", TRUE)
  /\ IF opener[t].kind = "oneshot" THEN Goes(t, "oneshot") ELSE Returns(t)
  /\ UNCHANGED <<lists, slots, socket, handler, found>>

SetsOneShot(t) ==
  /\ opener[t].pc = "oneshot" /\ Live(opener[t].pnode)
  /\ Returns(t)
  /\ UNCHANGED <<node, lists, slots, socket, handler, found>>

(* the grant goes out of scope *)
OpenerReturns(t) ==
  /\ opener[t].pc = "return"
  /\ Destroy(t, opener[t].grant)
  /\ opener' = [opener EXCEPT ![t] = IF mDisposableMutex' = t THEN [pc |-> "destroyed"] ELSE Idle]
  /\ UNCHANGED <<node, lists, socket, handler, found>>

OpenerLeaves(t) ==
  /\ opener[t].pc = "destroyed"
  /\ mDisposableMutex' = NoThread /\ opener' = [opener EXCEPT ![t] = Idle]
  /\ UNCHANGED <<node, lists, value, socket, handler, found>>

(* AcceptPendingSyncCheckpoint walks vNodes without cs_vNodes, in the      *)
(* thread that has cs_main                                                 *)
WalkReads(t, n) ==
  /\ opener[t].pc = "idle" /\ n \in vNodes
  /\ opener' = [opener EXCEPT ![t] = [pc |-> "relay", pnode |-> n]]
  /\ UNCHANGED <<node, lists, slots, socket, handler, found>>

WalkRelays(t) ==
  /\ opener[t].pc = "relay" /\ Live(opener[t].pnode)
  /\ opener' = [opener EXCEPT ![t] = Idle]
  /\ UNCHANGED <<node, lists, slots, socket, handler, found>>

Opener(t) ==
  \/ \E a \in Addrs, kind \in Kinds : Open(t, a, kind)
  \/ \E n \in Nodes : FindsNode(t, n) \/ Connects(t, n) \/ WalkReads(t, n)
  \/ OpenerFinds(t) \/ FindsNone(t) \/ ReadsCount(t) \/ WritesCount(t) \/ ConnectFails(t)
  \/ MoveTests(t) \/ MovePosts(t) \/ MoveClears(t) \/ MoveStores(t) \/ SetsNetworkNode(t) \/ SetsOneShot(t)
  \/ OpenerReturns(t) \/ OpenerLeaves(t) \/ WalkRelays(t)

-----------------------------------------------------------------------------
Next ==
  \/ SocketThread \/ MessageThread
  \/ \E t \in Openers : Opener(t)

(* The two threads run as long as the node does.  cs_vNodes is free for as *)
(* long as select takes in every round of the socket thread, so that the   *)
(* message handler gets it at last.                                        *)
Spec ==
  /\ Init /\ [][Next]_vars
  /\ WF_vars(SocketThread) /\ WF_vars(MessageThread) /\ SF_vars(HandlerReleases)

-----------------------------------------------------------------------------
(* Properties                                                              *)

(* "wait until threads are done using it" (net.cpp:818), for the threads   *)
(* that count their references under cs_vNodes: what ThreadSocketHandler   *)
(* and ThreadMessageHandler have copied, and what is listed, has not been  *)
(* deleted, whatever else goes on; unless ConnectNode has found the node   *)
(* and incremented its count without the lock.                             *)
ReferencesProtect ==
  \A n \in vNodes \union vNodesDisconnected \union sockCopy \union msgCopy :
    Live(n) \/ n \in found

(* A connection that has ended is deleted, and its place is free again, if *)
(* its base reference is one that the socket thread gives up: it was       *)
(* accepted, or OpenNetworkConnection had marked it in time.               *)
DisconnectedIsDeleted ==
  \A n \in Nodes :
    (n \in vNodes /\ node[n].fDisconnect /\ (node[n].fInbound \/ node[n].fNetworkNode))
      ~> (~Live(n) \/ n \in found)

(* The slots that threads and nodes hold.  A thread that has posted the    *)
(* grant of a node puts its own in the place of it: the two are one.       *)
Held ==
  Cardinality({t \in Openers :
                 opener[t].pc \notin {"idle", "destroyed", "relay", "clear", "restore"} /\ opener[t].grant})
    + Cardinality({n \in Nodes :
                     Live(n) /\ node[n].grantOutbound /\ ~(sockPc = "clear" /\ n = sockNode)})

(* However grants are moved, released and destroyed, the only way to more  *)
(* than nMaxOutbound outbound slots is that two threads release the grant  *)
(* of a node which ConnectNode has found, and that gives at most one slot  *)
(* for each such node.                                                     *)
SlotsNotDuplicated == value + Held <= nMaxOutbound + Cardinality(found)

(* nodes that a thread has a pointer to without a reference of its own *)
Pointing ==
  {"addref", "count", "move", "post", "clear", "store", "restore", "mark", "oneshot", "relay"}
Using == {opener[t].pnode : t \in {u \in Openers : opener[u].pc \in Pointing}}


(* "RAII-style semaphore lock" (sync.h:210): no slot is lost or doubled.   *)
(* The code does not keep it: README, section 5.                           *)
SlotsConserved == value + Held = nMaxOutbound

(* Every node in the disconnected list will be deleted one day.            *)
(* The code does not keep it: README, section 5.                           *)
NoneLeaked == \A n \in Nodes : (n \in vNodesDisconnected) ~> ~Live(n)
=============================================================================
