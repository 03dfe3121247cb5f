--------------------------- MODULE NetNodeProofs ---------------------------
(***************************************************************************)
(* Proofs about NetNode for any number of places, peers and threads that   *)
(* open connections and every limit on connections; then about AddrMan,    *)
(* whose addresses those threads try.                                      *)
(***************************************************************************)
EXTENDS NetNode, AddrMan, FiniteSetTheorems, SequenceTheorems, TLAPS

-----------------------------------------------------------------------------
(* The inductive invariant                                                 *)

Working ==
  {"find", "findagain", "addref", "count", "connect", "move", "post", "clear", "store", "restore",
   "mark", "oneshot"}

Attempts ==
  [pc : Working, addr : Addrs, kind : Kinds, grant : BOOLEAN,
   pnode : Nodes \union {NoNode}, ref : Int]

TypeInv ==
  /\ node \in [Nodes -> CNodes \union {Freed}]
  /\ vNodes \subseteq Nodes /\ vNodesDisconnected \subseteq Nodes
  /\ sockCopy \subseteq Nodes /\ msgCopy \subseteq Nodes /\ found \subseteq Nodes
  /\ sockPc \in {"top", "remove", "post", "clear", "finish", "delete", "destroyed", "copy", "service"}
  /\ msgPc \in {"top", "process", "release"}

(* A listed node is there, and in one list; the passes of the socket       *)
(* thread go over what is still listed.                                    *)
ListsInv ==
  /\ vNodes \intersect vNodesDisconnected = {}
  /\ \A n \in vNodes \union vNodesDisconnected : Live(n)
  /\ sockPc = "remove" \/ Removing => sockTodo \subseteq vNodes
  /\ sockPc \in {"delete", "destroyed"} => sockTodo \subseteq vNodesDisconnected
  /\ Removing => sockNode \in Nodes \ (vNodes \union vNodesDisconnected) /\ Live(sockNode)
  /\ sockPc # "service" => sockCopy = {}
  /\ msgPc = "top" => msgCopy = {}

(* the thread owns the node n that it has created, if nobody has found it, *)
(* until it has stored its grant and marked the node                       *)
Owning == {"move", "store", "mark"}
Owns(o, n) == o.pc \in Owning /\ o.pnode = n

(* the reference that a node is created with *)
Base(n) ==
  n \in vNodes \/ (Removing /\ n = sockNode) \/ \E t \in Openers : Owns(opener[t], n)

(* A count is at least the number of references taken under cs_vNodes.     *)
RefsInv ==
  \A n \in Nodes \ found :
    IF Live(n)
      THEN node[n].nRefCount >= Granted(Base(n)) + Granted(n \in sockCopy) + Granted(n \in msgCopy)
      ELSE n \notin sockCopy \union msgCopy

(* Where a thread that opens a connection has a pointer, and a grant, when *)
(* ConnectNode has found the nodes fs.                                     *)
OpenerOK(o, fs) ==
  \/ o = Idle
  \/ o = [pc |-> "destroyed"]
  \/ o \in [pc : {"relay"}, pnode : Nodes]
  \/ o \in [pc : {"return"}, grant : BOOLEAN]
  \/ /\ o \in Attempts
     /\ o.pc \in {"addref", "count", "post", "clear", "restore"} => o.pnode \in fs
     /\ o.pc \notin {"find", "findagain", "connect"} => o.pnode \in Nodes
     /\ o.pc \notin {"connect", "mark", "oneshot"} => o.grant
     /\ o.pc = "connect" => (o.grant <=> o.kind # "onetry")
     /\ o.kind = "onetry" => o.pc = "connect"

OpenerInv ==
  /\ DOMAIN opener = Openers
  /\ \A t \in Openers : OpenerOK(opener[t], found)

(* A node that nobody has found has one owner at most, which is the first  *)
(* to give it a grant and to mark it.                                      *)
OwnerInv ==
  \A t \in Openers : \A n \in Nodes \ found : Owns(opener[t], n) =>
    /\ Live(n) /\ ~OwesRelease(n)
    /\ opener[t].pc # "mark" => ~node[n].grantOutbound
    /\ \A u \in Openers : Owns(opener[u], n) => u = t

HasGrant(o) == o.pc \notin {"idle", "destroyed", "relay", "clear", "restore"} /\ o.grant
GrantedOpeners == {t \in Openers : HasGrant(opener[t])}
GrantedNodes == {n \in Nodes : Live(n) /\ node[n].grantOutbound}

(* The socket thread has posted the grant of the node, and not cleared it. *)
Posted(n) == sockPc = "clear" /\ n = sockNode

PostInv == sockPc = "post" /\ sockNode \notin found => node[sockNode].grantOutbound

(* Found nodes whose grant the socket thread has not released yet, and     *)
(* somebody will.                                                          *)
Moving(o, n) == o.pc \in {"post", "clear", "restore"} /\ o.pnode = n
Hot(n) ==
  n \in GrantedNodes \/ (sockPc = "post" /\ n = sockNode) \/ \E t \in Openers : Moving(opener[t], n)
AtRisk == {n \in found : (n \in vNodes \/ (sockPc = "post" /\ n = sockNode)) /\ Hot(n)}

OwnSlots == {n \in GrantedNodes \ found : ~Posted(n)}
FoundLive == {n \in found : Live(n)}

(* A found node counts for one slot while it is there, with or without a   *)
(* grant, and for a second one while it is at risk.                        *)
SlotsInv ==
  /\ value \in Nat
  /\ IsFiniteSet(GrantedOpeners) /\ IsFiniteSet(OwnSlots) /\ IsFiniteSet(found)
  /\ value + Cardinality(GrantedOpeners) + Cardinality(OwnSlots)
       + Cardinality(FoundLive) + Cardinality(AtRisk) <= nMaxOutbound + Cardinality(found)

IndInv == TypeInv /\ ListsInv /\ RefsInv /\ OpenerInv /\ OwnerInv /\ PostInv /\ SlotsInv

-----------------------------------------------------------------------------
(* Updates of the nodes                                                    *)

Memory == [Nodes -> CNodes \union {Freed}]

(* What f and g tell apart only in counts and in the wish to disconnect.   *)
SameButCount(f, g) ==
  \A n \in Nodes :
    /\ (f[n] = Freed) <=> (g[n] = Freed)
    /\ f[n] # Freed => f[n].grantOutbound = g[n].grantOutbound
    /\ f[n] # Freed => f[n].fNetworkNode = g[n].fNetworkNode
    /\ f[n] # Freed => f[n].fInbound = g[n].fInbound

(* Counted changes the counts of ns by d, and only those.                  *)
LEMMA CountedStep ==
  ASSUME NEW f \in Memory, NEW ns, NEW d \in Int
  PROVE  /\ Counted(f, ns, d) \in Memory
         /\ SameButCount(f, Counted(f, ns, d))
         /\ \A n \in Nodes : f[n] # Freed =>
              Counted(f, ns, d)[n].nRefCount =
                IF n \in ns THEN f[n].nRefCount + d ELSE f[n].nRefCount
<1> DEFINE g == Counted(f, ns, d)
<1>1. \A n \in Nodes :
        g[n] = IF n \in ns /\ f[n] # Freed THEN [f[n] EXCEPT !.nRefCount = @ + d] ELSE f[n]
  BY DEF Counted, Memory
<1>2. DOMAIN g = Nodes /\ g = [n \in DOMAIN g |-> g[n]]
  BY DEF Counted
<1>3. ASSUME NEW n \in Nodes, f[n] # Freed
      PROVE  /\ [f[n] EXCEPT !.nRefCount = @ + d] \in CNodes
             /\ [f[n] EXCEPT !.nRefCount = @ + d].nRefCount = f[n].nRefCount + d
             /\ [f[n] EXCEPT !.nRefCount = @ + d].grantOutbound = f[n].grantOutbound
             /\ [f[n] EXCEPT !.nRefCount = @ + d].fNetworkNode = f[n].fNetworkNode
             /\ [f[n] EXCEPT !.nRefCount = @ + d].fInbound = f[n].fInbound
             /\ f[n] \in CNodes /\ f[n].nRefCount \in Int
  BY <1>3 DEF Memory, CNodes
<1> HIDE DEF g
<1>4. \A n \in Nodes : g[n] \in CNodes \union {Freed}
  BY <1>1, <1>3 DEF Memory
<1>5. g \in Memory
  BY <1>2, <1>4 DEF Memory
<1>6. SameButCount(f, g)
  BY <1>1, <1>3, NetNodeAssumption DEF SameButCount
<1>7. \A n \in Nodes : f[n] # Freed =>
        g[n].nRefCount = IF n \in ns THEN f[n].nRefCount + d ELSE f[n].nRefCount
  BY <1>1, <1>3
<1> QED BY <1>5, <1>6, <1>7 DEF g

(* Disconnecting changes no count.                                         *)
LEMMA DisconnectingStep ==
  ASSUME TypeInv, NEW ns
  PROVE  /\ Disconnecting(ns) \in Memory
         /\ SameButCount(node, Disconnecting(ns))
         /\ \A n \in Nodes : node[n] # Freed =>
              Disconnecting(ns)[n].nRefCount = node[n].nRefCount
<1> DEFINE g == Disconnecting(ns)
<1>1. \A n \in Nodes :
        g[n] = IF n \in ns /\ Live(n) THEN [node[n] EXCEPT !.fDisconnect = TRUE] ELSE node[n]
  BY DEF Disconnecting
<1>2. DOMAIN g = Nodes /\ g = [n \in DOMAIN g |-> g[n]]
  BY DEF Disconnecting
<1>3. ASSUME NEW n \in Nodes, node[n] # Freed
      PROVE  /\ [node[n] EXCEPT !.fDisconnect = TRUE] \in CNodes
             /\ [node[n] EXCEPT !.fDisconnect = TRUE].nRefCount = node[n].nRefCount
             /\ [node[n] EXCEPT !.fDisconnect = TRUE].grantOutbound = node[n].grantOutbound
             /\ [node[n] EXCEPT !.fDisconnect = TRUE].fNetworkNode = node[n].fNetworkNode
             /\ [node[n] EXCEPT !.fDisconnect = TRUE].fInbound = node[n].fInbound
             /\ node[n] \in CNodes
  BY <1>3 DEF TypeInv, CNodes
<1> HIDE DEF g
<1>4. \A n \in Nodes : g[n] \in CNodes \union {Freed}
  BY <1>1, <1>3 DEF TypeInv, Live
<1>5. g \in Memory
  BY <1>2, <1>4 DEF Memory
<1>6. SameButCount(node, g)
  BY <1>1, <1>3, NetNodeAssumption DEF SameButCount, Live
<1>7. \A n \in Nodes : node[n] # Freed => g[n].nRefCount = node[n].nRefCount
  BY <1>1, <1>3 DEF Live
<1> QED BY <1>5, <1>6, <1>7 DEF g

(* Both, one after the other.                                              *)
LEMMA DisconnectedAndCounted ==
  ASSUME IndInv, NEW ns, NEW ms, NEW d \in Int, node' = Counted(Disconnecting(ns), ms, d)
  PROVE  /\ node' \in Memory /\ SameButCount(node, node')
         /\ \A n \in Nodes : node[n] # Freed =>
              node'[n].nRefCount = IF n \in ms THEN node[n].nRefCount + d ELSE node[n].nRefCount
<1> DEFINE f == Disconnecting(ns)
<1>1. /\ f \in Memory /\ SameButCount(node, f)
      /\ \A n \in Nodes : node[n] # Freed => f[n].nRefCount = node[n].nRefCount
  BY DisconnectingStep DEF IndInv
<1>2. node' = Counted(f, ms, d)
  OBVIOUS
<1> HIDE DEF f
<1>3. /\ Counted(f, ms, d) \in Memory
      /\ SameButCount(f, Counted(f, ms, d))
      /\ \A n \in Nodes : f[n] # Freed =>
           Counted(f, ms, d)[n].nRefCount = IF n \in ms THEN f[n].nRefCount + d ELSE f[n].nRefCount
  BY <1>1, CountedStep
<1>4. SameButCount(node, node')
  BY <1>1, <1>2, <1>3 DEF SameButCount
<1>5. ASSUME NEW n \in Nodes, node[n] # Freed
      PROVE  node'[n].nRefCount = IF n \in ms THEN node[n].nRefCount + d ELSE node[n].nRefCount
  <2>1. f[n] # Freed /\ f[n].nRefCount = node[n].nRefCount
    BY <1>1, <1>5 DEF SameButCount
  <2> QED BY <2>1, <1>2, <1>3
<1> QED BY <1>2, <1>3, <1>4, <1>5

-----------------------------------------------------------------------------
(* Sizes of the sets of grants                                             *)

(* T has elements of S only; or x too; or fewer, without x.                *)
Grows(S, T, x, d) ==
  \/ d = "same" /\ T \subseteq S
  \/ d = "more" /\ T \subseteq S \union {x}
  \/ d = "less" /\ x \in S /\ T \subseteq S \ {x}
Diff(d) == IF d = "more" THEN 1 ELSE IF d = "less" THEN -1 ELSE 0

LEMMA GrowsSize ==
  ASSUME NEW S, IsFiniteSet(S), NEW T, NEW x, NEW d, Grows(S, T, x, d)
  PROVE  IsFiniteSet(T) /\ Cardinality(T) \in Nat /\ Cardinality(T) <= Cardinality(S) + Diff(d)
<1>1. Cardinality(S) \in Nat
  BY FS_CardinalityType
<1>2. CASE d = "same" /\ T \subseteq S
  BY <1>1, <1>2, FS_Subset, FS_CardinalityType DEF Diff
<1>3. CASE d = "more" /\ T \subseteq S \union {x}
  <2>1. IsFiniteSet(S \union {x}) /\ Cardinality(S \union {x}) <= Cardinality(S) + 1
    BY <1>1, FS_AddElement
  <2>2. /\ IsFiniteSet(T) /\ Cardinality(T) <= Cardinality(S \union {x})
        /\ Cardinality(T) \in Nat /\ Cardinality(S \union {x}) \in Nat
    BY <1>3, <2>1, FS_Subset, FS_CardinalityType
  <2> QED BY <1>1, <1>3, <2>1, <2>2 DEF Diff
<1>4. CASE d = "less" /\ x \in S /\ T \subseteq S \ {x}
  <2>1. IsFiniteSet(S \ {x}) /\ Cardinality(S \ {x}) = Cardinality(S) - 1
    BY <1>4, FS_RemoveElement
  <2>2. /\ IsFiniteSet(T) /\ Cardinality(T) <= Cardinality(S \ {x})
        /\ Cardinality(T) \in Nat /\ Cardinality(S \ {x}) \in Nat
    BY <1>4, <2>1, FS_Subset, FS_CardinalityType
  <2> QED BY <1>1, <1>4, <2>1, <2>2 DEF Diff
<1> QED BY <1>2, <1>3, <1>4 DEF Grows

LEMMA SizesNow ==
  ASSUME SlotsInv
  PROVE  /\ IsFiniteSet(FoundLive) /\ IsFiniteSet(AtRisk)
         /\ Cardinality(GrantedOpeners) \in Nat /\ Cardinality(OwnSlots) \in Nat
         /\ Cardinality(FoundLive) \in Nat /\ Cardinality(AtRisk) \in Nat /\ Cardinality(found) \in Nat
<1>1. FoundLive \subseteq found /\ AtRisk \subseteq found
  BY DEF FoundLive, AtRisk
<1>2. IsFiniteSet(FoundLive) /\ IsFiniteSet(AtRisk)
  BY <1>1, FS_Subset DEF SlotsInv
<1> QED BY <1>2, FS_CardinalityType DEF SlotsInv

(* What a step adds to the four sets, when ConnectNode finds k nodes.      *)
LEMMA SlotsStep ==
  ASSUME SlotsInv, NEW t, NEW x, NEW a, NEW b, NEW c, NEW d, NEW k \in Int,
         Grows(GrantedOpeners, GrantedOpeners', t, a), Grows(OwnSlots, OwnSlots', x, b),
         Grows(FoundLive, FoundLive', x, c), Grows(AtRisk, AtRisk', x, d),
         IsFiniteSet(found'), Cardinality(found') = Cardinality(found) + k,
         value' \in Nat, value' + Diff(a) + Diff(b) + Diff(c) + Diff(d) <= value + k
  PROVE  SlotsInv'
<1>1. /\ IsFiniteSet(GrantedOpeners') /\ Cardinality(GrantedOpeners') \in Nat
      /\ Cardinality(GrantedOpeners') <= Cardinality(GrantedOpeners) + Diff(a)
  BY GrowsSize DEF SlotsInv
<1>2. /\ IsFiniteSet(OwnSlots') /\ Cardinality(OwnSlots') \in Nat
      /\ Cardinality(OwnSlots') <= Cardinality(OwnSlots) + Diff(b)
  BY GrowsSize DEF SlotsInv
<1>3. /\ Cardinality(FoundLive') \in Nat
      /\ Cardinality(FoundLive') <= Cardinality(FoundLive) + Diff(c)
  BY GrowsSize, SizesNow
<1>4. /\ Cardinality(AtRisk') \in Nat
      /\ Cardinality(AtRisk') <= Cardinality(AtRisk) + Diff(d)
  BY GrowsSize, SizesNow
<1>5. Diff(a) \in Int /\ Diff(b) \in Int /\ Diff(c) \in Int /\ Diff(d) \in Int
  BY DEF Diff
<1>6. /\ value \in Nat
      /\ value + Cardinality(GrantedOpeners) + Cardinality(OwnSlots)
           + Cardinality(FoundLive) + Cardinality(AtRisk) <= nMaxOutbound + Cardinality(found)
  BY DEF SlotsInv
<1>7. value' + Cardinality(GrantedOpeners') + Cardinality(OwnSlots')
        + Cardinality(FoundLive') + Cardinality(AtRisk') <= nMaxOutbound + Cardinality(found')
  BY <1>1, <1>2, <1>3, <1>4, <1>5, <1>6, SizesNow, NetNodeAssumption
<1> QED BY <1>1, <1>2, <1>7 DEF SlotsInv

(* A step that gives nobody a slot.                                        *)
LEMMA SlotsQuiet ==
  ASSUME SlotsInv, GrantedOpeners' \subseteq GrantedOpeners, OwnSlots' \subseteq OwnSlots,
         FoundLive' \subseteq FoundLive, AtRisk' \subseteq AtRisk, UNCHANGED <<value, found>>
  PROVE  SlotsInv'
<1>1. /\ Grows(GrantedOpeners, GrantedOpeners', 0, "same") /\ Grows(OwnSlots, OwnSlots', 0, "same")
      /\ Grows(FoundLive, FoundLive', 0, "same") /\ Grows(AtRisk, AtRisk', 0, "same")
  BY DEF Grows
<1>2. /\ value' \in Nat /\ 0 \in Int
      /\ value' + Diff("same") + Diff("same") + Diff("same") + Diff("same") <= value + 0
      /\ IsFiniteSet(found') /\ Cardinality(found') = Cardinality(found) + 0
  BY SizesNow DEF SlotsInv, Diff
<1> QED BY <1>1, <1>2, SlotsStep

(* Neither the slots nor the owners notice a step of the socket thread or  *)
(* of the message handler that moves no grant.                             *)
LEMMA SlotsStutter ==
  ASSUME IndInv, SameButCount(node, node'), UNCHANGED <<value, opener, found>>, vNodes' = vNodes,
         \/ UNCHANGED <<sockPc, sockNode>>
         \/ sockPc \notin {"post", "clear"} /\ sockPc' \notin {"post", "clear"}
  PROVE  OwnerInv' /\ PostInv' /\ SlotsInv'
<1>1. GrantedNodes' = GrantedNodes
  BY DEF GrantedNodes, SameButCount, Live
<1>2. GrantedOpeners' = GrantedOpeners
  BY DEF GrantedOpeners
<1>3. FoundLive' = FoundLive
  BY DEF FoundLive, SameButCount, Live, IndInv, TypeInv
<1>4. \A n : Posted(n)' <=> Posted(n)
  BY DEF Posted
<1>5. OwnSlots' = OwnSlots
  BY <1>1, <1>4 DEF OwnSlots
<1>6. AtRisk' = AtRisk
  BY <1>1 DEF AtRisk, Hot
<1>7. SlotsInv'
  BY <1>2, <1>3, <1>5, <1>6, SlotsQuiet DEF IndInv
<1>8. OwnerInv'
  BY DEF IndInv, OwnerInv, SameButCount, Live, OwesRelease
<1>9. PostInv'
  <2>1. sockPc = "post" => sockNode \in Nodes /\ Live(sockNode)
    BY DEF IndInv, ListsInv, Removing
  <2> QED BY <2>1 DEF IndInv, PostInv, SameButCount, Live
<1> QED BY <1>7, <1>8, <1>9

(* Nothing that the invariant speaks of depends on the rest.               *)
LEMMA StutterInd == ASSUME IndInv, UNCHANGED vars PROVE IndInv'
BY DEF IndInv, TypeInv, ListsInv, RefsInv, Base, OpenerInv, OwnerInv, PostInv, SlotsInv, Removing,
       OpenerOK, GrantedOpeners, GrantedNodes, OwnSlots, FoundLive, AtRisk, Hot, Posted, OwesRelease,
       Live, vars, lists, slots, socket, handler, others

(* A step that moves no node between lists and changes no count.           *)
LEMMA SameButCountSelf == SameButCount(node, node)
BY DEF SameButCount
-----------------------------------------------------------------------------
(* ThreadSocketHandler                                                     *)

LEMMA StartRemovingInd == ASSUME IndInv, StartRemoving PROVE IndInv'
<1> USE DEF StartRemoving, lists, slots, handler, others
<1>1. TypeInv'
  BY DEF IndInv, TypeInv
<1>2. ListsInv'
  BY DEF IndInv, ListsInv, Removing, Live
<1>3. RefsInv'
  BY DEF IndInv, RefsInv, Base, Removing, Live
<1>4. OpenerInv'
  BY DEF IndInv, OpenerInv, OpenerOK
<1>5. OwnerInv' /\ PostInv' /\ SlotsInv'
  BY SlotsStutter, SameButCountSelf
<1> QED BY <1>1, <1>2, <1>3, <1>4, <1>5 DEF IndInv

LEMMA StartDeletingInd == ASSUME IndInv, StartDeleting PROVE IndInv'
<1> USE DEF StartDeleting, lists, slots, handler, others
<1>1. TypeInv'
  BY DEF IndInv, TypeInv
<1>2. ListsInv'
  BY DEF IndInv, ListsInv, Removing, Live
<1>3. RefsInv'
  BY DEF IndInv, RefsInv, Base, Removing, Live
<1>4. OpenerInv'
  BY DEF IndInv, OpenerInv, OpenerOK
<1>5. OwnerInv' /\ PostInv' /\ SlotsInv'
  BY SlotsStutter, SameButCountSelf
<1> QED BY <1>1, <1>2, <1>3, <1>4, <1>5 DEF IndInv

LEMMA LeaveDestructorInd == ASSUME IndInv, LeaveDestructor PROVE IndInv'
<1> USE DEF LeaveDestructor, lists, handler, others
<1>1. TypeInv'
  BY DEF IndInv, TypeInv
<1>2. ListsInv'
  BY DEF IndInv, ListsInv, Removing, Live
<1>3. RefsInv'
  BY DEF IndInv, RefsInv, Base, Removing, Live
<1>4. OpenerInv'
  BY DEF IndInv, OpenerInv, OpenerOK
<1>5. OwnerInv' /\ PostInv' /\ SlotsInv'
  BY SlotsStutter, SameButCountSelf
<1> QED BY <1>1, <1>2, <1>3, <1>4, <1>5 DEF IndInv

(* A step that changes no count that matters, nor what is copied.          *)
LEMMA RefsStep ==
  ASSUME IndInv, found \subseteq found', UNCHANGED <<sockCopy, msgCopy>>,
         \A n \in Nodes \ found' : Live(n)' <=> Live(n),
         \A n \in Nodes \ found' : node'[n].nRefCount = node[n].nRefCount,
         \A n \in Nodes \ found' : Base(n)' => Base(n)
  PROVE  RefsInv'
<1> SUFFICES ASSUME NEW n \in Nodes \ found'
             PROVE  IF Live(n)'
                      THEN node'[n].nRefCount >= Granted(Base(n)') + Granted(n \in sockCopy) + Granted(n \in msgCopy)
                      ELSE n \notin sockCopy \union msgCopy
  BY DEF RefsInv
<1>1. CASE ~Live(n)
  BY <1>1 DEF IndInv, RefsInv
<1>2. CASE Live(n)
  <2>1. /\ node[n].nRefCount >= Granted(Base(n)) + Granted(n \in sockCopy) + Granted(n \in msgCopy)
        /\ node[n].nRefCount \in Int
    BY <1>2 DEF IndInv, RefsInv, TypeInv, CNodes, Live
  <2> QED BY <1>2, <2>1 DEF Granted
<1> QED BY <1>1, <1>2

LEMMA FinishRemovingInd == ASSUME IndInv, FinishRemoving PROVE IndInv'
<1> USE DEF FinishRemoving, lists, slots, handler, others
<1>1. /\ node \in Memory /\ sockNode \in Nodes /\ Live(sockNode)
      /\ sockNode \notin vNodes \union vNodesDisconnected /\ sockTodo \subseteq vNodes
  BY DEF IndInv, TypeInv, ListsInv, Memory, Removing
<1> DEFINE d == IF OwesRelease(sockNode) THEN -1 ELSE 0
<1>2. /\ node' \in Memory /\ SameButCount(node, node')
      /\ \A n \in Nodes : node[n] # Freed =>
           node'[n].nRefCount = IF n \in {sockNode} THEN node[n].nRefCount + d ELSE node[n].nRefCount
  <2>1. d \in Int /\ node' = Counted(Disconnecting({sockNode}), {sockNode}, d)
    OBVIOUS
  <2> HIDE DEF d, FinishRemoving
  <2> QED BY <2>1, DisconnectedAndCounted
<1>3. TypeInv'
  BY <1>1, <1>2 DEF IndInv, TypeInv, Memory
<1>4. \A n \in Nodes : Live(n)' <=> Live(n)
  BY <1>2 DEF SameButCount, Live
<1>5. ListsInv'
  BY <1>1, <1>4 DEF IndInv, ListsInv, TypeInv, Removing
<1>6. RefsInv'
  <2> SUFFICES ASSUME NEW n \in Nodes \ found
               PROVE  IF Live(n)'
                        THEN node'[n].nRefCount >= Granted(Base(n)') + Granted(n \in sockCopy) + Granted(n \in msgCopy)
                        ELSE n \notin sockCopy \union msgCopy
    BY DEF RefsInv
  <2>1. CASE ~Live(n)
    BY <2>1, <1>4 DEF IndInv, RefsInv
  <2>2. CASE Live(n)
    <3>1. /\ node[n].nRefCount >= Granted(Base(n)) + Granted(n \in sockCopy) + Granted(n \in msgCopy)
          /\ node[n].nRefCount \in Int
      BY <2>2 DEF IndInv, RefsInv, TypeInv, CNodes, Live
    <3>2. node'[n].nRefCount = IF n = sockNode THEN node[n].nRefCount + d ELSE node[n].nRefCount
      BY <1>2, <2>2 DEF Live
    <3>3. (Base(n)' => Base(n)) /\ (n = sockNode => Base(n))
      BY DEF Base, Removing
    <3>4. n = sockNode /\ OwesRelease(sockNode) => ~Base(n)'
      BY <1>1 DEF Base, Removing, IndInv, OwnerInv
    <3> HIDE DEF FinishRemoving, OwesRelease
    <3> QED BY <3>1, <3>2, <3>3, <3>4, <2>2, <1>4 DEF Granted
  <2> QED BY <2>1, <2>2
<1>7. OpenerInv'
  BY DEF IndInv, OpenerInv, OpenerOK
<1>8. OwnerInv' /\ PostInv' /\ SlotsInv'
  BY <1>2, SlotsStutter
<1> QED BY <1>3, <1>5, <1>6, <1>7, <1>8 DEF IndInv

LEMMA RemoveNodeInd == ASSUME IndInv, NEW n \in Nodes, RemoveNode(n) PROVE IndInv'
<1> USE DEF RemoveNode, lists, slots, handler, others
<1>1. /\ n \in vNodes /\ Live(n) /\ node' = node
      /\ n \notin vNodesDisconnected /\ sockPc = "remove"
  BY DEF IndInv, ListsInv, TypeInv, Live
<1>2. OpenerInv'
  BY DEF IndInv, OpenerInv, OpenerOK
<1>3. CASE ~Removable(n)
  <2>1. TypeInv'
    BY <1>3 DEF IndInv, TypeInv
  <2>2. ListsInv'
    BY <1>1, <1>3 DEF IndInv, ListsInv, Live, Removing
  <2>3. RefsInv'
    BY <1>1, <1>3 DEF IndInv, RefsInv, Base, Live, Removing
  <2>4. OwnerInv' /\ PostInv' /\ SlotsInv'
    BY <1>1, <1>3, SlotsStutter, SameButCountSelf
  <2> QED BY <1>2, <2>1, <2>2, <2>3, <2>4 DEF IndInv
<1>4. CASE Removable(n)
  <2>1. /\ vNodes' = vNodes \ {n} /\ sockNode' = n
        /\ sockPc' = IF node[n].grantOutbound THEN "post" ELSE "finish"
    BY <1>4
  <2>2. TypeInv'
    BY <1>1, <2>1 DEF IndInv, TypeInv
  <2>3. ListsInv'
    BY <1>1, <2>1 DEF IndInv, ListsInv, TypeInv, Removing, Live
  <2>4. RefsInv'
    <3>1. \A m \in Nodes : Base(m)' => Base(m)
      BY <1>1, <2>1 DEF Base, Removing
    <3> QED BY <1>1, <3>1, RefsStep DEF Live
  <2>5. OwnerInv' /\ PostInv'
    BY <1>1, <2>1 DEF IndInv, OwnerInv, PostInv, Live, OwesRelease
  <2>6. /\ GrantedOpeners' \subseteq GrantedOpeners /\ GrantedNodes' = GrantedNodes
        /\ FoundLive' \subseteq FoundLive
    BY <1>1 DEF GrantedOpeners, GrantedNodes, FoundLive, Live
  <2>7. OwnSlots' \subseteq OwnSlots
    BY <1>1, <2>1, <2>6 DEF OwnSlots, Posted
  <2>8. AtRisk' \subseteq AtRisk
    <3>1. sockPc' = "post" => n \in GrantedNodes
      BY <1>1, <2>1 DEF GrantedNodes
    <3> QED BY <1>1, <2>1, <2>6, <3>1 DEF AtRisk, Hot
  <2>9. SlotsInv'
    BY <2>6, <2>7, <2>8, SlotsQuiet DEF IndInv
  <2> QED BY <1>2, <2>2, <2>3, <2>4, <2>5, <2>9 DEF IndInv
<1> QED BY <1>3, <1>4

LEMMA RemovalPostsInd == ASSUME IndInv, RemovalPosts PROVE IndInv'
<1> USE DEF RemovalPosts, lists, handler, others
<1> DEFINE n == sockNode
<1>1. /\ n \in Nodes /\ n \notin vNodes /\ Live(n) /\ sockPc = "post" /\ sockPc' = "clear"
      /\ value \in Nat /\ value' = value + 1 /\ sockNode' = n /\ Removing /\ Removing'
  BY DEF IndInv, ListsInv, SlotsInv, Removing
<1>2. TypeInv'
  BY DEF IndInv, TypeInv
<1>3. ListsInv'
  BY <1>1 DEF IndInv, ListsInv, Live
<1>4. RefsInv'
  <2>1. \A m \in Nodes : Base(m)' => Base(m)
    BY <1>1 DEF Base
  <2> QED BY <2>1, RefsStep DEF Live
<1>5. OpenerInv' /\ OwnerInv' /\ PostInv'
  BY DEF IndInv, OpenerInv, OpenerOK, OwnerInv, PostInv, Live, OwesRelease
<1>6. SlotsInv'
  <2>1. /\ GrantedOpeners' \subseteq GrantedOpeners /\ GrantedNodes' = GrantedNodes
        /\ FoundLive' \subseteq FoundLive
    BY DEF GrantedOpeners, GrantedNodes, FoundLive, Live
  <2>2. OwnSlots' \subseteq OwnSlots /\ n \notin OwnSlots'
    BY <1>1, <2>1 DEF OwnSlots, Posted
  <2>3. AtRisk' \subseteq AtRisk /\ n \notin AtRisk'
    BY <1>1, <2>1 DEF AtRisk, Hot
  <2>4. IsFiniteSet(found') /\ Cardinality(found') = Cardinality(found) + 0 /\ 0 \in Int
    BY SizesNow DEF IndInv, SlotsInv
  <2>5. CASE n \in found
    <3>1. n \in AtRisk
      BY <1>1, <2>5 DEF AtRisk, Hot
    <3>2. /\ Grows(GrantedOpeners, GrantedOpeners', n, "same") /\ Grows(OwnSlots, OwnSlots', n, "same")
          /\ Grows(FoundLive, FoundLive', n, "same") /\ Grows(AtRisk, AtRisk', n, "less")
      BY <2>1, <2>2, <2>3, <3>1 DEF Grows
    <3>3. value' \in Nat /\ value' + Diff("same") + Diff("same") + Diff("same") + Diff("less") <= value + 0
      BY <1>1 DEF Diff
    <3> QED BY <2>4, <3>2, <3>3, SlotsStep DEF IndInv
  <2>6. CASE n \notin found
    <3>1. n \in OwnSlots
      BY <1>1, <2>6 DEF OwnSlots, GrantedNodes, Posted, IndInv, PostInv
    <3>2. /\ Grows(GrantedOpeners, GrantedOpeners', n, "same") /\ Grows(OwnSlots, OwnSlots', n, "less")
          /\ Grows(FoundLive, FoundLive', n, "same") /\ Grows(AtRisk, AtRisk', n, "same")
      BY <2>1, <2>2, <2>3, <3>1 DEF Grows
    <3>3. value' \in Nat /\ value' + Diff("same") + Diff("less") + Diff("same") + Diff("same") <= value + 0
      BY <1>1 DEF Diff
    <3> QED BY <2>4, <3>2, <3>3, SlotsStep DEF IndInv
  <2> QED BY <2>5, <2>6
<1> QED BY <1>2, <1>3, <1>4, <1>5, <1>6 DEF IndInv

(* A write to one node.                                                    *)
LEMMA OneWritten ==
  ASSUME IndInv, NEW n \in Nodes, Live(n), NEW c \in CNodes, node' = [node EXCEPT ![n] = c]
  PROVE  /\ node' \in Memory /\ node'[n] = c /\ \A m \in Nodes \ {n} : node'[m] = node[m]
         /\ \A m \in Nodes : Live(m)' <=> Live(m)
         /\ c.grantOutbound => GrantedNodes' = GrantedNodes \union {n}
         /\ ~c.grantOutbound => GrantedNodes' = GrantedNodes \ {n}
<1>1. node \in Memory
  BY DEF IndInv, TypeInv, Memory
<1>2. node' \in Memory /\ node'[n] = c /\ \A m \in Nodes \ {n} : node'[m] = node[m]
  BY <1>1 DEF Memory
<1>3. \A m \in Nodes : Live(m)' <=> Live(m)
  BY <1>2, NetNodeAssumption DEF Live
<1>4. c.grantOutbound => GrantedNodes' = GrantedNodes \union {n}
  BY <1>2, <1>3 DEF GrantedNodes
<1>5. ~c.grantOutbound => GrantedNodes' = GrantedNodes \ {n}
  BY <1>2, <1>3 DEF GrantedNodes
<1> QED BY <1>2, <1>3, <1>4, <1>5

LEMMA RemovalClearsInd == ASSUME IndInv, RemovalClears PROVE IndInv'
<1> DEFINE n == sockNode
           c == [node[n] EXCEPT !.grantOutbound = FALSE]
<1>1. /\ n \in Nodes /\ n \notin vNodes \union vNodesDisconnected /\ Live(n)
      /\ sockPc = "clear" /\ sockPc' = "finish" /\ Removing /\ Removing'
      /\ node[n] \in CNodes /\ sockNode' = n /\ node' = [node EXCEPT ![n] = c]
      /\ UNCHANGED <<lists, slots, sockCopy, sockTodo, handler, others>>
  BY DEF RemovalClears, IndInv, ListsInv, TypeInv, Removing, Live, Written, GrantAfterRelease
<1>2. /\ c \in CNodes /\ ~c.grantOutbound /\ c.nRefCount = node[n].nRefCount
      /\ c.fNetworkNode = node[n].fNetworkNode /\ c.fInbound = node[n].fInbound
  BY <1>1 DEF CNodes
<1> HIDE DEF c, n
<1>3. /\ node' \in Memory /\ node'[n] = c /\ \A m \in Nodes \ {n} : node'[m] = node[m]
      /\ \A m \in Nodes : Live(m)' <=> Live(m)
      /\ GrantedNodes' = GrantedNodes \ {n}
  BY <1>1, <1>2, OneWritten
<1> USE DEF lists, slots, handler, others
<1>4. TypeInv'
  BY <1>1, <1>3 DEF IndInv, TypeInv, Memory
<1>5. ListsInv'
  BY <1>1, <1>3 DEF IndInv, ListsInv, TypeInv, n
<1>6. RefsInv'
  <2>1. \A m \in Nodes : Base(m)' => Base(m)
    BY <1>1 DEF Base, n
  <2>2. \A m \in Nodes : node'[m].nRefCount = node[m].nRefCount
    BY <1>2, <1>3
  <2> QED BY <1>1, <1>3, <2>1, <2>2, RefsStep
<1>7. OpenerInv'
  BY <1>1 DEF IndInv, OpenerInv, OpenerOK
<1>8. OwnerInv' /\ PostInv'
  <2>1. \A m \in Nodes : OwesRelease(m)' <=> OwesRelease(m)
    BY <1>2, <1>3 DEF OwesRelease
  <2>2. \A m \in Nodes : ~node[m].grantOutbound => ~node'[m].grantOutbound
    BY <1>2, <1>3
  <2> QED BY <1>1, <1>3, <2>1, <2>2 DEF IndInv, OwnerInv, PostInv
<1>9. SlotsInv'
  <2>1. /\ GrantedOpeners' \subseteq GrantedOpeners /\ FoundLive' \subseteq FoundLive
    BY <1>1, <1>3 DEF GrantedOpeners, FoundLive, IndInv, TypeInv
  <2>2. OwnSlots' \subseteq OwnSlots
    BY <1>1, <1>3 DEF OwnSlots, Posted, n
  <2>3. AtRisk' \subseteq AtRisk
    BY <1>1, <1>3 DEF AtRisk, Hot
  <2> QED BY <1>1, <2>1, <2>2, <2>3, SlotsQuiet DEF IndInv
<1> QED BY <1>4, <1>5, <1>6, <1>7, <1>8, <1>9 DEF IndInv

LEMMA DeleteNodeInd == ASSUME IndInv, NEW n \in Nodes, DeleteNode(n) PROVE IndInv'
<1> USE DEF DeleteNode, lists, slots, handler, others
<1>1. /\ n \in vNodesDisconnected /\ Live(n) /\ node[n] \in CNodes /\ node \in Memory
      /\ n \notin vNodes /\ sockPc = "delete" /\ sockCopy = {} /\ sockPc' \in {"delete", "destroyed"}
  BY DEF IndInv, ListsInv, TypeInv, Memory, Live
<1>2. CASE ~(node[n].nRefCount <= 0)
  <2>1. TypeInv'
    BY <1>1, <1>2 DEF IndInv, TypeInv
  <2>2. ListsInv'
    BY <1>1, <1>2 DEF IndInv, ListsInv, Live, Removing
  <2>3. RefsInv'
    BY <1>1, <1>2 DEF IndInv, RefsInv, Base, Live, Removing
  <2>4. OpenerInv'
    BY DEF IndInv, OpenerInv, OpenerOK
  <2>5. OwnerInv' /\ PostInv' /\ SlotsInv'
    BY <1>1, <1>2, SlotsStutter, SameButCountSelf
  <2> QED BY <2>1, <2>2, <2>3, <2>4, <2>5 DEF IndInv
<1>3. CASE node[n].nRefCount <= 0
  <2>1. /\ vNodesDisconnected' = vNodesDisconnected \ {n}
        /\ node' = [node EXCEPT ![n] = Freed]
        /\ Destroy(Socket, node[n].grantOutbound)
    BY <1>3
  <2>2. /\ node' \in Memory /\ node'[n] = Freed
        /\ \A m \in Nodes \ {n} : node'[m] = node[m]
    BY <1>1, <2>1 DEF Memory
  <2>3. n \notin found => n \notin sockCopy \union msgCopy /\ ~Base(n)
    <3>1. node[n].nRefCount \in Int
      BY <1>1 DEF CNodes
    <3> HIDE DEF DeleteNode
    <3> QED BY <1>1, <1>3, <3>1 DEF IndInv, RefsInv, Granted
  <2>4. TypeInv'
    BY <1>1, <2>1, <2>2 DEF IndInv, TypeInv, Memory
  <2>5. ListsInv'
    BY <1>1, <2>1, <2>2 DEF IndInv, ListsInv, TypeInv, Live, Removing
  <2>6. RefsInv'
    <3>1. \A m \in Nodes : Base(m)' <=> Base(m)
      BY <1>1, <2>1 DEF Base, Removing
    <3> QED BY <1>1, <2>2, <2>3, <3>1 DEF IndInv, RefsInv, Live, Granted
  <2>7. OpenerInv'
    BY DEF IndInv, OpenerInv, OpenerOK
  <2>8. OwnerInv' /\ PostInv'
    <3>1. \A t \in Openers : n \notin found => ~Owns(opener[t], n)
      BY <2>3 DEF Base
    <3> QED BY <1>1, <2>2, <3>1 DEF IndInv, OwnerInv, PostInv, Live, OwesRelease
  <2>9. SlotsInv'
    <3>1. GrantedOpeners' \subseteq GrantedOpeners
      BY DEF GrantedOpeners
    <3>2. GrantedNodes' = GrantedNodes \ {n} /\ (n \in GrantedNodes <=> node[n].grantOutbound)
      BY <1>1, <2>2 DEF GrantedNodes, Live
    <3>3. node[n].grantOutbound \in BOOLEAN /\ value \in Nat
      BY <1>1 DEF CNodes, IndInv, SlotsInv
    <3>4. value' = value \/ (value' = value + 1 /\ n \in GrantedNodes)
      BY <2>1, <3>2, <3>3 DEF Granted, Destroy
    <3>5. OwnSlots' \subseteq OwnSlots \ {n} /\ (n \in GrantedNodes /\ n \notin found => n \in OwnSlots)
      BY <1>1, <3>2 DEF OwnSlots, Posted
    <3>6. FoundLive' \subseteq FoundLive \ {n} /\ (n \in found => n \in FoundLive)
      BY <1>1, <2>2 DEF FoundLive, Live, IndInv, TypeInv
    <3>7. AtRisk' \subseteq AtRisk
      BY <1>1, <3>2 DEF AtRisk, Hot
    <3>8. IsFiniteSet(found') /\ Cardinality(found') = Cardinality(found) + 0 /\ 0 \in Int
      BY SizesNow DEF IndInv, SlotsInv
    <3> HIDE DEF DeleteNode
    <3>9. CASE n \in found
      <4>1. /\ Grows(GrantedOpeners, GrantedOpeners', n, "same") /\ Grows(OwnSlots, OwnSlots', n, "same")
            /\ Grows(FoundLive, FoundLive', n, "less") /\ Grows(AtRisk, AtRisk', n, "same")
        BY <3>1, <3>5, <3>6, <3>7, <3>9 DEF Grows
      <4>2. value' \in Nat /\ value' + Diff("same") + Diff("same") + Diff("less") + Diff("same") <= value + 0
        BY <3>3, <3>4 DEF Diff
      <4> QED BY <3>8, <4>1, <4>2, SlotsStep DEF IndInv
    <3>10. CASE n \notin found /\ n \in GrantedNodes
      <4>1. /\ Grows(GrantedOpeners, GrantedOpeners', n, "same") /\ Grows(OwnSlots, OwnSlots', n, "less")
            /\ Grows(FoundLive, FoundLive', n, "same") /\ Grows(AtRisk, AtRisk', n, "same")
        BY <3>1, <3>5, <3>6, <3>7, <3>10 DEF Grows
      <4>2. value' \in Nat /\ value' + Diff("same") + Diff("less") + Diff("same") + Diff("same") <= value + 0
        BY <3>3, <3>4 DEF Diff
      <4> QED BY <3>8, <4>1, <4>2, SlotsStep DEF IndInv
    <3>11. CASE n \notin GrantedNodes
      BY <3>1, <3>4, <3>5, <3>6, <3>7, <3>11, SlotsQuiet DEF IndInv, DeleteNode
    <3> QED BY <3>9, <3>10, <3>11
  <2> QED BY <2>4, <2>5, <2>6, <2>7, <2>8, <2>9 DEF IndInv
<1> QED BY <1>2, <1>3

(* A node that is created in a place of nobody's, and listed.              *)
LEMMA NewNode ==
  ASSUME IndInv, NEW n \in Nodes, NEW c \in CNodes, c.nRefCount = 1, c.grantOutbound = FALSE,
         Allocatable(n), node' = [node EXCEPT ![n] = c], vNodes' = vNodes \union {n},
         \A m \in Nodes \ {n} : Base(m)' => Base(m),
         sockPc \notin {"post", "clear"}, sockPc' \notin {"post", "clear"},
         UNCHANGED <<vNodesDisconnected, sockCopy, msgCopy, found>>
  PROVE  /\ node' \in Memory /\ vNodes' \subseteq Nodes
         /\ node'[n] = c /\ \A m \in Nodes \ {n} : node'[m] = node[m]
         /\ vNodes' \intersect vNodesDisconnected = {}
         /\ \A m \in vNodes' \union vNodesDisconnected : Live(m)'
         /\ \A m \in Nodes \ {n} : Live(m)' <=> Live(m)
         /\ \A t \in Openers : ~Owns(opener[t], n)
         /\ RefsInv' /\ PostInv'
         /\ GrantedNodes' = GrantedNodes /\ OwnSlots' = OwnSlots /\ FoundLive' = FoundLive
<1>1. /\ ~Live(n) /\ n \notin found /\ n \notin vNodes \union vNodesDisconnected
      /\ n \notin sockCopy \union msgCopy /\ node \in Memory
      /\ \A t \in Openers : ~Owns(opener[t], n)
  BY DEF IndInv, ListsInv, RefsInv, TypeInv, Memory, Allocatable, OwnerInv
<1>2. /\ node' \in Memory /\ node'[n] = c /\ \A m \in Nodes \ {n} : node'[m] = node[m]
  BY <1>1 DEF Memory
<1>3. /\ \A m \in Nodes \ {n} : Live(m)' <=> Live(m)
      /\ Live(n)'
  BY <1>2, NetNodeAssumption DEF Live
<1>4. /\ vNodes' \subseteq Nodes /\ vNodes' \intersect vNodesDisconnected = {}
      /\ \A m \in vNodes' \union vNodesDisconnected : Live(m)'
  BY <1>1, <1>3 DEF IndInv, ListsInv, TypeInv
<1>5. RefsInv'
  <2>1. Base(n)'
    BY DEF Base
  <2>2. Granted(Base(n)') = 1 /\ Granted(n \in sockCopy') = 0 /\ Granted(n \in msgCopy') = 0
    BY <1>1, <2>1 DEF Granted
  <2>3. node'[n].nRefCount >= Granted(Base(n)') + Granted(n \in sockCopy') + Granted(n \in msgCopy')
    BY <1>2, <2>2
  <2>4. ASSUME NEW m \in Nodes \ found, m # n
        PROVE  IF Live(m)'
                 THEN node'[m].nRefCount >= Granted(Base(m)') + Granted(m \in sockCopy) + Granted(m \in msgCopy)
                 ELSE m \notin sockCopy \union msgCopy
    <3>1. (Live(m)' <=> Live(m)) /\ node'[m] = node[m] /\ (Base(m)' => Base(m))
      BY <1>2, <1>3, <2>4
    <3>2. CASE ~Live(m)
      BY <3>1, <3>2 DEF IndInv, RefsInv
    <3>3. CASE Live(m)
      <4>1. /\ node[m].nRefCount >= Granted(Base(m)) + Granted(m \in sockCopy) + Granted(m \in msgCopy)
            /\ node[m].nRefCount \in Int
        BY <3>3 DEF IndInv, RefsInv, TypeInv, CNodes, Live
      <4> QED BY <3>1, <3>3, <4>1 DEF Granted
    <3> QED BY <3>2, <3>3
  <2> QED BY <1>3, <2>3, <2>4 DEF RefsInv
<1>6. GrantedNodes' = GrantedNodes
  BY <1>1, <1>2, <1>3 DEF GrantedNodes
<1>7. OwnSlots' = OwnSlots
  BY <1>6 DEF OwnSlots, Posted
<1>8. FoundLive' = FoundLive
  BY <1>1, <1>3 DEF FoundLive, IndInv, TypeInv
<1>9. PostInv'
  BY DEF PostInv
<1> QED BY <1>1, <1>2, <1>3, <1>4, <1>5, <1>6, <1>7, <1>8, <1>9

LEMMA AcceptInd == ASSUME IndInv, NEW n \in Nodes, NEW a \in Addrs, Accept(n, a) PROVE IndInv'
<1> USE DEF Accept, slots, handler, others
<1>1. /\ sockPc = "delete" /\ sockPc' = "copy" /\ Allocatable(n)
      /\ node' = [node EXCEPT ![n] = CNode(a, FALSE, TRUE)]
      /\ sockPc \notin {"post", "clear"} /\ sockPc' \notin {"post", "clear"}
  OBVIOUS
<1>2. /\ CNode(a, FALSE, TRUE) \in CNodes /\ CNode(a, FALSE, TRUE).nRefCount = 1
      /\ CNode(a, FALSE, TRUE).grantOutbound = FALSE
  BY DEF CNode, CNodes
<1>3. \A m \in Nodes \ {n} : Base(m)' => Base(m)
  BY <1>1 DEF Base, Removing
<1>4. /\ node' \in Memory /\ vNodes' \subseteq Nodes
      /\ \A m \in Nodes \ {n} : node'[m] = node[m]
      /\ vNodes' \intersect vNodesDisconnected = {}
      /\ \A m \in vNodes' \union vNodesDisconnected : Live(m)'
      /\ \A m \in Nodes \ {n} : Live(m)' <=> Live(m)
      /\ \A t \in Openers : ~Owns(opener[t], n)
      /\ RefsInv' /\ PostInv'
      /\ GrantedNodes' = GrantedNodes /\ OwnSlots' = OwnSlots /\ FoundLive' = FoundLive
  BY <1>1, <1>2, <1>3, NewNode
<1>5. TypeInv'
  BY <1>1, <1>4 DEF IndInv, TypeInv, Memory
<1>6. ListsInv'
  BY <1>1, <1>4 DEF IndInv, ListsInv, Removing
<1>7. OpenerInv'
  BY DEF IndInv, OpenerInv
<1>8. OwnerInv'
  <2>1. opener' = opener /\ found' = found
    OBVIOUS
  <2> HIDE DEF Accept
  <2>2. \A m \in Nodes \ {n} : OwesRelease(m)' <=> OwesRelease(m)
    BY <1>4 DEF OwesRelease
  <2> QED BY <1>4, <2>1, <2>2 DEF IndInv, OwnerInv
<1>9. SlotsInv'
  <2>1. GrantedOpeners' = GrantedOpeners
    BY DEF GrantedOpeners
  <2>2. AtRisk' \subseteq AtRisk
    BY <1>1, <1>4 DEF AtRisk, Hot, Allocatable
  <2> QED BY <1>4, <2>1, <2>2, SlotsQuiet DEF IndInv
<1> QED BY <1>4, <1>5, <1>6, <1>7, <1>8, <1>9 DEF IndInv

LEMMA CopyNodesInd == ASSUME IndInv, CopyNodes PROVE IndInv'
<1> USE DEF CopyNodes, lists, slots, handler, others
<1>1. node \in Memory /\ sockCopy = {} /\ sockPc \in {"copy", "delete"}
  BY DEF IndInv, TypeInv, ListsInv, Memory
<1>2. /\ node' \in Memory /\ SameButCount(node, node')
      /\ \A n \in Nodes : node[n] # Freed =>
           node'[n].nRefCount = IF n \in vNodes THEN node[n].nRefCount + 1 ELSE node[n].nRefCount
  <2>1. 1 \in Int /\ node' = Counted(node, vNodes, 1)
    BY DEF AddRef
  <2> QED BY <1>1, <2>1, CountedStep
<1>3. \A n \in Nodes : Live(n)' <=> Live(n)
  BY <1>2 DEF SameButCount, Live
<1>4. TypeInv'
  BY <1>2 DEF IndInv, TypeInv, Memory
<1>5. ListsInv'
  BY <1>1, <1>3 DEF IndInv, ListsInv, TypeInv, Removing
<1>6. RefsInv'
  <2> SUFFICES ASSUME NEW n \in Nodes \ found
               PROVE  IF Live(n)'
                        THEN node'[n].nRefCount >= Granted(Base(n)') + Granted(n \in vNodes) + Granted(n \in msgCopy)
                        ELSE n \notin vNodes \union msgCopy
    BY DEF RefsInv
  <2>1. CASE ~Live(n)
    BY <2>1, <1>3 DEF IndInv, RefsInv, ListsInv
  <2>2. CASE Live(n)
    <3>1. /\ node[n].nRefCount >= Granted(Base(n)) + Granted(n \in sockCopy) + Granted(n \in msgCopy)
          /\ node[n].nRefCount \in Int
      BY <2>2 DEF IndInv, RefsInv, TypeInv, CNodes, Live
    <3>2. node'[n].nRefCount = IF n \in vNodes THEN node[n].nRefCount + 1 ELSE node[n].nRefCount
      BY <1>2, <2>2 DEF Live
    <3>3. Base(n)' <=> Base(n)
      BY <1>1 DEF Base, Removing
    <3> QED BY <1>1, <3>1, <3>2, <3>3, <2>2, <1>3 DEF Granted
  <2> QED BY <2>1, <2>2
<1>7. OpenerInv'
  BY DEF IndInv, OpenerInv, OpenerOK
<1>8. OwnerInv' /\ PostInv' /\ SlotsInv'
  BY <1>2, SlotsStutter
<1> QED BY <1>4, <1>5, <1>6, <1>7, <1>8 DEF IndInv

LEMMA ReleaseNodesInd == ASSUME IndInv, ReleaseNodes PROVE IndInv'
<1> USE DEF ReleaseNodes, lists, slots, handler, others
<1>1. node \in Memory /\ sockPc = "service" /\ -1 \in Int
  BY DEF IndInv, TypeInv, Memory
<1>2. /\ node' \in Memory /\ SameButCount(node, node')
      /\ \A n \in Nodes : node[n] # Freed =>
           node'[n].nRefCount = IF n \in sockCopy THEN node[n].nRefCount + (-1) ELSE node[n].nRefCount
  <2>1. PICK ns \in SUBSET sockCopy : node' = Counted(Disconnecting(ns), sockCopy, -1)
    BY DEF ReleaseNodes
  <2> QED BY <1>1, <2>1, DisconnectedAndCounted
<1>3. \A n \in Nodes : Live(n)' <=> Live(n)
  BY <1>2 DEF SameButCount, Live
<1>4. TypeInv'
  BY <1>2 DEF IndInv, TypeInv, Memory
<1>5. ListsInv'
  BY <1>1, <1>3 DEF IndInv, ListsInv, TypeInv, Removing
<1>6. RefsInv'
  <2> SUFFICES ASSUME NEW n \in Nodes \ found
               PROVE  IF Live(n)'
                        THEN node'[n].nRefCount >= Granted(Base(n)') + Granted(n \in {}) + Granted(n \in msgCopy)
                        ELSE n \notin {} \union msgCopy
    BY DEF RefsInv
  <2>1. CASE ~Live(n)
    BY <2>1, <1>3 DEF IndInv, RefsInv, ListsInv
  <2>2. CASE Live(n)
    <3>1. /\ node[n].nRefCount >= Granted(Base(n)) + Granted(n \in sockCopy) + Granted(n \in msgCopy)
          /\ node[n].nRefCount \in Int
      BY <2>2 DEF IndInv, RefsInv, TypeInv, CNodes, Live
    <3>2. node'[n].nRefCount = IF n \in sockCopy THEN node[n].nRefCount + (-1) ELSE node[n].nRefCount
      BY <1>2, <2>2 DEF Live
    <3>3. Base(n)' <=> Base(n)
      BY <1>1 DEF Base, Removing
    <3> QED BY <1>1, <3>1, <3>2, <3>3, <2>2, <1>3 DEF Granted
  <2> QED BY <2>1, <2>2
<1>7. OpenerInv'
  BY DEF IndInv, OpenerInv, OpenerOK
<1>8. OwnerInv' /\ PostInv' /\ SlotsInv'
  BY <1>2, SlotsStutter
<1> QED BY <1>4, <1>5, <1>6, <1>7, <1>8 DEF IndInv

-----------------------------------------------------------------------------
(* ThreadMessageHandler                                                    *)

LEMMA HandlerCopiesInd == ASSUME IndInv, HandlerCopies PROVE IndInv'
<1> USE DEF HandlerCopies, lists, slots, socket, others
<1>1. node \in Memory /\ msgCopy = {}
  BY DEF IndInv, TypeInv, ListsInv, Memory
<1>2. /\ node' \in Memory /\ SameButCount(node, node')
      /\ \A n \in Nodes : node[n] # Freed =>
           node'[n].nRefCount = IF n \in vNodes THEN node[n].nRefCount + 1 ELSE node[n].nRefCount
  <2>1. 1 \in Int /\ node' = Counted(node, vNodes, 1)
    BY DEF AddRef, Copied
  <2> QED BY <1>1, <2>1, CountedStep
<1>3. \A n \in Nodes : Live(n)' <=> Live(n)
  BY <1>2 DEF SameButCount, Live
<1>4. TypeInv'
  BY <1>2 DEF IndInv, TypeInv, Memory
<1>5. ListsInv'
  BY <1>1, <1>3 DEF IndInv, ListsInv, TypeInv, Removing
<1>6. RefsInv'
  <2> SUFFICES ASSUME NEW n \in Nodes \ found
               PROVE  IF Live(n)'
                        THEN node'[n].nRefCount >= Granted(Base(n)') + Granted(n \in sockCopy) + Granted(n \in vNodes)
                        ELSE n \notin sockCopy \union vNodes
    BY DEF RefsInv
  <2>1. CASE ~Live(n)
    BY <2>1, <1>3 DEF IndInv, RefsInv, ListsInv
  <2>2. CASE Live(n)
    <3>1. /\ node[n].nRefCount >= Granted(Base(n)) + Granted(n \in sockCopy) + Granted(n \in msgCopy)
          /\ node[n].nRefCount \in Int
      BY <2>2 DEF IndInv, RefsInv, TypeInv, CNodes, Live
    <3>2. node'[n].nRefCount = IF n \in vNodes THEN node[n].nRefCount + 1 ELSE node[n].nRefCount
      BY <1>2, <2>2 DEF Live
    <3>3. Base(n)' <=> Base(n)
      BY DEF Base, Removing
    <3> QED BY <1>1, <3>1, <3>2, <3>3, <2>2, <1>3 DEF Granted
  <2> QED BY <2>1, <2>2
<1>7. OpenerInv'
  BY DEF IndInv, OpenerInv, OpenerOK
<1>8. OwnerInv' /\ PostInv' /\ SlotsInv'
  BY <1>2, SlotsStutter
<1> QED BY <1>4, <1>5, <1>6, <1>7, <1>8 DEF IndInv

LEMMA HandlerProcessesInd == ASSUME IndInv, HandlerProcesses PROVE IndInv'
<1> USE DEF HandlerProcesses, lists, slots, socket, others
<1>1. PICK ns \in SUBSET msgCopy : node' = Disconnecting(ns)
  OBVIOUS
<1>2. /\ node' \in Memory /\ SameButCount(node, node')
      /\ \A n \in Nodes : node[n] # Freed => node'[n].nRefCount = node[n].nRefCount
  BY <1>1, DisconnectingStep DEF IndInv
<1>3. \A n \in Nodes : Live(n)' <=> Live(n)
  BY <1>2 DEF SameButCount, Live
<1>4. TypeInv'
  BY <1>2 DEF IndInv, TypeInv, Memory
<1>5. ListsInv'
  BY <1>1, <1>3 DEF IndInv, ListsInv, TypeInv, Removing
<1>6. RefsInv'
  <2>1. \A n \in Nodes : Base(n)' <=> Base(n)
    BY DEF Base, Removing
  <2> QED BY <1>2, <1>3, <2>1 DEF IndInv, RefsInv, Granted, Live
<1>7. OpenerInv'
  BY DEF IndInv, OpenerInv, OpenerOK
<1>8. OwnerInv' /\ PostInv' /\ SlotsInv'
  BY <1>2, SlotsStutter
<1> QED BY <1>4, <1>5, <1>6, <1>7, <1>8 DEF IndInv

LEMMA HandlerReleasesInd == ASSUME IndInv, HandlerReleases PROVE IndInv'
<1> USE DEF HandlerReleases, lists, slots, socket, others
<1>1. node \in Memory /\ -1 \in Int
  BY DEF IndInv, TypeInv, Memory
<1>2. /\ node' \in Memory /\ SameButCount(node, node')
      /\ \A n \in Nodes : node[n] # Freed =>
           node'[n].nRefCount = IF n \in msgCopy THEN node[n].nRefCount + (-1) ELSE node[n].nRefCount
  <2>1. node' = Counted(node, msgCopy, -1)
    BY DEF Release
  <2>2. /\ Counted(node, msgCopy, -1) \in Memory
        /\ SameButCount(node, Counted(node, msgCopy, -1))
        /\ \A n \in Nodes : node[n] # Freed =>
             Counted(node, msgCopy, -1)[n].nRefCount =
               IF n \in msgCopy THEN node[n].nRefCount + (-1) ELSE node[n].nRefCount
    BY <1>1, CountedStep
  <2> QED BY <2>1, <2>2
<1>3. \A n \in Nodes : Live(n)' <=> Live(n)
  BY <1>2 DEF SameButCount, Live
<1>4. TypeInv'
  BY <1>2 DEF IndInv, TypeInv, Memory
<1>5. ListsInv'
  BY <1>1, <1>3 DEF IndInv, ListsInv, TypeInv, Removing
<1>6. RefsInv'
  <2> SUFFICES ASSUME NEW n \in Nodes \ found
               PROVE  IF Live(n)'
                        THEN node'[n].nRefCount >= Granted(Base(n)') + Granted(n \in sockCopy) + Granted(n \in {})
                        ELSE n \notin sockCopy \union {}
    BY DEF RefsInv
  <2>1. CASE ~Live(n)
    BY <2>1, <1>3 DEF IndInv, RefsInv, ListsInv
  <2>2. CASE Live(n)
    <3>1. /\ node[n].nRefCount >= Granted(Base(n)) + Granted(n \in sockCopy) + Granted(n \in msgCopy)
          /\ node[n].nRefCount \in Int
      BY <2>2 DEF IndInv, RefsInv, TypeInv, CNodes, Live
    <3>2. node'[n].nRefCount = IF n \in msgCopy THEN node[n].nRefCount + (-1) ELSE node[n].nRefCount
      BY <1>2, <2>2 DEF Live
    <3>3. Base(n)' <=> Base(n)
      BY DEF Base, Removing
    <3> QED BY <3>1, <3>2, <3>3, <2>2, <1>3 DEF Granted
  <2> QED BY <2>1, <2>2
<1>7. OpenerInv'
  BY DEF IndInv, OpenerInv, OpenerOK
<1>8. OwnerInv' /\ PostInv' /\ SlotsInv'
  BY <1>2, SlotsStutter
<1> QED BY <1>4, <1>5, <1>6, <1>7, <1>8 DEF IndInv

-----------------------------------------------------------------------------
(* The threads that open connections                                       *)

(* What one of them does to itself, and what becomes of its grant.         *)
LEMMA OpenerStep ==
  ASSUME IndInv, NEW t \in Openers, NEW o,
         opener' = [opener EXCEPT ![t] = o], OpenerOK(o, found'),
         found \subseteq found'
  PROVE  /\ OpenerInv'
         /\ opener'[t] = o /\ \A u \in Openers \ {t} : opener'[u] = opener[u]
         /\ IF HasGrant(o) THEN GrantedOpeners' = GrantedOpeners \union {t}
                           ELSE GrantedOpeners' = GrantedOpeners \ {t}
<1>1. opener'[t] = o /\ \A u \in Openers \ {t} : opener'[u] = opener[u]
  BY DEF IndInv, OpenerInv
<1>2. \A u \in Openers \ {t} : OpenerOK(opener[u], found) => OpenerOK(opener[u], found')
  BY <1>1 DEF OpenerOK
<1>3. OpenerInv'
  BY <1>1, <1>2 DEF IndInv, OpenerInv
<1>4. HasGrant(opener[t])' <=> HasGrant(o)
  BY <1>1 DEF HasGrant
<1>5. \A u \in Openers \ {t} : HasGrant(opener[u])' <=> HasGrant(opener[u])
  BY <1>1 DEF HasGrant
<1> QED BY <1>1, <1>3, <1>4, <1>5 DEF GrantedOpeners

(* The owners, when t writes to no node that another thread owns.          *)
LEMMA OwnerStep ==
  ASSUME IndInv, NEW t \in Openers, NEW o, opener'[t] = o,
         \A u \in Openers \ {t} : opener'[u] = opener[u], found \subseteq found',
         \A u \in Openers \ {t} : \A n \in Nodes \ found' : Owns(opener[u], n) => node'[n] = node[n],
         \A n \in Nodes \ found' : Owns(o, n) =>
           /\ Live(n)' /\ ~OwesRelease(n)'
           /\ o.pc # "mark" => ~node'[n].grantOutbound
           /\ \A u \in Openers \ {t} : ~Owns(opener[u], n)
  PROVE  OwnerInv'
<1> SUFFICES ASSUME NEW u \in Openers, NEW n \in Nodes \ found', Owns(opener'[u], n)
             PROVE  /\ Live(n)' /\ ~OwesRelease(n)'
                    /\ opener'[u].pc # "mark" => ~node'[n].grantOutbound
                    /\ \A v \in Openers : Owns(opener'[v], n) => v = u
  BY DEF OwnerInv, Owns
<1>1. CASE u = t
  BY <1>1
<1>2. CASE u # t
  <2>1. /\ Owns(opener[u], n) /\ node'[n] = node[n] /\ opener'[u] = opener[u]
        /\ n \in Nodes \ found
    BY <1>2
  <2>2. /\ Live(n) /\ ~OwesRelease(n)
        /\ opener[u].pc # "mark" => ~node[n].grantOutbound
        /\ \A v \in Openers : Owns(opener[v], n) => v = u
    BY <2>1 DEF IndInv, OwnerInv
  <2>3. Live(n)' /\ ~OwesRelease(n)'
    BY <2>1, <2>2 DEF Live, OwesRelease
  <2>4. ~Owns(o, n)
    BY <1>2, <2>1
  <2> QED BY <1>2, <2>1, <2>2, <2>3, <2>4
<1> QED BY <1>1, <1>2

(* The nodes at risk, when t does not add to the reasons.                  *)
LEMMA RiskStep ==
  ASSUME IndInv, NEW t \in Openers, NEW o, opener'[t] = o,
         \A u \in Openers \ {t} : opener'[u] = opener[u], found' = found,
         vNodes' \intersect found \subseteq vNodes, UNCHANGED <<sockPc, sockNode>>,
         \A n \in found : n \in GrantedNodes' \/ Moving(o, n) => Hot(n)
  PROVE  AtRisk' \subseteq AtRisk
<1> SUFFICES ASSUME NEW n \in AtRisk' PROVE n \in AtRisk
  OBVIOUS
<1>1. n \in found /\ (n \in vNodes \/ (sockPc = "post" /\ n = sockNode)) /\ Hot(n)'
  BY DEF AtRisk
<1>2. Hot(n)
  <2>1. CASE n \in GrantedNodes'
    BY <1>1, <2>1
  <2>2. CASE sockPc = "post" /\ n = sockNode
    BY <2>2 DEF Hot
  <2>3. ASSUME NEW u \in Openers, Moving(opener'[u], n) PROVE Hot(n)
    <3>1. CASE u = t
      BY <1>1, <2>3, <3>1
    <3>2. CASE u # t
      BY <2>3, <3>2 DEF Hot
    <3> QED BY <3>1, <3>2
  <2> QED BY <1>1, <2>1, <2>2, <2>3 DEF Hot, Moving
<1> QED BY <1>1, <1>2 DEF AtRisk

(* Base references, when t becomes the owner of no other node.             *)
LEMMA BaseStep ==
  ASSUME NEW t \in Openers, NEW o, opener'[t] = o,
         \A u \in Openers \ {t} : opener'[u] = opener[u],
         UNCHANGED <<sockPc, sockNode>>, NEW n, n \in vNodes' => n \in vNodes,
         Owns(o, n) => Owns(opener[t], n)
  PROVE  Base(n)' => Base(n)
<1>1. ASSUME NEW u \in Openers, Owns(opener'[u], n) PROVE Base(n)
  <2>1. CASE u = t
    BY <1>1, <2>1 DEF Base
  <2>2. CASE u # t
    BY <1>1, <2>2 DEF Base
  <2> QED BY <2>1, <2>2
<1> QED BY <1>1 DEF Base, Removing, Owns

(* A step of one of them that leaves the nodes and the slots alone.        *)
LEMMA OpenerOnly ==
  ASSUME IndInv, NEW t \in Openers, NEW o, opener' = [opener EXCEPT ![t] = o],
         OpenerOK(o, found), HasGrant(o) <=> HasGrant(opener[t]),
         \A n \in Nodes \ found : Owns(o, n) =>
           Owns(opener[t], n) /\ (o.pc # "mark" => opener[t].pc # "mark"),
         \A n \in found : Moving(o, n) => Hot(n),
         UNCHANGED <<node, vNodes, vNodesDisconnected, value, socket, handler, found>>
  PROVE  IndInv'
<1> USE DEF socket, handler
<1>1. /\ OpenerInv' /\ GrantedOpeners' = GrantedOpeners
      /\ opener'[t] = o /\ \A u \in Openers \ {t} : opener'[u] = opener[u]
  BY OpenerStep DEF GrantedOpeners
<1>2. TypeInv'
  BY DEF IndInv, TypeInv
<1>3. ListsInv'
  BY DEF IndInv, ListsInv, Live, Removing
<1>4. RefsInv'
  <2>1. \A n \in Nodes \ found' : Base(n)' => Base(n)
    BY <1>1, BaseStep
  <2> QED BY <2>1, RefsStep DEF Live
<1>5. OwnerInv'
  <2>1. ASSUME NEW n \in Nodes \ found', Owns(o, n)
        PROVE  /\ Live(n)' /\ ~OwesRelease(n)'
               /\ o.pc # "mark" => ~node'[n].grantOutbound
               /\ \A u \in Openers \ {t} : ~Owns(opener[u], n)
    BY <2>1 DEF IndInv, OwnerInv, Live, OwesRelease
  <2> QED BY <1>1, <2>1, OwnerStep
<1>6. PostInv'
  BY DEF IndInv, PostInv
<1>7. GrantedNodes' = GrantedNodes /\ FoundLive' = FoundLive
  BY DEF GrantedNodes, FoundLive, Live
<1>8. OwnSlots' = OwnSlots
  BY <1>7 DEF OwnSlots, Posted
<1>9. AtRisk' \subseteq AtRisk
  <2>1. \A n \in found : n \in GrantedNodes' \/ Moving(o, n) => Hot(n)
    BY <1>7 DEF Hot
  <2> QED BY <1>1, <2>1, RiskStep
<1>10. SlotsInv'
  BY <1>1, <1>7, <1>8, <1>9, SlotsQuiet DEF IndInv
<1> QED BY <1>1, <1>2, <1>3, <1>4, <1>5, <1>6, <1>10 DEF IndInv

(* A step of one of them that writes to a node that no other thread owns,  *)
(* to its count only when ConnectNode has found it.                        *)
LEMMA WrittenStep ==
  ASSUME IndInv, NEW t \in Openers, NEW o, opener' = [opener EXCEPT ![t] = o], OpenerOK(o, found),
         NEW n \in Nodes, Live(n), NEW c \in CNodes, node' = [node EXCEPT ![n] = c],
         n \in found \/ c.nRefCount = node[n].nRefCount,
         n \in found \/ Owns(opener[t], n),
         n \in found \/ c.grantOutbound = node[n].grantOutbound \/ c.grantOutbound,
         \A m \in Nodes \ found : Owns(o, m) =>
           /\ m = n /\ ~c.fNetworkNode /\ ~c.fInbound
           /\ o.pc # "mark" => ~c.grantOutbound,
         UNCHANGED <<lists, socket, handler, found>>
  PROVE  /\ TypeInv' /\ ListsInv' /\ RefsInv' /\ OpenerInv' /\ OwnerInv' /\ PostInv'
         /\ FoundLive' = FoundLive
<1> USE DEF lists, socket, handler
<1>1. /\ node' \in Memory /\ node'[n] = c /\ \A m \in Nodes \ {n} : node'[m] = node[m]
      /\ \A m \in Nodes : Live(m)' <=> Live(m)
  BY OneWritten
<1>2. /\ OpenerInv' /\ opener'[t] = o /\ \A u \in Openers \ {t} : opener'[u] = opener[u]
  BY OpenerStep
<1>3. TypeInv'
  BY <1>1 DEF IndInv, TypeInv, Memory
<1>4. ListsInv'
  BY <1>1 DEF IndInv, ListsInv, TypeInv, Removing
<1>5. RefsInv'
  <2>1. \A m \in Nodes \ found' : Owns(o, m) => Owns(opener[t], m)
    OBVIOUS
  <2>2. \A m \in Nodes \ found' : Base(m)' => Base(m)
    BY <1>2, <2>1, BaseStep
  <2>3. \A m \in Nodes \ found' : node'[m].nRefCount = node[m].nRefCount
    BY <1>1
  <2> QED BY <1>1, <2>2, <2>3, RefsStep
<1>6. OwnerInv'
  <2>1. n \notin found => \A u \in Openers \ {t} : ~Owns(opener[u], n)
    BY DEF IndInv, OwnerInv
  <2>2. \A u \in Openers \ {t} : \A m \in Nodes \ found' : Owns(opener[u], m) => node'[m] = node[m]
    BY <1>1, <2>1
  <2>3. ASSUME NEW m \in Nodes \ found', Owns(o, m)
        PROVE  /\ Live(m)' /\ ~OwesRelease(m)'
               /\ o.pc # "mark" => ~node'[m].grantOutbound
               /\ \A u \in Openers \ {t} : ~Owns(opener[u], m)
    <3>1. m = n /\ ~c.fNetworkNode /\ ~c.fInbound /\ (o.pc # "mark" => ~c.grantOutbound)
      BY <2>3
    <3> QED BY <1>1, <2>1, <2>3, <3>1 DEF OwesRelease
  <2> QED BY <1>2, <2>2, <2>3, OwnerStep
<1>7. PostInv'
  <2>1. sockPc = "post" => sockNode \in Nodes
    BY DEF IndInv, ListsInv, Removing
  <2> QED BY <1>1, <2>1 DEF IndInv, PostInv
<1>8. FoundLive' = FoundLive
  BY <1>1 DEF FoundLive, IndInv, TypeInv
<1> QED BY <1>2, <1>3, <1>4, <1>5, <1>6, <1>7, <1>8

(* What the position of a thread says about it.                            *)
LEMMA OpenerOf ==
  ASSUME IndInv, NEW t \in Openers
  PROVE  /\ opener[t].pc \in Working =>
              /\ opener[t] \in Attempts
              /\ opener[t].pc \notin {"clear", "restore"} => (HasGrant(opener[t]) <=> opener[t].grant)
         /\ opener[t].pc = "return" => opener[t] \in [pc : {"return"}, grant : BOOLEAN]
         /\ opener[t].pc = "idle" => opener[t] = Idle
         /\ opener[t].pc = "relay" => opener[t] \in [pc : {"relay"}, pnode : Nodes]
         /\ OpenerOK(opener[t], found)
<1>1. OpenerOK(opener[t], found)
  BY DEF IndInv, OpenerInv
<1>2. CASE opener[t] = Idle
  BY <1>1, <1>2 DEF Idle, Working
<1>3. CASE opener[t] = [pc |-> "destroyed"]
  BY <1>1, <1>3 DEF Working
<1>4. CASE opener[t] \in [pc : {"relay"}, pnode : Nodes]
  BY <1>1, <1>4 DEF Working
<1>5. CASE opener[t] \in [pc : {"return"}, grant : BOOLEAN]
  BY <1>1, <1>5 DEF Working
<1>6. CASE opener[t] \in Attempts
  BY <1>1, <1>6 DEF Attempts, Working, HasGrant
<1> QED BY <1>1, <1>2, <1>3, <1>4, <1>5, <1>6 DEF OpenerOK

LEMMA OpenInd ==
  ASSUME IndInv, NEW t \in Openers, NEW a \in Addrs, NEW kind \in Kinds, Open(t, a, kind)
  PROVE  IndInv'
<1> DEFINE p == IF kind = "onetry" THEN "connect" ELSE "find"
           g == kind # "onetry"
           o == [pc |-> p, addr |-> a, kind |-> kind, grant |-> g, pnode |-> NoNode, ref |-> 0]
<1>0. p \in Working /\ g \in BOOLEAN
  BY DEF Working
<1>1. /\ opener' = [opener EXCEPT ![t] = o] /\ opener[t].pc = "idle" /\ value \in Nat
      /\ UNCHANGED <<node, lists, mDisposableMutex, socket, handler, found>>
  BY DEF Open, IndInv, SlotsInv
<1>2. o \in Attempts /\ o.kind = kind
      /\ o.pc = (IF kind = "onetry" THEN "connect" ELSE "find") /\ (o.grant <=> kind # "onetry")
  <2>1. p = IF kind = "onetry" THEN "connect" ELSE "find"
    OBVIOUS
  <2>2. g <=> kind # "onetry"
    OBVIOUS
  <2> HIDE DEF p, g
  <2> QED BY <1>0, <2>1, <2>2 DEF Attempts
<1> HIDE DEF o
<1>3. /\ OpenerOK(o, found) /\ OpenerOK(o, found') /\ (HasGrant(o) <=> kind # "onetry")
      /\ \A n : ~Owns(o, n) /\ ~Moving(o, n)
  BY <1>1, <1>2 DEF OpenerOK, HasGrant, Owns, Owning, Moving
<1>4. t \notin GrantedOpeners /\ ~HasGrant(opener[t])
  BY <1>1 DEF GrantedOpeners, HasGrant
<1>5. CASE kind = "onetry"
  <2>1. value' = value
    BY <1>1, <1>5 DEF Open, Granted
  <2> QED BY <1>1, <1>3, <1>4, <1>5, <2>1, OpenerOnly DEF lists
<1>6. CASE kind # "onetry"
  <2>1. value > 0 /\ value' = value - 1 /\ value' \in Nat
    BY <1>1, <1>6 DEF Open, Granted
  <2>2. /\ OpenerInv' /\ GrantedOpeners' = GrantedOpeners \union {t}
        /\ opener'[t] = o /\ \A u \in Openers \ {t} : opener'[u] = opener[u]
    BY <1>1, <1>3, <1>6, OpenerStep
  <2> USE DEF lists, socket, handler
  <2>3. TypeInv'
    BY <1>1 DEF IndInv, TypeInv
  <2>4. ListsInv'
    BY <1>1 DEF IndInv, ListsInv, Live, Removing
  <2>5. RefsInv'
    <3>1. \A n \in Nodes \ found' : Base(n)' => Base(n)
      BY <1>1, <1>3, <2>2, BaseStep
    <3> QED BY <1>1, <3>1, RefsStep DEF Live
  <2>6. OwnerInv'
    BY <1>1, <1>3, <2>2, OwnerStep
  <2>7. PostInv'
    BY <1>1 DEF IndInv, PostInv
  <2>8. GrantedNodes' = GrantedNodes /\ FoundLive' = FoundLive
    BY <1>1 DEF GrantedNodes, FoundLive, Live
  <2>9. OwnSlots' = OwnSlots
    BY <1>1, <2>8 DEF OwnSlots, Posted
  <2>10. AtRisk' \subseteq AtRisk
    <3>1. \A n \in found : n \in GrantedNodes' \/ Moving(o, n) => Hot(n)
      BY <1>3, <2>8 DEF Hot
    <3> QED BY <1>1, <2>2, <3>1, RiskStep
  <2>11. SlotsInv'
    <3>1. /\ Grows(GrantedOpeners, GrantedOpeners', t, "more") /\ Grows(OwnSlots, OwnSlots', t, "same")
          /\ Grows(FoundLive, FoundLive', t, "same") /\ Grows(AtRisk, AtRisk', t, "same")
      BY <2>2, <2>8, <2>9, <2>10 DEF Grows
    <3>2. value' + Diff("more") + Diff("same") + Diff("same") + Diff("same") <= value + 0
      BY <1>1, <2>1 DEF Diff
    <3>3. IsFiniteSet(found') /\ Cardinality(found') = Cardinality(found) + 0 /\ 0 \in Int
      BY <1>1, SizesNow DEF IndInv, SlotsInv
    <3> QED BY <2>1, <3>1, <3>2, <3>3, SlotsStep DEF IndInv
  <2> QED BY <2>2, <2>3, <2>4, <2>5, <2>6, <2>7, <2>11 DEF IndInv
<1> QED BY <1>5, <1>6

(* A thread that goes on from one position to another.                     *)
At(t, p) == [opener[t] EXCEPT !.pc = p]

LEMMA GoesStep ==
  ASSUME IndInv, NEW t \in Openers, NEW p \in Working, opener[t].pc \in Working, Goes(t, p)
  PROVE  /\ opener' = [opener EXCEPT ![t] = At(t, p)] /\ At(t, p) \in Attempts
         /\ At(t, p).pc = p /\ At(t, p).pnode = opener[t].pnode
         /\ At(t, p).grant = opener[t].grant /\ At(t, p).kind = opener[t].kind
<1>1. opener[t] \in Attempts
  BY OpenerOf
<1>2. opener' = [opener EXCEPT ![t] = At(t, p)]
  BY DEF Goes, At
<1> QED BY <1>1, <1>2 DEF At, Attempts

(* A thread that returns from OpenNetworkConnection with what is left of   *)
(* its grant.                                                              *)
Back(t) == IF opener[t].kind = "onetry" THEN Idle ELSE [pc |-> "return", grant |-> opener[t].grant]

LEMMA ReturnsStep ==
  ASSUME IndInv, NEW t \in Openers, opener[t].pc \in {"find", "connect", "mark", "oneshot"}, Returns(t)
  PROVE  /\ opener' = [opener EXCEPT ![t] = Back(t)] /\ OpenerOK(Back(t), found)
         /\ HasGrant(Back(t)) <=> HasGrant(opener[t])
         /\ \A n : ~Owns(Back(t), n) /\ ~Moving(Back(t), n)
<1>1. /\ opener[t] \in Attempts /\ (HasGrant(opener[t]) <=> opener[t].grant)
      /\ opener[t].grant \in BOOLEAN
  BY OpenerOf DEF Attempts, Working
<1>2. opener[t].kind = "onetry" => ~opener[t].grant
  BY <1>1, OpenerOf DEF OpenerOK, Idle, Attempts, Working
<1>3. opener' = [opener EXCEPT ![t] = Back(t)]
  BY DEF Returns, Back
<1>4. OpenerOK(Back(t), found)
  BY <1>1 DEF OpenerOK, Idle, Back
<1>5. HasGrant(Back(t)) <=> HasGrant(opener[t])
  BY <1>1, <1>2 DEF HasGrant, Idle, Back
<1>6. \A n : ~Owns(Back(t), n) /\ ~Moving(Back(t), n)
  BY DEF Back, Idle, Owns, Owning, Moving
<1> QED BY <1>3, <1>4, <1>5, <1>6

LEMMA OpenerFindsInd == ASSUME IndInv, NEW t \in Openers, OpenerFinds(t) PROVE IndInv'
<1> USE DEF lists, slots
<1>1. /\ UNCHANGED <<node, vNodes, vNodesDisconnected, value, socket, handler, found>>
      /\ opener[t].pc = "find"
  BY DEF OpenerFinds
<1>2. /\ opener[t].pc \in Working /\ opener[t] \in Attempts /\ opener[t].grant
      /\ opener[t].kind # "onetry" /\ HasGrant(opener[t])
  BY <1>1, OpenerOf DEF Working, OpenerOK, Idle
<1>3. CASE AlreadyConnected(t)
  <2>1. Returns(t)
    BY <1>3 DEF OpenerFinds
  <2> QED BY <1>1, <2>1, ReturnsStep, OpenerOnly
<1>4. CASE ~AlreadyConnected(t)
  <2> DEFINE p == IF ByName(t) THEN "connect" ELSE "findagain"
  <2>1. Goes(t, p) /\ p \in {"connect", "findagain"} /\ p \in Working
    BY <1>4 DEF OpenerFinds, Working
  <2> HIDE DEF p
  <2> DEFINE o == At(t, p)
  <2>2. /\ opener' = [opener EXCEPT ![t] = o] /\ o \in Attempts /\ o.pc = p
        /\ o.grant = opener[t].grant /\ o.kind = opener[t].kind
    BY <1>2, <2>1, GoesStep
  <2> HIDE DEF o
  <2>3. OpenerOK(o, found) /\ HasGrant(o) /\ \A n : ~Owns(o, n) /\ ~Moving(o, n)
    BY <1>2, <2>1, <2>2 DEF OpenerOK, HasGrant, Owns, Owning, Moving
  <2> QED BY <1>1, <1>2, <2>2, <2>3, OpenerOnly
<1> QED BY <1>3, <1>4

LEMMA FindsNoneInd == ASSUME IndInv, NEW t \in Openers, FindsNone(t) PROVE IndInv'
<1> USE DEF lists, slots
<1>1. /\ UNCHANGED <<node, vNodes, vNodesDisconnected, value, socket, handler, found>>
      /\ opener[t].pc = "findagain" /\ Goes(t, "connect") /\ "connect" \in Working
  BY DEF FindsNone, Working
<1>2. /\ opener[t].pc \in Working /\ opener[t] \in Attempts /\ opener[t].grant
      /\ opener[t].kind # "onetry" /\ HasGrant(opener[t])
  BY <1>1, OpenerOf DEF Working, OpenerOK, Idle
<1> DEFINE o == At(t, "connect")
<1>3. /\ opener' = [opener EXCEPT ![t] = o] /\ o \in Attempts /\ o.pc = "connect"
      /\ o.grant = opener[t].grant /\ o.kind = opener[t].kind
  BY <1>1, <1>2, GoesStep
<1> HIDE DEF o
<1>4. OpenerOK(o, found) /\ HasGrant(o) /\ \A n : ~Owns(o, n) /\ ~Moving(o, n)
  BY <1>2, <1>3 DEF OpenerOK, HasGrant, Owns, Owning, Moving
<1> QED BY <1>1, <1>2, <1>3, <1>4, OpenerOnly

LEMMA ConnectFailsInd == ASSUME IndInv, NEW t \in Openers, ConnectFails(t) PROVE IndInv'
<1>1. /\ UNCHANGED <<node, vNodes, vNodesDisconnected, value, socket, handler, found>>
      /\ opener[t].pc \in {"find", "connect", "mark", "oneshot"} /\ Returns(t)
  BY DEF ConnectFails, lists, slots
<1> QED BY <1>1, ReturnsStep, OpenerOnly

LEMMA SetsOneShotInd == ASSUME IndInv, NEW t \in Openers, SetsOneShot(t) PROVE IndInv'
<1>1. /\ UNCHANGED <<node, vNodes, vNodesDisconnected, value, socket, handler, found>>
      /\ opener[t].pc \in {"find", "connect", "mark", "oneshot"} /\ Returns(t)
  BY DEF SetsOneShot, lists, slots
<1> QED BY <1>1, ReturnsStep, OpenerOnly

(* A node that is found stops to be its owner's own: what counted for its  *)
(* grant counts for its place, and the grant, if any, is at risk.          *)
LEMMA FindsNodeInd ==
  ASSUME IndInv, NEW t \in Openers, NEW n \in Nodes, FindsNode(t, n) PROVE IndInv'
<1> USE DEF lists, slots
<1>1. /\ UNCHANGED <<node, vNodes, vNodesDisconnected, value, socket, handler>>
      /\ opener[t].pc = "findagain" /\ found' = found \union {n} /\ n \in vNodes /\ Live(n)
      /\ found' \subseteq Nodes /\ found \subseteq found' /\ sockPc \notin {"post", "clear"}
      /\ opener' = [opener EXCEPT ![t].pc = "addref", ![t].pnode = n]
  BY DEF FindsNode, IndInv, TypeInv, ListsInv, Unlocked, Removing
<1>2. /\ opener[t] \in Attempts /\ opener[t].grant /\ opener[t].kind # "onetry"
      /\ HasGrant(opener[t])
  BY <1>1, OpenerOf DEF Working, OpenerOK, Idle
<1> DEFINE o == [opener[t] EXCEPT !.pc = "addref", !.pnode = n]
<1>3. opener' = [opener EXCEPT ![t] = o]
  BY <1>1 DEF IndInv, OpenerInv
<1>4. OpenerOK(o, found') /\ HasGrant(o) /\ \A m : ~Owns(o, m) /\ ~Moving(o, m)
  BY <1>1, <1>2 DEF OpenerOK, Attempts, Working, HasGrant, Owns, Owning, Moving
<1> HIDE DEF o
<1>5. /\ OpenerInv' /\ GrantedOpeners' = GrantedOpeners
      /\ opener'[t] = o /\ \A u \in Openers \ {t} : opener'[u] = opener[u]
  BY <1>1, <1>2, <1>3, <1>4, OpenerStep DEF GrantedOpeners
<1> USE DEF socket, handler
<1>6. TypeInv'
  BY <1>1 DEF IndInv, TypeInv
<1>7. ListsInv'
  BY <1>1 DEF IndInv, ListsInv, Live, Removing
<1>8. RefsInv'
  <2>1. \A m \in Nodes \ found' : Base(m)' => Base(m)
    BY <1>1, <1>4, <1>5, BaseStep
  <2> QED BY <1>1, <2>1, RefsStep DEF Live
<1>9. OwnerInv'
  BY <1>1, <1>4, <1>5, OwnerStep
<1>10. PostInv'
  BY <1>1 DEF PostInv
<1>11. SlotsInv'
  <2>1. GrantedNodes' = GrantedNodes /\ (\A m : Live(m)' <=> Live(m)) /\ (\A m : Posted(m)' <=> Posted(m))
    BY <1>1 DEF GrantedNodes, Live, Posted
  <2>2. \A m \in found' : Hot(m)' => Hot(m)
    <3>1. ASSUME NEW m \in found', NEW u \in Openers, Moving(opener'[u], m) PROVE Hot(m)
      <4>1. CASE u = t
        BY <1>4, <1>5, <3>1, <4>1
      <4>2. CASE u # t
        BY <1>5, <3>1, <4>2 DEF Hot
      <4> QED BY <4>1, <4>2
    <3> QED BY <1>1, <2>1, <3>1 DEF Hot, Moving
  <2>3. n \notin found => (Hot(n) => n \in GrantedNodes)
    <3>1. \A u \in Openers : Moving(opener[u], n) => n \in found
      <4>1. ASSUME NEW u \in Openers, Moving(opener[u], n) PROVE n \in found
        <5>1. OpenerOK(opener[u], found)
          BY OpenerOf
        <5> QED BY <4>1, <5>1 DEF Moving, OpenerOK, Idle
      <4> QED BY <4>1
    <3> QED BY <1>1, <3>1 DEF Hot
  <2>4. AtRisk' \subseteq AtRisk \union {n} /\ (~Hot(n) => AtRisk' \subseteq AtRisk)
    BY <1>1, <2>2 DEF AtRisk
  <2>5. CASE n \in found
    <3>1. found' = found
      BY <1>1, <2>5
    <3>2. OwnSlots' = OwnSlots /\ FoundLive' = FoundLive
      BY <2>1, <3>1 DEF OwnSlots, FoundLive
    <3>3. AtRisk' \subseteq AtRisk
      BY <1>1, <2>2, <3>1 DEF AtRisk
    <3> QED BY <1>1, <1>5, <3>1, <3>2, <3>3, SlotsQuiet DEF IndInv
  <2>6. CASE n \notin found
    <3>1. FoundLive' \subseteq FoundLive \union {n}
      BY <1>1, <2>1 DEF FoundLive
    <3>2. OwnSlots' \subseteq OwnSlots \ {n}
      BY <1>1, <2>1 DEF OwnSlots
    <3>3. IsFiniteSet(found') /\ Cardinality(found') = Cardinality(found) + 1 /\ 1 \in Int
      BY <1>1, <2>6, SizesNow, FS_AddElement DEF IndInv, SlotsInv
    <3>4. value \in Nat /\ value' = value
      BY <1>1 DEF IndInv, SlotsInv
    <3>5. CASE n \in GrantedNodes
      <4>1. n \in OwnSlots
        BY <1>1, <2>6, <3>5 DEF OwnSlots, Posted
      <4>2. /\ Grows(GrantedOpeners, GrantedOpeners', n, "same") /\ Grows(OwnSlots, OwnSlots', n, "less")
            /\ Grows(FoundLive, FoundLive', n, "more") /\ Grows(AtRisk, AtRisk', n, "more")
        BY <1>5, <2>4, <3>1, <3>2, <4>1 DEF Grows
      <4>3. value' \in Nat /\ value' + Diff("same") + Diff("less") + Diff("more") + Diff("more") <= value + 1
        BY <3>4 DEF Diff
      <4> QED BY <3>3, <4>2, <4>3, SlotsStep DEF IndInv
    <3>6. CASE n \notin GrantedNodes
      <4>1. /\ Grows(GrantedOpeners, GrantedOpeners', n, "same") /\ Grows(OwnSlots, OwnSlots', n, "same")
            /\ Grows(FoundLive, FoundLive', n, "more") /\ Grows(AtRisk, AtRisk', n, "same")
        BY <1>5, <2>3, <2>4, <2>6, <3>1, <3>2, <3>6 DEF Grows
      <4>2. value' \in Nat /\ value' + Diff("same") + Diff("same") + Diff("more") + Diff("same") <= value + 1
        BY <3>4 DEF Diff
      <4> QED BY <3>3, <4>1, <4>2, SlotsStep DEF IndInv
    <3> QED BY <3>5, <3>6
  <2> QED BY <2>5, <2>6
<1> QED BY <1>5, <1>6, <1>7, <1>8, <1>9, <1>10, <1>11 DEF IndInv

LEMMA ReadsCountInd == ASSUME IndInv, NEW t \in Openers, ReadsCount(t) PROVE IndInv'
<1> USE DEF lists, slots
<1>1. /\ UNCHANGED <<node, vNodes, vNodesDisconnected, value, socket, handler, found>>
      /\ opener[t].pc = "addref" /\ Live(opener[t].pnode)
      /\ opener' = [opener EXCEPT ![t].pc = "count", ![t].ref = node[opener[t].pnode].nRefCount]
  BY DEF ReadsCount
<1>2. /\ opener[t] \in Attempts /\ opener[t].grant /\ opener[t].kind # "onetry"
      /\ HasGrant(opener[t]) /\ opener[t].pnode \in found /\ opener[t].pnode \in Nodes
  BY <1>1, OpenerOf DEF Working, OpenerOK, Idle
<1>3. PICK r \in Int : r = node[opener[t].pnode].nRefCount
  BY <1>1, <1>2 DEF IndInv, TypeInv, CNodes, Live
<1> DEFINE o == [opener[t] EXCEPT !.pc = "count", !.ref = r]
<1>4. opener' = [opener EXCEPT ![t] = o]
  BY <1>1, <1>3 DEF IndInv, OpenerInv
<1>5. OpenerOK(o, found) /\ HasGrant(o) /\ \A m : ~Owns(o, m) /\ ~Moving(o, m)
  BY <1>1, <1>2 DEF OpenerOK, Attempts, Working, HasGrant, Owns, Owning, Moving
<1> HIDE DEF o
<1> QED BY <1>1, <1>2, <1>4, <1>5, OpenerOnly

LEMMA WritesCountInd == ASSUME IndInv, NEW t \in Openers, WritesCount(t) PROVE IndInv'
<1> DEFINE n == opener[t].pnode
<1>1. /\ UNCHANGED <<lists, slots, socket, handler, found>>
      /\ opener[t].pc = "count" /\ Live(n)
      /\ opener' = [opener EXCEPT ![t].pc = "move", ![t].ref = 0]
  BY DEF WritesCount
<1>2. /\ opener[t] \in Attempts /\ opener[t].grant /\ opener[t].kind # "onetry"
      /\ HasGrant(opener[t]) /\ n \in found /\ n \in Nodes /\ opener[t].ref \in Int
  BY <1>1, OpenerOf DEF Working, OpenerOK, Idle, Attempts
<1> PICK r \in Int : r = 0
  OBVIOUS
<1> DEFINE o == [opener[t] EXCEPT !.pc = "move", !.ref = r]
<1>3. opener' = [opener EXCEPT ![t] = o]
  BY <1>1 DEF IndInv, OpenerInv
<1>4. /\ OpenerOK(o, found) /\ HasGrant(o)
      /\ \A m \in Nodes \ found : ~Owns(o, m)
      /\ \A m : ~Moving(o, m)
  <2>1. /\ o \in Attempts /\ o.pc = "move" /\ o.grant = opener[t].grant
        /\ o.kind = opener[t].kind /\ o.pnode = opener[t].pnode
    BY <1>2 DEF Attempts, Working
  <2> QED BY <1>1, <1>2, <2>1 DEF OpenerOK, HasGrant, Owns, Moving
<1> HIDE DEF o
<1>5. CASE UNCHANGED node
  BY <1>1, <1>2, <1>3, <1>4, <1>5, OpenerOnly DEF lists, slots
<1>6. CASE node' = Written(n, "nRefCount", opener[t].ref + 1)
  <2> DEFINE c == [node[n] EXCEPT !.nRefCount = opener[t].ref + 1]
  <2>1. node[n] \in CNodes
    BY <1>1, <1>2 DEF IndInv, TypeInv, Live
  <2>2. c \in CNodes /\ c.grantOutbound = node[n].grantOutbound /\ node[n].grantOutbound \in BOOLEAN
    BY <1>2, <2>1 DEF CNodes
  <2>3. node' = [node EXCEPT ![n] = c]
    BY <1>6 DEF Written
  <2> HIDE DEF c, n
  <2>4. /\ TypeInv' /\ ListsInv' /\ RefsInv' /\ OpenerInv' /\ OwnerInv' /\ PostInv'
        /\ FoundLive' = FoundLive
    <3>1. /\ n \in found \/ c.nRefCount = node[n].nRefCount
          /\ n \in found \/ Owns(opener[t], n)
          /\ n \in found \/ c.grantOutbound = node[n].grantOutbound \/ c.grantOutbound
      BY <1>2 DEF n
    <3>2. \A m \in Nodes \ found : Owns(o, m) =>
            /\ m = n /\ ~c.fNetworkNode /\ ~c.fInbound
            /\ o.pc # "mark" => ~c.grantOutbound
      BY <1>4
    <3>3. n \in Nodes /\ Live(n)
      BY <1>1, <1>2 DEF n
    <3> QED BY ONLY IndInv, t \in Openers, <1>1, <1>3, <1>4, <2>2, <2>3, <3>1, <3>2, <3>3, WrittenStep
  <2>5. GrantedNodes' = GrantedNodes
    BY <1>1, <1>2, <2>2, <2>3, OneWritten DEF GrantedNodes
  <2>6. SlotsInv'
    <3>1. /\ GrantedOpeners' = GrantedOpeners
          /\ opener'[t] = o /\ \A u \in Openers \ {t} : opener'[u] = opener[u]
      BY <1>1, <1>2, <1>3, <1>4, OpenerStep DEF GrantedOpeners
    <3>2. OwnSlots' = OwnSlots
      BY <1>1, <2>5 DEF OwnSlots, Posted, socket
    <3>3. AtRisk' \subseteq AtRisk
      <4>1. \A m \in found : m \in GrantedNodes' \/ Moving(o, m) => Hot(m)
        BY <1>4, <2>5 DEF Hot
      <4> QED BY <1>1, <3>1, <4>1, RiskStep DEF lists, socket
    <3> QED BY <1>1, <2>4, <3>1, <3>2, <3>3, SlotsQuiet DEF IndInv, slots
  <2> QED BY <2>4, <2>6 DEF IndInv
<1> QED BY <1>5, <1>6 DEF WritesCount

LEMMA ConnectsInd ==
  ASSUME IndInv, NEW t \in Openers, NEW n \in Nodes, Connects(t, n) PROVE IndInv'
<1> DEFINE c == CNode(opener[t].addr, ByName(t), FALSE)
<1>1. /\ UNCHANGED <<vNodesDisconnected, slots, socket, handler, found>>
      /\ opener[t].pc = "connect" /\ Allocatable(n) /\ sockPc # "remove" /\ ~Removing
      /\ sockPc \notin {"post", "clear"}
      /\ node' = [node EXCEPT ![n] = c] /\ vNodes' = vNodes \union {n}
      /\ n \notin found
  BY DEF Connects, Unlocked, Removing, Allocatable
<1>2. /\ opener[t] \in Attempts /\ opener[t].pc \in Working
      /\ opener[t].kind # "onetry" => opener[t].grant
      /\ opener[t].addr \in Addrs /\ (HasGrant(opener[t]) <=> opener[t].grant)
  BY <1>1, OpenerOf DEF Working, OpenerOK, Idle, Attempts
<1>3. /\ c \in CNodes /\ c.nRefCount = 1 /\ c.grantOutbound = FALSE
      /\ c.fNetworkNode = FALSE /\ c.fInbound = FALSE
  <2>1. PICK b \in BOOLEAN : b = ByName(t)
    BY DEF ByName
  <2>2. c = CNode(opener[t].addr, b, FALSE)
    BY <2>1
  <2> QED BY <1>2, <2>2 DEF CNode, CNodes
<1> HIDE DEF c
<1>4. PICK o : /\ opener' = [opener EXCEPT ![t] = o] /\ OpenerOK(o, found)
               /\ HasGrant(o) <=> HasGrant(opener[t])
               /\ \A m : (Owns(o, m) => m = n) /\ ~Moving(o, m)
  <2>1. CASE opener[t].kind = "onetry"
    BY <1>1, <2>1, ReturnsStep DEF Connects
  <2>2. CASE opener[t].kind # "onetry"
    <3> DEFINE o == [opener[t] EXCEPT !.pc = "move", !.pnode = n]
    <3>1. opener' = [opener EXCEPT ![t] = o]
      BY <2>2 DEF Connects, IndInv, OpenerInv
    <3>2. /\ OpenerOK(o, found) /\ HasGrant(o) /\ HasGrant(opener[t])
          /\ \A m : (Owns(o, m) => m = n) /\ ~Moving(o, m)
      BY <1>1, <1>2, <2>2 DEF OpenerOK, Attempts, Working, HasGrant, Owns, Moving
    <3> HIDE DEF o
    <3> QED BY <3>1, <3>2
  <2> QED BY <2>1, <2>2
<1>5. /\ OpenerInv' /\ GrantedOpeners' = GrantedOpeners
      /\ opener'[t] = o /\ \A u \in Openers \ {t} : opener'[u] = opener[u]
  BY <1>1, <1>4, OpenerStep DEF GrantedOpeners
<1>6. \A m \in Nodes \ {n} : Base(m)' => Base(m)
  BY <1>1, <1>4, <1>5, BaseStep DEF socket
<1>7. /\ node' \in Memory /\ vNodes' \subseteq Nodes
      /\ node'[n] = c /\ \A m \in Nodes \ {n} : node'[m] = node[m]
      /\ vNodes' \intersect vNodesDisconnected = {}
      /\ \A m \in vNodes' \union vNodesDisconnected : Live(m)'
      /\ \A u \in Openers : ~Owns(opener[u], n)
      /\ RefsInv' /\ PostInv'
      /\ GrantedNodes' = GrantedNodes /\ OwnSlots' = OwnSlots /\ FoundLive' = FoundLive
  BY <1>1, <1>3, <1>6, NewNode DEF socket, handler
<1>8. TypeInv'
  BY <1>1, <1>7 DEF IndInv, TypeInv, Memory, socket, handler
<1>9. ListsInv'
  <2>1. /\ sockPc' = sockPc /\ sockTodo' = sockTodo /\ sockCopy' = sockCopy
        /\ msgPc' = msgPc /\ msgCopy' = msgCopy /\ ~Removing'
    BY <1>1 DEF socket, handler, Removing
  <2> QED BY <1>1, <1>7, <2>1 DEF IndInv, ListsInv
<1>10. OwnerInv'
  <2>1. n \in vNodes'
    BY <1>1
  <2>2. \A u \in Openers \ {t} : \A m \in Nodes \ found' : Owns(opener[u], m) => node'[m] = node[m]
    BY <1>7
  <2>3. \A m \in Nodes \ found' : Owns(o, m) =>
          /\ Live(m)' /\ ~OwesRelease(m)'
          /\ o.pc # "mark" => ~node'[m].grantOutbound
          /\ \A u \in Openers \ {t} : ~Owns(opener[u], m)
    BY <1>3, <1>4, <1>7, <2>1 DEF OwesRelease
  <2> QED BY <1>1, <1>5, <2>2, <2>3, OwnerStep
<1>11. AtRisk' \subseteq AtRisk
  <2>1. \A m \in found : m \in GrantedNodes' \/ Moving(o, m) => Hot(m)
    BY <1>4, <1>7 DEF Hot
  <2> QED BY <1>1, <1>5, <2>1, RiskStep DEF socket
<1>12. SlotsInv'
  BY <1>1, <1>5, <1>7, <1>11, SlotsQuiet DEF IndInv, slots
<1> QED BY <1>5, <1>7, <1>8, <1>9, <1>10, <1>12 DEF IndInv

(* Only a node that was found can have a grant already.                    *)
LEMMA MoveTestsInd == ASSUME IndInv, NEW t \in Openers, MoveTests(t) PROVE IndInv'
<1> DEFINE n == opener[t].pnode
           p == IF node[n].grantOutbound THEN "post" ELSE "store"
           o == At(t, p)
<1>1. /\ UNCHANGED <<node, vNodes, vNodesDisconnected, value, socket, handler, found>>
      /\ opener[t].pc = "move" /\ Live(n) /\ Goes(t, p) /\ p \in Working
      /\ p = "post" \/ p = "store"
      /\ p = "post" => node[n].grantOutbound
  BY DEF MoveTests, lists, slots, Working
<1>2. /\ opener[t] \in Attempts /\ opener[t].grant /\ opener[t].kind # "onetry"
      /\ HasGrant(opener[t]) /\ n \in Nodes /\ opener[t].pc \in Working
  BY <1>1, OpenerOf DEF Working, OpenerOK, Idle, Attempts
<1> HIDE DEF p
<1>3. /\ opener' = [opener EXCEPT ![t] = o] /\ o \in Attempts /\ o.pc = p /\ o.pnode = n
      /\ o.grant = opener[t].grant /\ o.kind = opener[t].kind
  BY <1>1, <1>2, GoesStep
<1> HIDE DEF o
<1>4. p = "post" => n \in found
  <2>1. Owns(opener[t], n)
    BY <1>1 DEF Owns, Owning
  <2> QED BY <1>1, <1>2, <2>1 DEF IndInv, OwnerInv
<1>5. p = "post" => Hot(n)
  BY <1>1, <1>2 DEF Hot, GrantedNodes
<1>6. OpenerOK(o, found) /\ HasGrant(o)
  BY <1>1, <1>2, <1>3, <1>4 DEF OpenerOK, HasGrant
<1>7. \A m \in Nodes \ found : Owns(o, m) => Owns(opener[t], m) /\ (o.pc # "mark" => opener[t].pc # "mark")
  BY <1>1, <1>3 DEF Owns, Owning
<1>8. \A m \in found : Moving(o, m) => Hot(m)
  BY <1>1, <1>3, <1>5 DEF Moving
<1> HIDE DEF n
<1> QED BY <1>1, <1>2, <1>3, <1>6, <1>7, <1>8, OpenerOnly

(* The thread gives up its own grant for the one that it posts.            *)
LEMMA MovePostsInd == ASSUME IndInv, NEW t \in Openers, MovePosts(t) PROVE IndInv'
<1> DEFINE n == opener[t].pnode
           o == At(t, "clear")
<1>1. /\ UNCHANGED <<node, lists, mDisposableMutex, socket, handler, found>>
      /\ opener[t].pc = "post" /\ Live(n) /\ Goes(t, "clear") /\ "clear" \in Working
      /\ value \in Nat /\ value' = value + 1
  BY DEF MovePosts, Working, IndInv, SlotsInv
<1>2. /\ opener[t] \in Attempts /\ opener[t].grant /\ opener[t].kind # "onetry"
      /\ HasGrant(opener[t]) /\ n \in Nodes /\ n \in found /\ opener[t].pc \in Working
  BY <1>1, OpenerOf DEF Working, OpenerOK, Idle, Attempts
<1>3. /\ opener' = [opener EXCEPT ![t] = o] /\ o \in Attempts /\ o.pc = "clear" /\ o.pnode = n
      /\ o.grant = opener[t].grant /\ o.kind = opener[t].kind
  BY <1>1, <1>2, GoesStep
<1> HIDE DEF o
<1>4. /\ OpenerOK(o, found') /\ ~HasGrant(o) /\ (\A m : ~Owns(o, m))
      /\ \A m : Moving(o, m) => Moving(opener[t], m)
  BY <1>1, <1>2, <1>3 DEF OpenerOK, HasGrant, Owns, Owning, Moving
<1> HIDE DEF n
<1>5. /\ OpenerInv' /\ GrantedOpeners' = GrantedOpeners \ {t} /\ t \in GrantedOpeners
      /\ opener'[t] = o /\ \A u \in Openers \ {t} : opener'[u] = opener[u]
  BY <1>1, <1>2, <1>3, <1>4, OpenerStep DEF GrantedOpeners
<1> USE DEF lists, socket, handler
<1>6. TypeInv'
  BY <1>1 DEF IndInv, TypeInv
<1>7. ListsInv'
  BY <1>1 DEF IndInv, ListsInv, Live, Removing
<1>8. RefsInv'
  <2>1. \A m \in Nodes \ found' : Base(m)' => Base(m)
    BY <1>1, <1>4, <1>5, BaseStep
  <2> QED BY <1>1, <2>1, RefsStep DEF Live
<1>9. OwnerInv'
  BY <1>1, <1>4, <1>5, OwnerStep
<1>10. PostInv'
  BY <1>1 DEF IndInv, PostInv
<1>11. SlotsInv'
  <2>1. GrantedNodes' = GrantedNodes /\ FoundLive' = FoundLive
    BY <1>1 DEF GrantedNodes, FoundLive, Live
  <2>2. OwnSlots' = OwnSlots
    BY <1>1, <2>1 DEF OwnSlots, Posted
  <2>3. AtRisk' \subseteq AtRisk
    <3>1. \A m \in found : m \in GrantedNodes' \/ Moving(o, m) => Hot(m)
      BY <1>4, <2>1 DEF Hot
    <3> QED BY <1>1, <1>5, <3>1, RiskStep
  <2>4. /\ Grows(GrantedOpeners, GrantedOpeners', t, "less") /\ Grows(OwnSlots, OwnSlots', t, "same")
        /\ Grows(FoundLive, FoundLive', t, "same") /\ Grows(AtRisk, AtRisk', t, "same")
    BY <1>5, <2>1, <2>2, <2>3 DEF Grows
  <2>5. value' \in Nat /\ value' + Diff("less") + Diff("same") + Diff("same") + Diff("same") <= value + 0
    BY <1>1 DEF Diff
  <2>6. IsFiniteSet(found') /\ Cardinality(found') = Cardinality(found) + 0 /\ 0 \in Int
    BY <1>1, SizesNow DEF IndInv, SlotsInv
  <2> QED BY <2>4, <2>5, <2>6, SlotsStep DEF IndInv
<1> QED BY <1>5, <1>6, <1>7, <1>8, <1>9, <1>10, <1>11 DEF IndInv

LEMMA MoveClearsInd == ASSUME IndInv, NEW t \in Openers, MoveClears(t) PROVE IndInv'
<1> DEFINE n == opener[t].pnode
           o == At(t, "restore")
           c == [node[n] EXCEPT !.grantOutbound = FALSE]
<1>1. /\ UNCHANGED <<lists, slots, socket, handler, found>>
      /\ opener[t].pc = "clear" /\ Live(n) /\ Goes(t, "restore") /\ "restore" \in Working
      /\ node' = [node EXCEPT ![n] = c]
  BY DEF MoveClears, Working, Written
<1>2. /\ opener[t] \in Attempts /\ opener[t].grant /\ opener[t].kind # "onetry"
      /\ n \in Nodes /\ n \in found /\ opener[t].pc \in Working /\ ~HasGrant(opener[t])
  BY <1>1, OpenerOf DEF Working, OpenerOK, Idle, Attempts, HasGrant
<1>3. /\ opener' = [opener EXCEPT ![t] = o] /\ o \in Attempts /\ o.pc = "restore" /\ o.pnode = n
      /\ o.grant = opener[t].grant /\ o.kind = opener[t].kind
  BY <1>1, <1>2, GoesStep
<1>4. c \in CNodes /\ ~c.grantOutbound
  BY <1>1, <1>2 DEF CNodes, IndInv, TypeInv, Live
<1> HIDE DEF o
<1>5. /\ OpenerOK(o, found) /\ OpenerOK(o, found') /\ ~HasGrant(o) /\ (\A m : ~Owns(o, m))
      /\ \A m : Moving(o, m) => Moving(opener[t], m)
  BY <1>1, <1>2, <1>3 DEF OpenerOK, HasGrant, Owns, Owning, Moving
<1> HIDE DEF n, c
<1>6. /\ GrantedOpeners' = GrantedOpeners
      /\ opener'[t] = o /\ \A u \in Openers \ {t} : opener'[u] = opener[u]
  BY <1>1, <1>2, <1>3, <1>5, OpenerStep DEF GrantedOpeners
<1>7. /\ TypeInv' /\ ListsInv' /\ RefsInv' /\ OpenerInv' /\ OwnerInv' /\ PostInv'
      /\ FoundLive' = FoundLive
  BY <1>1, <1>2, <1>3, <1>4, <1>5, WrittenStep
<1>8. GrantedNodes' \subseteq GrantedNodes
  BY <1>1, <1>2, <1>4, OneWritten
<1>9. OwnSlots' \subseteq OwnSlots
  BY <1>1, <1>8 DEF OwnSlots, Posted, socket
<1>10. AtRisk' \subseteq AtRisk
  <2>1. \A m \in found : m \in GrantedNodes' \/ Moving(o, m) => Hot(m)
    BY <1>5, <1>8 DEF Hot
  <2> QED BY <1>1, <1>6, <2>1, RiskStep DEF lists, socket
<1>11. SlotsInv'
  BY <1>1, <1>6, <1>7, <1>9, <1>10, SlotsQuiet DEF IndInv, slots
<1> QED BY <1>7, <1>11 DEF IndInv

LEMMA MoveStoresInd == ASSUME IndInv, NEW t \in Openers, MoveStores(t) PROVE IndInv'
<1> DEFINE n == opener[t].pnode
           o == [opener[t] EXCEPT !.pc = "mark", !.grant = FALSE]
           c == [node[n] EXCEPT !.grantOutbound = TRUE]
<1>1. /\ UNCHANGED <<lists, slots, socket, handler, found>>
      /\ opener[t].pc \in {"store", "restore"} /\ Live(n)
      /\ node' = [node EXCEPT ![n] = c]
      /\ opener' = [opener EXCEPT ![t].pc = "mark", ![t].grant = FALSE]
  BY DEF MoveStores, Written
<1>2. /\ opener[t] \in Attempts /\ opener[t].grant /\ opener[t].kind # "onetry"
      /\ n \in Nodes /\ (opener[t].pc = "restore" => n \in found)
  BY <1>1, OpenerOf DEF Working, OpenerOK, Idle, Attempts
<1>3. opener' = [opener EXCEPT ![t] = o]
  BY <1>1 DEF IndInv, OpenerInv
<1>4. /\ OpenerOK(o, found) /\ OpenerOK(o, found') /\ ~HasGrant(o) /\ o.pc = "mark"
      /\ \A m : (Owns(o, m) => m = n) /\ ~Moving(o, m)
  BY <1>1, <1>2 DEF OpenerOK, Attempts, Working, HasGrant, Owns, Moving
<1>5. node[n] \in CNodes
  BY <1>1, <1>2 DEF IndInv, TypeInv, Live
<1>6. /\ c \in CNodes /\ c.grantOutbound /\ c.nRefCount = node[n].nRefCount
      /\ c.fNetworkNode = node[n].fNetworkNode /\ c.fInbound = node[n].fInbound
  BY <1>5 DEF CNodes
<1> HIDE DEF o, c
<1>7. n \in found \/ Owns(opener[t], n)
  BY <1>1, <1>2 DEF Owns, Owning
<1>8. n \notin found => ~c.fNetworkNode /\ ~c.fInbound
  BY <1>2, <1>6, <1>7 DEF IndInv, OwnerInv, OwesRelease
<1> HIDE DEF n
<1>9. /\ TypeInv' /\ ListsInv' /\ RefsInv' /\ OpenerInv' /\ OwnerInv' /\ PostInv'
      /\ FoundLive' = FoundLive
  <2>1. \A m \in Nodes \ found : Owns(o, m) =>
          /\ m = n /\ ~c.fNetworkNode /\ ~c.fInbound
          /\ o.pc # "mark" => ~c.grantOutbound
    BY <1>4, <1>8
  <2>2. n \in found \/ c.grantOutbound = node[n].grantOutbound \/ c.grantOutbound
    BY <1>6
  <2>3. n \in found \/ c.nRefCount = node[n].nRefCount
    BY <1>6
  <2>4. Live(n) /\ n \in Nodes
    BY <1>1, <1>2 DEF n
  <2> QED BY ONLY IndInv, t \in Openers, <1>1, <1>3, <1>4, <1>6, <1>7, <2>1, <2>2, <2>3, <2>4, WrittenStep
<1>10. GrantedNodes' = GrantedNodes \union {n}
  BY <1>1, <1>2, <1>6, OneWritten
<1>11. /\ GrantedOpeners' = GrantedOpeners \ {t}
       /\ opener'[t] = o /\ \A u \in Openers \ {t} : opener'[u] = opener[u]
  BY <1>1, <1>3, <1>4, OpenerStep
<1>12. SlotsInv'
  <2>1. IsFiniteSet(found') /\ Cardinality(found') = Cardinality(found) + 0 /\ 0 \in Int
    BY <1>1, SizesNow DEF IndInv, SlotsInv
  <2>2. value \in Nat /\ value' = value
    BY <1>1 DEF IndInv, SlotsInv, slots
  <2>3. OwnSlots' \subseteq OwnSlots \union {n} /\ (n \in found => OwnSlots' \subseteq OwnSlots)
    BY <1>1, <1>10 DEF OwnSlots, Posted, socket
  <2>4. ASSUME n \notin found \/ Hot(n) PROVE AtRisk' \subseteq AtRisk
    <3>1. \A m \in found : m \in GrantedNodes' \/ Moving(o, m) => Hot(m)
      BY <1>4, <1>10, <2>4 DEF Hot
    <3> QED BY <1>1, <1>11, <3>1, RiskStep DEF lists, socket
  <2>5. CASE opener[t].pc = "restore"
    <3>1. n \in found /\ Hot(n)
      BY <1>2, <2>5 DEF Hot, Moving, n
    <3> QED BY <1>1, <1>9, <1>11, <2>3, <2>4, <3>1, SlotsQuiet DEF IndInv, slots
  <2>6. CASE opener[t].pc = "store"
    <3>1. t \in GrantedOpeners
      BY <1>2, <2>6 DEF GrantedOpeners, HasGrant
    <3>2. value' \in Nat /\ value' + Diff("less") + Diff("same") + Diff("same") + Diff("more") <= value + 0
      BY <2>2 DEF Diff
    <3>3. value' \in Nat /\ value' + Diff("less") + Diff("more") + Diff("same") + Diff("same") <= value + 0
      BY <2>2 DEF Diff
    <3>4. CASE n \in found
      <4>1. AtRisk' \subseteq AtRisk \union {n}
        <5>1. ASSUME NEW m \in AtRisk', m # n PROVE m \in AtRisk
          <6>1. ASSUME NEW u \in Openers, Moving(opener'[u], m) PROVE Hot(m)
            <7>1. CASE u = t
              BY <1>4, <1>11, <6>1, <7>1
            <7>2. CASE u # t
              BY <1>11, <6>1, <7>2 DEF Hot
            <7> QED BY <7>1, <7>2
          <6>2. Hot(m)' => Hot(m)
            BY <1>1, <1>10, <5>1, <6>1 DEF Hot, Moving, socket
          <6> QED BY <1>1, <5>1, <6>2 DEF AtRisk, lists, socket
        <5> QED BY <5>1
      <4>2. /\ Grows(GrantedOpeners, GrantedOpeners', t, "less") /\ Grows(OwnSlots, OwnSlots', n, "same")
            /\ Grows(FoundLive, FoundLive', n, "same") /\ Grows(AtRisk, AtRisk', n, "more")
        BY <1>9, <1>11, <2>3, <3>1, <3>4, <4>1 DEF Grows
      <4> QED BY <2>1, <3>2, <4>2, SlotsStep DEF IndInv
    <3>5. CASE n \notin found
      <4>1. /\ Grows(GrantedOpeners, GrantedOpeners', t, "less") /\ Grows(OwnSlots, OwnSlots', n, "more")
            /\ Grows(FoundLive, FoundLive', n, "same") /\ Grows(AtRisk, AtRisk', n, "same")
        BY <1>9, <1>11, <2>3, <2>4, <3>1, <3>5 DEF Grows
      <4> QED BY <2>1, <3>3, <4>1, SlotsStep DEF IndInv
    <3> QED BY <3>4, <3>5
  <2> QED BY <1>1, <2>5, <2>6
<1> QED BY <1>9, <1>12 DEF IndInv

LEMMA SetsNetworkNodeInd == ASSUME IndInv, NEW t \in Openers, SetsNetworkNode(t) PROVE IndInv'
<1> DEFINE n == opener[t].pnode
           c == [node[n] EXCEPT !.fNetworkNode = TRUE]
<1>1. /\ UNCHANGED <<lists, slots, socket, handler, found>>
      /\ opener[t].pc = "mark" /\ Live(n)
      /\ node' = [node EXCEPT ![n] = c]
  BY DEF SetsNetworkNode, Written
<1>2. /\ opener[t] \in Attempts /\ opener[t].pc \in Working /\ opener[t].kind # "onetry"
      /\ n \in Nodes /\ Owns(opener[t], n) /\ (HasGrant(opener[t]) <=> opener[t].grant)
  BY <1>1, OpenerOf DEF Working, OpenerOK, Idle, Attempts, Owns, Owning
<1>3. node[n] \in CNodes
  BY <1>1, <1>2 DEF IndInv, TypeInv, Live
<1>4. /\ c \in CNodes /\ c.grantOutbound = node[n].grantOutbound
      /\ c.nRefCount = node[n].nRefCount /\ node[n].grantOutbound \in BOOLEAN
  BY <1>3 DEF CNodes
<1>5. PICK o : /\ opener' = [opener EXCEPT ![t] = o] /\ OpenerOK(o, found)
               /\ HasGrant(o) <=> HasGrant(opener[t])
               /\ \A m : ~Owns(o, m) /\ ~Moving(o, m)
  <2>1. CASE opener[t].kind = "oneshot"
    <3> DEFINE o == At(t, "oneshot")
    <3>1. Goes(t, "oneshot") /\ "oneshot" \in Working
      BY <2>1 DEF SetsNetworkNode, Working
    <3>2. /\ opener' = [opener EXCEPT ![t] = o] /\ o \in Attempts /\ o.pc = "oneshot" /\ o.pnode = n
          /\ o.grant = opener[t].grant /\ o.kind = opener[t].kind
      BY <1>2, <3>1, GoesStep
    <3> HIDE DEF o
    <3>3. /\ OpenerOK(o, found) /\ (HasGrant(o) <=> HasGrant(opener[t]))
          /\ \A m : ~Owns(o, m) /\ ~Moving(o, m)
      BY <1>2, <3>2 DEF OpenerOK, HasGrant, Owns, Owning, Moving
    <3> QED BY <3>2, <3>3
  <2>2. CASE opener[t].kind # "oneshot"
    BY <1>1, <2>2, ReturnsStep DEF SetsNetworkNode
  <2> QED BY <2>1, <2>2
<1> HIDE DEF c, n
<1>6. /\ TypeInv' /\ ListsInv' /\ RefsInv' /\ OpenerInv' /\ OwnerInv' /\ PostInv'
      /\ FoundLive' = FoundLive
  BY <1>1, <1>2, <1>4, <1>5, WrittenStep
<1>7. GrantedNodes' = GrantedNodes
  BY <1>1, <1>2, <1>4, OneWritten DEF GrantedNodes
<1>8. /\ GrantedOpeners' = GrantedOpeners
      /\ opener'[t] = o /\ \A u \in Openers \ {t} : opener'[u] = opener[u]
  BY <1>1, <1>5, OpenerStep DEF GrantedOpeners
<1>9. OwnSlots' = OwnSlots
  BY <1>1, <1>7 DEF OwnSlots, Posted, socket
<1>10. AtRisk' \subseteq AtRisk
  <2>1. \A m \in found : m \in GrantedNodes' \/ Moving(o, m) => Hot(m)
    BY <1>5, <1>7 DEF Hot
  <2> QED BY <1>1, <1>8, <2>1, RiskStep DEF lists, socket
<1>11. SlotsInv'
  BY <1>1, <1>6, <1>8, <1>9, <1>10, SlotsQuiet DEF IndInv, slots
<1> QED BY <1>6, <1>11 DEF IndInv

LEMMA OpenerReturnsInd == ASSUME IndInv, NEW t \in Openers, OpenerReturns(t) PROVE IndInv'
<1> DEFINE o == IF mDisposableMutex' = t THEN [pc |-> "destroyed"] ELSE Idle
<1>1. /\ UNCHANGED <<node, lists, socket, handler, found>>
      /\ opener[t].pc = "return" /\ Destroy(t, opener[t].grant)
      /\ opener' = [opener EXCEPT ![t] = o]
  BY DEF OpenerReturns
<1>2. opener[t].grant \in BOOLEAN /\ (t \in GrantedOpeners <=> opener[t].grant) /\ value \in Nat
  BY <1>1, OpenerOf DEF GrantedOpeners, HasGrant, IndInv, SlotsInv
<1>3. /\ OpenerOK(o, found') /\ ~HasGrant(o)
      /\ \A m : ~Owns(o, m) /\ ~Moving(o, m)
  BY DEF OpenerOK, HasGrant, Idle, Owns, Owning, Moving
<1> HIDE DEF o
<1>4. /\ OpenerInv' /\ GrantedOpeners' = GrantedOpeners \ {t}
      /\ opener'[t] = o /\ \A u \in Openers \ {t} : opener'[u] = opener[u]
  BY <1>1, <1>3, OpenerStep
<1> USE DEF lists, socket, handler
<1>5. TypeInv'
  BY <1>1 DEF IndInv, TypeInv
<1>6. ListsInv'
  BY <1>1 DEF IndInv, ListsInv, Live, Removing
<1>7. RefsInv'
  <2>1. \A m \in Nodes \ found' : Base(m)' => Base(m)
    BY <1>1, <1>3, <1>4, BaseStep
  <2> QED BY <1>1, <2>1, RefsStep DEF Live
<1>8. OwnerInv'
  BY <1>1, <1>3, <1>4, OwnerStep
<1>9. PostInv'
  BY <1>1 DEF IndInv, PostInv
<1>10. SlotsInv'
  <2>1. GrantedNodes' = GrantedNodes /\ FoundLive' = FoundLive
    BY <1>1 DEF GrantedNodes, FoundLive, Live
  <2>2. OwnSlots' = OwnSlots
    BY <1>1, <2>1 DEF OwnSlots, Posted
  <2>3. AtRisk' \subseteq AtRisk
    <3>1. \A m \in found : m \in GrantedNodes' \/ Moving(o, m) => Hot(m)
      BY <1>3, <2>1 DEF Hot
    <3> QED BY <1>1, <1>4, <3>1, RiskStep
  <2>4. value' = value \/ (value' = value + 1 /\ t \in GrantedOpeners)
    BY <1>1, <1>2 DEF Destroy, Granted
  <2>5. CASE t \notin GrantedOpeners
    BY <1>1, <1>4, <2>1, <2>2, <2>3, <2>4, <2>5, SlotsQuiet DEF IndInv
  <2>6. CASE t \in GrantedOpeners
    <3>1. /\ Grows(GrantedOpeners, GrantedOpeners', t, "less") /\ Grows(OwnSlots, OwnSlots', t, "same")
          /\ Grows(FoundLive, FoundLive', t, "same") /\ Grows(AtRisk, AtRisk', t, "same")
      BY <1>4, <2>1, <2>2, <2>3, <2>6 DEF Grows
    <3>2. value' \in Nat /\ value' + Diff("less") + Diff("same") + Diff("same") + Diff("same") <= value + 0
      BY <1>2, <2>4 DEF Diff
    <3>3. IsFiniteSet(found') /\ Cardinality(found') = Cardinality(found) + 0 /\ 0 \in Int
      BY <1>1, SizesNow DEF IndInv, SlotsInv
    <3> QED BY <3>1, <3>2, <3>3, SlotsStep DEF IndInv
  <2> QED BY <2>5, <2>6
<1> QED BY <1>4, <1>5, <1>6, <1>7, <1>8, <1>9, <1>10 DEF IndInv

LEMMA OpenerLeavesInd == ASSUME IndInv, NEW t \in Openers, OpenerLeaves(t) PROVE IndInv'
<1>1. /\ UNCHANGED <<node, vNodes, vNodesDisconnected, value, socket, handler, found>>
      /\ ~HasGrant(opener[t]) /\ opener' = [opener EXCEPT ![t] = Idle]
  BY DEF OpenerLeaves, lists, HasGrant
<1>2. OpenerOK(Idle, found) /\ ~HasGrant(Idle) /\ \A m : ~Owns(Idle, m) /\ ~Moving(Idle, m)
  BY DEF OpenerOK, HasGrant, Idle, Owns, Owning, Moving
<1> QED BY <1>1, <1>2, OpenerOnly

LEMMA WalkReadsInd ==
  ASSUME IndInv, NEW t \in Openers, NEW n \in Nodes, WalkReads(t, n) PROVE IndInv'
<1> DEFINE o == [pc |-> "relay", pnode |-> n]
<1>1. /\ UNCHANGED <<node, vNodes, vNodesDisconnected, value, socket, handler, found>>
      /\ ~HasGrant(opener[t]) /\ opener' = [opener EXCEPT ![t] = o]
  BY DEF WalkReads, lists, slots, HasGrant
<1>2. OpenerOK(o, found) /\ ~HasGrant(o) /\ \A m : ~Owns(o, m) /\ ~Moving(o, m)
  BY DEF OpenerOK, HasGrant, Owns, Owning, Moving
<1> HIDE DEF o
<1> QED BY <1>1, <1>2, OpenerOnly

LEMMA WalkRelaysInd == ASSUME IndInv, NEW t \in Openers, WalkRelays(t) PROVE IndInv'
<1>1. /\ UNCHANGED <<node, vNodes, vNodesDisconnected, value, socket, handler, found>>
      /\ ~HasGrant(opener[t]) /\ opener' = [opener EXCEPT ![t] = Idle]
  BY DEF WalkRelays, lists, slots, HasGrant
<1>2. OpenerOK(Idle, found) /\ ~HasGrant(Idle) /\ \A m : ~Owns(Idle, m) /\ ~Moving(Idle, m)
  BY DEF OpenerOK, HasGrant, Idle, Owns, Owning, Moving
<1> QED BY <1>1, <1>2, OpenerOnly

-----------------------------------------------------------------------------
(* The theorems                                                            *)

LEMMA InitInd == Init => IndInv
<1> SUFFICES ASSUME Init PROVE IndInv
  OBVIOUS
<1> USE DEF Init
<1>1. TypeInv
  BY DEF TypeInv
<1>2. ListsInv
  BY DEF ListsInv, Removing
<1>3. RefsInv
  BY DEF RefsInv, Live
<1>4. OpenerInv
  BY DEF OpenerInv, OpenerOK
<1>5. OwnerInv /\ PostInv
  BY DEF OwnerInv, PostInv, Owns, Owning, Idle
<1>6. GrantedOpeners = {} /\ OwnSlots = {} /\ FoundLive = {} /\ AtRisk = {}
  BY DEF GrantedOpeners, GrantedNodes, OwnSlots, FoundLive, AtRisk, HasGrant, Idle, Live
<1>7. SlotsInv
  BY <1>6, FS_EmptySet, NetNodeAssumption DEF SlotsInv
<1> QED BY <1>1, <1>2, <1>3, <1>4, <1>5, <1>7 DEF IndInv

LEMMA NextInd == ASSUME IndInv, [Next]_vars PROVE IndInv'
<1>1. CASE SocketThread
  BY <1>1, StartRemovingInd, RemovalPostsInd, RemovalClearsInd, FinishRemovingInd, StartDeletingInd,
     LeaveDestructorInd, CopyNodesInd, ReleaseNodesInd, RemoveNodeInd, DeleteNodeInd, AcceptInd DEF SocketThread
<1>2. CASE MessageThread
  BY <1>2, HandlerCopiesInd, HandlerProcessesInd, HandlerReleasesInd DEF MessageThread
<1>3. ASSUME NEW t \in Openers, Opener(t) PROVE IndInv'
  BY <1>3, OpenInd, FindsNodeInd, ConnectsInd, WalkReadsInd, OpenerFindsInd, FindsNoneInd,
     ReadsCountInd, WritesCountInd, ConnectFailsInd, MoveTestsInd, MovePostsInd, MoveClearsInd,
     MoveStoresInd, SetsNetworkNodeInd,
     SetsOneShotInd, OpenerReturnsInd, OpenerLeavesInd, WalkRelaysInd DEF Opener
<1>4. CASE UNCHANGED vars
  BY <1>4, StutterInd
<1> QED BY <1>1, <1>2, <1>3, <1>4 DEF Next

(* The counts that the threads keep under cs_vNodes, the lists, and the    *)
(* slots of the semaphore agree in every state, whatever the threads that  *)
(* open connections do without the lock.                                   *)
THEOREM NodesAgree == Spec => []IndInv
BY InitInd, NextInd, PTL DEF Spec

(* What is listed, or copied by ThreadSocketHandler and                    *)
(* ThreadMessageHandler, has not been deleted, unless ConnectNode found it *)
(* and wrote its count without the lock.                                   *)
THEOREM NeverDeletedInUse == Spec => []ReferencesProtect
<1>1. IndInv => ReferencesProtect
  BY DEF IndInv, ListsInv, RefsInv, TypeInv, ReferencesProtect
<1> QED BY <1>1, NodesAgree, PTL

(* However the releases of CSemaphoreGrant race, there are never more than *)
(* nMaxOutbound outbound slots and one for each node that ConnectNode has  *)
(* found: a grant is posted twice once at most.                            *)
THEOREM NoSlotTwice == Spec => []SlotsNotDuplicated
<1>1. IndInv => SlotsNotDuplicated
  <2> SUFFICES ASSUME IndInv PROVE SlotsNotDuplicated
    OBVIOUS
  <2> DEFINE H == {n \in Nodes : Live(n) /\ node[n].grantOutbound /\ ~(sockPc = "clear" /\ n = sockNode)}
  <2>1. Held = Cardinality(GrantedOpeners) + Cardinality(H)
    BY DEF Held, GrantedOpeners, HasGrant
  <2>2. H \subseteq OwnSlots \union FoundLive
    BY DEF OwnSlots, FoundLive, GrantedNodes, Posted
  <2>3. IsFiniteSet(OwnSlots) /\ IsFiniteSet(FoundLive)
    BY SizesNow DEF IndInv, SlotsInv
  <2>4. OwnSlots \intersect FoundLive = {}
    BY DEF OwnSlots, FoundLive
  <2>5. /\ IsFiniteSet(OwnSlots \union FoundLive)
        /\ Cardinality(OwnSlots \union FoundLive) = Cardinality(OwnSlots) + Cardinality(FoundLive)
    <3>1. Cardinality(OwnSlots) \in Nat /\ Cardinality(FoundLive) \in Nat
      BY SizesNow DEF IndInv
    <3>2. /\ IsFiniteSet(OwnSlots \union FoundLive)
          /\ Cardinality(OwnSlots \union FoundLive) =
               Cardinality(OwnSlots) + Cardinality(FoundLive) - Cardinality(OwnSlots \intersect FoundLive)
      BY <2>3, FS_Union
    <3>3. Cardinality(OwnSlots \intersect FoundLive) = 0
      BY <2>4, FS_EmptySet
    <3> QED BY <3>1, <3>2, <3>3
  <2>6. Cardinality(H) <= Cardinality(OwnSlots) + Cardinality(FoundLive) /\ Cardinality(H) \in Nat
    BY <2>2, <2>5, FS_Subset, FS_CardinalityType
  <2> HIDE DEF H
  <2>7. /\ value \in Nat
        /\ value + Cardinality(GrantedOpeners) + Cardinality(OwnSlots)
             + Cardinality(FoundLive) + Cardinality(AtRisk) <= nMaxOutbound + Cardinality(found)
    BY DEF IndInv, SlotsInv
  <2>8. /\ Cardinality(GrantedOpeners) \in Nat /\ Cardinality(OwnSlots) \in Nat
        /\ Cardinality(FoundLive) \in Nat /\ Cardinality(AtRisk) \in Nat /\ Cardinality(found) \in Nat
    BY SizesNow DEF IndInv
  <2> QED BY <2>1, <2>6, <2>7, <2>8, NetNodeAssumption DEF SlotsNotDuplicated
<1> QED BY <1>1, NodesAgree, PTL

-----------------------------------------------------------------------------
(***************************************************************************)
(* The address manager                                                     *)
(***************************************************************************)

Entry ==
  [addr : Addresses, source : Sources, nRefCount : Nat, fInTried : BOOLEAN, fSuccess : BOOLEAN,
   nRandomPos : Nat]

IsTried(info, id) == info[id].fInTried = TRUE
HasSuccess(info, id) == info[id].fSuccess = TRUE
TriedIn(info) == {id \in DOMAIN info : IsTried(info, id)}
BucketsOf(new, id) == {b \in NewBuckets : id \in new[b]}

(* vRandom is a permutation of the ids, and nRandomPos its inverse *)
RandomOK(v, info) ==
  /\ v \in Seq(DOMAIN info)
  /\ \A id \in DOMAIN info : info[id].nRandomPos \in 1 .. Len(v) /\ v[info[id].nRandomPos] = id
  /\ \A p \in 1 .. Len(v) : info[v[p]].nRandomPos = p

(* mapAddr is the inverse of the addresses in the entries *)
AddrsOK(known, info) ==
  /\ DOMAIN known \subseteq Addresses /\ known \in [DOMAIN known -> DOMAIN info]
  /\ \A id \in DOMAIN info : info[id].addr \in DOMAIN known /\ known[info[id].addr] = id
  /\ \A a \in DOMAIN known : info[known[a]].addr = a

(* An entry counts the new buckets it is in: none when it is tried, else   *)
(* at least one, but for the young that are on their way into one.         *)
TablesOK(info, new, young) ==
  \A id \in DOMAIN info :
    /\ info[id].nRefCount = Cardinality(BucketsOf(new, id))
    /\ IsTried(info, id) => HasSuccess(info, id) /\ info[id].nRefCount = 0
    /\ ~IsTried(info, id) => /\ info[id].nRefCount <= NEW_BUCKETS_PER_ADDRESS
                             /\ id \in young \/ info[id].nRefCount >= 1

(* a tried entry is in its one bucket, and nothing else is there *)
TriedOK(info, tried) ==
  /\ tried \in [TriedBuckets -> SUBSET DOMAIN info]
  /\ \A b \in TriedBuckets : Cardinality(tried[b]) <= TRIED_BUCKET_SIZE
  /\ \A id \in DOMAIN info, b \in TriedBuckets :
       id \in tried[b] <=> IsTried(info, id) /\ b = GetTriedBucket[info[id].addr]

(* no bucket holds more than its size, or an id that was erased *)
NewOK(info, new) ==
  /\ new \in [NewBuckets -> SUBSET DOMAIN info]
  /\ \A b \in NewBuckets : Cardinality(new[b]) <= NEW_BUCKET_SIZE

(* nTried and nNew count the entries *)
CountsOK(info, v, tried, new) ==
  /\ tried \in Nat /\ new \in Int
  /\ Len(v) = tried + new /\ Cardinality(DOMAIN info) = tried + new
  /\ Cardinality(TriedIn(info)) = tried

LEMMA Sizes ==
  /\ NEW_BUCKET_SIZE \in Nat /\ NEW_BUCKET_SIZE >= 1
  /\ TRIED_BUCKET_SIZE \in Nat /\ TRIED_BUCKET_SIZE >= 1
  /\ NEW_BUCKETS_PER_ADDRESS \in Nat /\ NEW_BUCKETS_PER_ADDRESS >= 1
BY AddrManAssumption

SameButPos(x, y) ==
  /\ x.addr = y.addr /\ x.source = y.source /\ x.nRefCount = y.nRefCount
  /\ x.fInTried = y.fInTried /\ x.fSuccess = y.fSuccess

(* a swap keeps vRandom and the positions in mapInfo inverse to each other *)
LEMMA SwapStep ==
  ASSUME NEW v, NEW info, info \in [DOMAIN info -> Entry], RandomOK(v, info),
         NEW p \in 1 .. Len(v), NEW q \in 1 .. Len(v),
         NEW s, s = SwapRandom(v, info, p, q)
  PROVE  /\ s.info \in [DOMAIN info -> Entry]
         /\ \A id \in DOMAIN info : SameButPos(s.info[id], info[id])
         /\ RandomOK(s.v, s.info) /\ Len(s.v) = Len(v) /\ s.v[q] = v[p]
<1> DEFINE sv == [v EXCEPT ![p] = v[q], ![q] = v[p]]
           moved(id) == IF id = v[q] THEN p ELSE IF id = v[p] THEN q ELSE info[id].nRandomPos
<1>1. s.v = sv /\ s.info = [info EXCEPT ![v[p]].nRandomPos = q, ![v[q]].nRandomPos = p]
  BY DEF SwapRandom
<1>2. /\ v \in Seq(DOMAIN info) /\ v[p] \in DOMAIN info /\ v[q] \in DOMAIN info /\ Len(v) \in Nat
      /\ DOMAIN v = 1 .. Len(v)
  BY DEF RandomOK
<1>3. sv \in Seq(DOMAIN info) /\ Len(sv) = Len(v)
      /\ \A k \in 1 .. Len(v) : sv[k] = IF k = q THEN v[p] ELSE IF k = p THEN v[q] ELSE v[k]
  BY <1>2
<1>4. /\ DOMAIN s.info = DOMAIN info
      /\ \A id \in DOMAIN info : s.info[id] = [info[id] EXCEPT !.nRandomPos = moved(id)]
  <2> DEFINE x == v[p]
             y == v[q]
             one == [info EXCEPT ![x].nRandomPos = q]
  <2>1. /\ DOMAIN one = DOMAIN info
        /\ \A id \in DOMAIN info :
             one[id] = IF id = x THEN [info[id] EXCEPT !.nRandomPos = q] ELSE info[id]
    OBVIOUS
  <2>2. s.info = [one EXCEPT ![y].nRandomPos = p]
    BY <1>1
  <2>3. x \in DOMAIN info /\ y \in DOMAIN info
    BY <1>2
  <2>4. \A id \in DOMAIN info : info[id] = [info[id] EXCEPT !.nRandomPos = info[id].nRandomPos]
    BY DEF Entry
  <2>5. \A id \in DOMAIN info : [[info[id] EXCEPT !.nRandomPos = q] EXCEPT !.nRandomPos = p]
                                = [info[id] EXCEPT !.nRandomPos = p]
    BY DEF Entry
  <2> HIDE DEF x, y, one
  <2>6. /\ DOMAIN s.info = DOMAIN info
        /\ \A id \in DOMAIN info :
             s.info[id] = IF id = y THEN [one[id] EXCEPT !.nRandomPos = p] ELSE one[id]
    BY <2>1, <2>2
  <2>7. \A id \in DOMAIN info : moved(id) = IF id = y THEN p ELSE IF id = x THEN q
                                            ELSE info[id].nRandomPos
    BY DEF x, y
  <2> HIDE DEF moved
  <2>8. ASSUME NEW id \in DOMAIN info PROVE s.info[id] = [info[id] EXCEPT !.nRandomPos = moved(id)]
    <3>1. CASE id = y /\ id = x
      BY <2>1, <2>5, <2>6, <2>7, <3>1
    <3>2. CASE id = y /\ id # x
      BY <2>1, <2>6, <2>7, <3>2
    <3>3. CASE id # y /\ id = x
      BY <2>1, <2>6, <2>7, <3>3
    <3>4. CASE id # y /\ id # x
      BY <2>1, <2>4, <2>6, <2>7, <3>4
    <3> QED BY <3>1, <3>2, <3>3, <3>4
  <2> QED BY <2>6, <2>8
<1>5. \A id \in DOMAIN info : moved(id) \in 1 .. Len(v)
  BY <1>2 DEF RandomOK
<1>6. \A id \in DOMAIN info :
        /\ s.info[id] \in Entry /\ s.info[id].nRandomPos = moved(id)
        /\ SameButPos(s.info[id], info[id])
  <2> TAKE id \in DOMAIN info
  <2>1. info[id] \in Entry /\ moved(id) \in Nat
    BY <1>5
  <2> HIDE DEF moved
  <2> QED BY <1>4, <2>1 DEF Entry, SameButPos
<1>7. s.info \in [DOMAIN info -> Entry]
  BY <1>1, <1>4, <1>6
<1>8. \A a, b \in 1 .. Len(v) : v[a] = v[b] => a = b
  BY DEF RandomOK
<1>9. \A id \in DOMAIN info : sv[moved(id)] = id
  BY <1>3, <1>5, <1>8 DEF RandomOK
<1>10. \A k \in 1 .. Len(v) : moved(sv[k]) = k
  BY <1>2, <1>3, <1>8 DEF RandomOK
<1>11. RandomOK(s.v, s.info)
  <2> HIDE DEF sv, moved
  <2>1. \A k \in 1 .. Len(v) : sv[k] \in DOMAIN info
    BY <1>3
  <2>2. \A id \in DOMAIN info : s.info[id].nRandomPos \in 1 .. Len(v) /\ sv[s.info[id].nRandomPos] = id
    BY <1>5, <1>6, <1>9
  <2>3. \A k \in 1 .. Len(v) : s.info[sv[k]].nRandomPos = k
    BY <1>6, <1>10, <2>1
  <2> QED BY <1>1, <1>3, <1>4, <2>2, <2>3, Zenon DEF RandomOK
<1> QED BY <1>1, <1>3, <1>6, <1>7, <1>11

(* an entry that leaves takes its place in vRandom with it *)
LEMMA EraseStep ==
  ASSUME NEW v, NEW info, info \in [DOMAIN info -> Entry], RandomOK(v, info),
         NEW id \in DOMAIN info, NEW e, e = Erase(v, info, id)
  PROVE  /\ DOMAIN e.info = DOMAIN info \ {id}
         /\ e.info \in [DOMAIN e.info -> Entry]
         /\ \A x \in DOMAIN e.info : SameButPos(e.info[x], info[x])
         /\ RandomOK(e.v, e.info) /\ Len(e.v) = Len(v) - 1
<1> DEFINE p == info[id].nRandomPos
           s == SwapRandom(v, info, p, Len(v))
<1>1. p \in 1 .. Len(v) /\ Len(v) \in 1 .. Len(v) /\ v[p] = id /\ Len(v) \in Nat
  BY DEF RandomOK
<1>2. /\ s.info \in [DOMAIN info -> Entry]
      /\ \A x \in DOMAIN info : SameButPos(s.info[x], info[x])
      /\ RandomOK(s.v, s.info) /\ Len(s.v) = Len(v) /\ s.v[Len(v)] = id
  <2> HIDE DEF s
  <2>1. s = SwapRandom(v, info, p, Len(v))
    BY DEF s
  <2> HIDE DEF p
  <2> QED BY <1>1, <2>1, SwapStep
<1>3. /\ e.v = SubSeq(s.v, 1, Len(v) - 1) /\ e.info = [x \in DOMAIN info \ {id} |-> s.info[x]]
  BY DEF Erase, Restrict
<1> HIDE DEF s, p
<1>4. /\ DOMAIN s.info = DOMAIN info /\ s.v \in Seq(DOMAIN info) /\ Len(s.v) = Len(v)
      /\ \A x \in DOMAIN info :
           s.info[x].nRandomPos \in 1 .. Len(v) /\ s.v[s.info[x].nRandomPos] = x
      /\ \A k \in 1 .. Len(v) : s.info[s.v[k]].nRandomPos = k
  <2>1. DOMAIN s.info = DOMAIN info
    BY <1>2
  <2> QED BY <1>2, <2>1, Zenon DEF RandomOK
<1>5. /\ Len(e.v) = Len(v) - 1 /\ \A k \in 1 .. Len(v) - 1 : e.v[k] = s.v[k]
      /\ e.v = [k \in 1 .. Len(v) - 1 |-> s.v[k]]
  <2>1. e.v = [k \in 1 .. Len(v) - 1 |-> s.v[k]]
    BY <1>1, <1>3, <1>4
  <2>2. Len(v) - 1 \in Nat
    BY <1>1
  <2> QED BY <2>1, <2>2
<1>6. \A x \in DOMAIN info \ {id} : s.info[x].nRandomPos \in 1 .. Len(v) - 1
  BY <1>1, <1>2, <1>4
<1>7. \A k \in 1 .. Len(v) - 1 : s.v[k] \in DOMAIN info \ {id}
  <2> TAKE k \in 1 .. Len(v) - 1
  <2>1. k \in 1 .. Len(v) /\ k # Len(v)
    BY <1>1
  <2>2. s.v[k] \in DOMAIN info
    BY <1>4, <2>1
  <2> QED BY <1>1, <1>2, <1>4, <2>1, <2>2
<1>8. e.v \in Seq(DOMAIN info \ {id})
  <2>1. Len(v) - 1 \in Nat
    BY <1>1
  <2> QED BY <1>5, <1>7, <2>1
<1>9. /\ DOMAIN e.info = DOMAIN info \ {id}
      /\ \A x \in DOMAIN info \ {id} : e.info[x] = s.info[x]
  BY <1>3
<1>10. RandomOK(e.v, e.info)
  <2>1. \A x \in DOMAIN info \ {id} : e.v[s.info[x].nRandomPos] = x
    BY <1>4, <1>5, <1>6
  <2>2. \A k \in 1 .. Len(v) - 1 : e.info[e.v[k]].nRandomPos = k
    BY <1>1, <1>4, <1>5, <1>7, <1>9
  <2>3. \A x \in DOMAIN info \ {id} :
          e.info[x].nRandomPos \in 1 .. Len(v) - 1 /\ e.v[e.info[x].nRandomPos] = x
    BY <1>6, <1>9, <2>1
  <2> QED BY <1>5, <1>8, <1>9, <2>2, <2>3, Zenon DEF RandomOK
<1> QED BY <1>2, <1>3, <1>5, <1>9, <1>10

-----------------------------------------------------------------------------
(* What another entry, count or position leaves alone                      *)

Alike(info, info2) ==
  /\ DOMAIN info2 = DOMAIN info
  /\ \A id \in DOMAIN info : /\ info2[id].addr = info[id].addr
                             /\ info2[id].fInTried = info[id].fInTried

LEMMA SameEntries ==
  ASSUME NEW info, NEW info2, Alike(info, info2)
  PROVE  /\ TriedIn(info2) = TriedIn(info)
         /\ \A id \in DOMAIN info : IsTried(info2, id) <=> IsTried(info, id)
         /\ \A known : AddrsOK(known, info) => AddrsOK(known, info2)
         /\ \A tried : TriedOK(info, tried) => TriedOK(info2, tried)
         /\ \A new : NewOK(info, new) => NewOK(info2, new)
         /\ \A v, t, n : CountsOK(info, v, t, n) => CountsOK(info2, v, t, n)
<1> USE DEF Alike
<1>1. \A id \in DOMAIN info : IsTried(info2, id) <=> IsTried(info, id)
  BY DEF IsTried
<1>2. TriedIn(info2) = TriedIn(info)
  BY <1>1 DEF TriedIn
<1>3. \A known : AddrsOK(known, info) => AddrsOK(known, info2)
  BY DEF AddrsOK
<1>4. \A tried : TriedOK(info, tried) => TriedOK(info2, tried)
  BY <1>1 DEF TriedOK
<1>5. \A new : NewOK(info, new) => NewOK(info2, new)
  BY DEF NewOK
<1>6. \A v, t, n : CountsOK(info, v, t, n) => CountsOK(info2, v, t, n)
  BY <1>2 DEF CountsOK
<1> QED BY <1>1, <1>2, <1>3, <1>4, <1>5, <1>6

LEMMA SamePositions ==
  ASSUME NEW v, NEW info, NEW info2, DOMAIN info2 = DOMAIN info, RandomOK(v, info),
         \A id \in DOMAIN info : info2[id].nRandomPos = info[id].nRandomPos
  PROVE  RandomOK(v, info2)
<1>1. v \in Seq(DOMAIN info) /\ \A p \in 1 .. Len(v) : v[p] \in DOMAIN info
  BY DEF RandomOK
<1> QED BY <1>1 DEF RandomOK

(* one field of one entry is written *)
LEMMA WriteCount ==
  ASSUME NEW info, info \in [DOMAIN info -> Entry], NEW id \in DOMAIN info, NEW n \in Nat,
         NEW info2, info2 = [info EXCEPT ![id].nRefCount = n]
  PROVE  /\ DOMAIN info2 = DOMAIN info /\ info2 \in [DOMAIN info2 -> Entry]
         /\ \A x \in DOMAIN info : /\ info2[x].nRefCount = IF x = id THEN n ELSE info[x].nRefCount
                                   /\ info2[x].addr = info[x].addr
                                   /\ info2[x].fInTried = info[x].fInTried
                                   /\ info2[x].fSuccess = info[x].fSuccess
                                   /\ info2[x].nRandomPos = info[x].nRandomPos
<1>1. /\ DOMAIN info2 = DOMAIN info
      /\ \A x \in DOMAIN info :
           info2[x] = IF x = id THEN [info[x] EXCEPT !.nRefCount = n] ELSE info[x]
  OBVIOUS
<1>2. ASSUME NEW x \in DOMAIN info
      PROVE  /\ info2[x] \in Entry /\ info2[x].nRefCount = IF x = id THEN n ELSE info[x].nRefCount
             /\ info2[x].addr = info[x].addr
             /\ info2[x].fInTried = info[x].fInTried
             /\ info2[x].fSuccess = info[x].fSuccess
             /\ info2[x].nRandomPos = info[x].nRandomPos
  <2>1. info[x] \in Entry
    OBVIOUS
  <2>2. CASE x = id
    BY <1>1, <2>1, <2>2 DEF Entry
  <2>3. CASE x # id
    BY <1>1, <2>1, <2>3
  <2> QED BY <2>2, <2>3
<1>3. info2 \in [DOMAIN info2 -> Entry]
  BY <1>1, <1>2
<1> QED BY <1>1, <1>2, <1>3

LEMMA BucketsFinite ==
  ASSUME NEW new, NEW id
  PROVE  IsFiniteSet(BucketsOf(new, id)) /\ Cardinality(BucketsOf(new, id)) \in Nat
<1>1. BucketsOf(new, id) \in SUBSET NewBuckets
  BY DEF BucketsOf
<1> QED BY <1>1, FS_Subset, FS_CardinalityType, AddrManAssumption

(* an id goes into a bucket, and another may leave it *)
Swapped(new, b, id, gone) == [new EXCEPT ![b] = (new[b] \ gone) \union {id}]

LEMMA BucketChange ==
  ASSUME NEW new, DOMAIN new = NewBuckets, NEW b \in NewBuckets,
         NEW id, id \notin new[b], NEW gone, gone \subseteq new[b],
         NEW new2, new2 = Swapped(new, b, id, gone)
  PROVE  /\ Cardinality(BucketsOf(new2, id)) = Cardinality(BucketsOf(new, id)) + 1
         /\ \A x \in gone : Cardinality(BucketsOf(new2, x)) = Cardinality(BucketsOf(new, x)) - 1
         /\ \A x : x # id /\ x \notin gone => BucketsOf(new2, x) = BucketsOf(new, x)
<1>1. new2[b] = (new[b] \ gone) \union {id} /\ \A c \in NewBuckets : c # b => new2[c] = new[c]
  BY DEF Swapped
<1>2. BucketsOf(new2, id) = BucketsOf(new, id) \union {b} /\ b \notin BucketsOf(new, id)
  BY <1>1 DEF BucketsOf
<1>3. \A x \in gone : BucketsOf(new2, x) = BucketsOf(new, x) \ {b} /\ b \in BucketsOf(new, x)
  BY <1>1 DEF BucketsOf
<1>4. \A x : x # id /\ x \notin gone => BucketsOf(new2, x) = BucketsOf(new, x)
  BY <1>1 DEF BucketsOf
<1>5. Cardinality(BucketsOf(new2, id)) = Cardinality(BucketsOf(new, id)) + 1
  BY <1>2, BucketsFinite, FS_AddElement
<1>6. \A x \in gone : Cardinality(BucketsOf(new2, x)) = Cardinality(BucketsOf(new, x)) - 1
  BY <1>3, BucketsFinite, FS_RemoveElement
<1> QED BY <1>4, <1>5, <1>6

-----------------------------------------------------------------------------
(* Add_                                                                    *)

(* everything but the range of the ids; young are those that may be in no  *)
(* bucket yet                                                              *)
Pages(info, v, known, new, nN, tried, nT, young) ==
  /\ info \in [DOMAIN info -> Entry] /\ IsFiniteSet(DOMAIN info)
  /\ RandomOK(v, info) /\ AddrsOK(known, info)
  /\ TablesOK(info, new, young) /\ TriedOK(info, tried) /\ NewOK(info, new)
  /\ CountsOK(info, v, nT, nN)

TriedKept(info, info2) ==
  \A x \in DOMAIN info : IsTried(info, x) =>
    x \in DOMAIN info2 /\ IsTried(info2, x) /\ info2[x].addr = info[x].addr

(* the entry of id is counted once more *)
CountedUp(info, id) == [info EXCEPT ![id].nRefCount = info[id].nRefCount + 1]

LEMMA CountedIs ==
  ASSUME NEW info, info \in [DOMAIN info -> Entry], NEW id \in DOMAIN info,
         NEW info2, info2 = CountedUp(info, id)
  PROVE  /\ DOMAIN info2 = DOMAIN info /\ info2 \in [DOMAIN info2 -> Entry]
         /\ Alike(info, info2) /\ info[id].nRefCount \in Nat
         /\ \A x \in DOMAIN info :
              /\ info2[x].nRefCount = IF x = id THEN info[x].nRefCount + 1 ELSE info[x].nRefCount
              /\ info2[x].fSuccess = info[x].fSuccess /\ info2[x].nRandomPos = info[x].nRandomPos
<1> DEFINE m == info[id].nRefCount + 1
<1>1. info[id].nRefCount \in Nat /\ m \in Nat /\ info2 = [info EXCEPT ![id].nRefCount = m]
  BY DEF Entry, CountedUp
<1>2. m = info[id].nRefCount + 1
  OBVIOUS
<1> HIDE DEF m
<1> QED BY <1>1, <1>2, WriteCount DEF Alike

(* there is place in the bucket *)
LEMMA InsertPlace ==
  ASSUME NEW info, NEW v, NEW known, NEW new, NEW nN, NEW tried, NEW nT,
         NEW id \in DOMAIN info, Pages(info, v, known, new, nN, tried, nT, {id}),
         ~IsTried(info, id), info[id].nRefCount < NEW_BUCKETS_PER_ADDRESS,
         NEW b \in NewBuckets, id \notin new[b], Cardinality(new[b]) # NEW_BUCKET_SIZE,
         NEW info2, info2 = CountedUp(info, id),
         NEW new2, new2 = [new EXCEPT ![b] = new[b] \union {id}]
  PROVE  Pages(info2, v, known, new2, nN, tried, nT, {}) /\ TriedKept(info, info2)
<1> USE DEF Pages
<1>1. info[id].nRefCount \in Nat
  BY DEF Entry
<1>2. /\ DOMAIN info2 = DOMAIN info /\ info2 \in [DOMAIN info2 -> Entry]
      /\ \A x \in DOMAIN info :
           /\ info2[x].nRefCount = IF x = id THEN info[x].nRefCount + 1 ELSE info[x].nRefCount
           /\ info2[x].addr = info[x].addr /\ info2[x].fInTried = info[x].fInTried
           /\ info2[x].fSuccess = info[x].fSuccess /\ info2[x].nRandomPos = info[x].nRandomPos
  <2>1. info \in [DOMAIN info -> Entry] /\ id \in DOMAIN info /\ info2 = CountedUp(info, id)
    OBVIOUS
  <2> HIDE DEF Pages
  <2> QED BY ONLY <2>1, CountedIs DEF Alike
<1>3. RandomOK(v, info2) /\ AddrsOK(known, info2) /\ TriedOK(info2, tried)
      /\ CountsOK(info2, v, nT, nN) /\ TriedKept(info, info2)
      /\ \A x \in DOMAIN info : IsTried(info2, x) <=> IsTried(info, x)
  <2>1. RandomOK(v, info2)
    BY <1>2, SamePositions
  <2>2. /\ \A x \in DOMAIN info : IsTried(info2, x) <=> IsTried(info, x)
        /\ \A k : AddrsOK(k, info) => AddrsOK(k, info2)
        /\ \A k : TriedOK(info, k) => TriedOK(info2, k)
        /\ \A a, k, m : CountsOK(info, a, k, m) => CountsOK(info2, a, k, m)
    <3>1. Alike(info, info2)
      BY <1>2 DEF Alike
    <3> HIDE DEF Pages
    <3> QED BY <3>1, SameEntries
  <2>3. TriedKept(info, info2)
    BY <1>2, <2>2 DEF TriedKept
  <2> QED BY <2>1, <2>2, <2>3
<1>4. NewOK(info2, new2)
  <2>1. IsFiniteSet(new[b]) /\ Cardinality(new[b]) \in Nat /\ Cardinality(new[b]) < NEW_BUCKET_SIZE
    <3>1. new[b] \in SUBSET DOMAIN info /\ Cardinality(new[b]) <= NEW_BUCKET_SIZE
      BY DEF NewOK
    <3>2. IsFiniteSet(new[b]) /\ Cardinality(new[b]) \in Nat
      BY <3>1, FS_Subset, FS_CardinalityType
    <3> QED BY <3>1, <3>2, AddrManAssumption
  <2>2. Cardinality(new[b] \union {id}) <= NEW_BUCKET_SIZE
    <3>1. Cardinality(new[b] \union {id}) = Cardinality(new[b]) + 1
      BY <2>1, FS_AddElement
    <3>2. NEW_BUCKET_SIZE \in Nat
      BY AddrManAssumption
    <3> QED BY <2>1, <3>1, <3>2
  <2> QED BY <1>2, <2>2 DEF NewOK
<1>5. TablesOK(info2, new2, {})
  <2>1. /\ Cardinality(BucketsOf(new2, id)) = Cardinality(BucketsOf(new, id)) + 1
        /\ \A x : x # id => BucketsOf(new2, x) = BucketsOf(new, x)
    <3>1. DOMAIN new = NewBuckets /\ new2 = Swapped(new, b, id, {}) /\ {} \subseteq new[b]
      BY DEF NewOK, Swapped
    <3>2. /\ Cardinality(BucketsOf(new2, id)) = Cardinality(BucketsOf(new, id)) + 1
          /\ \A x : x # id /\ x \notin {} => BucketsOf(new2, x) = BucketsOf(new, x)
      <4> HIDE DEF Pages
      <4>1. id \notin new[b] /\ b \in NewBuckets
        OBVIOUS
      <4> QED BY ONLY <3>1, <4>1, BucketChange
    <3> QED BY ONLY <3>2
  <2>2. /\ NEW_BUCKETS_PER_ADDRESS \in Nat /\ info[id].nRefCount = Cardinality(BucketsOf(new, id))
        /\ info2[id].nRefCount = info[id].nRefCount + 1 /\ ~IsTried(info2, id)
    BY <1>2, <1>3, AddrManAssumption DEF TablesOK
  <2>3. ASSUME NEW x \in DOMAIN info, x # id
        PROVE  /\ info2[x].nRefCount = info[x].nRefCount /\ BucketsOf(new2, x) = BucketsOf(new, x)
               /\ info2[x].fSuccess = info[x].fSuccess
               /\ IsTried(info2, x) <=> IsTried(info, x)
    BY <1>2, <1>3, <2>1, <2>3
  <2>4. TablesOK(info, new, {id})
    OBVIOUS
  <2> HIDE DEF Pages
  <2>5. ASSUME NEW x \in DOMAIN info
        PROVE  /\ info2[x].nRefCount = Cardinality(BucketsOf(new2, x))
               /\ IsTried(info2, x) => HasSuccess(info2, x) /\ info2[x].nRefCount = 0
               /\ ~IsTried(info2, x) => /\ info2[x].nRefCount <= NEW_BUCKETS_PER_ADDRESS
                                        /\ info2[x].nRefCount >= 1
    <3>1. CASE x = id
      BY <1>1, <2>1, <2>2, <3>1
    <3>2. CASE x # id
      <4>1. /\ info[x].nRefCount = Cardinality(BucketsOf(new, x))
            /\ IsTried(info, x) => HasSuccess(info, x) /\ info[x].nRefCount = 0
            /\ ~IsTried(info, x) => /\ info[x].nRefCount <= NEW_BUCKETS_PER_ADDRESS
                                    /\ x = id \/ info[x].nRefCount >= 1
        BY <2>4 DEF TablesOK
      <4> QED BY <2>3, <3>2, <4>1 DEF HasSuccess
    <3> QED BY <3>1, <3>2
  <2> QED BY <1>2, <2>5 DEF TablesOK
<1> QED BY <1>2, <1>3, <1>4, <1>5

(* who is in a bucket of new addresses is not tried and is counted *)
LEMMA InNew ==
  ASSUME NEW info, NEW new, NEW young, info \in [DOMAIN info -> Entry],
         TablesOK(info, new, young), NewOK(info, new),
         NEW b \in NewBuckets, NEW id \in new[b]
  PROVE  /\ id \in DOMAIN info /\ ~IsTried(info, id) /\ info[id].nRefCount \in Nat \ {0}
         /\ info[id].nRefCount = 1 => BucketsOf(new, id) = {b}
<1>1. id \in DOMAIN info
  BY DEF NewOK
<1>2. b \in BucketsOf(new, id) /\ info[id].nRefCount = Cardinality(BucketsOf(new, id))
  BY <1>1 DEF BucketsOf, TablesOK
<1>3. Cardinality(BucketsOf(new, id)) \in Nat \ {0}
  BY <1>2, BucketsFinite, FS_EmptySet
<1>4. ASSUME info[id].nRefCount = 1 PROVE BucketsOf(new, id) = {b}
  <2>1. PICK c : BucketsOf(new, id) = {c}
    BY <1>2, <1>4, BucketsFinite, FS_Singleton
  <2> QED BY <1>2, <2>1
<1> QED BY <1>1, <1>2, <1>3, <1>4 DEF TablesOK

(* its bucket stays full *)
LEMMA StaysFull ==
  ASSUME NEW info, NEW info2, NEW new, NewOK(info, new), IsFiniteSet(DOMAIN info),
         NEW b \in NewBuckets, NEW old \in new[b], NEW id \in DOMAIN info, id \notin new[b],
         NEW new2, new2 = Swapped(new, b, id, {old}),
         DOMAIN info2 = DOMAIN info \/ (DOMAIN info2 = DOMAIN info \ {old} /\ BucketsOf(new, old) = {b})
  PROVE  NewOK(info2, new2)
<1>1. new \in [NewBuckets -> SUBSET DOMAIN info] /\ Cardinality(new[b]) <= NEW_BUCKET_SIZE
  BY DEF NewOK
<1>2. /\ new2[b] = (new[b] \ {old}) \union {id} /\ \A c \in NewBuckets : c # b => new2[c] = new[c]
      /\ DOMAIN new2 = NewBuckets /\ new2 = [c \in NewBuckets |-> new2[c]]
  BY <1>1 DEF Swapped
<1>3. new[b] \in SUBSET DOMAIN info
  BY <1>1
<1>4. IsFiniteSet(new[b]) /\ Cardinality(new[b]) \in Nat
  BY <1>3, FS_Subset, FS_CardinalityType
<1>5. IsFiniteSet(new[b] \ {old}) /\ Cardinality(new[b] \ {old}) = Cardinality(new[b]) - 1
  BY <1>4, FS_RemoveElement
<1>6. Cardinality(new2[b]) = Cardinality(new[b] \ {old}) + 1
  BY <1>2, <1>5, FS_AddElement
<1>7. \A c \in NewBuckets : new2[c] \subseteq DOMAIN info2
  <2> TAKE c \in NewBuckets
  <2>1. BucketsOf(new, old) = {b} /\ c # b => old \notin new[c]
    BY DEF BucketsOf
  <2>2. id # old /\ new[c] \subseteq DOMAIN info
    BY <1>1
  <2> QED BY <1>2, <2>1, <2>2
<1>8. \A c \in NewBuckets : Cardinality(new2[c]) <= NEW_BUCKET_SIZE
  <2> TAKE c \in NewBuckets
  <2>1. CASE c = b
    BY <1>1, <1>4, <1>5, <1>6, <2>1, Sizes
  <2>2. CASE c # b
    BY <1>2, <2>2 DEF NewOK
  <2> QED BY <2>1, <2>2
<1> QED BY <1>2, <1>7, <1>8 DEF NewOK

LEMMA InsertReplace ==
  ASSUME NEW info, NEW v, NEW known, NEW new, NEW nN, NEW tried, NEW nT,
         NEW id \in DOMAIN info, Pages(info, v, known, new, nN, tried, nT, {id}),
         ~IsTried(info, id), info[id].nRefCount < NEW_BUCKETS_PER_ADDRESS,
         NEW b \in NewBuckets, id \notin new[b],
         NEW old \in new[b], info[old].nRefCount # 1,
         NEW info1, info1 = CountedUp(info, id),
         NEW info2, info2 = [info1 EXCEPT ![old].nRefCount = info1[old].nRefCount - 1],
         NEW new2, new2 = Swapped(new, b, id, {old})
  PROVE  Pages(info2, v, known, new2, nN, tried, nT, {}) /\ TriedKept(info, info2)
<1>1. /\ info \in [DOMAIN info -> Entry] /\ IsFiniteSet(DOMAIN info) /\ RandomOK(v, info)
      /\ AddrsOK(known, info) /\ TablesOK(info, new, {id}) /\ TriedOK(info, tried)
      /\ NewOK(info, new) /\ CountsOK(info, v, nT, nN)
  BY DEF Pages
<1>2. /\ DOMAIN info1 = DOMAIN info /\ info1 \in [DOMAIN info1 -> Entry]
      /\ Alike(info, info1) /\ info[id].nRefCount \in Nat
      /\ \A x \in DOMAIN info :
           /\ info1[x].nRefCount = IF x = id THEN info[x].nRefCount + 1 ELSE info[x].nRefCount
           /\ info1[x].fSuccess = info[x].fSuccess /\ info1[x].nRandomPos = info[x].nRandomPos
  <2>1. /\ info \in [DOMAIN info -> Entry] /\ id \in DOMAIN info
        /\ info1 = CountedUp(info, id)
    BY <1>1
  <2> QED BY ONLY <2>1, CountedIs
<1>3. old \in DOMAIN info /\ old # id /\ ~IsTried(info, old) /\ info[old].nRefCount \in Nat \ {0, 1}
  <2>1. b \in NewBuckets /\ old \in new[b]
    OBVIOUS
  <2>2. old \in DOMAIN info /\ ~IsTried(info, old) /\ info[old].nRefCount \in Nat \ {0}
    BY ONLY <1>1, <2>1, InNew
  <2> QED BY <2>2
<1>4. /\ DOMAIN info2 = DOMAIN info /\ info2 \in [DOMAIN info2 -> Entry] /\ Alike(info, info2)
      /\ \A x \in DOMAIN info :
           /\ info2[x].nRefCount = IF x = id THEN info[x].nRefCount + 1
                                   ELSE IF x = old THEN info[x].nRefCount - 1 ELSE info[x].nRefCount
           /\ info2[x].fSuccess = info[x].fSuccess /\ info2[x].nRandomPos = info[x].nRandomPos
  <2> DEFINE m == info1[old].nRefCount - 1
  <2>1. m \in Nat /\ info2 = [info1 EXCEPT ![old].nRefCount = m] /\ old \in DOMAIN info1
    BY <1>2, <1>3
  <2>2. m = info[old].nRefCount - 1
    BY <1>2, <1>3
  <2> HIDE DEF m
  <2>3. /\ DOMAIN info2 = DOMAIN info1 /\ info2 \in [DOMAIN info2 -> Entry]
        /\ \A x \in DOMAIN info1 :
             /\ info2[x].nRefCount = IF x = old THEN m ELSE info1[x].nRefCount
             /\ info2[x].addr = info1[x].addr
             /\ info2[x].fInTried = info1[x].fInTried
             /\ info2[x].fSuccess = info1[x].fSuccess
             /\ info2[x].nRandomPos = info1[x].nRandomPos
    BY ONLY <1>2, <2>1, WriteCount
  <2>4. Alike(info, info2)
    BY <1>2, <2>3 DEF Alike
  <2> QED BY <1>2, <1>3, <2>2, <2>3, <2>4
<1>5. RandomOK(v, info2)
  BY <1>1, <1>4, SamePositions
<1>6. /\ AddrsOK(known, info2) /\ TriedOK(info2, tried) /\ CountsOK(info2, v, nT, nN)
      /\ \A x \in DOMAIN info : IsTried(info2, x) <=> IsTried(info, x)
  BY ONLY <1>1, <1>4, SameEntries
<1>7. TriedKept(info, info2)
  BY <1>4, <1>6 DEF TriedKept, Alike
<1>8. NewOK(info2, new2)
  BY <1>1, <1>4, StaysFull
<1>9. TablesOK(info2, new2, {})
  <2>1. /\ Cardinality(BucketsOf(new2, id)) = Cardinality(BucketsOf(new, id)) + 1
        /\ Cardinality(BucketsOf(new2, old)) = Cardinality(BucketsOf(new, old)) - 1
        /\ \A x : x # id /\ x \notin {old} => BucketsOf(new2, x) = BucketsOf(new, x)
    <3>1. DOMAIN new = NewBuckets /\ {old} \subseteq new[b] /\ id \notin new[b] /\ b \in NewBuckets
          /\ new2 = Swapped(new, b, id, {old})
      BY <1>1 DEF NewOK
    <3>2. /\ Cardinality(BucketsOf(new2, id)) = Cardinality(BucketsOf(new, id)) + 1
          /\ \A x \in {old} : Cardinality(BucketsOf(new2, x)) = Cardinality(BucketsOf(new, x)) - 1
          /\ \A x : x # id /\ x \notin {old} => BucketsOf(new2, x) = BucketsOf(new, x)
      BY ONLY <3>1, BucketChange
    <3> QED BY <3>2
  <2>2. ASSUME NEW x \in DOMAIN info
        PROVE  /\ info2[x].nRefCount = Cardinality(BucketsOf(new2, x))
               /\ IsTried(info2, x) => HasSuccess(info2, x) /\ info2[x].nRefCount = 0
               /\ ~IsTried(info2, x) => /\ info2[x].nRefCount <= NEW_BUCKETS_PER_ADDRESS
                                        /\ info2[x].nRefCount >= 1
    <3>1. /\ info[x].nRefCount = Cardinality(BucketsOf(new, x))
          /\ IsTried(info, x) => HasSuccess(info, x) /\ info[x].nRefCount = 0
          /\ ~IsTried(info, x) => /\ info[x].nRefCount <= NEW_BUCKETS_PER_ADDRESS
                                  /\ x = id \/ info[x].nRefCount >= 1
      BY <1>1 DEF TablesOK
    <3>2. CASE x = id
      <4>1. /\ info2[id].nRefCount = info[id].nRefCount + 1 /\ ~IsTried(info2, id)
            /\ info[id].nRefCount < NEW_BUCKETS_PER_ADDRESS /\ info[id].nRefCount \in Nat
        BY <1>2, <1>4, <1>6
      <4> QED BY ONLY <2>1, <3>1, <3>2, <4>1, Sizes
    <3>3. CASE x = old
      <4>1. info2[old].nRefCount = info[old].nRefCount - 1 /\ ~IsTried(info2, old)
        BY <1>3, <1>4, <1>6
      <4> QED BY ONLY <1>3, <2>1, <3>1, <3>3, <4>1, Sizes
    <3>4. CASE x # id /\ x # old
      BY <1>4, <1>6, <2>1, <3>1, <3>4 DEF HasSuccess
    <3> QED BY <3>2, <3>3, <3>4
  <2> QED BY <1>4, <2>2 DEF TablesOK
<1> QED BY <1>1, <1>4, <1>5, <1>6, <1>7, <1>8, <1>9 DEF Pages

(* the one that gives way was in no other bucket, and is deleted *)
LEMMA InsertErase ==
  ASSUME NEW info, NEW v, NEW known, NEW new, NEW nN, NEW tried, NEW nT,
         NEW id \in DOMAIN info, Pages(info, v, known, new, nN, tried, nT, {id}),
         ~IsTried(info, id), info[id].nRefCount < NEW_BUCKETS_PER_ADDRESS,
         NEW b \in NewBuckets, id \notin new[b],
         NEW old \in new[b], info[old].nRefCount = 1,
         NEW info1, info1 = CountedUp(info, id),
         NEW e, e = Erase(v, info1, old),
         NEW known2, known2 = Restrict(known, DOMAIN known \ {info[old].addr}),
         NEW new2, new2 = Swapped(new, b, id, {old})
  PROVE  Pages(e.info, e.v, known2, new2, nN - 1, tried, nT, {}) /\ TriedKept(info, e.info)
<1>1. /\ info \in [DOMAIN info -> Entry] /\ IsFiniteSet(DOMAIN info) /\ RandomOK(v, info)
      /\ AddrsOK(known, info) /\ TablesOK(info, new, {id}) /\ TriedOK(info, tried)
      /\ NewOK(info, new) /\ CountsOK(info, v, nT, nN)
  BY DEF Pages
<1>2. /\ DOMAIN info1 = DOMAIN info /\ info1 \in [DOMAIN info1 -> Entry]
      /\ Alike(info, info1) /\ info[id].nRefCount \in Nat
      /\ \A x \in DOMAIN info :
           /\ info1[x].nRefCount = IF x = id THEN info[x].nRefCount + 1 ELSE info[x].nRefCount
           /\ info1[x].fSuccess = info[x].fSuccess /\ info1[x].nRandomPos = info[x].nRandomPos
  <2>1. /\ info \in [DOMAIN info -> Entry] /\ id \in DOMAIN info
        /\ info1 = CountedUp(info, id)
    BY <1>1
  <2> QED BY ONLY <2>1, CountedIs
<1>3. old \in DOMAIN info /\ old # id /\ ~IsTried(info, old) /\ BucketsOf(new, old) = {b}
  <2>1. b \in NewBuckets /\ old \in new[b] /\ info[old].nRefCount = 1
    OBVIOUS
  <2>2. old \in DOMAIN info /\ ~IsTried(info, old) /\ BucketsOf(new, old) = {b}
    BY ONLY <1>1, <2>1, InNew
  <2> QED BY <2>2
<1> DEFINE D == DOMAIN info \ {old}
           f == e.info
<1>4. DOMAIN f = D /\ f \in [DOMAIN f -> Entry] /\ RandomOK(e.v, f) /\ Len(e.v) = Len(v) - 1
      /\ \A x \in D : SameButPos(f[x], info1[x])
  <2>1. RandomOK(v, info1)
    BY ONLY <1>1, <1>2, SamePositions
  <2>2. old \in DOMAIN info1 /\ e = Erase(v, info1, old)
    BY <1>2, <1>3
  <2>3. /\ DOMAIN e.info = DOMAIN info1 \ {old}
        /\ e.info \in [DOMAIN e.info -> Entry]
        /\ \A x \in DOMAIN e.info : SameButPos(e.info[x], info1[x])
        /\ RandomOK(e.v, e.info) /\ Len(e.v) = Len(v) - 1
    BY ONLY <1>2, <2>1, <2>2, EraseStep
  <2> QED BY <1>2, <2>3
<1>5. \A x \in D : /\ f[x].addr = info[x].addr /\ f[x].fInTried = info[x].fInTried
                   /\ f[x].fSuccess = info[x].fSuccess
                   /\ f[x].nRefCount = IF x = id THEN info[x].nRefCount + 1 ELSE info[x].nRefCount
  BY <1>2, <1>4 DEF SameButPos, Alike
<1>6. \A x \in D : IsTried(f, x) <=> IsTried(info, x)
  BY <1>5 DEF IsTried
<1> HIDE DEF f
<1>7. IsFiniteSet(D) /\ Cardinality(D) = Cardinality(DOMAIN info) - 1
  BY <1>1, <1>3, FS_RemoveElement
<1>8. AddrsOK(known2, f)
  <2>1. /\ DOMAIN known2 = DOMAIN known \ {info[old].addr}
        /\ \A a \in DOMAIN known2 : known2[a] = known[a]
    BY DEF Restrict
  <2>2. \A a \in DOMAIN known2 : known[a] \in D
    BY <1>1, <1>3, <2>1 DEF AddrsOK
  <2>3. \A x \in D : info[x].addr \in DOMAIN known2
    BY <1>1, <1>3, <2>1 DEF AddrsOK
  <2>4. known2 \in [DOMAIN known2 -> D] /\ DOMAIN known2 \subseteq Addresses
    BY <1>1, <2>1, <2>2 DEF AddrsOK, Restrict
  <2>5. \A x \in D : f[x].addr \in DOMAIN known2 /\ known2[f[x].addr] = x
    <3> TAKE x \in D
    <3>1. f[x].addr = info[x].addr /\ known[info[x].addr] = x
      BY <1>1, <1>5 DEF AddrsOK
    <3>2. info[x].addr \in DOMAIN known2
      BY <2>3
    <3> QED BY ONLY <2>1, <3>1, <3>2
  <2>6. \A a \in DOMAIN known2 : f[known2[a]].addr = a
    <3> TAKE a \in DOMAIN known2
    <3>1. known2[a] = known[a] /\ known[a] \in D /\ a \in DOMAIN known
      BY ONLY <2>1, <2>2, a \in DOMAIN known2
    <3>2. info[known[a]].addr = a
      BY <1>1, <3>1 DEF AddrsOK
    <3>3. f[known[a]].addr = info[known[a]].addr
      BY <1>5, <3>1
    <3> QED BY ONLY <3>1, <3>2, <3>3
  <2> HIDE DEF D
  <2> QED BY ONLY <1>4, <2>4, <2>5, <2>6 DEF AddrsOK
<1>9. TriedOK(f, tried)
  <2>1. \A c \in TriedBuckets : tried[c] \subseteq D
    BY <1>1, <1>3 DEF TriedOK
  <2>2. tried \in [TriedBuckets -> SUBSET D]
    BY <1>1, <2>1 DEF TriedOK
  <2> QED BY <1>1, <1>4, <1>5, <1>6, <2>2 DEF TriedOK
<1>10. NewOK(f, new2)
  BY <1>1, <1>3, <1>4, StaysFull
<1>11. CountsOK(f, e.v, nT, nN - 1)
  <2>1. TriedIn(f) = TriedIn(info)
    BY <1>3, <1>4, <1>6 DEF TriedIn
  <2>2. nT \in Nat /\ nN \in Int /\ Len(v) = nT + nN /\ Cardinality(DOMAIN info) = nT + nN
        /\ Cardinality(TriedIn(info)) = nT
    BY <1>1 DEF CountsOK
  <2> QED BY <1>4, <1>7, <2>1, <2>2 DEF CountsOK
<1>12. TablesOK(f, new2, {})
  <2>1. /\ Cardinality(BucketsOf(new2, id)) = Cardinality(BucketsOf(new, id)) + 1
        /\ \A x : x # id /\ x \notin {old} => BucketsOf(new2, x) = BucketsOf(new, x)
    <3>1. DOMAIN new = NewBuckets /\ {old} \subseteq new[b] /\ id \notin new[b] /\ b \in NewBuckets
          /\ new2 = Swapped(new, b, id, {old})
      BY <1>1 DEF NewOK
    <3> QED BY ONLY <3>1, BucketChange
  <2>2. ASSUME NEW x \in D
        PROVE  /\ f[x].nRefCount = Cardinality(BucketsOf(new2, x))
               /\ IsTried(f, x) => HasSuccess(f, x) /\ f[x].nRefCount = 0
               /\ ~IsTried(f, x) => /\ f[x].nRefCount <= NEW_BUCKETS_PER_ADDRESS
                                    /\ f[x].nRefCount >= 1
    <3>1. /\ info[x].nRefCount = Cardinality(BucketsOf(new, x))
          /\ IsTried(info, x) => HasSuccess(info, x) /\ info[x].nRefCount = 0
          /\ ~IsTried(info, x) => /\ info[x].nRefCount <= NEW_BUCKETS_PER_ADDRESS
                                  /\ x = id \/ info[x].nRefCount >= 1
      BY <1>1 DEF TablesOK
    <3>2. CASE x = id
      <4>1. /\ f[id].nRefCount = info[id].nRefCount + 1 /\ ~IsTried(f, id)
            /\ info[id].nRefCount < NEW_BUCKETS_PER_ADDRESS /\ info[id].nRefCount \in Nat
        BY <1>2, <1>5, <1>6, <3>2
      <4> QED BY ONLY <2>1, <3>1, <3>2, <4>1, Sizes
    <3>3. CASE x # id
      <4>1. /\ f[x].nRefCount = info[x].nRefCount /\ f[x].fSuccess = info[x].fSuccess
            /\ IsTried(f, x) <=> IsTried(info, x)
            /\ BucketsOf(new2, x) = BucketsOf(new, x)
        BY <1>5, <1>6, <2>1, <3>3
      <4> QED BY <3>1, <3>3, <4>1 DEF HasSuccess
    <3> QED BY <3>2, <3>3
  <2> QED BY <1>4, <2>2 DEF TablesOK
<1>13. TriedKept(info, f)
  BY <1>3, <1>4, <1>5, <1>6 DEF TriedKept
<1> HIDE DEF D
<1> QED BY <1>4, <1>7, <1>8, <1>9, <1>10, <1>11, <1>12, <1>13 DEF Pages, f

LEMMA IntoIs ==
  ASSUME NEW info, NEW v, NEW new, NEW known, NEW nN, NEW b, NEW id, NEW x,
         x = [info |-> info, v |-> v, vvNew |-> new, mapAddr |-> known, nNew |-> nN]
  PROVE  [x EXCEPT !.vvNew[b] = @ \union {id}] =
           [info |-> info, v |-> v, vvNew |-> [new EXCEPT ![b] = new[b] \union {id}],
            mapAddr |-> known, nNew |-> nN]
OBVIOUS

LEMMA InsertStep ==
  ASSUME NEW info, NEW v, NEW known, NEW new, NEW nN, NEW tried, NEW nT,
         NEW id \in DOMAIN info, Pages(info, v, known, new, nN, tried, nT, {id}),
         ~IsTried(info, id), info[id].nRefCount < NEW_BUCKETS_PER_ADDRESS,
         NEW b \in NewBuckets,
         Insert([info |-> info, v |-> v, vvNew |-> new, mapAddr |-> known, nNew |-> nN], id, b)
  PROVE  /\ Pages(mapInfo', vRandom', mapAddr', vvNew', nNew', tried, nT, {})
         /\ TriedKept(info, mapInfo') /\ DOMAIN mapInfo' \subseteq DOMAIN info
<1> DEFINE w == [info |-> info, v |-> v, vvNew |-> new, mapAddr |-> known, nNew |-> nN]
           counted == [w EXCEPT !.info[id].nRefCount = @ + 1]
           into(x) == [x EXCEPT !.vvNew[b] = @ \union {id}]
           info1 == CountedUp(info, id)
<1>0. /\ info \in [DOMAIN info -> Entry] /\ TablesOK(info, new, {id}) /\ NewOK(info, new)
  BY DEF Pages
<1>1. counted = [info |-> info1, v |-> v, vvNew |-> new, mapAddr |-> known, nNew |-> nN]
  BY DEF CountedUp
<1>2. CASE id \in new[b]
  <2>1. mapInfo' = info /\ vRandom' = v /\ mapAddr' = known /\ vvNew' = new /\ nNew' = nN
    BY <1>2 DEF Insert, Becomes
  <2>2. info[id].nRefCount \in Nat \ {0}
    BY ONLY <1>0, <1>2, b \in NewBuckets, InNew
  <2>3. TablesOK(info, new, {})
    BY <1>0, <2>2 DEF TablesOK
  <2>4. TriedKept(info, info)
    BY DEF TriedKept
  <2> QED BY <2>1, <2>3, <2>4 DEF Pages
<1>3. CASE id \notin new[b] /\ Cardinality(new[b]) # NEW_BUCKET_SIZE
  <2> DEFINE new2 == [new EXCEPT ![b] = new[b] \union {id}]
  <2>1. Becomes(into(counted))
    BY <1>3 DEF Insert
  <2>2. into(counted) = [info |-> info1, v |-> v, vvNew |-> new2, mapAddr |-> known, nNew |-> nN]
    <3> HIDE DEF counted, info1
    <3> QED BY <1>1, IntoIs
  <2>3. mapInfo' = info1 /\ vRandom' = v /\ mapAddr' = known /\ vvNew' = new2 /\ nNew' = nN
    BY <2>1, <2>2 DEF Becomes
  <2> HIDE DEF new2, info1, counted, into, w
  <2>4. Pages(info1, v, known, new2, nN, tried, nT, {}) /\ TriedKept(info, info1)
    <3>1. info1 = CountedUp(info, id) /\ new2 = [new EXCEPT ![b] = new[b] \union {id}]
      BY DEF info1, new2
    <3> QED BY <1>3, <3>1, InsertPlace
  <2>5. DOMAIN info1 = DOMAIN info
    BY DEF info1, CountedUp
  <2> QED BY <2>3, <2>4, <2>5
<1>4. CASE id \notin new[b] /\ Cardinality(new[b]) = NEW_BUCKET_SIZE
  <2>1. PICK old \in new[b] : Becomes(into(ShrinkNew(counted, b, old)))
    BY <1>4 DEF Insert
  <2> DEFINE new2 == Swapped(new, b, id, {old})
  <2>2. old # id /\ old \in DOMAIN info /\ info1[old].nRefCount = info[old].nRefCount
        /\ info1[old].addr = info[old].addr /\ DOMAIN info1 = DOMAIN info
    BY <1>0, <1>4 DEF NewOK, CountedUp
  <2>3. new2 = [new EXCEPT ![b] = (new[b] \ {old}) \union {id}]
        /\ DOMAIN new = NewBuckets
    BY <1>0 DEF Swapped, NewOK
  <2> DEFINE less == [new EXCEPT ![b] = new[b] \ {old}]
  <2>4. new2 = [less EXCEPT ![b] = less[b] \union {id}]
    BY <2>3
  <2> HIDE DEF less
  <2>5. CASE info[old].nRefCount # 1
    <3> DEFINE info2 == [info1 EXCEPT ![old].nRefCount = info1[old].nRefCount - 1]
    <3>1. ShrinkNew(counted, b, old) =
            [info |-> info2, v |-> v, vvNew |-> less,
             mapAddr |-> known, nNew |-> nN]
      BY <1>1, <2>2, <2>5 DEF ShrinkNew, LastReference, less
    <3>2. into(ShrinkNew(counted, b, old)) =
            [info |-> info2, v |-> v, vvNew |-> new2, mapAddr |-> known, nNew |-> nN]
      <4> HIDE DEF info2, new2, counted
      <4> QED BY <2>4, <3>1, IntoIs
    <3>3. mapInfo' = info2 /\ vRandom' = v /\ mapAddr' = known /\ vvNew' = new2 /\ nNew' = nN
      BY <2>1, <3>2 DEF Becomes
    <3> HIDE DEF info2, new2, info1, counted, into, w
    <3>4. Pages(info2, v, known, new2, nN, tried, nT, {}) /\ TriedKept(info, info2)
      <4>1. info1 = CountedUp(info, id) /\ new2 = Swapped(new, b, id, {old})
            /\ info2 = [info1 EXCEPT ![old].nRefCount = info1[old].nRefCount - 1]
        BY DEF info1, new2, info2
      <4> QED BY <1>4, <2>5, <4>1, InsertReplace
    <3>5. DOMAIN info2 = DOMAIN info
      BY <2>2 DEF info2
    <3> QED BY <3>3, <3>4, <3>5
  <2>6. CASE info[old].nRefCount = 1
    <3> DEFINE e == Erase(v, info1, old)
               known2 == Restrict(known, DOMAIN known \ {info[old].addr})
    <3>1. ShrinkNew(counted, b, old) =
            [info |-> e.info, v |-> e.v, vvNew |-> less,
             mapAddr |-> known2, nNew |-> nN - 1]
      BY <1>1, <2>2, <2>6 DEF ShrinkNew, LastReference, less
    <3> HIDE DEF e, known2
    <3>2. into(ShrinkNew(counted, b, old)) =
            [info |-> e.info, v |-> e.v, vvNew |-> new2, mapAddr |-> known2, nNew |-> nN - 1]
      <4> HIDE DEF new2, counted
      <4> QED BY <2>4, <3>1, IntoIs
    <3>3. mapInfo' = e.info /\ vRandom' = e.v /\ mapAddr' = known2 /\ vvNew' = new2
          /\ nNew' = nN - 1
      BY <2>1, <3>2 DEF Becomes
    <3> HIDE DEF new2, info1, counted, into, w
    <3>4. Pages(e.info, e.v, known2, new2, nN - 1, tried, nT, {}) /\ TriedKept(info, e.info)
      <4>1. info1 = CountedUp(info, id) /\ new2 = Swapped(new, b, id, {old})
            /\ e = Erase(v, info1, old) /\ known2 = Restrict(known, DOMAIN known \ {info[old].addr})
        BY DEF info1, new2, e, known2
      <4> QED BY <1>4, <2>6, <4>1, InsertErase
    <3>5. DOMAIN e.info \subseteq DOMAIN info
      BY <2>2 DEF e, Erase, Restrict
    <3> QED BY <3>3, <3>4, <3>5
  <2> QED BY <2>5, <2>6
<1> QED BY <1>2, <1>3, <1>4

-----------------------------------------------------------------------------
(* Every call keeps the inductive invariant, and what is tried stays       *)

(* The inductive invariant of the address manager *)
AddrManInv ==
  /\ nIdCount \in Nat /\ Ids \subseteq 0 .. nIdCount - 1
  /\ Pages(mapInfo, vRandom, mapAddr, vvNew, nNew, vvTried, nTried, {})

TriedStays ==
  \A a \in DOMAIN mapAddr : mapInfo[mapAddr[a]].fInTried =>
    /\ a \in DOMAIN mapAddr'
    /\ mapInfo'[mapAddr'[a]].fInTried \/ mapInfo'[mapAddr'[a]].nRefCount = 1

LEMMA PagesAre ==
  ASSUME AddrManInv
  PROVE  /\ nIdCount \in Nat /\ Ids \subseteq 0 .. nIdCount - 1 /\ DOMAIN mapInfo = Ids
         /\ mapInfo \in [Ids -> Entry] /\ IsFiniteSet(Ids)
         /\ RandomOK(vRandom, mapInfo) /\ AddrsOK(mapAddr, mapInfo)
         /\ TablesOK(mapInfo, vvNew, {}) /\ TriedOK(mapInfo, vvTried) /\ NewOK(mapInfo, vvNew)
         /\ CountsOK(mapInfo, vRandom, nTried, nNew)
BY DEF AddrManInv, Pages, Ids

LEMMA KeptStays ==
  ASSUME NEW known, NEW info, AddrsOK(known, info), NEW known2, NEW info2, AddrsOK(known2, info2),
         TriedKept(info, info2), NEW a \in DOMAIN known, IsTried(info, known[a])
  PROVE  a \in DOMAIN known2 /\ IsTried(info2, known2[a])
<1>1. known[a] \in DOMAIN info /\ info[known[a]].addr = a
  BY DEF AddrsOK
<1>2. known[a] \in DOMAIN info2 /\ IsTried(info2, known[a]) /\ info2[known[a]].addr = a
  BY <1>1 DEF TriedKept
<1> QED BY <1>2 DEF AddrsOK

LEMMA StaysIf ==
  ASSUME AddrManInv, AddrsOK(mapAddr, mapInfo)', TriedKept(mapInfo, mapInfo')
  PROVE  TriedStays
<1> SUFFICES ASSUME NEW a \in DOMAIN mapAddr, mapInfo[mapAddr[a]].fInTried
             PROVE  a \in DOMAIN mapAddr' /\ mapInfo'[mapAddr'[a]].fInTried
  BY DEF TriedStays
<1>1. AddrsOK(mapAddr, mapInfo) /\ mapInfo \in [Ids -> Entry] /\ DOMAIN mapInfo = Ids
  BY PagesAre
<1>2. mapInfo[mapAddr[a]].fInTried = TRUE
  BY <1>1 DEF AddrsOK, Entry
<1>3. a \in DOMAIN mapAddr' /\ IsTried(mapInfo', mapAddr'[a])
  BY <1>1, <1>2, KeptStays DEF IsTried
<1> QED BY <1>3 DEF IsTried

LEMMA AddrManInitInv == AddrManInit => AddrManInv
<1> SUFFICES ASSUME AddrManInit PROVE AddrManInv
  OBVIOUS
<1> USE DEF AddrManInit
<1>1. DOMAIN mapInfo = {} /\ DOMAIN mapAddr = {} /\ Len(vRandom) = 0
  OBVIOUS
<1>2. IsFiniteSet({}) /\ Cardinality({}) = 0
  BY FS_EmptySet
<1>3. mapInfo \in [DOMAIN mapInfo -> Entry] /\ RandomOK(vRandom, mapInfo) /\ AddrsOK(mapAddr, mapInfo)
  BY <1>1 DEF RandomOK, AddrsOK
<1>4. TablesOK(mapInfo, vvNew, {})
  BY <1>1 DEF TablesOK
<1>5. TriedOK(mapInfo, vvTried) /\ NewOK(mapInfo, vvNew)
  BY <1>1, <1>2, Sizes DEF TriedOK, NewOK
<1>6. TriedIn(mapInfo) = {}
  BY <1>1 DEF TriedIn
<1>7. CountsOK(mapInfo, vRandom, nTried, nNew)
  <2>1. nTried = 0 /\ nNew = 0 /\ nTried + nNew = 0
    OBVIOUS
  <2>2. Cardinality(TriedIn(mapInfo)) = 0 /\ Cardinality(DOMAIN mapInfo) = 0
    BY <1>1, <1>2, <1>6
  <2> QED BY ONLY <1>1, <2>1, <2>2 DEF CountsOK
<1> QED BY <1>1, <1>2, <1>3, <1>4, <1>5, <1>7 DEF AddrManInv, Pages, Ids

LEMMA AddAgainInd ==
  ASSUME AddrManInv, NEW addr \in Addresses, NEW source \in Sources, AddAgain(addr, source)
  PROVE  AddrManInv' /\ TriedStays
<1> DEFINE id == mapAddr[addr]
           b == GetNewBucket[<<addr, source>>]
<1>1. id \in DOMAIN mapInfo /\ b \in NewBuckets /\ mapInfo[id] \in Entry
  BY PagesAre, AddrManAssumption DEF AddAgain, AddrsOK
<1>2. ~IsTried(mapInfo, id) /\ mapInfo[id].nRefCount # NEW_BUCKETS_PER_ADDRESS
  BY <1>1 DEF AddAgain, MayAddAgain, IsTried, Entry
<1>3. mapInfo[id].nRefCount < NEW_BUCKETS_PER_ADDRESS
  <2>1. mapInfo[id].nRefCount \in Nat /\ mapInfo[id].nRefCount <= NEW_BUCKETS_PER_ADDRESS
    BY <1>1, <1>2, PagesAre DEF Entry, TablesOK
  <2> QED BY <1>2, <2>1, Sizes
<1>4. Pages(mapInfo, vRandom, mapAddr, vvNew, nNew, vvTried, nTried, {id})
  BY DEF AddrManInv, Pages, TablesOK
<1>5. /\ Insert([info |-> mapInfo, v |-> vRandom, vvNew |-> vvNew, mapAddr |-> mapAddr,
                 nNew |-> nNew], id, b)
      /\ nIdCount' = nIdCount /\ nTried' = nTried /\ vvTried' = vvTried
  BY DEF AddAgain, Current
<1> HIDE DEF id, b
<1>6. /\ Pages(mapInfo', vRandom', mapAddr', vvNew', nNew', vvTried, nTried, {})
      /\ TriedKept(mapInfo, mapInfo') /\ DOMAIN mapInfo' \subseteq DOMAIN mapInfo
  BY <1>1, <1>2, <1>3, <1>4, <1>5, InsertStep
<1>7. AddrManInv'
  BY <1>5, <1>6 DEF AddrManInv, Ids
<1> QED BY <1>6, <1>7, StaysIf, PagesAre DEF Pages

(* Create adds an entry that is in no bucket yet *)
LEMMA CreatedStep ==
  ASSUME AddrManInv, NEW addr \in Addresses, addr \notin DOMAIN mapAddr, NEW source \in Sources,
         NEW w, w = Created(addr, source)
  PROVE  /\ DOMAIN w.info = Ids \union {nIdCount} /\ TriedKept(mapInfo, w.info)
         /\ w = [info |-> w.info, v |-> w.v, vvNew |-> vvNew, mapAddr |-> w.mapAddr, nNew |-> w.nNew]
         /\ ~IsTried(w.info, nIdCount) /\ w.info[nIdCount].nRefCount = 0
         /\ Pages(w.info, w.v, w.mapAddr, vvNew, w.nNew, vvTried, nTried, {nIdCount})
<1> DEFINE id == nIdCount
           entry == [addr |-> addr, source |-> source, nRefCount |-> 0, fInTried |-> FALSE,
                     fSuccess |-> FALSE, nRandomPos |-> Len(vRandom) + 1]
           info == w.info
           known == w.mapAddr
           v == w.v
<1>1. /\ info = [x \in Ids \union {id} |-> IF x \in Ids THEN mapInfo[x] ELSE entry]
      /\ v = Append(vRandom, id) /\ w.nNew = nNew + 1
      /\ known = [a \in DOMAIN mapAddr \union {addr} |-> IF a = addr THEN id ELSE mapAddr[a]]
      /\ w = [info |-> info, v |-> v, vvNew |-> vvNew, mapAddr |-> known, nNew |-> w.nNew]
  BY DEF Created
<1>2. /\ id \notin Ids /\ DOMAIN mapInfo = Ids /\ IsFiniteSet(Ids) /\ mapInfo \in [Ids -> Entry]
      /\ vRandom \in Seq(Ids) /\ Len(vRandom) \in Nat
  BY PagesAre DEF RandomOK
<1>3. entry \in Entry
  BY <1>2 DEF Entry
<1>4. /\ DOMAIN info = Ids \union {id} /\ \A x \in Ids : info[x] = mapInfo[x]
      /\ info[id] = entry
  BY <1>1, <1>2
<1>5. info \in [DOMAIN info -> Entry]
  BY <1>1, <1>2, <1>3, <1>4
<1>6. \A x \in Ids : IsTried(info, x) <=> IsTried(mapInfo, x)
  BY <1>4 DEF IsTried
<1>7. /\ info[id].nRefCount = 0 /\ info[id].addr = addr /\ ~IsTried(info, id)
      /\ info[id].nRandomPos = Len(vRandom) + 1
  BY <1>4 DEF IsTried
<1> HIDE DEF entry, id, info, known, v
<1>8. TriedKept(mapInfo, info)
  BY <1>2, <1>4, <1>6 DEF TriedKept
<1>9. RandomOK(v, info)
  <2>1. /\ v \in Seq(Ids \union {id}) /\ Len(v) = Len(vRandom) + 1 /\ v[Len(vRandom) + 1] = id
        /\ \A p \in 1 .. Len(vRandom) : v[p] = vRandom[p] /\ v[p] \in Ids
    BY <1>1, <1>2
  <2>2. /\ \A x \in Ids : mapInfo[x].nRandomPos \in 1 .. Len(vRandom)
                          /\ vRandom[mapInfo[x].nRandomPos] = x
        /\ \A p \in 1 .. Len(vRandom) : mapInfo[vRandom[p]].nRandomPos = p
    BY <1>2, PagesAre DEF RandomOK
  <2>3. \A x \in Ids \union {id} : info[x].nRandomPos \in 1 .. Len(v) /\ v[info[x].nRandomPos] = x
    BY <1>2, <1>4, <1>7, <2>1, <2>2
  <2>4. \A p \in 1 .. Len(v) : info[v[p]].nRandomPos = p
    BY <1>2, <1>4, <1>7, <2>1, <2>2
  <2> QED BY <1>4, <2>1, <2>3, <2>4 DEF RandomOK
<1>10. AddrsOK(known, info)
  <2>1. /\ DOMAIN known = DOMAIN mapAddr \union {addr} /\ known[addr] = id
        /\ \A a \in DOMAIN mapAddr : known[a] = mapAddr[a]
    BY <1>1
  <2>2. AddrsOK(mapAddr, mapInfo)
    BY PagesAre
  <2>3. known \in [DOMAIN known -> DOMAIN info] /\ DOMAIN known \subseteq Addresses
    BY <1>1, <1>2, <1>4, <2>1, <2>2 DEF AddrsOK
  <2>4. \A x \in DOMAIN info : info[x].addr \in DOMAIN known /\ known[info[x].addr] = x
    BY <1>2, <1>4, <1>7, <2>1, <2>2 DEF AddrsOK
  <2>5. \A a \in DOMAIN known : info[known[a]].addr = a
    BY <1>2, <1>4, <1>7, <2>1, <2>2 DEF AddrsOK
  <2> QED BY ONLY <2>3, <2>4, <2>5 DEF AddrsOK
<1>11. TablesOK(info, vvNew, {id})
  <2>1. BucketsOf(vvNew, id) = {}
    BY <1>2, PagesAre DEF BucketsOf, NewOK
  <2>2. Cardinality(BucketsOf(vvNew, id)) = 0
    BY <2>1, FS_EmptySet
  <2>3. TablesOK(mapInfo, vvNew, {})
    BY PagesAre
  <2> QED BY <1>2, <1>4, <1>6, <1>7, <2>2, <2>3, Sizes DEF TablesOK, HasSuccess
<1>12. TriedOK(info, vvTried) /\ NewOK(info, vvNew)
  <2>1. TriedOK(mapInfo, vvTried) /\ NewOK(mapInfo, vvNew)
    BY PagesAre
  <2>2. \A x \in DOMAIN info, b \in TriedBuckets :
          x \in vvTried[b] <=> IsTried(info, x) /\ b = GetTriedBucket[info[x].addr]
    BY <1>2, <1>4, <1>6, <1>7, <2>1 DEF TriedOK
  <2> QED BY <1>2, <1>4, <2>1, <2>2 DEF TriedOK, NewOK
<1>13. CountsOK(info, v, nTried, w.nNew)
  <2>1. TriedIn(info) = TriedIn(mapInfo)
    BY <1>2, <1>4, <1>6, <1>7 DEF TriedIn
  <2>2. Cardinality(Ids \union {id}) = Cardinality(Ids) + 1
    BY <1>2, FS_AddElement
  <2>3. Len(v) = Len(vRandom) + 1
    BY <1>1, <1>2
  <2>4. CountsOK(mapInfo, vRandom, nTried, nNew)
    BY PagesAre
  <2> QED BY <1>1, <1>2, <1>4, <2>1, <2>2, <2>3, <2>4 DEF CountsOK
<1>14. IsFiniteSet(DOMAIN info)
  BY <1>2, <1>4, FS_AddElement
<1>15. Pages(info, v, known, vvNew, w.nNew, vvTried, nTried, {id})
  BY <1>5, <1>9, <1>10, <1>11, <1>12, <1>13, <1>14 DEF Pages
<1> QED BY <1>1, <1>4, <1>7, <1>8, <1>15 DEF info, known, v, id

LEMMA AddNewInd ==
  ASSUME AddrManInv, NEW addr \in Addresses, NEW source \in Sources, AddNew(addr, source)
  PROVE  AddrManInv' /\ TriedStays
<1> DEFINE w == Created(addr, source)
           b == GetNewBucket[<<addr, source>>]
<1>1. /\ addr \notin DOMAIN mapAddr /\ Insert(w, nIdCount, b)
      /\ nIdCount' = nIdCount + 1 /\ nTried' = nTried /\ vvTried' = vvTried
  BY DEF AddNew
<1>2. b \in NewBuckets /\ nIdCount \in Nat /\ Ids \subseteq 0 .. nIdCount - 1 /\ DOMAIN mapInfo = Ids
  BY PagesAre, AddrManAssumption
<1> HIDE DEF b
<1>3. /\ DOMAIN w.info = Ids \union {nIdCount} /\ TriedKept(mapInfo, w.info)
      /\ w = [info |-> w.info, v |-> w.v, vvNew |-> vvNew, mapAddr |-> w.mapAddr, nNew |-> w.nNew]
      /\ ~IsTried(w.info, nIdCount) /\ w.info[nIdCount].nRefCount = 0
      /\ Pages(w.info, w.v, w.mapAddr, vvNew, w.nNew, vvTried, nTried, {nIdCount})
  <2>1. w = Created(addr, source)
    OBVIOUS
  <2> HIDE DEF w
  <2> QED BY <1>1, <2>1, CreatedStep
<1> HIDE DEF w
<1>4. Insert([info |-> w.info, v |-> w.v, vvNew |-> vvNew, mapAddr |-> w.mapAddr, nNew |-> w.nNew],
             nIdCount, b)
  BY <1>1, <1>3
<1>5. nIdCount \in DOMAIN w.info /\ w.info[nIdCount].nRefCount < NEW_BUCKETS_PER_ADDRESS
  BY <1>3, Sizes
<1>6. /\ Pages(mapInfo', vRandom', mapAddr', vvNew', nNew', vvTried, nTried, {})
      /\ TriedKept(w.info, mapInfo') /\ DOMAIN mapInfo' \subseteq DOMAIN w.info
  BY <1>2, <1>3, <1>4, <1>5, InsertStep
<1>7. TriedKept(mapInfo, mapInfo')
  BY <1>3, <1>6 DEF TriedKept
<1>8. AddrManInv'
  <2>1. DOMAIN mapInfo' \subseteq 0 .. nIdCount' - 1 /\ nIdCount' \in Nat
    BY <1>1, <1>2, <1>3, <1>6
  <2> QED BY <1>1, <1>6, <2>1 DEF AddrManInv, Ids
<1> QED BY <1>6, <1>7, <1>8, StaysIf DEF Pages

(* the entry of id is written, its address and its position stay *)
Rewrite(info, id, n) ==
  [info EXCEPT ![id].nRefCount = n, ![id].fInTried = TRUE, ![id].fSuccess = TRUE]

LEMMA Rewritten ==
  ASSUME NEW info, info \in [DOMAIN info -> Entry], NEW id \in DOMAIN info, NEW n \in Nat,
         NEW info2, info2 = Rewrite(info, id, n)
  PROVE  /\ DOMAIN info2 = DOMAIN info /\ info2 \in [DOMAIN info -> Entry]
         /\ \A x \in DOMAIN info : x # id => info2[x] = info[x]
         /\ info2[id].nRefCount = n /\ IsTried(info2, id) /\ HasSuccess(info2, id)
         /\ \A x \in DOMAIN info : /\ info2[x].addr = info[x].addr
                                   /\ info2[x].nRandomPos = info[x].nRandomPos
<1>1. /\ DOMAIN info2 = DOMAIN info /\ \A x \in DOMAIN info : x # id => info2[x] = info[x]
      /\ info2[id] = [info[id] EXCEPT !.nRefCount = n, !.fInTried = TRUE, !.fSuccess = TRUE]
      /\ info2 = [x \in DOMAIN info |-> info2[x]]
  BY DEF Rewrite
<1>2. info[id] \in Entry
  OBVIOUS
<1>3. /\ info2[id] \in Entry /\ info2[id].nRefCount = n /\ IsTried(info2, id)
      /\ HasSuccess(info2, id) /\ info2[id].addr = info[id].addr
      /\ info2[id].nRandomPos = info[id].nRandomPos
  BY <1>1, <1>2 DEF Entry, IsTried, HasSuccess
<1>4. info2 \in [DOMAIN info -> Entry]
  BY <1>1, <1>3
<1> QED BY <1>1, <1>3, <1>4

LEMMA GoodAgainInd ==
  ASSUME AddrManInv, NEW addr \in Addresses, GoodAgain(addr)
  PROVE  AddrManInv' /\ TriedStays
<1> DEFINE id == mapAddr[addr]
<1>1. /\ mapInfo' = [mapInfo EXCEPT ![id].fSuccess = TRUE]
      /\ UNCHANGED <<nIdCount, mapAddr, vRandom, nTried, vvTried, nNew, vvNew>>
      /\ addr \in DOMAIN mapAddr
  BY DEF GoodAgain, Known
<1>2. id \in Ids /\ mapInfo \in [Ids -> Entry] /\ DOMAIN mapInfo = Ids
  BY <1>1, PagesAre DEF AddrsOK
<1> HIDE DEF id
<1>3. /\ DOMAIN mapInfo' = Ids /\ \A x \in Ids : x # id => mapInfo'[x] = mapInfo[x]
      /\ mapInfo'[id] = [mapInfo[id] EXCEPT !.fSuccess = TRUE]
      /\ mapInfo' = [x \in Ids |-> mapInfo'[x]]
  BY <1>1, <1>2
<1>4. mapInfo[id] \in Entry
  BY <1>2
<1>5. /\ mapInfo'[id] \in Entry /\ HasSuccess(mapInfo', id)
      /\ mapInfo'[id].addr = mapInfo[id].addr /\ mapInfo'[id].nRandomPos = mapInfo[id].nRandomPos
      /\ mapInfo'[id].nRefCount = mapInfo[id].nRefCount
      /\ mapInfo'[id].fInTried = mapInfo[id].fInTried
  BY <1>3, <1>4 DEF Entry, HasSuccess
<1>6. mapInfo' \in [Ids -> Entry]
  BY <1>2, <1>3, <1>5
<1>7. \A x \in Ids : /\ mapInfo'[x].addr = mapInfo[x].addr
                     /\ mapInfo'[x].nRandomPos = mapInfo[x].nRandomPos
                     /\ mapInfo'[x].fInTried = mapInfo[x].fInTried
                     /\ mapInfo'[x].nRefCount = mapInfo[x].nRefCount
                     /\ mapInfo'[x].fSuccess = mapInfo[x].fSuccess \/ HasSuccess(mapInfo', x)
  BY <1>3, <1>5
<1>8. RandomOK(vRandom, mapInfo')
  BY ONLY <1>2, <1>3, <1>7, AddrManInv, PagesAre, SamePositions
<1>9. Alike(mapInfo, mapInfo')
  BY <1>2, <1>3, <1>7 DEF Alike
<1>10. /\ AddrsOK(mapAddr, mapInfo') /\ TriedOK(mapInfo', vvTried) /\ NewOK(mapInfo', vvNew)
       /\ CountsOK(mapInfo', vRandom, nTried, nNew)
       /\ \A x \in Ids : IsTried(mapInfo', x) <=> IsTried(mapInfo, x)
  BY ONLY <1>2, <1>9, AddrManInv, PagesAre, SameEntries
<1>11. TablesOK(mapInfo', vvNew, {})
  BY ONLY <1>2, <1>3, <1>7, <1>10, AddrManInv, PagesAre DEF TablesOK, HasSuccess
<1>12. Pages(mapInfo', vRandom, mapAddr, vvNew, nNew, vvTried, nTried, {})
  BY <1>3, <1>6, <1>8, <1>10, <1>11, PagesAre DEF Pages
<1>13. AddrManInv'
  BY <1>1, <1>2, <1>3, <1>12 DEF AddrManInv, Ids
<1>14. TriedKept(mapInfo, mapInfo')
  BY <1>2, <1>3, <1>7, <1>10 DEF TriedKept
<1> QED BY <1>1, <1>10, <1>13, <1>14, StaysIf

LEMMA GetAddrInd ==
  ASSUME AddrManInv, NEW p \in DOMAIN vRandom, NEW q \in DOMAIN vRandom, GetAddr(p, q)
  PROVE  AddrManInv' /\ TriedStays
<1> DEFINE s == SwapRandom(vRandom, mapInfo, p, q)
<1>1. /\ vRandom' = s.v /\ mapInfo' = s.info
      /\ UNCHANGED <<nIdCount, mapAddr, nTried, vvTried, nNew, vvNew>>
  BY DEF GetAddr
<1>2. DOMAIN mapInfo = Ids /\ mapInfo \in [Ids -> Entry] /\ RandomOK(vRandom, mapInfo)
      /\ p \in 1 .. Len(vRandom) /\ q \in 1 .. Len(vRandom)
  BY PagesAre DEF RandomOK
<1>3. /\ mapInfo' \in [Ids -> Entry] /\ \A x \in Ids : SameButPos(mapInfo'[x], mapInfo[x])
      /\ RandomOK(vRandom', mapInfo') /\ Len(vRandom') = Len(vRandom)
  <2>1. s = SwapRandom(vRandom, mapInfo, p, q)
    OBVIOUS
  <2> HIDE DEF s
  <2> QED BY ONLY <1>1, <1>2, <2>1, SwapStep
<1>4. Alike(mapInfo, mapInfo') /\ DOMAIN mapInfo' = Ids
  BY <1>2, <1>3 DEF Alike, SameButPos
<1>5. /\ AddrsOK(mapAddr, mapInfo') /\ TriedOK(mapInfo', vvTried) /\ NewOK(mapInfo', vvNew)
      /\ CountsOK(mapInfo', vRandom, nTried, nNew)
      /\ \A x \in Ids : IsTried(mapInfo', x) <=> IsTried(mapInfo, x)
  BY ONLY <1>2, <1>4, AddrManInv, PagesAre, SameEntries
<1>6. CountsOK(mapInfo', vRandom', nTried, nNew)
  BY <1>3, <1>5 DEF CountsOK
<1>7. TablesOK(mapInfo', vvNew, {})
  BY ONLY <1>2, <1>3, <1>4, <1>5, AddrManInv, PagesAre DEF TablesOK, SameButPos, HasSuccess
<1>8. Pages(mapInfo', vRandom', mapAddr, vvNew, nNew, vvTried, nTried, {})
  BY <1>3, <1>4, <1>5, <1>6, <1>7, PagesAre DEF Pages
<1>9. AddrManInv'
  BY <1>1, <1>4, <1>8 DEF AddrManInv, Ids
<1>10. TriedKept(mapInfo, mapInfo')
  BY <1>2, <1>3, <1>4, <1>5 DEF TriedKept, SameButPos
<1> QED BY <1>1, <1>5, <1>9, <1>10, StaysIf

(* an entry leaves all the buckets of new addresses *)
LEMMA TakenOutIs ==
  ASSUME AddrManInv, NEW id \in Ids
  PROVE  /\ HoldingBuckets(id) = BucketsOf(vvNew, id)
         /\ TakenOut(id) \in [NewBuckets -> SUBSET (Ids \ {id})]
         /\ BucketsOf(TakenOut(id), id) = {}
         /\ \A x : x # id => BucketsOf(TakenOut(id), x) = BucketsOf(vvNew, x)
         /\ \A b \in NewBuckets : /\ IsFiniteSet(TakenOut(id)[b])
                                  /\ Cardinality(TakenOut(id)[b]) \in Nat
                                  /\ Cardinality(TakenOut(id)[b]) <= NEW_BUCKET_SIZE
                                  /\ id \in vvNew[b] =>
                                       Cardinality(TakenOut(id)[b]) < NEW_BUCKET_SIZE
<1>1. /\ DOMAIN mapInfo = Ids /\ IsFiniteSet(Ids) /\ vvNew \in [NewBuckets -> SUBSET Ids]
      /\ \A b \in NewBuckets : Cardinality(vvNew[b]) <= NEW_BUCKET_SIZE
  BY PagesAre DEF NewOK
<1>2. ASSUME NEW b \in NewBuckets
      PROVE  /\ IsFiniteSet(TakenOut(id)[b]) /\ Cardinality(TakenOut(id)[b]) \in Nat
             /\ Cardinality(TakenOut(id)[b]) <= NEW_BUCKET_SIZE
             /\ id \in vvNew[b] => Cardinality(TakenOut(id)[b]) < NEW_BUCKET_SIZE
  <2>1. TakenOut(id)[b] = vvNew[b] \ {id} /\ vvNew[b] \in SUBSET Ids
    BY <1>1 DEF TakenOut
  <2>2. IsFiniteSet(vvNew[b]) /\ Cardinality(vvNew[b]) \in Nat
    BY <1>1, <2>1, FS_Subset, FS_CardinalityType
  <2>3. /\ IsFiniteSet(vvNew[b] \ {id})
        /\ Cardinality(vvNew[b] \ {id}) = IF id \in vvNew[b] THEN Cardinality(vvNew[b]) - 1
                                          ELSE Cardinality(vvNew[b])
    BY <2>2, FS_RemoveElement
  <2>4. Cardinality(vvNew[b] \ {id}) \in Nat
    BY <2>3, FS_CardinalityType
  <2>5. Cardinality(vvNew[b]) <= NEW_BUCKET_SIZE
    BY <1>1
  <2> QED BY ONLY <2>1, <2>2, <2>3, <2>4, <2>5, Sizes
<1>3. HoldingBuckets(id) = BucketsOf(vvNew, id) /\ BucketsOf(TakenOut(id), id) = {}
  BY DEF HoldingBuckets, BucketsOf, TakenOut
<1>4. \A x : x # id => BucketsOf(TakenOut(id), x) = BucketsOf(vvNew, x)
  BY DEF BucketsOf, TakenOut
<1>5. TakenOut(id) \in [NewBuckets -> SUBSET (Ids \ {id})]
  BY <1>1 DEF TakenOut
<1> QED BY <1>2, <1>3, <1>4, <1>5

(* what both forms of MakeTried write into the entry *)
Promoted(id) == Rewrite(mapInfo, id, mapInfo[id].nRefCount - Cardinality(HoldingBuckets(id)))

LEMMA MadeTried ==
  ASSUME AddrManInv, NEW addr \in DOMAIN mapAddr, ~IsTried(mapInfo, mapAddr[addr]),
         NEW id, id = mapAddr[addr], NEW info2, info2 = Promoted(id)
  PROVE  /\ id \in Ids /\ addr \in Addresses /\ ~IsTried(mapInfo, id) /\ mapInfo[id].addr = addr
         /\ DOMAIN info2 = Ids /\ info2 \in [Ids -> Entry] /\ RandomOK(vRandom, info2)
         /\ AddrsOK(mapAddr, info2)
         /\ \A x \in Ids : x # id => info2[x] = mapInfo[x]
         /\ info2[id].nRefCount = 0 /\ IsTried(info2, id) /\ HasSuccess(info2, id)
         /\ info2[id].addr = addr
<1>1. id \in Ids /\ addr \in Addresses /\ mapInfo[id].addr = addr /\ mapInfo \in [Ids -> Entry]
      /\ DOMAIN mapInfo = Ids
  BY PagesAre DEF AddrsOK
<1>2. ~IsTried(mapInfo, id)
  OBVIOUS
<1>3. mapInfo[id].nRefCount = Cardinality(HoldingBuckets(id)) /\ mapInfo[id].nRefCount \in Nat
  <2>1. mapInfo[id].nRefCount \in Nat
    BY <1>1 DEF Entry
  <2>2. HoldingBuckets(id) = BucketsOf(vvNew, id)
    BY <1>1, TakenOutIs
  <2>3. mapInfo[id].nRefCount = Cardinality(BucketsOf(vvNew, id))
    BY <1>1, PagesAre DEF TablesOK
  <2> QED BY ONLY <2>1, <2>2, <2>3
<1>4. info2 = Rewrite(mapInfo, id, 0)
  <2>1. mapInfo[id].nRefCount - Cardinality(HoldingBuckets(id)) = 0
    BY <1>3
  <2> QED BY <2>1 DEF Promoted
<1>5. /\ DOMAIN info2 = Ids /\ info2 \in [Ids -> Entry]
      /\ \A x \in Ids : x # id => info2[x] = mapInfo[x]
      /\ info2[id].nRefCount = 0 /\ IsTried(info2, id) /\ HasSuccess(info2, id)
      /\ \A x \in Ids : /\ info2[x].addr = mapInfo[x].addr
                        /\ info2[x].nRandomPos = mapInfo[x].nRandomPos
  <2>1. 0 \in Nat /\ mapInfo \in [DOMAIN mapInfo -> Entry] /\ id \in DOMAIN mapInfo
    BY <1>1
  <2>2. /\ DOMAIN info2 = DOMAIN mapInfo /\ info2 \in [DOMAIN mapInfo -> Entry]
        /\ \A x \in DOMAIN mapInfo : x # id => info2[x] = mapInfo[x]
        /\ info2[id].nRefCount = 0 /\ IsTried(info2, id) /\ HasSuccess(info2, id)
        /\ \A x \in DOMAIN mapInfo : /\ info2[x].addr = mapInfo[x].addr
                                     /\ info2[x].nRandomPos = mapInfo[x].nRandomPos
    BY ONLY <1>4, <2>1, Rewritten
  <2> QED BY <1>1, <2>2
<1>6. RandomOK(vRandom, info2)
  BY ONLY <1>1, <1>5, AddrManInv, PagesAre, SamePositions
<1>7. AddrsOK(mapAddr, info2)
  BY ONLY <1>1, <1>5, AddrManInv, PagesAre DEF AddrsOK
<1> QED BY <1>1, <1>2, <1>5, <1>6, <1>7

LEMMA MakeTriedInd ==
  ASSUME AddrManInv, NEW addr \in Addresses, MakeTried(addr)
  PROVE  AddrManInv' /\ TriedStays
<1> DEFINE id == mapAddr[addr]
           b == GetTriedBucket[addr]
<1>1. /\ addr \in DOMAIN mapAddr /\ ~mapInfo[id].fInTried
      /\ Cardinality(vvTried[b]) < TRIED_BUCKET_SIZE
      /\ vvNew' = TakenOut(id) /\ nNew' = nNew - 1
      /\ vvTried' = [vvTried EXCEPT ![b] = vvTried[b] \union {id}] /\ nTried' = nTried + 1
      /\ mapInfo' = Promoted(id)
      /\ nIdCount' = nIdCount /\ mapAddr' = mapAddr /\ vRandom' = vRandom
  BY DEF MakeTried, Known, Promoted, Rewrite
<1>2. b \in TriedBuckets
  BY AddrManAssumption
<1> HIDE DEF b
<1>3. /\ id \in Ids /\ addr \in Addresses /\ ~IsTried(mapInfo, id) /\ mapInfo[id].addr = addr
      /\ DOMAIN mapInfo' = Ids /\ mapInfo' \in [Ids -> Entry] /\ RandomOK(vRandom, mapInfo')
      /\ AddrsOK(mapAddr, mapInfo')
      /\ \A x \in Ids : x # id => mapInfo'[x] = mapInfo[x]
      /\ mapInfo'[id].nRefCount = 0 /\ IsTried(mapInfo', id) /\ HasSuccess(mapInfo', id)
      /\ mapInfo'[id].addr = addr
  <2>1. id = mapAddr[addr] /\ addr \in DOMAIN mapAddr /\ ~IsTried(mapInfo, mapAddr[addr])
        /\ mapInfo' = Promoted(id)
    BY <1>1 DEF IsTried
  <2> HIDE DEF id
  <2> QED BY ONLY <2>1, AddrManInv, MadeTried
<1> HIDE DEF id
<1>4. \A x \in Ids : IsTried(mapInfo', x) <=> x = id \/ IsTried(mapInfo, x)
  BY <1>3 DEF IsTried
<1>5. TablesOK(mapInfo', vvNew', {})
  <2>1. /\ BucketsOf(vvNew', id) = {} /\ \A x : x # id => BucketsOf(vvNew', x) = BucketsOf(vvNew, x)
    BY <1>1, <1>3, TakenOutIs
  <2>2. Cardinality(BucketsOf(vvNew', id)) = 0
    BY <2>1, FS_EmptySet
  <2>3. TablesOK(mapInfo, vvNew, {}) /\ DOMAIN mapInfo = Ids
    BY PagesAre
  <2> QED BY ONLY <1>3, <1>4, <2>1, <2>2, <2>3 DEF TablesOK, HasSuccess
<1>6. NewOK(mapInfo', vvNew')
  BY <1>1, <1>3, TakenOutIs DEF NewOK
<1>7. TriedOK(mapInfo', vvTried')
  <2>1. /\ TriedOK(mapInfo, vvTried) /\ DOMAIN mapInfo = Ids /\ IsFiniteSet(Ids)
    BY PagesAre
  <2>2. /\ vvTried'[b] = vvTried[b] \union {id} /\ DOMAIN vvTried' = TriedBuckets
        /\ \A c \in TriedBuckets : c # b => vvTried'[c] = vvTried[c]
        /\ vvTried' = [c \in TriedBuckets |-> vvTried'[c]]
    BY <1>1, <1>2, <2>1 DEF TriedOK
  <2>3. id \notin vvTried[b] /\ vvTried[b] \in SUBSET Ids
    BY <1>2, <1>3, <2>1 DEF TriedOK
  <2>4. IsFiniteSet(vvTried[b]) /\ Cardinality(vvTried[b]) \in Nat
    BY <2>1, <2>3, FS_Subset, FS_CardinalityType
  <2>5. Cardinality(vvTried[b] \union {id}) = Cardinality(vvTried[b]) + 1
    BY <2>3, <2>4, FS_AddElement
  <2>6. Cardinality(vvTried'[b]) <= TRIED_BUCKET_SIZE
    <3>1. Cardinality(vvTried[b]) < TRIED_BUCKET_SIZE /\ vvTried'[b] = vvTried[b] \union {id}
      BY <1>1, <2>2
    <3> QED BY ONLY <2>4, <2>5, <3>1, Sizes
  <2>7. \A x \in Ids, c \in TriedBuckets :
          x \in vvTried'[c] <=> IsTried(mapInfo', x) /\ c = GetTriedBucket[mapInfo'[x].addr]
    BY <1>2, <1>3, <1>4, <2>1, <2>2 DEF TriedOK, b
  <2>8. vvTried' \in [TriedBuckets -> SUBSET Ids]
    BY <1>3, <2>1, <2>2, <2>3 DEF TriedOK
  <2> QED BY <1>3, <2>1, <2>2, <2>6, <2>7, <2>8 DEF TriedOK
<1>8. CountsOK(mapInfo', vRandom', nTried', nNew')
  <2>1. CountsOK(mapInfo, vRandom, nTried, nNew) /\ DOMAIN mapInfo = Ids /\ IsFiniteSet(Ids)
    BY PagesAre
  <2>2. TriedIn(mapInfo') = TriedIn(mapInfo) \union {id} /\ id \notin TriedIn(mapInfo)
        /\ TriedIn(mapInfo) \in SUBSET Ids
    BY <1>3, <1>4, <2>1 DEF TriedIn
  <2>3. IsFiniteSet(TriedIn(mapInfo))
    BY <2>1, <2>2, FS_Subset
  <2>4. Cardinality(TriedIn(mapInfo')) = Cardinality(TriedIn(mapInfo)) + 1
    BY <2>2, <2>3, FS_AddElement
  <2> QED BY <1>1, <1>3, <2>1, <2>4 DEF CountsOK
<1>9. AddrManInv'
  <2>1. Pages(mapInfo', vRandom', mapAddr', vvNew', nNew', vvTried', nTried', {})
    BY <1>1, <1>3, <1>5, <1>6, <1>7, <1>8, PagesAre DEF Pages
  <2> QED BY <1>1, <1>3, <2>1 DEF AddrManInv, Ids
<1>10. TriedKept(mapInfo, mapInfo')
  BY <1>3, <1>4, PagesAre DEF TriedKept
<1> QED BY <1>1, <1>3, <1>9, <1>10, StaysIf

(* the entry that gives way in the bucket of tried addresses *)
Demoted(info, old) == [info EXCEPT ![old].fInTried = FALSE, ![old].nRefCount = 1]

LEMMA DemotedIs ==
  ASSUME NEW info, info \in [DOMAIN info -> Entry], NEW old \in DOMAIN info,
         NEW info2, info2 = Demoted(info, old)
  PROVE  /\ DOMAIN info2 = DOMAIN info /\ info2 \in [DOMAIN info -> Entry]
         /\ \A x \in DOMAIN info : x # old => info2[x] = info[x]
         /\ info2[old].nRefCount = 1 /\ ~IsTried(info2, old)
         /\ \A x \in DOMAIN info : /\ info2[x].addr = info[x].addr
                                   /\ info2[x].nRandomPos = info[x].nRandomPos
<1>1. /\ DOMAIN info2 = DOMAIN info /\ \A x \in DOMAIN info : x # old => info2[x] = info[x]
      /\ info2[old] = [info[old] EXCEPT !.fInTried = FALSE, !.nRefCount = 1]
      /\ info2 = [x \in DOMAIN info |-> info2[x]]
  BY DEF Demoted
<1>2. info[old] \in Entry
  OBVIOUS
<1>3. /\ info2[old] \in Entry /\ info2[old].nRefCount = 1 /\ ~IsTried(info2, old)
      /\ info2[old].addr = info[old].addr /\ info2[old].nRandomPos = info[old].nRandomPos
  <2> DEFINE e == info[old]
             e2 == [e EXCEPT !.fInTried = FALSE, !.nRefCount = 1]
  <2>1. e2 \in Entry
    BY <1>2 DEF Entry
  <2>2. e2.nRefCount = 1 /\ e2.addr = e.addr /\ e2.nRandomPos = e.nRandomPos
    BY <1>2 DEF Entry
  <2>3. e2.fInTried = FALSE
    BY <1>2, Zenon DEF Entry
  <2>4. info2[old] = e2
    BY <1>1
  <2> QED BY ONLY <2>1, <2>2, <2>3, <2>4 DEF IsTried
<1>4. info2 \in [DOMAIN info -> Entry]
  BY <1>1, <1>3
<1> QED BY <1>1, <1>3, <1>4

LEMMA EvictingEntries ==
  ASSUME AddrManInv, NEW addr \in DOMAIN mapAddr, ~IsTried(mapInfo, mapAddr[addr]),
         NEW id, id = mapAddr[addr], NEW old \in Ids, IsTried(mapInfo, old),
         NEW info2, info2 = Demoted(Promoted(id), old)
  PROVE  /\ id \in Ids /\ addr \in Addresses /\ mapInfo[id].addr = addr /\ id # old
         /\ DOMAIN info2 = Ids /\ info2 \in [Ids -> Entry] /\ RandomOK(vRandom, info2)
         /\ AddrsOK(mapAddr, info2)
         /\ \A x \in Ids : x # id /\ x # old => info2[x] = mapInfo[x]
         /\ \A x \in Ids : info2[x].addr = mapInfo[x].addr
         /\ info2[id].nRefCount = 0 /\ HasSuccess(info2, id) /\ info2[old].nRefCount = 1
         /\ \A x \in Ids : IsTried(info2, x) <=> x = id \/ (IsTried(mapInfo, x) /\ x # old)
<1> DEFINE mid == Promoted(id)
<1>1. /\ id \in Ids /\ addr \in Addresses /\ ~IsTried(mapInfo, id) /\ mapInfo[id].addr = addr
      /\ DOMAIN mid = Ids /\ mid \in [Ids -> Entry] /\ RandomOK(vRandom, mid)
      /\ AddrsOK(mapAddr, mid)
      /\ \A x \in Ids : x # id => mid[x] = mapInfo[x]
      /\ mid[id].nRefCount = 0 /\ IsTried(mid, id) /\ HasSuccess(mid, id)
      /\ mid[id].addr = addr
  <2>1. mid = Promoted(id)
    OBVIOUS
  <2> HIDE DEF mid
  <2> QED BY <2>1, MadeTried
<1>2. info2 = Demoted(mid, old) /\ old \in DOMAIN mid
  BY <1>1
<1> HIDE DEF mid
<1>3. mid \in [DOMAIN mid -> Entry]
  BY <1>1
<1>4. /\ DOMAIN info2 = DOMAIN mid /\ info2 \in [DOMAIN mid -> Entry]
      /\ \A x \in DOMAIN mid : x # old => info2[x] = mid[x]
      /\ info2[old].nRefCount = 1 /\ ~IsTried(info2, old)
      /\ \A x \in DOMAIN mid : info2[x].addr = mid[x].addr /\ info2[x].nRandomPos = mid[x].nRandomPos
  BY ONLY <1>2, <1>3, DemotedIs
<1>5. RandomOK(vRandom, info2)
  BY ONLY <1>1, <1>4, SamePositions
<1>6. AddrsOK(mapAddr, info2)
  BY ONLY <1>1, <1>4 DEF AddrsOK
<1>7. id # old
  BY <1>1
<1>8. info2[id].nRefCount = 0 /\ HasSuccess(info2, id) /\ IsTried(info2, id)
  BY <1>1, <1>4, <1>7 DEF HasSuccess, IsTried
<1>9. \A x \in Ids : x # id /\ x # old => info2[x] = mapInfo[x]
  BY <1>1, <1>4
<1>10. \A x \in Ids : IsTried(info2, x) <=> x = id \/ (IsTried(mapInfo, x) /\ x # old)
  <2> TAKE x \in Ids
  <2>1. CASE x = id
    BY <1>8, <2>1
  <2>2. CASE x = old
    BY <1>4, <1>7, <2>2
  <2>3. CASE x # id /\ x # old
    BY <1>9, <2>3 DEF IsTried
  <2> QED BY <2>1, <2>2, <2>3
<1>11. \A x \in Ids : info2[x].addr = mapInfo[x].addr
  BY <1>1, <1>4
<1> QED BY <1>1, <1>4, <1>5, <1>6, <1>7, <1>8, <1>9, <1>10, <1>11

LEMMA MakeTriedEvictingInd ==
  ASSUME AddrManInv, NEW addr \in Addresses, MakeTriedEvicting(addr)
  PROVE  AddrManInv' /\ TriedStays
<1> DEFINE id == mapAddr[addr]
           b == GetTriedBucket[addr]
<1>1. PICK origin \in HoldingBuckets(id), old \in vvTried[b] :
        /\ vvNew' = [TakenOut(id) EXCEPT ![BackTo(id, old, origin)] = @ \union {old}]
        /\ vvTried' = [vvTried EXCEPT ![b] = (vvTried[b] \ {old}) \union {id}]
        /\ mapInfo' = [mapInfo EXCEPT
                         ![id].nRefCount = @ - Cardinality(HoldingBuckets(id)),
                         ![id].fInTried = TRUE, ![id].fSuccess = TRUE,
                         ![old].fInTried = FALSE, ![old].nRefCount = 1]
  BY DEF MakeTriedEvicting, SelectTried
<1>2. /\ addr \in DOMAIN mapAddr /\ ~IsTried(mapInfo, id)
      /\ UNCHANGED <<nIdCount, mapAddr, vRandom, nTried, nNew>>
  BY DEF MakeTriedEvicting, Known, IsTried
<1>3. b \in TriedBuckets
  BY AddrManAssumption
<1>4. old \in Ids /\ IsTried(mapInfo, old) /\ b = GetTriedBucket[mapInfo[old].addr]
  BY <1>3, PagesAre DEF TriedOK
<1>5. mapInfo' = Demoted(Promoted(id), old)
  BY <1>1 DEF Demoted, Promoted, Rewrite
<1> DEFINE back == BackTo(id, old, origin)
<1>6. /\ id \in Ids /\ addr \in Addresses /\ mapInfo[id].addr = addr /\ id # old
      /\ DOMAIN mapInfo' = Ids /\ mapInfo' \in [Ids -> Entry] /\ RandomOK(vRandom, mapInfo')
      /\ AddrsOK(mapAddr, mapInfo')
      /\ \A x \in Ids : x # id /\ x # old => mapInfo'[x] = mapInfo[x]
      /\ \A x \in Ids : mapInfo'[x].addr = mapInfo[x].addr
      /\ mapInfo'[id].nRefCount = 0 /\ HasSuccess(mapInfo', id) /\ mapInfo'[old].nRefCount = 1
      /\ \A x \in Ids : IsTried(mapInfo', x) <=> x = id \/ (IsTried(mapInfo, x) /\ x # old)
  <2>1. id = mapAddr[addr]
    OBVIOUS
  <2> HIDE DEF id
  <2> QED BY ONLY <1>2, <1>4, <1>5, <2>1, AddrManInv, EvictingEntries
<1>7. back \in NewBuckets /\ Cardinality(TakenOut(id)[back]) < NEW_BUCKET_SIZE
  <2>1. origin \in NewBuckets /\ Cardinality(TakenOut(id)[origin]) < NEW_BUCKET_SIZE
    BY <1>6, TakenOutIs DEF HoldingBuckets
  <2>2. mapInfo[old] \in Entry
    BY <1>4, PagesAre
  <2>3. GetNewBucket[<<mapInfo[old].addr, mapInfo[old].source>>] \in NewBuckets
    BY <2>2, AddrManAssumption DEF Entry
  <2> QED BY <2>1, <2>3 DEF BackTo
<1>8. vvNew' = [TakenOut(id) EXCEPT ![back] = TakenOut(id)[back] \union {old}]
  BY <1>1
<1> HIDE DEF id, b, back
<1>9. /\ vvNew'[back] = TakenOut(id)[back] \union {old}
      /\ \A c \in NewBuckets : c # back => vvNew'[c] = TakenOut(id)[c]
      /\ vvNew' = [c \in NewBuckets |-> vvNew'[c]]
  BY <1>6, <1>7, <1>8, TakenOutIs
<1>10. BucketsOf(vvNew, old) = {}
  <2>1. Cardinality(BucketsOf(vvNew, old)) = 0
    BY <1>4, PagesAre DEF TablesOK
  <2> QED BY <2>1, BucketsFinite, FS_EmptySet
<1>11. TablesOK(mapInfo', vvNew', {})
  <2>1. /\ BucketsOf(TakenOut(id), id) = {} /\ BucketsOf(TakenOut(id), old) = {}
        /\ \A x : x # id => BucketsOf(TakenOut(id), x) = BucketsOf(vvNew, x)
    BY <1>6, <1>10, TakenOutIs
  <2>2. /\ \A x : x # old => BucketsOf(vvNew', x) = BucketsOf(TakenOut(id), x)
        /\ BucketsOf(vvNew', old) = {back}
    BY <1>7, <1>9, <2>1 DEF BucketsOf
  <2>3. Cardinality(BucketsOf(vvNew', id)) = 0 /\ Cardinality(BucketsOf(vvNew', old)) = 1
    BY <1>6, <2>1, <2>2, FS_EmptySet, FS_Singleton
  <2>4. TablesOK(mapInfo, vvNew, {}) /\ DOMAIN mapInfo = Ids
    BY PagesAre
  <2>5. ASSUME NEW x \in Ids
        PROVE  /\ mapInfo'[x].nRefCount = Cardinality(BucketsOf(vvNew', x))
               /\ IsTried(mapInfo', x) => HasSuccess(mapInfo', x) /\ mapInfo'[x].nRefCount = 0
               /\ ~IsTried(mapInfo', x) => /\ mapInfo'[x].nRefCount <= NEW_BUCKETS_PER_ADDRESS
                                           /\ mapInfo'[x].nRefCount >= 1
    <3>1. CASE x = id
      BY ONLY <1>6, <2>3, <3>1
    <3>2. CASE x = old
      BY ONLY <1>6, <2>3, <3>2, Sizes
    <3>3. CASE x # id /\ x # old
      <4>1. /\ mapInfo'[x] = mapInfo[x] /\ BucketsOf(vvNew', x) = BucketsOf(vvNew, x)
            /\ IsTried(mapInfo', x) <=> IsTried(mapInfo, x)
        BY <1>6, <2>1, <2>2, <3>3
      <4> QED BY <2>4, <4>1 DEF TablesOK, HasSuccess
    <3> QED BY <3>1, <3>2, <3>3
  <2> QED BY ONLY <1>6, <2>5 DEF TablesOK
<1>12. NewOK(mapInfo', vvNew')
  <2>1. \A c \in NewBuckets : vvNew'[c] \subseteq Ids
    BY <1>4, <1>6, <1>9, TakenOutIs
  <2>2. \A c \in NewBuckets : Cardinality(vvNew'[c]) <= NEW_BUCKET_SIZE
    <3> TAKE c \in NewBuckets
    <3>1. CASE c # back
      BY <1>6, <1>9, <3>1, TakenOutIs
    <3>2. CASE c = back
      <4>1. IsFiniteSet(TakenOut(id)[back]) /\ Cardinality(TakenOut(id)[back]) \in Nat
        BY <1>6, <1>7, TakenOutIs
      <4>2. old \notin TakenOut(id)[back]
        BY <1>7, <1>10 DEF BucketsOf, TakenOut
      <4>3. Cardinality(vvNew'[back]) = Cardinality(TakenOut(id)[back]) + 1
        BY <1>9, <4>1, <4>2, FS_AddElement
      <4> QED BY ONLY <1>7, <3>2, <4>1, <4>3, Sizes
    <3> QED BY <3>1, <3>2
  <2> QED BY <1>6, <1>9, <2>1, <2>2 DEF NewOK
<1>13. TriedOK(mapInfo', vvTried')
  <2>1. TriedOK(mapInfo, vvTried) /\ DOMAIN mapInfo = Ids /\ IsFiniteSet(Ids)
    BY PagesAre
  <2>2. /\ vvTried'[b] = (vvTried[b] \ {old}) \union {id} /\ DOMAIN vvTried' = TriedBuckets
        /\ \A c \in TriedBuckets : c # b => vvTried'[c] = vvTried[c]
        /\ vvTried' = [c \in TriedBuckets |-> vvTried'[c]]
    BY <1>1, <1>3, <2>1 DEF TriedOK
  <2>3. id \notin vvTried[b] /\ vvTried[b] \in SUBSET Ids /\ old \in vvTried[b]
    BY <1>1, <1>2, <1>3, <1>6, <2>1 DEF TriedOK
  <2>4. IsFiniteSet(vvTried[b]) /\ Cardinality(vvTried[b]) \in Nat
    BY <2>1, <2>3, FS_Subset, FS_CardinalityType
  <2>5. IsFiniteSet(vvTried[b] \ {old}) /\ Cardinality(vvTried[b] \ {old}) = Cardinality(vvTried[b]) - 1
    BY <2>3, <2>4, FS_RemoveElement
  <2>6. Cardinality(vvTried'[b]) = Cardinality(vvTried[b] \ {old}) + 1
    BY <2>2, <2>3, <2>5, FS_AddElement
  <2>7. Cardinality(vvTried'[b]) <= TRIED_BUCKET_SIZE
    <3>1. Cardinality(vvTried[b]) <= TRIED_BUCKET_SIZE
      BY <1>3, <2>1 DEF TriedOK
    <3> QED BY ONLY <2>4, <2>5, <2>6, <3>1, Sizes
  <2>8. \A x \in Ids, c \in TriedBuckets :
          x \in vvTried'[c] <=> IsTried(mapInfo', x) /\ c = GetTriedBucket[mapInfo'[x].addr]
    <3> TAKE x \in Ids, c \in TriedBuckets
    <3>1. x \in vvTried[c] <=> IsTried(mapInfo, x) /\ c = GetTriedBucket[mapInfo[x].addr]
      BY <2>1 DEF TriedOK
    <3>2. b = GetTriedBucket[mapInfo[id].addr] /\ mapInfo'[x].addr = mapInfo[x].addr
      BY <1>6 DEF b
    <3>3. CASE x = id
      BY ONLY <1>6, <2>2, <2>3, <3>1, <3>2, <3>3, <1>2, c \in TriedBuckets
    <3>4. CASE x = old
      <4>1. c # b => x \notin vvTried'[c]
        BY <1>4, <2>2, <3>1, <3>4
      <4>2. x \notin vvTried'[b] /\ ~IsTried(mapInfo', x)
        BY <1>6, <2>2, <3>4
      <4> QED BY <4>1, <4>2
    <3>5. CASE x # id /\ x # old
      <4>1. IsTried(mapInfo', x) <=> IsTried(mapInfo, x)
        BY <1>6, <3>5
      <4>2. x \in vvTried'[c] <=> x \in vvTried[c]
        BY <2>2, <3>5
      <4> QED BY <3>1, <3>2, <4>1, <4>2
    <3> QED BY <3>3, <3>4, <3>5
  <2>9. vvTried' \in [TriedBuckets -> SUBSET Ids]
    BY <1>6, <2>1, <2>2, <2>3 DEF TriedOK
  <2> QED BY <1>6, <2>1, <2>2, <2>7, <2>8, <2>9 DEF TriedOK
<1>14. CountsOK(mapInfo', vRandom, nTried, nNew)
  <2>1. CountsOK(mapInfo, vRandom, nTried, nNew) /\ DOMAIN mapInfo = Ids /\ IsFiniteSet(Ids)
    BY PagesAre
  <2>2. TriedIn(mapInfo') = (TriedIn(mapInfo) \ {old}) \union {id} /\ id \notin TriedIn(mapInfo)
        /\ TriedIn(mapInfo) \in SUBSET Ids /\ old \in TriedIn(mapInfo)
    BY <1>2, <1>4, <1>6, <2>1 DEF TriedIn
  <2>3. IsFiniteSet(TriedIn(mapInfo)) /\ Cardinality(TriedIn(mapInfo)) \in Nat
    BY <2>1, <2>2, FS_Subset, FS_CardinalityType
  <2>4. /\ IsFiniteSet(TriedIn(mapInfo) \ {old})
        /\ Cardinality(TriedIn(mapInfo) \ {old}) = Cardinality(TriedIn(mapInfo)) - 1
    BY <2>2, <2>3, FS_RemoveElement
  <2>5. Cardinality(TriedIn(mapInfo')) = Cardinality(TriedIn(mapInfo) \ {old}) + 1
    BY <2>2, <2>4, FS_AddElement
  <2> QED BY <1>6, <2>1, <2>3, <2>4, <2>5 DEF CountsOK
<1>15. AddrManInv'
  <2>1. Pages(mapInfo', vRandom, mapAddr, vvNew', nNew, vvTried', nTried, {})
    BY <1>6, <1>11, <1>12, <1>13, <1>14, PagesAre DEF Pages
  <2> QED BY <1>2, <1>6, <2>1, PagesAre DEF AddrManInv, Ids
<1>16. TriedStays
  <2> SUFFICES ASSUME NEW a \in DOMAIN mapAddr, mapInfo[mapAddr[a]].fInTried
               PROVE  mapInfo'[mapAddr[a]].fInTried \/ mapInfo'[mapAddr[a]].nRefCount = 1
    BY <1>2 DEF TriedStays
  <2>1. mapAddr[a] \in Ids /\ mapInfo[mapAddr[a]] \in Entry
    BY PagesAre DEF AddrsOK
  <2>2. IsTried(mapInfo, mapAddr[a])
    BY <2>1 DEF IsTried, Entry
  <2>3. IsTried(mapInfo', mapAddr[a]) \/ mapInfo'[mapAddr[a]].nRefCount = 1
    BY <1>6, <2>1, <2>2
  <2> QED BY <2>3 DEF IsTried
<1> QED BY <1>15, <1>16

-----------------------------------------------------------------------------
(* Reading the file again                                                  *)

LEMMA EarlierIs ==
  ASSUME AddrManInv, NEW x \in Ids, NEW y \in Ids
  PROVE  Earlier(x, y) <=> \/ (IsTried(mapInfo, x) <=> IsTried(mapInfo, y)) /\ y < x
                           \/ IsTried(mapInfo, x) /\ ~IsTried(mapInfo, y)
<1>1. mapInfo[x] \in Entry /\ mapInfo[y] \in Entry
  BY PagesAre
<1>2. mapInfo[x].fInTried \in BOOLEAN /\ mapInfo[y].fInTried \in BOOLEAN
  BY <1>1 DEF Entry
<1> QED BY <1>2, Zenon DEF Earlier, IsTried

(* the order in which the entries are written is total and has no cycle *)
LEMMA EarlierOrders ==
  ASSUME AddrManInv, NEW x \in Ids, NEW y \in Ids
  PROVE  /\ ~Earlier(x, x)
         /\ x # y => Earlier(x, y) \/ Earlier(y, x)
         /\ \A z \in Ids : Earlier(x, y) /\ Earlier(y, z) => Earlier(x, z)
<1>1. \A z \in Ids : z \in Int
  BY PagesAre
<1>2. ~Earlier(x, x)
  BY <1>1, EarlierIs
<1>3. x # y => Earlier(x, y) \/ Earlier(y, x)
  <2>1. x # y => x < y \/ y < x
    BY <1>1
  <2> QED BY <2>1, EarlierIs
<1>4. ASSUME NEW z \in Ids, Earlier(x, y), Earlier(y, z)
      PROVE  Earlier(x, z)
  <2>1. y < x /\ z < y => z < x
    BY <1>1
  <2>2. /\ \/ (IsTried(mapInfo, x) <=> IsTried(mapInfo, y)) /\ y < x
           \/ IsTried(mapInfo, x) /\ ~IsTried(mapInfo, y)
        /\ \/ (IsTried(mapInfo, y) <=> IsTried(mapInfo, z)) /\ z < y
           \/ IsTried(mapInfo, y) /\ ~IsTried(mapInfo, z)
    BY <1>4, EarlierIs
  <2>3. \/ (IsTried(mapInfo, x) <=> IsTried(mapInfo, z)) /\ z < x
        \/ IsTried(mapInfo, x) /\ ~IsTried(mapInfo, z)
    BY ONLY <2>1, <2>2
  <2> QED BY <2>3, EarlierIs
<1> QED BY <1>2, <1>3, <1>4

Before(id) == {other \in Ids : Earlier(id, other)}

LEMMA NewIdGrows ==
  ASSUME AddrManInv, NEW x \in Ids, NEW y \in Ids
  PROVE  /\ NewId(x) \in 0 .. Cardinality(Ids) - 1
         /\ Earlier(y, x) => NewId(x) < NewId(y)
<1>1. IsFiniteSet(Ids)
  BY PagesAre
<1>2. ASSUME NEW z \in Ids, NEW S \in SUBSET Ids, Before(z) \subseteq S, z \in S
      PROVE  NewId(z) \in Nat /\ Cardinality(S) \in Nat /\ NewId(z) < Cardinality(S)
  <2>1. IsFiniteSet(S) /\ Cardinality(S) \in Nat
    BY <1>1, FS_Subset, FS_CardinalityType
  <2>2. IsFiniteSet(S \ {z}) /\ Cardinality(S \ {z}) = Cardinality(S) - 1
    BY <1>2, <2>1, FS_RemoveElement
  <2>3. Before(z) \in SUBSET (S \ {z})
    BY <1>2, EarlierOrders DEF Before
  <2>4. IsFiniteSet(Before(z)) /\ Cardinality(Before(z)) <= Cardinality(S \ {z})
    BY <2>2, <2>3, FS_Subset
  <2>5. Cardinality(Before(z)) \in Nat /\ NewId(z) = Cardinality(Before(z))
    BY <2>4, FS_CardinalityType DEF NewId, Before
  <2> QED BY ONLY <2>1, <2>2, <2>4, <2>5
<1>3. NewId(x) \in 0 .. Cardinality(Ids) - 1
  <2>1. NewId(x) \in Nat /\ Cardinality(Ids) \in Nat /\ NewId(x) < Cardinality(Ids)
    BY <1>2 DEF Before
  <2> QED BY <2>1
<1>4. ASSUME Earlier(y, x) PROVE NewId(x) < NewId(y)
  <2>1. Before(y) \in SUBSET Ids /\ Before(x) \subseteq Before(y) /\ x \in Before(y)
    BY <1>4, EarlierOrders DEF Before
  <2>2. NewId(y) = Cardinality(Before(y))
    BY DEF NewId, Before
  <2> QED BY <1>2, <2>1, <2>2
<1> QED BY <1>3, <1>4

(* so the entries are numbered 0, 1, ..., each number given once *)
LEMMA NewIdIsOneToOne ==
  ASSUME AddrManInv
  PROVE  /\ Cardinality(Ids) \in Nat
         /\ \A x \in Ids : NewId(x) \in 0 .. Cardinality(Ids) - 1 /\ OldId(NewId(x)) = x
         /\ \A k \in 0 .. Cardinality(Ids) - 1 : OldId(k) \in Ids /\ NewId(OldId(k)) = k
<1> DEFINE n == Cardinality(Ids)
           f == [x \in Ids |-> NewId(x)]
<1>1. IsFiniteSet(Ids) /\ n \in Nat
  BY PagesAre, FS_CardinalityType
<1>2. IsFiniteSet(0 .. n - 1) /\ Cardinality(0 .. n - 1) = n
  BY <1>1, FS_Interval
<1>3. \A x, y \in Ids : NewId(x) = NewId(y) => x = y
  <2> SUFFICES ASSUME NEW x \in Ids, NEW y \in Ids, x # y PROVE NewId(x) # NewId(y)
    OBVIOUS
  <2>1. NewId(x) \in Int /\ NewId(y) \in Int
    BY <1>1, NewIdGrows
  <2>2. NewId(x) < NewId(y) \/ NewId(y) < NewId(x)
    BY EarlierOrders, NewIdGrows
  <2> QED BY ONLY <2>1, <2>2
<1>4. f \in Injection(Ids, 0 .. n - 1)
  <2>1. f \in [Ids -> 0 .. n - 1] /\ \A x \in Ids : f[x] = NewId(x)
    BY NewIdGrows
  <2>2. \A x, y \in Ids : f[x] = f[y] => x = y
    BY <1>3, <2>1
  <2> HIDE DEF f
  <2> QED BY <2>1, <2>2 DEF Injection, IsInjective
<1>5. f \in Surjection(Ids, 0 .. n - 1)
  BY <1>2, <1>4, FS_Injection
<1>6. \A k \in 0 .. n - 1 : \E x \in Ids : NewId(x) = k
  BY <1>5 DEF Surjection
<1>7. \A k \in 0 .. n - 1 : OldId(k) \in Ids /\ NewId(OldId(k)) = k
  BY <1>6 DEF OldId
<1>8. \A x \in Ids : NewId(x) \in 0 .. n - 1
  BY NewIdGrows
<1>9. \A x \in Ids : OldId(NewId(x)) = x
  BY <1>3, <1>7, <1>8
<1> QED BY <1>1, <1>7, <1>8, <1>9

LEMMA SameNumber ==
  ASSUME NEW S, IsFiniteSet(S), NEW T, NEW to, NEW from,
         \A x \in S : to[x] \in T /\ from[to[x]] = x,
         \A y \in T : from[y] \in S /\ to[from[y]] = y
  PROVE  IsFiniteSet(T) /\ Cardinality(T) = Cardinality(S)
<1> DEFINE f == [x \in S |-> to[x]]
<1>1. f \in Bijection(S, T)
  <2>1. f \in [S -> T] /\ \A x \in S : f[x] = to[x]
    OBVIOUS
  <2>2. \A x, y \in S : f[x] = f[y] => x = y
    BY <2>1
  <2>3. \A y \in T : \E x \in S : f[x] = y
    BY <2>1
  <2> HIDE DEF f
  <2> QED BY <2>1, <2>2, <2>3 DEF Bijection, Injection, Surjection, IsInjective
<1>2. ExistsBijection(S, T)
  BY <1>1 DEF ExistsBijection
<1> QED BY <1>2, FS_Bijection

(* to and from take the old ids to the new ones and back *)
Renumbering(to, from, S, T) ==
  /\ to \in [S -> T] /\ from \in [T -> S]
  /\ \A x \in S : from[to[x]] = x
  /\ \A y \in T : to[from[y]] = y

(* the entries as they are read, with the new buckets that are read *)
ReadBack(info, from, new2, T) ==
  [k \in T |-> [info[from[k]] EXCEPT !.nRandomPos = k + 1,
                                     !.nRefCount = Cardinality(BucketsOf(new2, k))]]

LEMMA ReadBackIs ==
  ASSUME NEW info, info \in [DOMAIN info -> Entry], NEW n \in Nat, NEW to, NEW from,
         Renumbering(to, from, DOMAIN info, 0 .. n - 1), NEW new2,
         NEW info2, info2 = ReadBack(info, from, new2, 0 .. n - 1)
  PROVE  /\ DOMAIN info2 = 0 .. n - 1 /\ info2 \in [DOMAIN info2 -> Entry]
         /\ \A k \in 0 .. n - 1 :
              /\ info2[k].addr = info[from[k]].addr /\ info2[k].nRandomPos = k + 1
              /\ info2[k].nRefCount = Cardinality(BucketsOf(new2, k))
              /\ IsTried(info2, k) <=> IsTried(info, from[k])
              /\ HasSuccess(info2, k) <=> HasSuccess(info, from[k])
<1>1. /\ DOMAIN info2 = 0 .. n - 1 /\ info2 = [k \in 0 .. n - 1 |-> info2[k]]
      /\ \A k \in 0 .. n - 1 :
           info2[k] = [info[from[k]] EXCEPT !.nRandomPos = k + 1,
                                            !.nRefCount = Cardinality(BucketsOf(new2, k))]
  BY DEF ReadBack
<1>2. ASSUME NEW k \in 0 .. n - 1
      PROVE  /\ info2[k] \in Entry /\ info2[k].addr = info[from[k]].addr
             /\ info2[k].nRandomPos = k + 1
             /\ info2[k].nRefCount = Cardinality(BucketsOf(new2, k))
             /\ IsTried(info2, k) <=> IsTried(info, from[k])
             /\ HasSuccess(info2, k) <=> HasSuccess(info, from[k])
  <2> DEFINE e == info[from[k]]
             p == k + 1
             c == Cardinality(BucketsOf(new2, k))
  <2>1. e \in Entry
    BY DEF Renumbering
  <2>2. p \in Nat /\ c \in Nat
    BY BucketsFinite
  <2>3. info2[k] = [e EXCEPT !.nRandomPos = p, !.nRefCount = c]
    BY <1>1
  <2> HIDE DEF e, p, c
  <2>4. info2[k] \in Entry /\ info2[k].addr = e.addr /\ info2[k].nRandomPos = p
        /\ info2[k].nRefCount = c
    BY <2>1, <2>2, <2>3 DEF Entry
  <2>5. info2[k].fInTried = e.fInTried /\ info2[k].fSuccess = e.fSuccess
    BY <2>1, <2>3 DEF Entry
  <2> QED BY <2>4, <2>5 DEF e, p, c, IsTried, HasSuccess
<1>3. info2 \in [0 .. n - 1 -> Entry]
  BY <1>1, <1>2
<1> QED BY <1>1, <1>2, <1>3

LEMMA ReadBackPages ==
  ASSUME NEW info, NEW v, NEW known, NEW new, NEW nN, NEW tried, NEW nT,
         Pages(info, v, known, new, nN, tried, nT, {}),
         NEW n, n = Cardinality(DOMAIN info), NEW to, NEW from,
         Renumbering(to, from, DOMAIN info, 0 .. n - 1),
         NEW new2, new2 = [b \in NewBuckets |-> {to[x] : x \in new[b]}],
         NEW info2, info2 = ReadBack(info, from, new2, 0 .. n - 1),
         NEW known2, known2 = [a \in DOMAIN known |-> to[known[a]]],
         NEW v2, v2 = [k \in 1 .. n |-> k - 1],
         NEW tried2, tried2 \in [TriedBuckets -> SUBSET (0 .. n - 1)],
         \A b \in TriedBuckets, k \in 0 .. n - 1 :
           k \in tried2[b] <=> IsTried(info, from[k]) /\ b = GetTriedBucket[info[from[k]].addr]
  PROVE  Pages(info2, v2, known2, new2, nN, tried2, nT, {})
<1> DEFINE T == 0 .. n - 1
<1>1. /\ info \in [DOMAIN info -> Entry] /\ IsFiniteSet(DOMAIN info)
      /\ RandomOK(v, info) /\ AddrsOK(known, info)
      /\ TablesOK(info, new, {}) /\ TriedOK(info, tried) /\ NewOK(info, new)
      /\ CountsOK(info, v, nT, nN)
  BY DEF Pages
<1>2. n \in Nat
  BY <1>1, FS_CardinalityType
<1>3. /\ DOMAIN info2 = T /\ info2 \in [DOMAIN info2 -> Entry]
      /\ \A k \in T :
           /\ info2[k].addr = info[from[k]].addr /\ info2[k].nRandomPos = k + 1
           /\ info2[k].nRefCount = Cardinality(BucketsOf(new2, k))
           /\ IsTried(info2, k) <=> IsTried(info, from[k])
           /\ HasSuccess(info2, k) <=> HasSuccess(info, from[k])
  BY <1>1, <1>2, ReadBackIs
<1>4. /\ \A x \in DOMAIN info : to[x] \in T /\ from[to[x]] = x
      /\ \A k \in T : from[k] \in DOMAIN info /\ to[from[k]] = k
  BY DEF Renumbering
<1>5. IsFiniteSet(T) /\ Cardinality(T) = n
  BY <1>2, FS_Interval
<1> HIDE DEF T
<1>6. RandomOK(v2, info2)
  <2>1. Len(v2) = n /\ v2 \in [1 .. n -> T] /\ \A p \in 1 .. n : v2[p] = p - 1 /\ v2[p] \in T
    BY <1>2 DEF T
  <2>2. v2 \in Seq(T)
    BY <1>2, <2>1
  <2>3. \A k \in T : k + 1 \in 1 .. n /\ v2[k + 1] = k
    BY <1>2, <2>1 DEF T
  <2>4. \A p \in 1 .. n : info2[v2[p]].nRandomPos = p
    BY <1>2, <1>3, <2>1
  <2>5. \A k \in T : info2[k].nRandomPos \in 1 .. n /\ v2[info2[k].nRandomPos] = k
    <3> TAKE k \in T
    <3>1. info2[k].nRandomPos = k + 1
      BY <1>3
    <3> QED BY ONLY k \in T, <2>3, <3>1
  <2> QED BY ONLY <1>3, <2>1, <2>2, <2>4, <2>5 DEF RandomOK
<1>7. AddrsOK(known2, info2)
  <2>1. /\ DOMAIN known2 = DOMAIN known /\ DOMAIN known \subseteq Addresses
        /\ \A a \in DOMAIN known : known2[a] = to[known[a]] /\ known[a] \in DOMAIN info
    BY <1>1 DEF AddrsOK
  <2>2. ASSUME NEW a \in DOMAIN known
        PROVE  known2[a] \in T /\ info2[known2[a]].addr = a
    <3>1. known2[a] = to[known[a]] /\ known[a] \in DOMAIN info /\ info[known[a]].addr = a
      BY <1>1, <2>1 DEF AddrsOK
    <3>2. known2[a] \in T /\ from[known2[a]] = known[a]
      BY ONLY <1>4, <3>1
    <3> QED BY ONLY <1>3, <3>1, <3>2
  <2>3. \A k \in T : info2[k].addr \in DOMAIN known /\ known2[info2[k].addr] = k
    BY <1>1, <1>3, <1>4, <2>1 DEF AddrsOK
  <2>4. known2 \in [DOMAIN known -> T]
    BY <2>1, <2>2
  <2> QED BY <1>3, <2>1, <2>2, <2>3, <2>4 DEF AddrsOK
<1>8. /\ \A b \in NewBuckets : new[b] \in SUBSET DOMAIN info
      /\ \A b \in NewBuckets : new2[b] = {to[x] : x \in new[b]}
  BY <1>1 DEF NewOK
<1>9. \A k \in T : BucketsOf(new2, k) = BucketsOf(new, from[k])
  <2>1. ASSUME NEW k \in T, NEW b \in NewBuckets
        PROVE  k \in new2[b] <=> from[k] \in new[b]
    <3>1. ASSUME k \in new2[b] PROVE from[k] \in new[b]
      <4>1. PICK x \in new[b] : k = to[x]
        BY <1>8, <3>1
      <4> QED BY <1>4, <1>8, <4>1
    <3>2. ASSUME from[k] \in new[b] PROVE k \in new2[b]
      <4>1. to[from[k]] = k
        BY <1>4
      <4> QED BY <1>8, <3>2, <4>1
    <3> QED BY <3>1, <3>2
  <2> QED BY <2>1 DEF BucketsOf
<1>10. TablesOK(info2, new2, {})
  <2>1. ASSUME NEW k \in T
        PROVE  /\ IsTried(info2, k) => HasSuccess(info2, k) /\ info2[k].nRefCount = 0
               /\ ~IsTried(info2, k) => /\ info2[k].nRefCount <= NEW_BUCKETS_PER_ADDRESS
                                        /\ info2[k].nRefCount >= 1
    <3>1. from[k] \in DOMAIN info
      BY <1>4
    <3>2. info2[k].nRefCount = info[from[k]].nRefCount
      BY <1>1, <1>3, <1>9, <3>1 DEF TablesOK
    <3> QED BY <1>1, <1>3, <3>1, <3>2 DEF TablesOK
  <2> QED BY <1>3, <2>1 DEF TablesOK
<1>11. NewOK(info2, new2)
  <2>1. ASSUME NEW b \in NewBuckets
        PROVE  new2[b] \subseteq T /\ Cardinality(new2[b]) <= NEW_BUCKET_SIZE
    <3>1. new2[b] \subseteq T
      BY <1>4, <1>8
    <3>2. IsFiniteSet(new[b]) /\ Cardinality(new[b]) <= NEW_BUCKET_SIZE
      BY <1>1, <1>8, FS_Subset DEF NewOK
    <3>3. \A x \in new[b] : to[x] \in new2[b] /\ from[to[x]] = x
      BY <1>4, <1>8
    <3>4. \A k \in new2[b] : from[k] \in new[b] /\ to[from[k]] = k
      <4> TAKE k \in new2[b]
      <4>1. PICK x \in new[b] : k = to[x]
        BY <1>8
      <4> QED BY <1>4, <1>8, <4>1
    <3>5. Cardinality(new2[b]) = Cardinality(new[b])
      BY ONLY <3>2, <3>3, <3>4, SameNumber
    <3> QED BY <3>1, <3>2, <3>5
  <2>2. new2 \in [NewBuckets -> SUBSET T]
    BY <2>1
  <2> QED BY <1>3, <2>1, <2>2 DEF NewOK
<1>12. TriedOK(info2, tried2)
  <2>1. \A k \in T, b \in TriedBuckets :
          k \in tried2[b] <=> IsTried(info2, k) /\ b = GetTriedBucket[info2[k].addr]
    BY <1>3 DEF T
  <2>2. ASSUME NEW b \in TriedBuckets PROVE Cardinality(tried2[b]) <= TRIED_BUCKET_SIZE
    <3>1. /\ tried[b] \in SUBSET DOMAIN info /\ Cardinality(tried[b]) <= TRIED_BUCKET_SIZE
          /\ \A x \in DOMAIN info :
               x \in tried[b] <=> IsTried(info, x) /\ b = GetTriedBucket[info[x].addr]
      BY <1>1 DEF TriedOK
    <3>2. IsFiniteSet(tried[b])
      BY <1>1, <3>1, FS_Subset
    <3>3. tried2[b] \subseteq T
      BY DEF T
    <3>4. \A k \in T : k \in tried2[b] <=> from[k] \in tried[b]
      BY <1>4, <3>1 DEF T
    <3>5. \A x \in tried[b] : to[x] \in tried2[b] /\ from[to[x]] = x
      BY <1>4, <3>1, <3>4
    <3>6. \A k \in tried2[b] : from[k] \in tried[b] /\ to[from[k]] = k
      BY <1>4, <3>3, <3>4
    <3>7. Cardinality(tried2[b]) = Cardinality(tried[b])
      BY ONLY <3>2, <3>5, <3>6, SameNumber
    <3> QED BY <3>1, <3>7
  <2> QED BY <1>3, <2>1, <2>2 DEF TriedOK, T
<1>13. CountsOK(info2, v2, nT, nN)
  <2>1. Len(v2) = n
    BY <1>2
  <2>2. TriedIn(info) \in SUBSET DOMAIN info /\ IsFiniteSet(TriedIn(info))
    BY <1>1, FS_Subset DEF TriedIn
  <2>3. \A x \in TriedIn(info) : to[x] \in TriedIn(info2) /\ from[to[x]] = x
    BY <1>3, <1>4 DEF TriedIn
  <2>4. \A k \in TriedIn(info2) : from[k] \in TriedIn(info) /\ to[from[k]] = k
    BY <1>3, <1>4 DEF TriedIn
  <2>5. Cardinality(TriedIn(info2)) = Cardinality(TriedIn(info))
    BY ONLY <2>2, <2>3, <2>4, SameNumber
  <2> QED BY <1>1, <1>3, <1>5, <2>1, <2>5 DEF CountsOK
<1> QED BY <1>3, <1>5, <1>6, <1>7, <1>10, <1>11, <1>12, <1>13 DEF Pages

LEMMA ReloadInd ==
  ASSUME AddrManInv, Reload
  PROVE  AddrManInv' /\ TriedStays
<1> DEFINE n == Cardinality(Ids)
           T == 0 .. n - 1
           to == [x \in Ids |-> NewId(x)]
           from == [k \in T |-> OldId(k)]
           again == [b \in NewBuckets |-> {NewId(x) : x \in vvNew[b]}]
<1>1. /\ nIdCount' = n
      /\ mapInfo' = [k \in T |->
                       [mapInfo[OldId(k)] EXCEPT !.nRandomPos = k + 1,
                          !.nRefCount = Cardinality({b \in NewBuckets : k \in again[b]})]]
      /\ mapAddr' = [a \in DOMAIN mapAddr |-> NewId(mapAddr[a])]
      /\ vRandom' = [k \in 1 .. n |-> k - 1]
      /\ vvNew' = again
      /\ vvTried' = [b \in TriedBuckets |->
                       {k \in {j \in T : mapInfo[OldId(j)].fInTried} :
                          GetTriedBucket[mapInfo[OldId(k)].addr] = b}]
      /\ nTried' = nTried /\ nNew' = nNew
  BY DEF Reload
<1>2. /\ n \in Nat
      /\ \A x \in Ids : NewId(x) \in T /\ OldId(NewId(x)) = x
      /\ \A k \in T : OldId(k) \in Ids /\ NewId(OldId(k)) = k
  BY NewIdIsOneToOne
<1>3. Renumbering(to, from, Ids, T)
  BY <1>2 DEF Renumbering
<1>4. /\ mapInfo \in [Ids -> Entry] /\ DOMAIN mapInfo = Ids /\ AddrsOK(mapAddr, mapInfo)
      /\ NewOK(mapInfo, vvNew)
  BY PagesAre
<1>5. vvNew' = [b \in NewBuckets |-> {to[x] : x \in vvNew[b]}]
  <2>1. \A b \in NewBuckets : vvNew[b] \subseteq Ids
    BY <1>4 DEF NewOK
  <2> QED BY <1>1, <2>1
<1>6. mapInfo' = ReadBack(mapInfo, from, vvNew', T)
  BY <1>1 DEF ReadBack, BucketsOf
<1>7. mapAddr' = [a \in DOMAIN mapAddr |-> to[mapAddr[a]]]
  BY <1>1, <1>4 DEF AddrsOK
<1>8. vvTried' \in [TriedBuckets -> SUBSET T]
  BY <1>1
<1>9. \A b \in TriedBuckets, k \in T :
        k \in vvTried'[b] <=> IsTried(mapInfo, from[k]) /\ b = GetTriedBucket[mapInfo[from[k]].addr]
  <2> TAKE b \in TriedBuckets, k \in T
  <2>1. from[k] = OldId(k) /\ mapInfo[from[k]] \in Entry
    BY <1>2, <1>4
  <2>2. mapInfo[OldId(k)].fInTried <=> IsTried(mapInfo, from[k])
    BY <2>1 DEF IsTried, Entry
  <2>3. k \in vvTried'[b]
        <=> mapInfo[OldId(k)].fInTried /\ GetTriedBucket[mapInfo[OldId(k)].addr] = b
    BY <1>1
  <2> QED BY <2>1, <2>2, <2>3
<1>10. Pages(mapInfo, vRandom, mapAddr, vvNew, nNew, vvTried, nTried, {})
  BY DEF AddrManInv
<1>11. n = Cardinality(DOMAIN mapInfo) /\ Renumbering(to, from, DOMAIN mapInfo, T)
  BY <1>3, <1>4
<1>12. \A a \in DOMAIN mapAddr :
         mapAddr[a] \in Ids /\ to[mapAddr[a]] \in T /\ from[to[mapAddr[a]]] = mapAddr[a]
  BY <1>2, <1>4 DEF AddrsOK
<1>13. vRandom' = [k \in 1 .. n |-> k - 1]
  BY <1>1
<1> HIDE DEF to, from, again, n
<1>14. Pages(mapInfo', vRandom', mapAddr', vvNew', nNew, vvTried', nTried, {})
  BY ONLY <1>5, <1>6, <1>7, <1>8, <1>9, <1>10, <1>11, <1>13, ReadBackPages
<1>15. /\ DOMAIN mapInfo' = T
       /\ \A k \in T : IsTried(mapInfo', k) <=> IsTried(mapInfo, from[k])
  BY ONLY <1>2, <1>4, <1>6, <1>11, ReadBackIs
<1>16. AddrManInv'
  BY <1>1, <1>2, <1>14, <1>15 DEF AddrManInv, Ids
<1>17. TriedStays
  <2> SUFFICES ASSUME NEW a \in DOMAIN mapAddr, mapInfo[mapAddr[a]].fInTried
               PROVE  a \in DOMAIN mapAddr' /\ mapInfo'[mapAddr'[a]].fInTried
    BY DEF TriedStays
  <2>1. IsTried(mapInfo, mapAddr[a])
    BY <1>4, <1>12 DEF IsTried, Entry
  <2>2. a \in DOMAIN mapAddr' /\ mapAddr'[a] = to[mapAddr[a]]
    BY <1>7
  <2>3. IsTried(mapInfo', mapAddr'[a])
    BY <1>12, <1>15, <2>1, <2>2
  <2> QED BY <2>2, <2>3 DEF IsTried
<1> QED BY <1>16, <1>17

-----------------------------------------------------------------------------
LEMMA AddrManNextInd ==
  ASSUME AddrManInv, AddrManNext
  PROVE  AddrManInv' /\ TriedStays
<1>1. ASSUME NEW a \in Addresses, NEW s \in Sources, AddNew(a, s) PROVE AddrManInv' /\ TriedStays
  BY <1>1, AddNewInd
<1>2. ASSUME NEW a \in Addresses, NEW s \in Sources, AddAgain(a, s) PROVE AddrManInv' /\ TriedStays
  BY <1>2, AddAgainInd
<1>3. ASSUME NEW a \in Addresses, GoodAgain(a) PROVE AddrManInv' /\ TriedStays
  BY <1>3, GoodAgainInd
<1>4. ASSUME NEW a \in Addresses, MakeTried(a) PROVE AddrManInv' /\ TriedStays
  BY <1>4, MakeTriedInd
<1>5. ASSUME NEW a \in Addresses, MakeTriedEvicting(a) PROVE AddrManInv' /\ TriedStays
  BY <1>5, MakeTriedEvictingInd
<1>6. ASSUME NEW p \in DOMAIN vRandom, NEW q \in DOMAIN vRandom, GetAddr(p, q)
      PROVE  AddrManInv' /\ TriedStays
  BY <1>6, GetAddrInd
<1>7. ASSUME Reload PROVE AddrManInv' /\ TriedStays
  BY <1>7, ReloadInd
<1> QED BY <1>1, <1>2, <1>3, <1>4, <1>5, <1>6, <1>7 DEF AddrManNext

(* The inductive invariant of the address manager: between two calls every *)
(* index over the entries agrees with the others and with the counters.    *)
THEOREM TablesAgree == AddrManSpec => []AddrManInv
<1>1. AddrManInv /\ UNCHANGED addrManVars => AddrManInv'
  BY DEF AddrManInv, Ids, addrManVars
<1> QED BY <1>1, AddrManInitInv, AddrManNextInd, PTL DEF AddrManSpec

LEMMA BookImpliesCheck == AddrManInv => CheckPasses
<1> SUFFICES ASSUME AddrManInv PROVE CheckPasses
  OBVIOUS
<1>1. /\ DOMAIN mapInfo = Ids /\ mapInfo \in [Ids -> Entry]
      /\ RandomOK(vRandom, mapInfo) /\ AddrsOK(mapAddr, mapInfo)
      /\ TablesOK(mapInfo, vvNew, {}) /\ TriedOK(mapInfo, vvTried) /\ NewOK(mapInfo, vvNew)
      /\ CountsOK(mapInfo, vRandom, nTried, nNew)
  BY PagesAre
<1>2. Len(vRandom) = nTried + nNew /\ Cardinality(Ids) = nTried + nNew
  BY <1>1 DEF CountsOK
<1>3. \A id \in Ids : mapInfo[id].fInTried \in BOOLEAN /\ mapInfo[id].fSuccess \in BOOLEAN
                      /\ mapInfo[id].addr \in Addresses /\ mapInfo[id].nRefCount \in Nat
  BY <1>1 DEF Entry
<1>4. Cardinality({id \in Ids : mapInfo[id].fInTried}) = nTried
  <2>1. {id \in Ids : mapInfo[id].fInTried} = TriedIn(mapInfo)
    BY <1>1, <1>3 DEF TriedIn, IsTried
  <2> QED BY <1>1, <2>1 DEF CountsOK
<1>5. \A b \in NewBuckets : vvNew[b] \subseteq Ids /\ Cardinality(vvNew[b]) <= NEW_BUCKET_SIZE
  BY <1>1 DEF NewOK
<1>6. \A b \in TriedBuckets :
        vvTried[b] \subseteq Ids /\ Cardinality(vvTried[b]) <= TRIED_BUCKET_SIZE
  BY <1>1 DEF TriedOK
<1>7. ASSUME NEW id \in Ids
      PROVE  LET info == mapInfo[id]
                 tried == {b \in TriedBuckets : id \in vvTried[b]} IN
             /\ IF info.fInTried
                  THEN info.fSuccess /\ info.nRefCount = 0 /\ tried = {GetTriedBucket[info.addr]}
                  ELSE info.nRefCount \in 1 .. NEW_BUCKETS_PER_ADDRESS /\ tried = {}
             /\ info.nRefCount = Cardinality(HoldingBuckets(id))
             /\ Known(info.addr) /\ mapAddr[info.addr] = id
             /\ info.nRandomPos \in DOMAIN vRandom /\ vRandom[info.nRandomPos] = id
  <2> DEFINE tried == {b \in TriedBuckets : id \in vvTried[b]}
  <2>1. mapInfo[id].nRefCount = Cardinality(HoldingBuckets(id))
    BY <1>1 DEF TablesOK, BucketsOf, HoldingBuckets
  <2>2. Known(mapInfo[id].addr) /\ mapAddr[mapInfo[id].addr] = id
    BY <1>1 DEF AddrsOK, Known
  <2>3. mapInfo[id].nRandomPos \in DOMAIN vRandom /\ vRandom[mapInfo[id].nRandomPos] = id
    BY <1>1 DEF RandomOK
  <2>4. \A b \in TriedBuckets :
          id \in vvTried[b] <=> IsTried(mapInfo, id) /\ b = GetTriedBucket[mapInfo[id].addr]
    BY <1>1 DEF TriedOK
  <2>5. GetTriedBucket[mapInfo[id].addr] \in TriedBuckets
    BY <1>3, AddrManAssumption
  <2>6. CASE IsTried(mapInfo, id)
    <3>1. tried = {GetTriedBucket[mapInfo[id].addr]}
      BY <2>4, <2>5, <2>6
    <3>2. HasSuccess(mapInfo, id) /\ mapInfo[id].nRefCount = 0
      BY <1>1, <2>6 DEF TablesOK
    <3>3. mapInfo[id].fInTried /\ mapInfo[id].fSuccess
      BY <2>6, <3>2 DEF IsTried, HasSuccess
    <3> QED BY <2>1, <2>2, <2>3, <3>1, <3>2, <3>3
  <2>7. CASE ~IsTried(mapInfo, id)
    <3>1. tried = {}
      BY <2>4, <2>7
    <3>2. ~mapInfo[id].fInTried
      BY <1>3, <2>7 DEF IsTried
    <3>3. mapInfo[id].nRefCount \in 1 .. NEW_BUCKETS_PER_ADDRESS
      BY <1>1, <1>3, <2>7, Sizes DEF TablesOK
    <3> QED BY <2>1, <2>2, <2>3, <3>1, <3>2, <3>3
  <2> QED BY <2>6, <2>7
<1> QED BY <1>2, <1>4, <1>5, <1>6, <1>7 DEF CheckPasses

(* What Check_ verifies in a debug build, and no release build ever runs,  *)
(* holds after every call (addrman.cpp:434-490), for every hash of the     *)
(* addresses into buckets and every size of the buckets.                   *)
THEOREM CheckAlwaysPasses == AddrManSpec => []CheckPasses
BY TablesAgree, BookImpliesCheck, PTL

(* An address that was connected to leaves the tried table only for a new  *)
(* bucket: not even an eviction with both buckets full, or a restart,      *)
(* loses it (addrman.h:216; MakeTried, addrman.cpp:141-227).               *)
THEOREM TriedNotDeleted == AddrManSpec => TriedNeverDeleted
<1>1. AddrManInv /\ [AddrManNext]_addrManVars => [TriedStays]_addrManVars
  BY AddrManNextInd
<1> QED BY <1>1, TablesAgree, PTL DEF AddrManSpec, TriedNeverDeleted, TriedStays
=============================================================================
