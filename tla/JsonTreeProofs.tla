--------------------------- MODULE JsonTreeProofs ---------------------------
(***************************************************************************)
(* Proofs, for memories of every size and for every set of contents, that  *)
(* the tree json_build grows is well linked at every step, that json_free  *)
(* walks it without touching a freed node, that it releases everything     *)
(* json_build has not itself lost, that an accepted document has the shape *)
(* its readers rely on, and that json_build recognises the language of     *)
(* JsonGrammar.                                                            *)
(***************************************************************************)
EXTENDS JsonTree, TLAPS, WellFoundedInduction, FiniteSetTheorems, SequenceTheorems

(***************************************************************************)
(* The inductive invariant.  json_free keeps no stack: what makes its walk *)
(* safe is that the nodes it has entered (open) are the ancestors of the   *)
(* cursor, one path ordered by creation, and that nothing allocated still  *)
(* refers to them.                                                         *)
(***************************************************************************)
Referenced(n) == \E m \in live : n \in {left[m], right[m]}

Fresh == \A n \in Node : n > count =>
    left[n] = NULL /\ right[n] = NULL /\ parent[n] = NULL

Ordered ==
    /\ \A n \in live : left[n] # NULL => n < left[n]
    /\ \A n \in live : right[n] # NULL => n < right[n]
    /\ \A n \in Node : parent[n] < n

Path ==
    /\ \A q \in open : parent[q] \in open \cup {NULL}
    /\ \A p, q \in open : p < q => p <= parent[q]

Starting == pc = "start" => count = 0 /\ live = {}

Building == pc = "build" =>
    /\ node \in live /\ right[node] = NULL
    /\ parent[node] \in open \cup {NULL}
    /\ \A q \in open : right[q] = NULL /\ q <= parent[node]

RootLive == pc \in {"build", "parsed"} => Root \in live

Freeing == pc = "free" =>
    /\ node = NULL => open = {}
    /\ node # NULL =>
         /\ node \in live /\ ~Referenced(node)
         /\ parent[node] \in open \cup {NULL}
         /\ \A q \in open : left[q] = NULL /\ (q = node \/ q <= parent[node])
    /\ \A q \in open : ~Referenced(q)

Coverage == \A n \in live :
    \/ n \in orphans
    \/ Referenced(n)
    \/ pc \in {"build", "parsed"} /\ n = Root
    \/ pc = "free" /\ (n = node \/ n \in open)

LinkInv == Fresh /\ Ordered /\ TreeLinks /\ Path
WalkInv == Starting /\ Building /\ RootLive /\ Freeing /\ Coverage
IInv == TypeOK /\ LinkInv /\ WalkInv

-----------------------------------------------------------------------------
(***************************************************************************)
(* Initially nothing is allocated.                                         *)
(***************************************************************************)
LEMMA InitInv == Init => IInv
BY MaxNodesAssumption
DEF Init, IInv, TypeOK, LinkInv, WalkInv, Fresh, Ordered, TreeLinks, ChildLinks,
    SiblingLinks, OneReference, Path, Starting, Building, RootLive, Freeing,
    Coverage, Node, NULL, Root, Types, ScalarTypes, NothingScanned, Tokens

(***************************************************************************)
(* The value a node is given is a type, whatever the content.              *)
(***************************************************************************)
LEMMA ValueTypeIsType ==
    ASSUME TypeOK, NEW c PROVE ValueType(c) \in [Node -> Types]
BY DEF TypeOK, ValueType, Types

(***************************************************************************)
(* A new node: it is fresh, and nothing refers to it yet.                  *)
(***************************************************************************)
LEMMA NewNodeFresh ==
    ASSUME IInv, count < MaxNodes
    PROVE  /\ NewNode \in Node /\ NewNode \notin live
           /\ NewNode > count
           /\ \A n \in live : n \in Node /\ n < NewNode
           /\ left[NewNode] = NULL /\ right[NewNode] = NULL
           /\ parent[NewNode] = NULL
           /\ \A n \in live : left[n] # NewNode /\ right[n] # NewNode
BY MaxNodesAssumption
DEF IInv, TypeOK, LinkInv, Fresh, TreeLinks, ChildLinks, SiblingLinks, Node,
    NULL, NewNode

(***************************************************************************)
(* json_parse creates the root.                                            *)
(***************************************************************************)
LEMMA ParseStep == ASSUME IInv, json_parse PROVE IInv'
<1> USE MaxNodesAssumption DEF Node, NULL, Root
<1>1. count = 0 /\ live = {} /\ open = {} /\ pc = "start"
  BY DEF IInv, WalkInv, Starting, TypeOK, json_parse
<1>2. CASE UNCHANGED <<count, live, node>> /\ verdict' = "memory" /\ pc' = "done"
  BY <1>1, <1>2
  DEF json_parse, IInv, TypeOK, LinkInv, WalkInv, Fresh, Ordered, TreeLinks,
      ChildLinks, SiblingLinks, OneReference, Path, Starting, Building, RootLive,
      Freeing, Coverage, Referenced, links
<1>3. CASE json_create /\ node' = 1 /\ pc' = "build" /\ UNCHANGED verdict
  <2>1. count' = 1 /\ live' = {1} /\ 1 \in Node
    BY <1>1, <1>3 DEF json_create, NewNode, IInv, TypeOK
  <2>2. TypeOK'
    BY <1>1, <1>3, <2>1 DEF json_parse, IInv, TypeOK, links
  <2>3. LinkInv'
    BY <1>1, <1>3, <2>1
    DEF json_parse, IInv, TypeOK, LinkInv, Fresh, Ordered, TreeLinks, ChildLinks,
        SiblingLinks, OneReference, Path, links
  <2>4. WalkInv'
    BY <1>1, <1>3, <2>1
    DEF json_parse, IInv, TypeOK, LinkInv, WalkInv, Fresh, Starting, Building,
        RootLive, Freeing, Coverage, links
  <2> QED BY <2>2, <2>3, <2>4 DEF IInv
<1> QED BY <1>2, <1>3 DEF json_parse

(***************************************************************************)
(* '{' or '[': the new node is the only child referred to by the cursor; a *)
(* child the cursor already had becomes an orphan.                         *)
(***************************************************************************)
LEMMA OpenGroupStep ==
    ASSUME IInv, NEW c \in Contents, NEW t \in Tokens, OpenGroup(c, t)
    PROVE  IInv'
<1> USE MaxNodesAssumption DEF Node, NULL, Root
<1>1. /\ pc = "build" /\ pc' = "build"
      /\ count < MaxNodes /\ count' = NewNode /\ live' = live \cup {NewNode}
      /\ left' = [left EXCEPT ![node] = NewNode]
      /\ parent' = [parent EXCEPT ![NewNode] = node]
      /\ node' = NewNode /\ right' = right
      /\ open' = open \cup {node} /\ orphans' = Orphaned
  BY DEF OpenGroup, Step, Round, json_create
<1>2. node \in live /\ node \in Node
  BY <1>1 DEF IInv, WalkInv, Building, TypeOK
<1>3. TypeOK'
  <2>1. type' \in [Node -> Types]
    BY DEF OpenGroup, IInv, TypeOK, json_token, Types
  <2>2. scan' \in [content : Contents \cup {"malformed"}, token : Tokens \cup {"none"}]
    BY DEF OpenGroup, Step, Round
  <2>3. orphans' \subseteq 1 .. count'
    <3>1. left[node] # NULL => left[node] \in 1 .. count
      BY <1>2 DEF IInv, TypeOK, LinkInv, TreeLinks, ChildLinks
    <3>2. orphans \subseteq 1 .. count /\ count \in Nat /\ count' = count + 1
      BY <1>1 DEF IInv, TypeOK, NewNode
    <3>3. orphans' \subseteq 1 .. count
      BY <1>1, <3>1, <3>2 DEF Orphaned
    <3> QED BY <3>2, <3>3
  <2> QED
    BY <1>1, <1>2, <2>1, <2>2, <2>3, NewNodeFresh
    DEF OpenGroup, Step, IInv, TypeOK, NewNode
<1>4. Fresh' /\ Ordered'
  BY <1>1, <1>2, NewNodeFresh DEF IInv, TypeOK, LinkInv, Fresh, Ordered, NewNode
<1>5. TreeLinks'
  BY <1>1, <1>2, NewNodeFresh
  DEF IInv, TypeOK, LinkInv, TreeLinks, ChildLinks, SiblingLinks, OneReference
<1>6. Path'
  BY <1>1, <1>2, NewNodeFresh
  DEF IInv, TypeOK, LinkInv, Ordered, WalkInv, Building, Path
<1>7. Building'
  BY <1>1, <1>2, NewNodeFresh
  DEF IInv, TypeOK, LinkInv, Ordered, WalkInv, Building
<1>8. Coverage'
  <2> SUFFICES ASSUME NEW n \in live, ~(n = Root), n \notin orphans'
               PROVE  Referenced(n)'
    BY <1>1, <1>2, NewNodeFresh DEF Coverage, Referenced, IInv, TypeOK
  <2>1. PICK m \in live : n \in {left[m], right[m]}
    BY <1>1 DEF IInv, WalkInv, Coverage, Referenced, Orphaned
  <2>2. n # left[node]
    BY <1>1, <1>2, NewNodeFresh DEF Orphaned
  <2> QED
    BY <1>1, <1>2, <2>1, <2>2 DEF Referenced, IInv, TypeOK
<1> QED
  BY <1>1, <1>3, <1>4, <1>5, <1>6, <1>7, <1>8
  DEF IInv, LinkInv, WalkInv, Starting, RootLive, Freeing

(***************************************************************************)
(* ',': the new node is the right sibling of the cursor, which had none.   *)
(***************************************************************************)
LEMMA NextSiblingStep ==
    ASSUME IInv, NEW c \in Contents, NextSibling(c)
    PROVE  IInv'
<1> USE MaxNodesAssumption DEF Node, NULL, Root
<1>1. /\ pc = "build" /\ pc' = "build"
      /\ count < MaxNodes /\ count' = NewNode /\ live' = live \cup {NewNode}
      /\ right' = [right EXCEPT ![node] = NewNode]
      /\ parent' = [parent EXCEPT ![NewNode] = parent[node]]
      /\ node' = NewNode /\ left' = left
      /\ open' = open /\ orphans' = orphans
  BY DEF NextSibling, SiblingParent, Step, Round, json_create
<1>2. node \in live /\ node \in Node /\ right[node] = NULL
  BY <1>1 DEF IInv, WalkInv, Building, TypeOK
<1>3. TypeOK'
  <2>1. type' \in [Node -> Types]
    BY ValueTypeIsType DEF NextSibling, IInv
  <2>2. scan' \in [content : Contents \cup {"malformed"}, token : Tokens \cup {"none"}]
    BY DEF NextSibling, Step, Round, Tokens
  <2>3. /\ left' \in [Node -> Node \cup {NULL}] /\ right' \in [Node -> Node \cup {NULL}]
        /\ parent' \in [Node -> Node \cup {NULL}] /\ node' \in Node \cup {NULL}
    BY <1>1, <1>2, NewNodeFresh DEF IInv, TypeOK
  <2>4. count' \in 0 .. MaxNodes /\ live' \subseteq 1 .. count' /\ orphans' \subseteq 1 .. count'
    BY <1>1 DEF IInv, TypeOK, NewNode
  <2> QED
    BY <1>1, <2>1, <2>2, <2>3, <2>4 DEF NextSibling, Step, IInv, TypeOK
<1>4. Fresh' /\ Ordered'
  BY <1>1, <1>2, NewNodeFresh DEF IInv, TypeOK, LinkInv, Fresh, Ordered, NewNode
<1>5. TreeLinks'
  <2>1. ChildLinks'
    BY <1>1, <1>2, NewNodeFresh DEF IInv, TypeOK, LinkInv, TreeLinks, ChildLinks
  <2>2. SiblingLinks'
    BY <1>1, <1>2, NewNodeFresh DEF IInv, TypeOK, LinkInv, TreeLinks, SiblingLinks
  <2>3. OneReference'
    BY <1>1, <1>2, NewNodeFresh DEF IInv, TypeOK, LinkInv, TreeLinks, OneReference
  <2> QED BY <2>1, <2>2, <2>3 DEF TreeLinks
<1>6. Path'
  BY <1>1, <1>2, NewNodeFresh
  DEF IInv, TypeOK, LinkInv, Path
<1>7. Building'
  BY <1>1, <1>2, NewNodeFresh
  DEF IInv, TypeOK, LinkInv, Ordered, WalkInv, Building
<1>8. Coverage'
  <2> SUFFICES ASSUME NEW n \in live, ~(n = Root), n \notin orphans
               PROVE  Referenced(n)'
    BY <1>1, <1>2, NewNodeFresh DEF Coverage, Referenced, IInv, TypeOK
  <2>1. PICK m \in live : n \in {left[m], right[m]}
    BY <1>1 DEF IInv, WalkInv, Coverage, Referenced
  <2> QED
    BY <1>1, <1>2, <2>1 DEF Referenced, IInv, TypeOK
<1> QED
  BY <1>1, <1>3, <1>4, <1>5, <1>6, <1>7, <1>8
  DEF IInv, LinkInv, WalkInv, Starting, RootLive, Freeing

(***************************************************************************)
(* ']' or '}': the cursor climbs to the innermost open group, the largest  *)
(* of the path.                                                            *)
(***************************************************************************)
LEMMA CloseGroupStep ==
    ASSUME IInv, NEW c \in Contents, NEW t \in Tokens, CloseGroup(c, t)
    PROVE  IInv'
<1> USE MaxNodesAssumption DEF Node, NULL, Root
<1>1. /\ pc = "build" /\ pc' = "build"
      /\ count' = count /\ live' = live /\ orphans' = orphans
      /\ left' = left /\ right' = right /\ parent' = parent
      /\ node' = parent[node] /\ open' = open \ {parent[node]}
  BY DEF CloseGroup, Step, Round, links
<1>2. parent[node] # NULL
  BY DEF CloseGroup, Step, Acceptable, MayClose, HasParent, Openers, Closers
<1>3. node \in Node /\ parent[node] \in open /\ parent[node] \in live /\ parent[node] \in Node
  BY <1>1, <1>2 DEF IInv, WalkInv, Building, TypeOK
<1>4. TypeOK'
  <2>1. type' \in [Node -> Types]
    BY ValueTypeIsType DEF CloseGroup, IInv
  <2>2. scan' \in [content : Contents \cup {"malformed"}, token : Tokens \cup {"none"}]
    BY DEF CloseGroup, Step, Round
  <2> QED
    BY <1>1, <1>3, <2>1, <2>2 DEF CloseGroup, Step, IInv, TypeOK
<1>5. Fresh' /\ Ordered' /\ TreeLinks'
  BY <1>1 DEF IInv, LinkInv, Fresh, Ordered, TreeLinks, ChildLinks, SiblingLinks, OneReference
<1>6. Path'
  BY <1>1, <1>3 DEF IInv, TypeOK, LinkInv, Ordered, Path, WalkInv, Building
<1>7. Building'
  BY <1>1, <1>3 DEF IInv, TypeOK, LinkInv, Ordered, Path, WalkInv, Building
<1>8. Coverage'
  BY <1>1 DEF IInv, WalkInv, Coverage, Referenced
<1> QED
  BY <1>1, <1>4, <1>5, <1>6, <1>7, <1>8
  DEF IInv, LinkInv, WalkInv, Starting, RootLive, Freeing

(***************************************************************************)
(* ':' and the end of the text leave the shape of the tree alone.          *)
(***************************************************************************)
LEMMA SetNameStep == ASSUME IInv, NEW c \in Contents, SetName(c) PROVE IInv'
<1>1. /\ pc = "build" /\ pc' = "build" /\ verdict' = verdict /\ type' = type
      /\ count' = count /\ live' = live /\ orphans' = orphans
      /\ left' = left /\ right' = right /\ parent' = parent
      /\ node' = node /\ open' = open
  BY DEF SetName, Step, Round, links
<1>2. TypeOK'
  <2>1. named' \in [Node -> BOOLEAN]
    BY DEF SetName, IInv, TypeOK
  <2>2. scan' \in [content : Contents \cup {"malformed"}, token : Tokens \cup {"none"}]
    BY DEF SetName, Step, Round, Tokens
  <2> QED BY <1>1, <2>1, <2>2 DEF IInv, TypeOK
<1> QED
  BY <1>1, <1>2
  DEF IInv, LinkInv, WalkInv, Fresh, Ordered, TreeLinks, ChildLinks, SiblingLinks,
      OneReference, Path, Starting, Building, RootLive, Freeing, Coverage, Referenced

LEMMA AcceptStep == ASSUME IInv, NEW c \in Contents, Accept(c) PROVE IInv'
<1>1. /\ pc = "build" /\ pc' = "parsed" /\ verdict' = "accept" /\ named' = named
      /\ count' = count /\ live' = live /\ orphans' = orphans
      /\ left' = left /\ right' = right /\ parent' = parent
      /\ node' = node /\ open' = open
  BY DEF Accept, Round, links
<1>2. TypeOK'
  <2>1. type' \in [Node -> Types]
    BY ValueTypeIsType DEF Accept, IInv
  <2>2. scan' \in [content : Contents \cup {"malformed"}, token : Tokens \cup {"none"}]
    BY DEF Accept, Round, Tokens
  <2> QED BY <1>1, <2>1, <2>2 DEF IInv, TypeOK
<1> QED
  BY <1>1, <1>2
  DEF IInv, LinkInv, WalkInv, Fresh, Ordered, TreeLinks, ChildLinks, SiblingLinks,
      OneReference, Path, Starting, Building, RootLive, Freeing, Coverage, Referenced

(***************************************************************************)
(* json_free starts at the root, to which nothing refers; the failed       *)
(* allocation of a first child may cut one more subtree off.               *)
(***************************************************************************)
LEMMA StartFreeStep ==
    ASSUME IInv, pc \in {"build", "parsed"}, StartFree, TypeOK',
           UNCHANGED <<right, parent, count, live>>,
           \/ left' = left /\ orphans' = orphans
           \/ /\ pc = "build" /\ orphans' = Orphaned
              /\ left' = [left EXCEPT ![node] = NULL]
    PROVE  IInv'
<1> USE MaxNodesAssumption DEF Node, NULL, Root
<1>1. /\ pc' = "free" /\ node' = 1 /\ open' = {}
      /\ right' = right /\ parent' = parent /\ count' = count /\ live' = live
  BY DEF StartFree
<1>2. 1 \in live /\ 1 \in Node /\ \A n \in live : n \in Node
  BY DEF IInv, WalkInv, RootLive, TypeOK
<1>3. \A n \in live : left'[n] = left[n] \/ left'[n] = NULL
  BY <1>2 DEF IInv, TypeOK
<1>4. Fresh' /\ Ordered' /\ TreeLinks' /\ Path'
  <2>1. Fresh'
    BY <1>1, <1>3 DEF IInv, TypeOK, LinkInv, Fresh
  <2>2. Ordered'
    BY <1>1, <1>3 DEF IInv, LinkInv, Ordered
  <2>3. TreeLinks'
    BY <1>1, <1>3 DEF IInv, LinkInv, TreeLinks, ChildLinks, SiblingLinks, OneReference
  <2> QED BY <1>1, <2>1, <2>2, <2>3 DEF Path
<1>5. Freeing'
  <2>1. parent[1] = NULL
    BY <1>2 DEF IInv, TypeOK, LinkInv, Ordered
  <2>2. ~Referenced(1)'
    BY <1>1, <1>2, <1>3 DEF IInv, LinkInv, Ordered, Referenced
  <2> QED BY <1>1, <1>2, <2>1, <2>2 DEF Freeing
<1>6. Coverage'
  <2> SUFFICES ASSUME NEW n \in live, n # Root, n \notin orphans'
               PROVE  Referenced(n)'
    BY <1>1 DEF Coverage
  <2>1. PICK m \in live : n \in {left[m], right[m]}
    BY DEF IInv, WalkInv, Coverage, Referenced, Orphaned
  <2>2. left'[m] = left[m] \/ n = right[m]
    BY <1>2, <2>1 DEF IInv, TypeOK, Orphaned
  <2> QED
    BY <1>1, <2>1, <2>2 DEF Referenced
<1> QED
  BY <1>1, <1>4, <1>5, <1>6 DEF IInv, LinkInv, WalkInv, Starting, Building, RootLive

LEMMA RejectStep ==
    ASSUME IInv, NEW c \in Contents, NEW t \in Tokens, Reject(c, t)
    PROVE  IInv'
<1>1. 1 \in Node
  BY MaxNodesAssumption DEF Reject, Round, IInv, TypeOK, WalkInv, RootLive, Node, Root
<1>2. TypeOK'
  <2>1. type' \in [Node -> Types]
    BY ValueTypeIsType DEF Reject, IInv, TypeOK
  <2>2. scan' \in [content : Contents \cup {"malformed"}, token : Tokens \cup {"none"}]
    BY DEF Reject, Round
  <2> QED BY <1>1, <2>1, <2>2 DEF Reject, StartFree, Root, links, IInv, TypeOK
<1> QED BY <1>2, StartFreeStep DEF Reject, Round, links

LEMMA ScanErrorStep == ASSUME IInv, ScanError PROVE IInv'
<1>1. 1 \in Node
  BY MaxNodesAssumption DEF ScanError, IInv, TypeOK, WalkInv, RootLive, Node, Root
<1>2. TypeOK'
  BY <1>1 DEF ScanError, NothingScanned, StartFree, Root, links, IInv, TypeOK
<1> QED BY <1>2, StartFreeStep DEF ScanError, links

LEMMA OutOfMemoryStep ==
    ASSUME IInv, NEW c \in Contents, NEW t \in Tokens, OutOfMemory(c, t)
    PROVE  IInv'
<1> USE MaxNodesAssumption DEF Node, NULL
<1>0. pc = "build"
  BY DEF OutOfMemory, Round
<1>1. 1 \in Node /\ node \in live /\ node \in Node
  BY <1>0 DEF IInv, TypeOK, WalkInv, RootLive, Building, Root
<1>2. \/ left' = left /\ orphans' = orphans
      \/ orphans' = Orphaned /\ left' = [left EXCEPT ![node] = NULL]
  BY DEF OutOfMemory
<1>3. TypeOK'
  <2>1. type' \in [Node -> Types]
    BY ValueTypeIsType DEF OutOfMemory, IInv, TypeOK, json_token, Types
  <2>2. scan' \in [content : Contents \cup {"malformed"}, token : Tokens \cup {"none"}]
    BY DEF OutOfMemory, Round
  <2>3. left' \in [Node -> Node \cup {NULL}]
    BY <1>2 DEF IInv, TypeOK
  <2>4. orphans' \subseteq 1 .. count
    <3>1. left[node] # NULL => left[node] \in 1 .. count
      BY <1>1 DEF IInv, TypeOK, LinkInv, TreeLinks, ChildLinks
    <3>2. orphans \subseteq 1 .. count
      BY DEF IInv, TypeOK
    <3> QED BY <1>2, <3>1, <3>2 DEF Orphaned
  <2> QED
    BY <1>1, <2>1, <2>2, <2>3, <2>4 DEF OutOfMemory, StartFree, Root, IInv, TypeOK
<1> QED BY <1>0, <1>2, <1>3, StartFreeStep DEF OutOfMemory

LEMMA ReleaseStep == ASSUME IInv, Release PROVE IInv'
<1>1. 1 \in Node
  BY MaxNodesAssumption DEF Release, IInv, TypeOK, WalkInv, RootLive, Node, Root
<1>2. TypeOK'
  BY <1>1 DEF Release, StartFree, Root, links, IInv, TypeOK
<1> QED BY <1>2, StartFreeStep DEF Release, links

(***************************************************************************)
(* json_free goes down: the first child was referred to by the cursor      *)
(* alone, and that reference is gone.                                      *)
(***************************************************************************)
LEMMA FreeDescendStep == ASSUME IInv, FreeDescend PROVE IInv'
<1> USE MaxNodesAssumption DEF Node, NULL, Root
<1>1. /\ pc = "free" /\ pc' = "free" /\ node # NULL /\ left[node] # NULL
      /\ node' = left[node] /\ left' = [left EXCEPT ![node] = NULL]
      /\ open' = open \cup {node}
      /\ right' = right /\ parent' = parent
      /\ count' = count /\ live' = live /\ orphans' = orphans
  BY DEF FreeDescend, CutChildren
<1>2. /\ node \in live /\ node \in Node /\ left[node] \in live
      /\ left[node] \in Node /\ parent[left[node]] = node
  BY <1>1 DEF IInv, TypeOK, WalkInv, Freeing, LinkInv, TreeLinks, ChildLinks
<1>3. /\ left'[node] = NULL
      /\ \A n \in live : n # node => left'[n] = left[n]
  BY <1>1, <1>2 DEF IInv, TypeOK
<1>4. TypeOK'
  BY <1>1, <1>2 DEF FreeDescend, IInv, TypeOK
<1>5. Fresh' /\ Ordered'
  BY <1>1, <1>2, <1>3 DEF IInv, TypeOK, LinkInv, Fresh, Ordered
<1>6. TreeLinks'
  BY <1>1, <1>3 DEF IInv, LinkInv, TreeLinks, ChildLinks, SiblingLinks, OneReference
<1>7. Path'
  BY <1>1, <1>2 DEF IInv, TypeOK, LinkInv, Ordered, Path, WalkInv, Freeing
<1>8. Freeing'
  <2>1. ~Referenced(node)'
    <3> SUFFICES ASSUME NEW m \in live, left[node] \in {left'[m], right[m]}
                 PROVE  FALSE
      BY <1>1 DEF Referenced
    <3>1. left[node] # right[m]
      BY <1>1, <1>2 DEF IInv, LinkInv, TreeLinks, OneReference
    <3>2. m # node /\ left[node] = left[m]
      BY <1>1, <1>3, <3>1
    <3> QED BY <1>1, <1>2, <3>2 DEF IInv, LinkInv, TreeLinks, ChildLinks
  <2>2. \A q \in open \cup {node} : ~Referenced(q)'
    BY <1>1, <1>2, <1>3 DEF IInv, TypeOK, WalkInv, Freeing, Referenced
  <2>3. \A q \in open \cup {node} : left'[q] = NULL /\ q <= node
    BY <1>1, <1>2, <1>3 DEF IInv, TypeOK, LinkInv, Ordered, WalkInv, Freeing
  <2> QED BY <1>1, <1>2, <2>1, <2>2, <2>3 DEF Freeing
<1>9. Coverage'
  <2> SUFFICES ASSUME NEW n \in live, n # left[node], n \notin open, n # node,
                      n \notin orphans
               PROVE  Referenced(n)'
    BY <1>1 DEF Coverage
  <2>1. PICK m \in live : n \in {left[m], right[m]}
    BY <1>1 DEF IInv, WalkInv, Coverage, Referenced
  <2> QED BY <1>1, <1>3, <2>1 DEF Referenced
<1> QED
  BY <1>1, <1>4, <1>5, <1>6, <1>7, <1>8, <1>9
  DEF IInv, LinkInv, WalkInv, Starting, Building, RootLive

(***************************************************************************)
(* json_free releases a node nothing refers to; the next one, its sibling  *)
(* or the parent it was entered from, was referred to by it alone or not   *)
(* at all.                                                                 *)
(***************************************************************************)
LEMMA FreeNodeStep == ASSUME IInv, FreeNode PROVE IInv'
<1> USE MaxNodesAssumption DEF Node, NULL, Root
<1>1. /\ pc = "free" /\ pc' = "free" /\ node # NULL /\ left[node] = NULL
      /\ node' = AfterNode /\ live' = live \ {node} /\ open' = open \ {node}
      /\ left' = left /\ right' = right /\ parent' = parent
      /\ count' = count /\ orphans' = orphans
  BY DEF FreeNode, links
<1>2. /\ node \in live /\ node \in Node /\ ~Referenced(node)
      /\ parent[node] \in open \cup {NULL} /\ parent[node] < node
      /\ \A q \in open : left[q] = NULL /\ (q = node \/ q <= parent[node])
      /\ \A q \in open : q \in live /\ ~Referenced(q) /\ q \in Nat
      /\ \A q \in live : q \in Node
  BY <1>1 DEF IInv, TypeOK, LinkInv, Ordered, WalkInv, Freeing
<1>3. AfterNode \in Node \cup {NULL}
  BY <1>2 DEF IInv, TypeOK, AfterNode
<1>4. TypeOK'
  BY <1>1, <1>3 DEF FreeNode, IInv, TypeOK
<1>5. Fresh' /\ Ordered'
  BY <1>1 DEF IInv, LinkInv, Fresh, Ordered
<1>6. TreeLinks'
  BY <1>1, <1>2
  DEF IInv, LinkInv, TreeLinks, ChildLinks, SiblingLinks, OneReference, Referenced
<1>7. Path'
  <2>1. \A q \in open' : parent[q] # node
    BY <1>1, <1>2 DEF IInv, LinkInv, Ordered, TypeOK
  <2> QED BY <1>1, <2>1 DEF IInv, LinkInv, Path
<1>8. \A q \in live' : ~Referenced(q) => ~Referenced(q)'
  BY <1>1 DEF Referenced
<1>9. Freeing'
  <2>1. CASE right[node] # NULL
    <3>1. /\ node' = right[node] /\ right[node] \in live'
          /\ parent[right[node]] = parent[node]
      BY <1>1, <1>2, <2>1
      DEF AfterNode, IInv, LinkInv, TreeLinks, SiblingLinks, Ordered
    <3>2. ~Referenced(node)'
      BY <1>1, <1>2, <2>1, <3>1 DEF IInv, LinkInv, TreeLinks, OneReference, Referenced
    <3> QED BY <1>1, <1>2, <1>8, <2>1, <3>1, <3>2 DEF Freeing
  <2>2. CASE right[node] = NULL /\ parent[node] = NULL
    <3>1. node' = NULL /\ open' = {}
      BY <1>1, <1>2, <2>2 DEF AfterNode
    <3> QED BY <3>1 DEF Freeing
  <2>3. CASE right[node] = NULL /\ parent[node] # NULL
    <3>1. node' = parent[node] /\ parent[node] \in open'
      BY <1>1, <1>2, <2>3 DEF AfterNode
    <3>2. node' \in live' /\ ~Referenced(node)'
      BY <1>1, <1>2, <1>8, <3>1
    <3>3. parent[parent[node]] \in open' \cup {NULL}
      BY <1>1, <3>1, <1>7 DEF Path
    <3>4. \A q \in open' : q = parent[node] \/ q <= parent[parent[node]]
      BY <1>1, <1>2, <3>1 DEF IInv, LinkInv, Path
    <3> QED BY <1>1, <1>2, <1>8, <3>1, <3>2, <3>3, <3>4 DEF Freeing
  <2> QED BY <2>1, <2>2, <2>3
<1>10. Coverage'
  <2> SUFFICES ASSUME NEW n \in live, n # node, n # node', n \notin open,
                      n \notin orphans
               PROVE  Referenced(n)'
    BY <1>1 DEF Coverage
  <2>1. PICK m \in live : n \in {left[m], right[m]}
    BY <1>1 DEF IInv, WalkInv, Coverage, Referenced
  <2>2. m # node
    BY <1>1, <1>2, <2>1 DEF AfterNode
  <2> QED BY <1>1, <2>1, <2>2 DEF Referenced
<1> QED
  BY <1>1, <1>4, <1>5, <1>6, <1>7, <1>9, <1>10
  DEF IInv, LinkInv, WalkInv, Starting, Building, RootLive

(***************************************************************************)
(* At the end of json_free the cursor is NULL and nothing is open.         *)
(***************************************************************************)
LEMMA FreeReturnStep == ASSUME IInv, FreeReturn PROVE IInv'
<1>1. /\ pc = "free" /\ pc' = "done" /\ node = NULL /\ open = {}
      /\ count' = count /\ live' = live /\ orphans' = orphans
      /\ left' = left /\ right' = right /\ parent' = parent
      /\ node' = node /\ open' = open
  BY DEF FreeReturn, links, IInv, WalkInv, Freeing
<1>2. TypeOK'
  BY DEF FreeReturn, links, IInv, TypeOK
<1>3. LinkInv'
  BY <1>1
  DEF IInv, LinkInv, Fresh, Ordered, TreeLinks, ChildLinks, SiblingLinks,
      OneReference, Path
<1>4. Coverage'
  BY <1>1, MaxNodesAssumption
  DEF IInv, TypeOK, WalkInv, Coverage, Referenced, NULL
<1> QED
  BY <1>1, <1>2, <1>3, <1>4
  DEF IInv, WalkInv, Starting, Building, RootLive, Freeing

-----------------------------------------------------------------------------
LEMMA StutterStep == ASSUME IInv, UNCHANGED vars PROVE IInv'
BY DEF vars, IInv, TypeOK, LinkInv, WalkInv, Fresh, Ordered, TreeLinks, ChildLinks,
       SiblingLinks, OneReference, Path, Starting, Building, RootLive, Freeing,
       Coverage, Referenced

LEMMA NextInv == IInv /\ [Next]_vars => IInv'
<1> SUFFICES ASSUME IInv, [Next]_vars PROVE IInv'
  OBVIOUS
<1>1. CASE json_parse
  BY <1>1, ParseStep
<1>2. CASE json_build
  <2>1. ASSUME NEW c \in Contents, NEW t \in Tokens,
               OpenGroup(c, t) \/ CloseGroup(c, t) \/ Reject(c, t) \/ OutOfMemory(c, t)
        PROVE  IInv'
    BY <2>1, OpenGroupStep, CloseGroupStep, RejectStep, OutOfMemoryStep
  <2>2. ASSUME NEW c \in Contents, SetName(c) \/ NextSibling(c) \/ Accept(c)
        PROVE  IInv'
    BY <2>2, SetNameStep, NextSiblingStep, AcceptStep
  <2> QED BY <1>2, <2>1, <2>2, ScanErrorStep DEF json_build
<1>3. CASE Release
  BY <1>3, ReleaseStep
<1>4. CASE json_free
  BY <1>4, FreeDescendStep, FreeNodeStep, FreeReturnStep DEF json_free
<1>5. CASE Terminated \/ UNCHANGED vars
  BY <1>5, StutterStep DEF Terminated
<1> QED BY <1>1, <1>2, <1>3, <1>4, <1>5 DEF Next

LEMMA Invariance == Spec => []IInv
BY InitInv, NextInv, PTL DEF Spec

(***************************************************************************)
(* Every variable keeps its type: json_build and json_free follow only     *)
(* pointers that are NULL or nodes, and write only fields of nodes.        *)
(***************************************************************************)
THEOREM TypeCorrect == Spec => []TypeOK
<1>1. IInv => TypeOK
  BY DEF IInv
<1> QED BY <1>1, Invariance, PTL

(***************************************************************************)
(* The links of the tree agree after every round of json_build and of      *)
(* json_free.                                                              *)
(***************************************************************************)
THEOREM LinksAgree == Spec => []TreeLinks
<1>1. IInv => TreeLinks
  BY DEF IInv, LinkInv
<1> QED BY <1>1, Invariance, PTL

(***************************************************************************)
(* json_free reads and frees allocated nodes only: no use after free, no   *)
(* double free, in a tree of any size and shape.                           *)
(***************************************************************************)
THEOREM FreeIsSafe == Spec => []WalkOnLiveNodes
<1>1. IInv => WalkOnLiveNodes
  BY DEF IInv, WalkInv, Freeing, WalkOnLiveNodes
<1> QED BY <1>1, Invariance, PTL

(***************************************************************************)
(* What json_free leaves allocated is a child json_build lost, or hangs    *)
(* off a node it leaves allocated.                                         *)
(***************************************************************************)
THEOREM FreeLeavesOrphans == Spec => []OnlyOrphansLeft
<1>1. IInv => OnlyOrphansLeft
  BY DEF IInv, WalkInv, Coverage, Referenced, OnlyOrphansLeft
<1> QED BY <1>1, Invariance, PTL

(***************************************************************************)
(* A document that never lost a child is released completely.  References  *)
(* go from older to younger nodes, so the oldest node left would be        *)
(* referred to by an even older one.                                       *)
(***************************************************************************)
THEOREM FreeIsComplete == Spec => []WholeTreeFreed
<1>1. IInv => WholeTreeFreed
  <2> SUFFICES ASSUME IInv, pc = "done", orphans = {}, live # {} PROVE FALSE
    BY DEF WholeTreeFreed
  <2>1. live \subseteq Nat
    BY DEF IInv, TypeOK
  <2>2. PICK n \in live : \A m \in live : ~(m < n)
    <3>1. PICK n \in live : \A m \in live : ~(<<m, n>> \in OpToRel(<, Nat))
      BY <2>1, NatLessThanWellFounded, WFMin
    <3> QED BY <2>1, <3>1 DEF OpToRel
  <2>3. PICK m \in live : n \in {left[m], right[m]}
    BY DEF IInv, WalkInv, Coverage, Referenced
  <2>4. m < n
    BY <2>1, <2>3 DEF IInv, LinkInv, Ordered, NULL, TypeOK
  <2> QED BY <2>2, <2>4
<1> QED BY <1>1, Invariance, PTL

(***************************************************************************)
(* No step overwrites a sibling link: json_build writes node->right only   *)
(* at its cursor, which has no sibling yet.                                *)
(***************************************************************************)
THEOREM SiblingsAreKept == Spec => SiblingsKept
<1>1. ASSUME IInv, [Next]_vars
      PROVE  \A n \in Node : right[n] # NULL => right'[n] = right[n]
  <2>1. CASE right' = right
    BY <2>1
  <2>2. ASSUME NEW c \in Contents, NextSibling(c)
        PROVE  \A n \in Node : right[n] # NULL => right'[n] = right[n]
    <3>1. pc = "build" /\ right' = [right EXCEPT ![node] = NewNode]
      BY <2>2 DEF NextSibling, Step, Round
    <3>2. right[node] = NULL /\ right \in [Node -> Node \cup {NULL}]
      BY <1>1, <3>1 DEF IInv, TypeOK, WalkInv, Building
    <3> QED BY <3>1, <3>2
  <2>3. ASSUME ~\E c \in Contents : NextSibling(c) PROVE right' = right
    <3>1. CASE json_build
      <4>1. ASSUME NEW c \in Contents, NEW t \in Tokens,
                   OpenGroup(c, t) \/ CloseGroup(c, t) \/ Reject(c, t) \/ OutOfMemory(c, t)
            PROVE  right' = right
        BY <4>1 DEF OpenGroup, CloseGroup, Reject, OutOfMemory, links
      <4>2. ASSUME NEW c \in Contents, SetName(c) \/ Accept(c) PROVE right' = right
        BY <4>2 DEF SetName, Accept, links
      <4> QED BY <2>3, <3>1, <4>1, <4>2 DEF json_build, ScanError, links
    <3>2. CASE json_parse \/ Release \/ json_free \/ Terminated \/ UNCHANGED vars
      BY <3>2 DEF json_parse, Release, json_free, FreeDescend, FreeNode, FreeReturn,
                  Terminated, links, vars
    <3> QED BY <1>1, <3>1, <3>2 DEF Next
  <2> QED BY <2>1, <2>2, <2>3
<1>2. IInv /\ [Next]_vars => [\A n \in Node : right[n] # NULL => right'[n] = right[n]]_vars
  BY <1>1
<1> QED BY <1>2, Invariance, PTL DEF Spec, SiblingsKept

-----------------------------------------------------------------------------
(***************************************************************************)
(* The shape of the tree.  As long as no child was lost, json_build keeps  *)
(* it at every round, except that its cursor may still be EMPTY; and when  *)
(* the text ends at a cursor without a parent, that is all there is.       *)
(***************************************************************************)
\* Memory that was not allocated yet is as calloc will leave it.
Blank == pc \in {"start", "build"} =>
    \A n \in Node : n > count => type[n] = "EMPTY" /\ named[n] = FALSE

\* Only the root has no parent, and a first child is older than its siblings.
Rooted == \A n \in live :
    IF parent[n] = NULL THEN n = Root
    ELSE parent[n] \in live /\ left[parent[n]] # NULL /\ left[parent[n]] <= n

\* Groups, and no others, have children.
Grouped == \A n \in live : type[n] \in {"OBJECT", "ARRAY"} <=> left[n] # NULL

\* An EMPTY node other than the cursor is alone in a closed group.
Emptied == \A n \in live : n # node /\ type[n] = "EMPTY" =>
    parent[n] \notin open \cup {NULL} /\ \A k \in live : parent[k] = parent[n] => k = n

\* Members have names and elements have none.
Naming == \A k \in live : parent[k] # NULL =>
    /\ type[parent[k]] = "OBJECT" => named[k] = TRUE \/ type[k] = "EMPTY"
    /\ type[parent[k]] = "ARRAY" => named[k] = FALSE

\* The cursor and the open groups are the youngest of their siblings.
Youngest == \A q \in open \cup {node} : \A n \in live : parent[n] = parent[q] => n <= q

Shaped == pc = "build" /\ orphans = {} =>
    Rooted /\ Grouped /\ Emptied /\ Naming /\ Youngest

\* What json_build's rounds start from.
LEMMA BuildFacts ==
    ASSUME IInv, pc = "build"
    PROVE  /\ live \subseteq Nat /\ live \subseteq Node /\ node \in live /\ Root \in live
           /\ node \in Nat /\ node # NULL /\ right[node] = NULL
           /\ parent[node] \in open \cup {NULL} /\ parent[node] < node
           /\ \A q \in open : q \in live /\ q <= parent[node] /\ parent[q] < q
           /\ \A n \in live : parent[n] \in Nat /\ left[n] \in Nat /\ parent[n] < n
<1> USE MaxNodesAssumption DEF Node, NULL, Root
<1>1. live \subseteq Node /\ live \subseteq Nat /\ open \subseteq live
  BY DEF IInv, TypeOK
<1>2. node \in live /\ Root \in live /\ right[node] = NULL
  BY DEF IInv, WalkInv, Building, RootLive
<1>3. \A n \in live : parent[n] \in Nat /\ left[n] \in Nat /\ parent[n] < n
  BY <1>1 DEF IInv, TypeOK, LinkInv, Ordered
<1>4. parent[node] \in open \cup {NULL} /\ \A q \in open : q <= parent[node]
  BY DEF IInv, WalkInv, Building
<1> QED BY <1>1, <1>2, <1>3, <1>4

(***************************************************************************)
(* '{' or '[': the cursor had no children, and is a group from now on.     *)
(***************************************************************************)
LEMMA OpenGroupShape ==
    ASSUME IInv, Blank, Shaped, NEW c \in Contents, NEW t \in Tokens, OpenGroup(c, t)
    PROVE  Blank' /\ Shaped'
<1> USE MaxNodesAssumption DEF Node, NULL, Root
<1>1. /\ pc = "build" /\ pc' = "build" /\ count < MaxNodes /\ count' = NewNode
      /\ live' = live \cup {NewNode} /\ type' = [type EXCEPT ![node] = json_token(t)]
      /\ left' = [left EXCEPT ![node] = NewNode] /\ parent' = [parent EXCEPT ![NewNode] = node]
      /\ node' = NewNode /\ open' = open \cup {node} /\ orphans' = Orphaned
      /\ named' = named /\ ~Nameless /\ t \in Openers
  BY DEF OpenGroup, Step, Round, json_create, Acceptable, MayOpen, Openers, Closers
<1>2. PICK N \in Node : N = NewNode /\ N = count + 1
  BY <1>1, NewNodeFresh DEF NewNode
<1>3. /\ N \notin live /\ \A n \in live : n < N
      /\ left[N] = NULL /\ right[N] = NULL /\ parent[N] = NULL
  BY <1>1, <1>2, NewNodeFresh
<1>4. /\ live \subseteq Nat /\ live \subseteq Node /\ node \in live /\ Root \in live
      /\ node \in Nat /\ node # NULL
      /\ parent[node] \in open \cup {NULL} /\ parent[node] < node
      /\ \A q \in open : q \in live /\ q <= parent[node] /\ parent[q] < q
      /\ \A n \in live : parent[n] \in Nat /\ left[n] \in Nat /\ parent[n] < n
  BY <1>1, BuildFacts
<1>5. type[N] = "EMPTY" /\ named[N] = FALSE
  BY <1>1, <1>2 DEF Blank, IInv, TypeOK
<1>6. /\ type' \in [Node -> Types] /\ type'[node] \in {"OBJECT", "ARRAY"}
      /\ \A n \in Node : n # node => type'[n] = type[n]
      /\ left'[node] = N /\ \A n \in Node : n # node => left'[n] = left[n]
      /\ parent'[N] = node /\ \A n \in Node : n # N => parent'[n] = parent[n]
  BY <1>1, <1>2, <1>4 DEF IInv, TypeOK, json_token, Types
<1>7. Blank'
  <2>1. \A n \in Node : n > N => n > count /\ n # node
    BY <1>2, <1>3, <1>4 DEF IInv, TypeOK
  <2>2. \A n \in Node : n > count => type[n] = "EMPTY" /\ named[n] = FALSE
    BY <1>1 DEF Blank
  <2> QED BY <1>1, <1>2, <1>6, <2>1, <2>2 DEF Blank
<1>8. ASSUME orphans' = {} PROVE (Rooted /\ Grouped /\ Emptied /\ Naming /\ Youngest)'
  <2>1. left[node] = NULL /\ orphans = {}
    BY <1>1, <1>8 DEF Orphaned
  <2>2. Rooted /\ Grouped /\ Emptied /\ Naming /\ Youngest
    BY <1>1, <2>1 DEF Shaped
  <2>3. \A n \in live : parent[n] # node
    BY <1>4, <2>1, <2>2 DEF Rooted
  <2>4. \A n \in live : n \in Node /\ n # N /\ parent'[n] = parent[n] /\ parent[n] # N
    BY <1>3, <1>4, <1>6, <2>2 DEF Rooted
  <2>5. node # N /\ type'[N] = "EMPTY" /\ left'[N] = NULL /\ named'[N] = FALSE
    BY <1>1, <1>3, <1>4, <1>5, <1>6
  <2>6. Rooted'
    <3>1. ASSUME NEW n \in live
          PROVE  IF parent[n] = NULL THEN n = Root
                 ELSE parent[n] \in live' /\ left'[parent[n]] # NULL /\ left'[parent[n]] <= n
      BY <1>1, <1>4, <1>6, <2>2, <2>3 DEF Rooted
    <3> QED BY <1>1, <1>2, <1>4, <1>6, <2>4, <3>1 DEF Rooted
  <2>7. Grouped'
    BY <1>1, <1>2, <1>4, <1>6, <2>2, <2>5 DEF Grouped
  <2>8. Emptied'
    <3>1. ASSUME NEW n \in live', n # N, type'[n] = "EMPTY"
          PROVE  parent'[n] \notin open' \cup {NULL} /\ \A k \in live' : parent'[k] = parent'[n] => k = n
      <4>1. n \in live /\ n # node /\ type[n] = "EMPTY"
        BY <1>1, <1>2, <1>4, <1>6, <3>1
      <4>2. parent[n] \notin open \cup {NULL} /\ \A k \in live : parent[k] = parent[n] => k = n
        BY <2>2, <4>1 DEF Emptied
      <4> QED BY <1>1, <1>2, <1>6, <2>3, <2>4, <4>1, <4>2
    <3> QED BY <1>1, <1>2, <3>1 DEF Emptied
  <2>9. Naming'
    <3>1. ASSUME NEW k \in live, parent[k] # NULL
          PROVE  /\ type'[parent[k]] = "OBJECT" => named[k] = TRUE \/ type'[k] = "EMPTY"
                 /\ type'[parent[k]] = "ARRAY" => named[k] = FALSE
      <4>1. parent[k] \in live /\ type'[parent[k]] = type[parent[k]]
        BY <1>4, <1>6, <2>2, <2>3, <3>1 DEF Rooted
      <4>2. CASE k # node
        BY <1>4, <1>6, <2>2, <3>1, <4>1, <4>2 DEF Naming
      <4>3. CASE k = node
        <5>1. type[parent[node]] = "OBJECT" => named[node]
          BY <1>1, <3>1, <4>3 DEF Nameless, InObject, HasParent
        <5>2. named[node] \in BOOLEAN
          BY <1>4 DEF IInv, TypeOK
        <5> QED BY <2>2, <3>1, <4>1, <4>3, <5>1, <5>2 DEF Naming
      <4> QED BY <4>2, <4>3
    <3>2. ASSUME NEW k \in live', parent'[k] # NULL
          PROVE  /\ type'[parent'[k]] = "OBJECT" => named'[k] = TRUE \/ type'[k] = "EMPTY"
                 /\ type'[parent'[k]] = "ARRAY" => named'[k] = FALSE
      <4>1. CASE k \in live
        <5>1. parent'[k] = parent[k] /\ named'[k] = named[k]
          BY <1>1, <2>4, <4>1
        <5> QED BY <3>1, <3>2, <4>1, <5>1
      <4>2. CASE k = N
        BY <2>5, <4>2
      <4> QED BY <1>1, <1>2, <4>1, <4>2
    <3> QED BY <3>2 DEF Naming
  <2>10. Youngest'
    <3>1. ASSUME NEW q \in open \cup {node}, NEW n \in live', parent'[n] = parent'[q]
          PROVE  n <= q
      <4>1. q \in live /\ parent[q] # node /\ parent'[q] = parent[q]
        BY <1>4, <2>3, <2>4
      <4>2. n # N
        BY <1>6, <3>1, <4>1
      <4>3. n \in live /\ parent[n] = parent[q]
        BY <1>1, <1>2, <2>4, <3>1, <4>1, <4>2
      <4> QED BY <2>2, <4>3 DEF Youngest
    <3>2. ASSUME NEW n \in live', parent'[n] = parent'[N]
          PROVE  n <= N
      BY <1>1, <1>2, <1>6, <2>3, <2>4, <3>2
    <3> QED BY <1>1, <1>2, <3>1, <3>2 DEF Youngest
  <2> QED BY <2>6, <2>7, <2>8, <2>9, <2>10
<1> QED BY <1>7, <1>8 DEF Shaped

\* The cursor's value.
LEMMA ValueTypeIs ==
    ASSUME TypeOK, NEW c \in Contents, node \in Node
    PROVE  /\ ValueType(c) \in [Node -> Types]
           /\ \A n \in Node : n # node => ValueType(c)[n] = type[n]
           /\ type[node] # "EMPTY" => ValueType(c)[node] = type[node]
           /\ type[node] = "EMPTY" => ValueType(c)[node] = IF c \in ScalarTypes THEN c ELSE "EMPTY"
BY DEF TypeOK, ValueType, Types

(***************************************************************************)
(* ',': the cursor is complete, and the new one is its youngest sibling.   *)
(***************************************************************************)
LEMMA NextSiblingShape ==
    ASSUME IInv, Blank, Shaped, NEW c \in Contents, NextSibling(c)
    PROVE  Blank' /\ Shaped'
<1> USE MaxNodesAssumption DEF Node, NULL, Root
<1>1. /\ pc = "build" /\ pc' = "build" /\ count < MaxNodes /\ count' = NewNode
      /\ live' = live \cup {NewNode} /\ type' = ValueType(c) /\ left' = left
      /\ parent' = [parent EXCEPT ![NewNode] = parent[node]]
      /\ node' = NewNode /\ open' = open /\ orphans' = orphans
      /\ named' = named /\ ~Nameless /\ Complete(c) /\ HasParent
  BY DEF NextSibling, Step, Round, json_create, Acceptable, MayContinue, Openers, Closers,
         SiblingParent
<1>2. PICK N \in Node : N = NewNode /\ N = count + 1
  BY <1>1, NewNodeFresh DEF NewNode
<1>3. /\ N \notin live /\ \A n \in live : n < N
      /\ left[N] = NULL /\ right[N] = NULL /\ parent[N] = NULL
  BY <1>1, <1>2, NewNodeFresh
<1>4. /\ live \subseteq Nat /\ live \subseteq Node /\ node \in live /\ Root \in live
      /\ node \in Nat /\ node # NULL
      /\ parent[node] \in open \cup {NULL} /\ parent[node] < node
      /\ \A q \in open : q \in live /\ q <= parent[node] /\ parent[q] < q
      /\ \A n \in live : parent[n] \in Nat /\ left[n] \in Nat /\ parent[n] < n
  BY <1>1, BuildFacts
<1>5. type[N] = "EMPTY" /\ named[N] = FALSE
  BY <1>1, <1>2 DEF Blank, IInv, TypeOK
<1>6. PICK p \in open : p = parent[node] /\ p # NULL /\ p \in live
  BY <1>1, <1>4 DEF HasParent
<1>7. /\ \A n \in Node : n # node => type'[n] = type[n]
      /\ type[node] # "EMPTY" => type'[node] = type[node]
      /\ type[node] = "EMPTY" => type'[node] \in ScalarTypes
      /\ type'[node] # "EMPTY"
      /\ parent'[N] = p /\ \A n \in Node : n # N => parent'[n] = parent[n]
  <2>1. TypeOK /\ node \in Node
    BY <1>4 DEF IInv
  <2>2. /\ \A n \in Node : n # node => type'[n] = type[n]
        /\ type[node] # "EMPTY" => type'[node] = type[node]
        /\ type[node] = "EMPTY" => type'[node] = IF c \in ScalarTypes THEN c ELSE "EMPTY"
    BY <1>1, <2>1, ValueTypeIs
  <2>3. type[node] = "EMPTY" => c \in ScalarTypes
    BY <1>1 DEF Complete
  <2>4. "EMPTY" \notin ScalarTypes
    BY DEF ScalarTypes
  <2>5. parent'[N] = p /\ \A n \in Node : n # N => parent'[n] = parent[n]
    BY <1>1, <1>2, <1>6 DEF IInv, TypeOK
  <2> QED BY <2>2, <2>3, <2>4, <2>5
<1>8. Blank'
  <2>1. \A n \in Node : n > N => n > count /\ n # node
    BY <1>2, <1>3, <1>4 DEF IInv, TypeOK
  <2>2. \A n \in Node : n > count => type[n] = "EMPTY" /\ named[n] = FALSE
    BY <1>1 DEF Blank
  <2> QED BY <1>1, <1>2, <1>7, <2>1, <2>2 DEF Blank
<1>9. ASSUME orphans' = {} PROVE (Rooted /\ Grouped /\ Emptied /\ Naming /\ Youngest)'
  <2>1. Rooted /\ Grouped /\ Emptied /\ Naming /\ Youngest
    BY <1>1, <1>9 DEF Shaped
  <2>2. \A n \in live : n \in Node /\ n # N /\ parent'[n] = parent[n] /\ parent[n] # N
    BY <1>3, <1>4, <1>7, <2>1 DEF Rooted
  <2>3. node # N /\ type'[N] = "EMPTY" /\ left'[N] = NULL /\ named'[N] = FALSE
    BY <1>1, <1>3, <1>4, <1>5, <1>7
  <2>4. left[p] # NULL /\ left[p] <= node /\ p # node /\ type'[p] = type[p]
    BY <1>4, <1>6, <1>7, <2>1 DEF Rooted
  <2>5. Rooted'
    <3>1. left[p] <= N
      BY <1>3, <1>4, <1>6, <2>4
    <3> QED BY <1>1, <1>2, <1>6, <1>7, <2>1, <2>2, <2>4, <3>1 DEF Rooted
  <2>6. Grouped'
    <3>1. type'[node] \in {"OBJECT", "ARRAY"} <=> type[node] \in {"OBJECT", "ARRAY"}
      BY <1>7 DEF ScalarTypes
    <3> QED BY <1>1, <1>2, <1>4, <1>7, <2>1, <2>3, <3>1 DEF Grouped
  <2>7. Emptied'
    <3>1. ASSUME NEW n \in live', n # N, type'[n] = "EMPTY"
          PROVE  parent'[n] \notin open \cup {NULL} /\ \A k \in live' : parent'[k] = parent'[n] => k = n
      <4>1. n \in live /\ n # node /\ type[n] = "EMPTY"
        BY <1>1, <1>2, <1>4, <1>7, <3>1
      <4>2. parent[n] \notin open \cup {NULL} /\ \A k \in live : parent[k] = parent[n] => k = n
        BY <2>1, <4>1 DEF Emptied
      <4>3. parent[n] # p
        BY <1>6, <4>2
      <4> QED BY <1>1, <1>2, <1>7, <2>2, <4>1, <4>2, <4>3
    <3> QED BY <1>1, <1>2, <3>1 DEF Emptied
  <2>8. Naming'
    <3>1. ASSUME NEW k \in live, parent[k] # NULL
          PROVE  /\ type'[parent[k]] = "OBJECT" => named[k] = TRUE \/ type'[k] = "EMPTY"
                 /\ type'[parent[k]] = "ARRAY" => named[k] = FALSE
      <4>1. parent[k] \in live /\ left[parent[k]] # NULL
        BY <2>1, <3>1 DEF Rooted
      <4>2. type[parent[k]] \in {"OBJECT", "ARRAY"}
        BY <2>1, <4>1 DEF Grouped
      <4>3. type'[parent[k]] = type[parent[k]]
        BY <1>4, <1>7, <4>1, <4>2
      <4>4. CASE k # node
        BY <1>4, <1>7, <2>1, <3>1, <4>3, <4>4 DEF Naming
      <4>5. CASE k = node
        <5>1. type[parent[node]] = "OBJECT" => named[node]
          BY <1>1, <3>1, <4>5 DEF Nameless, InObject, HasParent
        <5>2. named[node] \in BOOLEAN
          BY <1>4 DEF IInv, TypeOK
        <5> QED BY <2>1, <3>1, <4>3, <4>5, <5>1, <5>2 DEF Naming
      <4> QED BY <4>4, <4>5
    <3>2. ASSUME NEW k \in live', parent'[k] # NULL
          PROVE  /\ type'[parent'[k]] = "OBJECT" => named'[k] = TRUE \/ type'[k] = "EMPTY"
                 /\ type'[parent'[k]] = "ARRAY" => named'[k] = FALSE
      <4>1. CASE k \in live
        <5>1. parent'[k] = parent[k] /\ named'[k] = named[k]
          BY <1>1, <2>2, <4>1
        <5> QED BY <3>1, <3>2, <4>1, <5>1
      <4>2. CASE k = N
        BY <2>3, <4>2
      <4> QED BY <1>1, <1>2, <4>1, <4>2
    <3> QED BY <3>2 DEF Naming
  <2>9. Youngest'
    <3>1. ASSUME NEW q \in open, NEW n \in live', parent'[n] = parent'[q]
          PROVE  n <= q
      <4>1. q \in live /\ parent[q] < q /\ q <= p /\ parent'[q] = parent[q]
        BY <1>4, <1>6, <2>2
      <4>2. parent[q] # p
        BY <1>4, <1>6, <4>1
      <4>3. n # N
        BY <1>7, <3>1, <4>1, <4>2
      <4>4. n \in live /\ parent[n] = parent[q]
        BY <1>1, <1>2, <2>2, <3>1, <4>1, <4>3
      <4> QED BY <2>1, <4>4 DEF Youngest
    <3>2. ASSUME NEW n \in live' PROVE n <= N
      BY <1>1, <1>2, <1>3, <1>4
    <3> QED BY <1>1, <1>2, <3>1, <3>2 DEF Youngest
  <2> QED BY <2>5, <2>6, <2>7, <2>8, <2>9
<1> QED BY <1>8, <1>9 DEF Shaped

(***************************************************************************)
(* ']' or '}': the cursor may stay EMPTY if it is the first child, and as  *)
(* the youngest it is then the only one; its group is the cursor again.    *)
(***************************************************************************)
LEMMA CloseGroupShape ==
    ASSUME IInv, Blank, Shaped, NEW c \in Contents, NEW t \in Tokens, CloseGroup(c, t)
    PROVE  Blank' /\ Shaped'
<1> USE MaxNodesAssumption DEF Node, NULL, Root
<1>1. /\ pc = "build" /\ pc' = "build" /\ count' = count /\ live' = live
      /\ type' = ValueType(c) /\ left' = left /\ parent' = parent
      /\ node' = parent[node] /\ open' = open \ {parent[node]} /\ orphans' = orphans
      /\ named' = named /\ HasParent /\ MayClose(c, t)
  BY DEF CloseGroup, Step, Round, Acceptable, MayClose, Openers, Closers, links
<1>2. /\ live \subseteq Nat /\ live \subseteq Node /\ node \in live
      /\ parent[node] \in open \cup {NULL} /\ parent[node] < node
      /\ \A q \in open : q \in live
      /\ \A n \in live : parent[n] \in Nat /\ left[n] \in Nat
  BY <1>1, BuildFacts
<1>3. PICK p \in open : p = parent[node] /\ p # NULL /\ p \in live /\ p # node
  BY <1>1, <1>2 DEF HasParent
<1>4. TypeOK /\ node \in Node
  BY <1>2 DEF IInv
<1>5. /\ \A n \in Node : n # node => type'[n] = type[n]
      /\ type[node] # "EMPTY" => type'[node] = type[node]
      /\ type[node] = "EMPTY" => type'[node] = IF c \in ScalarTypes THEN c ELSE "EMPTY"
  BY <1>1, <1>4, ValueTypeIs
<1>6. type'[node] \in {"OBJECT", "ARRAY"} <=> type[node] \in {"OBJECT", "ARRAY"}
  BY <1>5 DEF ScalarTypes
<1>7. type'[node] = "EMPTY" => type[node] = "EMPTY" /\ left[p] = node
  <2>1. "none" \notin ScalarTypes /\ "EMPTY" \notin ScalarTypes
    BY DEF ScalarTypes
  <2> QED BY <1>1, <1>3, <1>5, <2>1 DEF MayClose
<1>8. Blank'
  <2>1. \A n \in Node : n > count => n # node
    BY <1>2 DEF IInv, TypeOK
  <2>2. \A n \in Node : n > count => type[n] = "EMPTY" /\ named[n] = FALSE
    BY <1>1 DEF Blank
  <2> QED BY <1>1, <1>5, <2>1, <2>2 DEF Blank
<1>9. ASSUME orphans' = {} PROVE (Rooted /\ Grouped /\ Emptied /\ Naming /\ Youngest)'
  <2>1. Rooted /\ Grouped /\ Emptied /\ Naming /\ Youngest
    BY <1>1, <1>9 DEF Shaped
  <2>2. Rooted'
    BY <1>1, <2>1 DEF Rooted
  <2>3. Grouped'
    BY <1>1, <1>2, <1>5, <1>6, <2>1 DEF Grouped
  <2>4. Emptied'
    <3>1. ASSUME NEW n \in live, n # p, type'[n] = "EMPTY"
          PROVE  parent[n] \notin (open \ {p}) \cup {NULL} /\ \A k \in live : parent[k] = parent[n] => k = n
      <4>1. CASE n # node
        BY <1>2, <1>5, <2>1, <3>1, <4>1 DEF Emptied
      <4>2. CASE n = node
        <5>1. ASSUME NEW k \in live, parent[k] = p PROVE k = node
          <6>1. node <= k
            BY <1>3, <1>7, <2>1, <3>1, <4>2, <5>1 DEF Rooted
          <6>2. k <= node
            BY <1>3, <2>1, <5>1 DEF Youngest
          <6> QED BY <1>2, <6>1, <6>2
        <5> QED BY <1>3, <4>2, <5>1
      <4> QED BY <4>1, <4>2
    <3> QED BY <1>1, <1>3, <3>1 DEF Emptied
  <2>5. Naming'
    <3>1. ASSUME NEW k \in live, parent[k] # NULL
          PROVE  /\ type'[parent[k]] = "OBJECT" => named[k] = TRUE \/ type'[k] = "EMPTY"
                 /\ type'[parent[k]] = "ARRAY" => named[k] = FALSE
      <4>1. parent[k] \in live /\ left[parent[k]] # NULL
        BY <2>1, <3>1 DEF Rooted
      <4>2. type[parent[k]] \in {"OBJECT", "ARRAY"}
        BY <2>1, <4>1 DEF Grouped
      <4>3. type'[parent[k]] = type[parent[k]]
        BY <1>2, <1>5, <4>1, <4>2
      <4>4. /\ type[parent[k]] = "OBJECT" => named[k] = TRUE \/ type[k] = "EMPTY"
            /\ type[parent[k]] = "ARRAY" => named[k] = FALSE
        BY <2>1, <3>1 DEF Naming
      <4>5. CASE k # node \/ type[node] # "EMPTY"
        BY <1>2, <1>5, <4>3, <4>4, <4>5
      <4>6. CASE k = node /\ type[node] = "EMPTY"
        <5>1. CASE c \in ScalarTypes
          <6>1. ~Nameless
            BY <1>1, <4>6, <5>1 DEF MayClose, ScalarTypes
          <6>2. type[parent[node]] = "OBJECT" => named[node]
            BY <1>1, <6>1 DEF Nameless, InObject
          <6>3. named[node] \in BOOLEAN
            BY <1>2 DEF IInv, TypeOK
          <6> QED BY <4>3, <4>4, <4>6, <6>2, <6>3
        <5>2. CASE c \notin ScalarTypes
          BY <1>5, <4>3, <4>4, <4>6, <5>2
        <5> QED BY <5>1, <5>2
      <4> QED BY <4>5, <4>6
    <3>2. \A k \in live : parent[k] # NULL =>
            /\ type'[parent[k]] = "OBJECT" => named[k] = TRUE \/ type'[k] = "EMPTY"
            /\ type'[parent[k]] = "ARRAY" => named[k] = FALSE
      BY <3>1
    <3> QED BY <1>1, <3>2 DEF Naming
  <2>6. Youngest'
    BY <1>1, <1>3, <2>1 DEF Youngest
  <2> QED BY <2>2, <2>3, <2>4, <2>5, <2>6
<1> QED BY <1>8, <1>9 DEF Shaped

(***************************************************************************)
(* ':': only a member of an object is given a name.                        *)
(***************************************************************************)
LEMMA SetNameShape ==
    ASSUME IInv, Blank, Shaped, NEW c \in Contents, SetName(c)
    PROVE  Blank' /\ Shaped'
<1> USE MaxNodesAssumption DEF Node, NULL, Root
<1>1. /\ pc = "build" /\ pc' = "build" /\ count' = count /\ live' = live
      /\ type' = type /\ left' = left /\ parent' = parent /\ node' = node
      /\ open' = open /\ orphans' = orphans
      /\ named' = [named EXCEPT ![node] = TRUE] /\ type[parent[node]] = "OBJECT"
  BY DEF SetName, Step, Round, Acceptable, MayName, Nameless, InObject, Openers, Closers, links
<1>2. live \subseteq Node /\ node \in live /\ node <= count
  BY <1>1, BuildFacts DEF IInv, TypeOK
<1>3. named'[node] = TRUE /\ \A n \in Node : n # node => named'[n] = named[n]
  BY <1>1, <1>2 DEF IInv, TypeOK
<1>4. Blank'
  <2>1. \A n \in Node : n > count => n # node
    BY <1>2 DEF IInv, TypeOK
  <2>2. \A n \in Node : n > count => type[n] = "EMPTY" /\ named[n] = FALSE
    BY <1>1 DEF Blank
  <2>3. \A n \in Node : n > count => type'[n] = "EMPTY" /\ named'[n] = FALSE
    BY <1>1, <1>3, <2>1, <2>2
  <2> QED BY <1>1, <2>3 DEF Blank
<1>5. ASSUME orphans' = {} PROVE (Rooted /\ Grouped /\ Emptied /\ Naming /\ Youngest)'
  <2>1. Rooted /\ Grouped /\ Emptied /\ Naming /\ Youngest
    BY <1>1, <1>5 DEF Shaped
  <2>2. Rooted' /\ Grouped' /\ Emptied' /\ Youngest'
    BY <1>1, <2>1 DEF Rooted, Grouped, Emptied, Youngest
  <2>3. Naming'
    <3>1. ASSUME NEW k \in live, parent[k] # NULL
          PROVE  /\ type[parent[k]] = "OBJECT" => named'[k] = TRUE \/ type[k] = "EMPTY"
                 /\ type[parent[k]] = "ARRAY" => named'[k] = FALSE
      <4>1. CASE k # node
        <5>1. named'[k] = named[k]
          BY <1>2, <1>3, <4>1
        <5> QED BY <2>1, <3>1, <5>1 DEF Naming
      <4>2. CASE k = node
        BY <1>1, <1>3, <4>2
      <4> QED BY <4>1, <4>2
    <3> QED BY <1>1, <3>1 DEF Naming
  <2> QED BY <2>2, <2>3
<1> QED BY <1>4, <1>5 DEF Shaped

(***************************************************************************)
(* json_parse: a root alone has the shape.                                 *)
(***************************************************************************)
LEMMA ParseShape ==
    ASSUME IInv, Blank, json_parse, pc' = "build"
    PROVE  Blank' /\ Shaped'
<1> USE MaxNodesAssumption DEF Node, NULL, Root
<1>1. /\ pc = "start" /\ json_create /\ node' = 1
      /\ type' = type /\ named' = named /\ left' = left /\ right' = right
      /\ parent' = parent /\ open' = open
  BY DEF json_parse, links
<1>2. count = 0 /\ live = {} /\ open = {}
  BY <1>1 DEF IInv, WalkInv, Starting, TypeOK
<1>3. count' = 1 /\ live' = {1} /\ 1 \in Node
  BY <1>1, <1>2 DEF json_create, NewNode, IInv, TypeOK
<1>4. left[1] = NULL /\ parent[1] = NULL /\ type[1] = "EMPTY"
  BY <1>1, <1>2, <1>3 DEF IInv, LinkInv, Fresh, Blank
<1>5. Blank'
  <2>1. \A n \in Node : n > count => type[n] = "EMPTY" /\ named[n] = FALSE
    BY <1>1 DEF Blank
  <2> QED BY <1>1, <1>2, <1>3, <2>1 DEF Blank
<1>6. Rooted' /\ Grouped' /\ Emptied' /\ Naming' /\ Youngest'
  BY <1>1, <1>2, <1>3, <1>4 DEF Rooted, Grouped, Emptied, Naming, Youngest
<1> QED BY <1>5, <1>6 DEF Shaped

(***************************************************************************)
(* The end of the text: a cursor without a parent is the root, no group is *)
(* open any more, and the root has a value.                                *)
(***************************************************************************)
LEMMA AcceptShape ==
    ASSUME IInv, Shaped, NEW c \in Contents, Accept(c)
    PROVE  AcceptedShape'
<1> USE MaxNodesAssumption DEF Node, NULL, Root
<1> SUFFICES ASSUME orphans' = {}
             PROVE  (/\ node = Root /\ open = {} /\ right[Root] = NULL /\ type[Root] # "EMPTY"
                     /\ \A n \in live :
                          /\ type[n] \in {"OBJECT", "ARRAY"} <=> left[n] # NULL
                          /\ type[n] = "EMPTY" => Elements(parent[n]) = {n}
                          /\ type[n] = "OBJECT" =>
                               \A k \in Elements(n) : named[k] \/ type[k] = "EMPTY"
                          /\ type[n] = "ARRAY" => \A k \in Elements(n) : ~named[k])'
  BY DEF AcceptedShape
<1>1. /\ pc = "build" /\ live' = live /\ type' = ValueType(c) /\ left' = left
      /\ right' = right /\ parent' = parent /\ node' = node /\ open' = open
      /\ orphans' = orphans /\ named' = named /\ ~HasParent /\ Complete(c)
  BY DEF Accept, Round, Acceptable, MayEnd, Openers, Closers, links
<1>2. /\ live \subseteq Nat /\ live \subseteq Node /\ node \in live /\ right[node] = NULL
      /\ \A q \in open : q \in live /\ q <= parent[node]
  BY <1>1, BuildFacts
<1>3. Rooted /\ Grouped /\ Emptied /\ Naming /\ Youngest
  BY <1>1 DEF Shaped
<1>4. node = 1 /\ parent[node] = 0 /\ \A n \in live : parent[n] = 0 => n = 1
  BY <1>1, <1>2, <1>3 DEF Rooted, HasParent
<1>5. open = {}
  <2>1. ASSUME NEW q \in open PROVE FALSE
    <3>1. q \in 1 .. MaxNodes /\ q <= 0
      BY <1>2, <1>4
    <3> QED BY <3>1
  <2> QED BY <2>1
<1>6. /\ \A n \in Node : n # node => type'[n] = type[n]
      /\ type[node] # "EMPTY" => type'[node] = type[node]
      /\ type[node] = "EMPTY" => type'[node] = IF c \in ScalarTypes THEN c ELSE "EMPTY"
  <2>1. TypeOK /\ node \in Node
    BY <1>2 DEF IInv
  <2> QED BY <1>1, <2>1, ValueTypeIs
<1>7. /\ type'[node] # "EMPTY"
      /\ type'[node] \in {"OBJECT", "ARRAY"} <=> type[node] \in {"OBJECT", "ARRAY"}
      /\ type'[node] \in {"OBJECT", "ARRAY"} => type'[node] = type[node]
  BY <1>1, <1>6 DEF Complete, ScalarTypes
<1>8. ASSUME NEW n \in live
      PROVE  /\ type'[n] \in {"OBJECT", "ARRAY"} <=> left[n] # NULL
             /\ type'[n] = "EMPTY" => {k \in live : parent[k] = parent[n]} = {n}
             /\ type'[n] = "OBJECT" =>
                  \A k \in live : parent[k] = n => named[k] \/ type'[k] = "EMPTY"
             /\ type'[n] = "ARRAY" => \A k \in live : parent[k] = n => ~named[k]
  <2>1. type'[n] \in {"OBJECT", "ARRAY"} <=> left[n] # NULL
    BY <1>2, <1>3, <1>6, <1>7 DEF Grouped
  <2>2. ASSUME type'[n] = "EMPTY" PROVE {k \in live : parent[k] = parent[n]} = {n}
    <3>1. n # node /\ type[n] = "EMPTY"
      BY <1>2, <1>6, <1>7, <2>2
    <3>2. \A k \in live : parent[k] = parent[n] => k = n
      BY <1>3, <3>1 DEF Emptied
    <3> QED BY <3>2
  <2>3. ASSUME NEW k \in live, parent[k] = n, type'[n] \in {"OBJECT", "ARRAY"}
        PROVE  /\ type'[n] = "OBJECT" => named[k] \/ type'[k] = "EMPTY"
               /\ type'[n] = "ARRAY" => ~named[k]
    <3>1. type[n] = type'[n] /\ k # node /\ type'[k] = type[k] /\ n # NULL
      BY <1>2, <1>4, <1>6, <1>7, <2>3
    <3>2. /\ type[n] = "OBJECT" => named[k] = TRUE \/ type[k] = "EMPTY"
          /\ type[n] = "ARRAY" => named[k] = FALSE
      BY <1>3, <2>3, <3>1 DEF Naming
    <3> QED BY <3>1, <3>2
  <2> QED BY <2>1, <2>2, <2>3
<1> QED BY <1>1, <1>2, <1>4, <1>5, <1>7, <1>8 DEF Elements

\* Every step of the program keeps the shape, and leaves it to the readers.
ShapeInv == Blank /\ Shaped /\ AcceptedShape

LEMMA NextShape == IInv /\ ShapeInv /\ [Next]_vars => ShapeInv'
<1> SUFFICES ASSUME IInv, ShapeInv, [Next]_vars PROVE ShapeInv'
  OBVIOUS
<1>1. pc' \in {"free", "done"} => ShapeInv'
  BY DEF ShapeInv, Blank, Shaped, AcceptedShape
<1>2. pc' = "build" => AcceptedShape'
  BY DEF AcceptedShape
<1>3. CASE json_parse
  <2>1. pc' \in {"build", "done"}
    BY <1>3 DEF json_parse
  <2> QED BY <1>1, <1>2, <1>3, <2>1, ParseShape DEF ShapeInv
<1>4. CASE json_build
  <2>1. ASSUME NEW c \in Contents, NEW t \in Tokens, OpenGroup(c, t) \/ CloseGroup(c, t)
        PROVE  ShapeInv'
    <3>1. pc' = "build"
      BY <2>1 DEF OpenGroup, CloseGroup, Step, Round
    <3> QED BY <1>2, <2>1, <3>1, OpenGroupShape, CloseGroupShape DEF ShapeInv
  <2>2. ASSUME NEW c \in Contents, SetName(c) \/ NextSibling(c) PROVE ShapeInv'
    <3>1. pc' = "build"
      BY <2>2 DEF SetName, NextSibling, Step, Round
    <3> QED BY <1>2, <2>2, <3>1, SetNameShape, NextSiblingShape DEF ShapeInv
  <2>3. ASSUME NEW c \in Contents, Accept(c) PROVE ShapeInv'
    <3>1. pc' = "parsed"
      BY <2>3 DEF Accept
    <3>2. Blank' /\ Shaped'
      BY <3>1 DEF Blank, Shaped
    <3> QED BY <2>3, <3>2, AcceptShape DEF ShapeInv
  <2>4. ASSUME NEW c \in Contents, NEW t \in Tokens, Reject(c, t) \/ OutOfMemory(c, t)
        PROVE  ShapeInv'
    BY <1>1, <2>4 DEF Reject, OutOfMemory, StartFree
  <2>5. CASE ScanError
    BY <1>1, <2>5 DEF ScanError, StartFree
  <2> QED BY <1>4, <2>1, <2>2, <2>3, <2>4, <2>5 DEF json_build
<1>5. CASE Release \/ json_free
  BY <1>1, <1>5 DEF Release, StartFree, json_free, FreeDescend, FreeNode, FreeReturn
<1>6. CASE Terminated \/ UNCHANGED vars
  BY <1>6 DEF Terminated, vars, ShapeInv, Blank, Shaped, Rooted, Grouped, Emptied,
              Naming, Youngest, AcceptedShape, Elements
<1> QED BY <1>3, <1>4, <1>5, <1>6 DEF Next

LEMMA ShapeInvariance == Spec => []ShapeInv
<1>1. Init => ShapeInv
  BY DEF Init, ShapeInv, Blank, Shaped, AcceptedShape, Node
<1> QED BY <1>1, NextShape, Invariance, PTL DEF Spec

(***************************************************************************)
(* An accepted document has the shape json_item, json_items and json_node  *)
(* rely on, whatever its text and however deep: the root is the only node  *)
(* without a parent, every group has a first child, members have names and *)
(* elements have none, and an EMPTY node is alone in its group.            *)
(***************************************************************************)
THEOREM ReadersShape == Spec => []AcceptedShape
<1>1. ShapeInv => AcceptedShape
  BY DEF ShapeInv
<1> QED BY <1>1, ShapeInvariance, PTL

-----------------------------------------------------------------------------
(***************************************************************************)
(* The grammar.  Its stack lists the open groups by age: the group at      *)
(* depth i is the one with i open groups no younger than itself.           *)
(***************************************************************************)
Layered(S) == \A i \in 1 .. Cardinality(S) : \E q \in S : Depth(S, q) = i

\* No two numbers of a set are at the same depth.
LEMMA DepthsDiffer ==
    ASSUME NEW S \in SUBSET Nat, IsFiniteSet(S), NEW q \in S, NEW r \in S, q < r
    PROVE  Depth(S, q) < Depth(S, r)
<1> DEFINE A == {p \in S : p <= q}
           B == {p \in S : p <= r}
<1>1. A \subseteq B /\ r \in B /\ r \notin A /\ B \subseteq S
  <2>1. q \in Nat /\ r \in Nat /\ \A p \in S : p \in Nat
    OBVIOUS
  <2>2. ~(r <= q) /\ r <= r /\ \A p \in S : p <= q => p <= r
    BY <2>1
  <2> QED BY <2>2
<1>2. IsFiniteSet(B)
  BY <1>1, FS_Subset
<1>3. IsFiniteSet(A) /\ Cardinality(A) <= Cardinality(B) /\ (Cardinality(A) = Cardinality(B) => A = B)
  BY <1>1, <1>2, FS_Subset
<1>4. Cardinality(A) \in Nat /\ Cardinality(B) \in Nat
  BY <1>2, <1>3, FS_CardinalityType
<1>5. Cardinality(A) # Cardinality(B)
  BY <1>1, <1>3
<1>6. Cardinality(A) < Cardinality(B)
  <2> HIDE DEF A, B
  <2> QED BY <1>3, <1>4, <1>5
<1> QED BY <1>6 DEF Depth

LEMMA AtDepthIs ==
    ASSUME NEW S \in SUBSET Nat, IsFiniteSet(S), NEW q \in S
    PROVE  AtDepth(S, Depth(S, q)) = q
<1> DEFINE r == AtDepth(S, Depth(S, q))
<1>1. r \in S /\ Depth(S, r) = Depth(S, q)
  BY DEF AtDepth
<1> HIDE DEF r
<1>2. r \in Nat /\ q \in Nat
  BY <1>1
<1>3. \A x \in S : Depth(S, x) \in Nat
  <2> TAKE x \in S
  <2>1. IsFiniteSet({p \in S : p <= x})
    BY FS_Subset
  <2> QED BY <2>1, FS_CardinalityType DEF Depth
<1>4. ~(r < q) /\ ~(q < r)
  <2>1. r < q => Depth(S, r) < Depth(S, q)
    BY <1>1, DepthsDiffer
  <2>2. q < r => Depth(S, q) < Depth(S, r)
    BY <1>1, DepthsDiffer
  <2> QED BY <1>1, <1>3, <2>1, <2>2
<1>5. r = q
  BY <1>2, <1>4
<1> QED BY <1>5 DEF r

(***************************************************************************)
(* A number above all others is put on top of the stack, and taken off it, *)
(* without touching what is below.                                         *)
(***************************************************************************)
LEMMA OnTop ==
    ASSUME NEW S \in SUBSET Nat, IsFiniteSet(S), NEW m \in Nat, \A q \in S : q < m
    PROVE  /\ Cardinality(S) \in Nat /\ Cardinality(S \cup {m}) = Cardinality(S) + 1
           /\ Layered(S) <=> Layered(S \cup {m})
           /\ AtDepth(S \cup {m}, Cardinality(S) + 1) = m
           /\ Layered(S) => \A i \in 1 .. Cardinality(S) :
                AtDepth(S, i) \in S /\ AtDepth(S \cup {m}, i) = AtDepth(S, i)
<1> DEFINE T == S \cup {m}
           n == Cardinality(S)
<1>1. m \notin S
  OBVIOUS
<1>2. n \in Nat /\ Cardinality(T) = n + 1 /\ IsFiniteSet(T) /\ T \in SUBSET Nat
  BY <1>1, FS_AddElement, FS_CardinalityType
<1>3. \A q \in S : Depth(T, q) = Depth(S, q)
  <2> TAKE q \in S
  <2>1. {p \in T : p <= q} = {p \in S : p <= q}
    OBVIOUS
  <2> QED BY <2>1 DEF Depth
<1>4. Depth(T, m) = n + 1
  <2>1. m <= m /\ \A p \in S : p \in Nat /\ p < m
    OBVIOUS
  <2>2. \A p \in T : p <= m
    BY <2>1
  <2>3. {p \in T : p <= m} = T
    BY <2>2
  <2> QED BY <1>2, <2>3 DEF Depth
<1> HIDE DEF n
<1>5. AtDepth(T, n + 1) = m
  BY <1>2, <1>4, AtDepthIs
<1>6. Layered(S) <=> Layered(T)
  <2>1. ASSUME Layered(S), NEW i \in 1 .. n + 1 PROVE \E q \in T : Depth(T, q) = i
    <3>1. CASE i = n + 1
      BY <1>4, <3>1
    <3>2. CASE i \in 1 .. n
      BY <1>3, <2>1, <3>2 DEF Layered, n
    <3> QED BY <1>2, <3>1, <3>2
  <2>2. ASSUME Layered(T), NEW i \in 1 .. n PROVE \E q \in S : Depth(S, q) = i
    <3>1. i \in 1 .. n + 1 /\ i # n + 1
      BY <1>2
    <3>2. PICK q \in T : Depth(T, q) = i
      BY <1>2, <2>2, <3>1 DEF Layered
    <3>3. q \in S
      BY <1>4, <3>1, <3>2
    <3> QED BY <1>3, <3>2, <3>3
  <2>3. Layered(S) => Layered(T)
    BY <1>2, <2>1 DEF Layered
  <2>4. Layered(T) => Layered(S)
    BY <2>2 DEF Layered, n
  <2> QED BY <2>3, <2>4
<1>7. ASSUME Layered(S), NEW i \in 1 .. n
      PROVE  AtDepth(S, i) \in S /\ AtDepth(T, i) = AtDepth(S, i)
  <2>1. PICK q \in S : Depth(S, q) = i
    BY <1>7 DEF Layered, n
  <2>2. AtDepth(S, i) = q
    BY <2>1, AtDepthIs
  <2>3. AtDepth(T, i) = q
    BY <1>2, <1>3, <2>1, AtDepthIs
  <2> QED BY <2>1, <2>2, <2>3
<1> QED BY <1>2, <1>5, <1>6, <1>7 DEF n

(***************************************************************************)
(* What the grammar needs of a state of json_build: the open groups are    *)
(* groups, one at each depth, and neither they nor a cursor that has a     *)
(* value lack a name in an object.                                         *)
(***************************************************************************)
HasName(q) == parent[q] # NULL /\ type[parent[q]] = "OBJECT" => named[q] = TRUE

Opened == pc \in {"start", "build"} =>
    /\ verdict = "none"
    /\ pc = "start" => open = {} /\ scan = NothingScanned
    /\ \A q \in open : type[q] \in {"OBJECT", "ARRAY"} /\ HasName(q)
    /\ pc = "build" /\ type[node] # "EMPTY" => HasName(node)
    /\ Layered(open)

\* The cursor is not one of the open groups.
LEMMA CursorNotOpen ==
    ASSUME IInv, pc = "build"
    PROVE  live \subseteq Node /\ node \in live /\ \A q \in open : q \in live /\ q # node
<1>1. /\ live \subseteq Nat /\ live \subseteq Node /\ node \in live /\ parent[node] < node
      /\ parent[node] \in Nat /\ \A q \in open : q \in live /\ q <= parent[node]
  BY BuildFacts
<1>2. ASSUME NEW q \in open PROVE q # node
  <2>1. q \in Nat /\ node \in Nat /\ parent[node] \in Nat
    BY <1>1
  <2>2. q <= parent[node] /\ parent[node] < node
    BY <1>1
  <2> QED BY <2>1, <2>2
<1> QED BY <1>1, <1>2

\* The open groups are a finite set of numbers.
LEMMA OpenFinite ==
    ASSUME IInv PROVE open \in SUBSET Nat /\ IsFiniteSet(open)
<1>1. open \subseteq 1 .. count /\ count \in Nat
  BY MaxNodesAssumption DEF IInv, TypeOK
<1>2. IsFiniteSet(1 .. count)
  BY <1>1, FS_Interval
<1>3. IsFiniteSet(open)
  BY <1>1, <1>2, FS_Subset
<1>4. open \in SUBSET Nat
  BY <1>1
<1> QED BY <1>3, <1>4

\* The cursor's group is on top of the stack.
LEMMA TopOfStack ==
    ASSUME IInv, Opened, pc = "build"
    PROVE  /\ Cardinality(open) \in Nat
           /\ Stack = OpenTypes /\ Stack \in Seq(Types) /\ Len(Stack) = Cardinality(open)
           /\ HasParent <=> Stack # <<>>
           /\ HasParent => /\ Stack[Len(Stack)] = type[parent[node]]
                           /\ parent[node] \in open
                           /\ type[parent[node]] \in {"OBJECT", "ARRAY"}
                           /\ \A q \in open \ {parent[node]} : q < parent[node]
<1> USE MaxNodesAssumption DEF Node, NULL, Root
<1>1. open \in SUBSET Nat /\ IsFiniteSet(open)
  BY OpenFinite
<1>2. Cardinality(open) \in Nat
  BY <1>1, FS_CardinalityType
<1>3. /\ parent[node] \in open \cup {NULL} /\ open \subseteq live /\ live \subseteq Node
      /\ \A q \in open : q \in Nat /\ q # 0 /\ q <= parent[node]
  BY BuildFacts DEF IInv, TypeOK
<1>4. Stack = OpenTypes
  BY DEF Stack, Reading
<1>5. Layered(open) /\ \A q \in open : type[q] \in {"OBJECT", "ARRAY"}
  BY DEF Opened
<1>6. \A i \in 1 .. Cardinality(open) : AtDepth(open, i) \in open
  <2> TAKE i \in 1 .. Cardinality(open)
  <2>1. PICK q \in open : Depth(open, q) = i
    BY <1>5 DEF Layered
  <2> QED BY <1>1, <2>1, AtDepthIs
<1>7. OpenTypes \in Seq(Types) /\ Len(OpenTypes) = Cardinality(open)
  <2>1. \A i \in 1 .. Cardinality(open) : type[AtDepth(open, i)] \in Types
    BY <1>3, <1>6 DEF IInv, TypeOK
  <2> QED BY <1>2, <2>1 DEF OpenTypes
<1>8. CASE ~HasParent
  <2>1. open = {}
    BY <1>3, <1>8 DEF HasParent
  <2>2. Cardinality(open) = 0
    BY <2>1, FS_EmptySet
  <2>3. OpenTypes = <<>>
    BY <1>7, <2>2
  <2> QED BY <1>2, <1>4, <1>7, <1>8, <2>3
<1>9. CASE HasParent
  <2>1. PICK p \in open : p = parent[node]
    BY <1>3, <1>9 DEF HasParent
  <2> DEFINE S == open \ {p}
  <2>2. S \in SUBSET Nat /\ IsFiniteSet(S) /\ p \in Nat /\ \A q \in S : q < p
    <3>1. IsFiniteSet(S)
      BY <1>1, FS_Subset
    <3>2. \A q \in S : q \in Nat /\ q # p /\ q <= p
      BY <1>3, <2>1
    <3>3. p \in Nat
      BY <1>3, <2>1
    <3> QED BY <3>1, <3>2, <3>3
  <2>3. open = S \cup {p}
    BY <2>1
  <2> HIDE DEF S
  <2>4. /\ Cardinality(S) \in Nat /\ Cardinality(open) = Cardinality(S) + 1
        /\ AtDepth(open, Cardinality(S) + 1) = p
    BY <2>2, <2>3, OnTop
  <2>5. OpenTypes[Cardinality(open)] = type[p]
    BY <2>4 DEF OpenTypes
  <2>6. OpenTypes # <<>>
    BY <1>7, <2>4
  <2>7. \A q \in open \ {parent[node]} : q < parent[node]
    BY <2>1, <2>2 DEF S
  <2> QED BY <1>2, <1>4, <1>5, <1>7, <1>9, <2>1, <2>5, <2>6, <2>7
<1> QED BY <1>8, <1>9

\* What the grammar expects where json_build stands.
LEMMA ExpectingIs ==
    ASSUME pc = "build"
    PROVE  /\ type[node] # "EMPTY" => Expecting = "after"
           /\ type[node] = "EMPTY" /\ ~HasParent => Expecting = "value"
           /\ type[node] = "EMPTY" /\ HasParent /\ Nameless =>
                Expecting = IF IsFirst THEN "firstMember" ELSE "member"
           /\ type[node] = "EMPTY" /\ HasParent /\ ~Nameless =>
                Expecting = IF IsFirst THEN "firstValue" ELSE "value"
BY DEF Expecting

\* A cursor with a value has a name where one is needed.
LEMMA ValueHasName ==
    ASSUME Opened, pc = "build", type[node] # "EMPTY"
    PROVE  ~Nameless
<1>1. HasName(node)
  BY DEF Opened
<1> QED BY <1>1 DEF HasName, Nameless, InObject, HasParent

\* json_build's checks are the grammar's.
LEMMA CompleteIs ==
    ASSUME Opened, pc = "build", NEW c \in Contents
    PROVE  Grammar!ValueComplete(c) <=> Complete(c) /\ ~Nameless
<1>1. CASE type[node] # "EMPTY"
  <2>1. Expecting = "after" /\ ~Nameless
    BY <1>1, ExpectingIs, ValueHasName
  <2> QED BY <1>1, <2>1 DEF Grammar!ValueComplete, Complete
<1>2. CASE type[node] = "EMPTY" /\ Nameless
  <2>1. Expecting \in {"firstMember", "member"}
    BY <1>2, ExpectingIs DEF Nameless, InObject
  <2> QED BY <1>2, <2>1 DEF Grammar!ValueComplete
<1>3. CASE type[node] = "EMPTY" /\ ~Nameless
  <2>1. Expecting \in {"firstValue", "value"}
    BY <1>3, ExpectingIs
  <2> QED BY <1>3, <2>1 DEF Grammar!ValueComplete, Grammar!Scalars, Complete, ScalarTypes
<1> QED BY <1>1, <1>2, <1>3

LEMMA CanReadIs ==
    ASSUME IInv, Opened, pc = "build", NEW c \in Contents, NEW t \in Tokens
    PROVE  Acceptable(c, t) <=> Grammar!CanRead(c, t)
<1>1. /\ HasParent <=> Stack # <<>>
      /\ HasParent => Stack[Len(Stack)] = type[parent[node]]
  BY TopOfStack
<1>2. Grammar!ValueComplete(c) <=> Complete(c) /\ ~Nameless
  BY CompleteIs
<1>3. Nameless => HasParent /\ type[node] = "EMPTY"
  BY ValueHasName DEF Nameless, InObject
<1>4. Grammar!Innermost(Grammar!Group(t)) <=> HasParent /\ type[parent[node]] = json_token(t)
  BY <1>1 DEF Grammar!Innermost, Grammar!Group, json_token
<1>5. Expecting \in {"firstMember", "member"} <=> Nameless
  BY <1>3, ExpectingIs
<1>6. Expecting \in {"firstValue", "value", "after"} <=> ~Nameless
  BY <1>3, ExpectingIs
<1>7. HasParent => (Expecting \in {"firstMember", "firstValue"} <=> type[node] = "EMPTY" /\ IsFirst)
  BY ExpectingIs
<1>8. CASE t \in {"{", "["}
  BY <1>6, <1>8 DEF Acceptable, MayOpen, Openers, Closers, Grammar!CanRead
<1>9. CASE t = ":"
  BY <1>5, <1>9 DEF Acceptable, MayName, Openers, Closers, Grammar!CanRead
<1>10. CASE t = ","
  BY <1>1, <1>2, <1>10 DEF Acceptable, MayContinue, Openers, Closers, Grammar!CanRead
<1>11. CASE t \in {"}", "]"}
  <2>1. Acceptable(c, t) <=> MayClose(c, t)
    BY <1>11 DEF Acceptable, Openers, Closers
  <2>2. Grammar!CanRead(c, t) <=>
          /\ HasParent /\ type[parent[node]] = json_token(t)
          /\ \/ Complete(c) /\ ~Nameless
             \/ type[node] = "EMPTY" /\ IsFirst /\ c = "none"
    BY <1>2, <1>4, <1>7, <1>11 DEF Grammar!CanRead
  <2> QED BY <1>3, <2>1, <2>2 DEF MayClose, Complete, IsFirst
<1>12. CASE t = "end"
  BY <1>1, <1>2, <1>3, <1>12 DEF Acceptable, MayEnd, Openers, Closers, Grammar!CanRead
<1> QED BY <1>8, <1>9, <1>10, <1>11, <1>12 DEF Tokens, Openers, Closers

(***************************************************************************)
(* '{' or '[': the cursor is put on the stack.                             *)
(***************************************************************************)
LEMMA OpenGroupReads ==
    ASSUME IInv, Blank, Opened, NEW c \in Contents, NEW t \in Tokens, OpenGroup(c, t)
    PROVE  Opened' /\ Grammar!Next
<1> USE MaxNodesAssumption DEF Node, NULL, Root
<1>1. /\ pc = "build" /\ pc' = "build" /\ verdict' = verdict /\ count < MaxNodes
      /\ scan' = [content |-> c, token |-> t]
      /\ type' = [type EXCEPT ![node] = json_token(t)]
      /\ left' = [left EXCEPT ![node] = NewNode] /\ parent' = [parent EXCEPT ![NewNode] = node]
      /\ node' = NewNode /\ open' = open \cup {node} /\ named' = named
      /\ ~Nameless /\ c = "none" /\ t \in {"{", "["}
  BY DEF OpenGroup, Step, Round, json_create, Acceptable, MayOpen, Openers, Closers
<1>2. PICK N \in Node : N = NewNode /\ N > count /\ N \notin live
  BY <1>1, NewNodeFresh
<1>3. /\ live \subseteq Node /\ node \in live /\ node \in Nat /\ node # NULL /\ parent[node] < node
      /\ parent[node] \in open \cup {NULL} /\ \A q \in open : q \in live /\ q <= parent[node]
      /\ \A q \in open : q \in Nat /\ parent[node] \in Nat
  BY <1>1, BuildFacts
<1>4. type[N] = "EMPTY" /\ named[N] = FALSE
  BY <1>1, <1>2 DEF Blank
<1>5. /\ type'[node] = json_token(t) /\ \A n \in Node : n # node => type'[n] = type[n]
      /\ left'[node] = N /\ parent'[N] = node
      /\ \A n \in Node : n # N => parent'[n] = parent[n]
  BY <1>1, <1>2, <1>3 DEF IInv, TypeOK
<1>6. /\ verdict = "none" /\ Layered(open)
      /\ \A q \in open : type[q] \in {"OBJECT", "ARRAY"} /\ HasName(q)
  BY <1>1 DEF Opened
<1>7. /\ open \in SUBSET Nat /\ IsFiniteSet(open) /\ \A q \in open : q < node
  BY <1>3, OpenFinite
<1>8. /\ Cardinality(open) \in Nat /\ Cardinality(open') = Cardinality(open) + 1
      /\ Layered(open') /\ AtDepth(open', Cardinality(open) + 1) = node
      /\ \A i \in 1 .. Cardinality(open) :
           AtDepth(open, i) \in open /\ AtDepth(open', i) = AtDepth(open, i)
  <2>1. Layered(open \cup {node}) /\ Cardinality(open) \in Nat
        /\ Cardinality(open \cup {node}) = Cardinality(open) + 1
        /\ AtDepth(open \cup {node}, Cardinality(open) + 1) = node
        /\ \A i \in 1 .. Cardinality(open) :
             AtDepth(open, i) \in open /\ AtDepth(open \cup {node}, i) = AtDepth(open, i)
    BY <1>3, <1>6, <1>7, OnTop
  <2> QED BY <1>1, <2>1
<1>9. \A q \in open : type'[q] = type[q] /\ q \in Node /\ q # N /\ q # node
  <2> TAKE q \in open
  <2>1. q \in Node /\ q # N
    BY <1>2, <1>3
  <2>2. q # node
    BY <1>7, <1>3
  <2> QED BY <1>5, <2>1, <2>2
<1>10. json_token(t) \in {"OBJECT", "ARRAY"} /\ json_token(t) = Grammar!Group(t)
       /\ (json_token(t) = "OBJECT" <=> t = "{")
  BY <1>1 DEF json_token, Grammar!Group
<1>11. Opened'
  <2>1. ASSUME NEW q \in open' PROVE type'[q] \in {"OBJECT", "ARRAY"} /\ HasName(q)'
    <3>1. CASE q \in open
      <4>1. type[q] \in {"OBJECT", "ARRAY"} /\ HasName(q)
        BY <1>6, <3>1
      <4>2. parent'[q] = parent[q] /\ type'[q] = type[q]
        BY <1>5, <1>9, <3>1
      <4>3. parent[q] \in open \cup {NULL}
        BY <3>1 DEF IInv, LinkInv, Path
      <4>4. parent[q] # NULL => type'[parent[q]] = type[parent[q]]
        BY <1>9, <4>3
      <4> QED BY <1>1, <4>1, <4>2, <4>4 DEF HasName
    <3>2. CASE q = node
      <4>1. parent'[node] = parent[node] /\ node # N
        BY <1>2, <1>3, <1>5
      <4>2. parent[node] # NULL => type'[parent[node]] = type[parent[node]]
        BY <1>3, <1>9
      <4>3. named[node] \in BOOLEAN
        BY <1>3 DEF IInv, TypeOK
      <4>4. parent[node] # NULL /\ type[parent[node]] = "OBJECT" => named[node]
        BY <1>1 DEF Nameless, InObject, HasParent
      <4>5. parent[node] # NULL /\ type[parent[node]] = "OBJECT" => named[node] = TRUE
        BY <4>3, <4>4
      <4>6. HasName(q)'
        <5>1. named'[q] = named[node] /\ parent'[q] = parent[node]
          BY <1>1, <3>2, <4>1
        <5> QED BY <4>2, <4>5, <5>1 DEF HasName
      <4> QED BY <1>5, <1>10, <3>2, <4>6
    <3> QED BY <1>1, <3>1, <3>2
  <2>2. type'[node'] = "EMPTY"
    BY <1>1, <1>2, <1>3, <1>4, <1>5
  <2> QED BY <1>1, <1>6, <1>8, <2>1, <2>2 DEF Opened
<1>12. Stack' = Append(Stack, json_token(t))
  <2>1. Stack = OpenTypes /\ Stack' = OpenTypes'
    BY <1>1 DEF Stack, Reading
  <2>2. OpenTypes = [i \in 1 .. Cardinality(open) |-> type[AtDepth(open, i)]]
    BY DEF OpenTypes
  <2>3. OpenTypes' = [i \in 1 .. Cardinality(open) + 1 |-> type'[AtDepth(open', i)]]
    BY <1>8 DEF OpenTypes
  <2>4. \A i \in 1 .. Cardinality(open) : type'[AtDepth(open', i)] = type[AtDepth(open, i)]
    BY <1>8, <1>9
  <2>5. type'[AtDepth(open', Cardinality(open) + 1)] = json_token(t)
    BY <1>5, <1>8
  <2>6. OpenTypes \in Seq(Types) /\ Len(OpenTypes) = Cardinality(open)
    BY <1>1, <2>1, TopOfStack
  <2> QED BY <1>8, <2>1, <2>2, <2>3, <2>4, <2>5, <2>6
<1>13. Expecting' = IF t = "{" THEN "firstMember" ELSE "firstValue"
  <2>1. type'[node'] = "EMPTY" /\ HasParent' /\ IsFirst'
    BY <1>1, <1>2, <1>3, <1>4, <1>5 DEF HasParent, IsFirst
  <2>2. Nameless' <=> t = "{"
    <3>1. type'[parent'[node']] = json_token(t) /\ named'[node'] = FALSE
      BY <1>1, <1>2, <1>4, <1>5
    <3> QED BY <1>10, <2>1, <3>1 DEF Nameless, InObject
  <2> QED BY <1>1, <2>1, <2>2 DEF Expecting
<1>14. Expecting \in {"firstValue", "value", "after"}
  BY <1>1, ExpectingIs
<1>15. Grammar!Opens(c, t)
  BY <1>1, <1>6, <1>10, <1>12, <1>13 DEF Grammar!Opens, Grammar!Reads, Grammar!Push
<1>16. Grammar!OpenGroup(c, t) \/ Grammar!ReopenGroup(c, t)
  BY <1>14, <1>15 DEF Grammar!OpenGroup, Grammar!ReopenGroup
<1> QED BY <1>1, <1>11, <1>16 DEF Grammar!Next

(***************************************************************************)
(* ':': the name that was expected.                                        *)
(***************************************************************************)
LEMMA SetNameReads ==
    ASSUME IInv, Opened, NEW c \in Contents, SetName(c)
    PROVE  Opened' /\ Grammar!Next
<1> USE MaxNodesAssumption DEF Node, NULL, Root
<1>1. /\ pc = "build" /\ pc' = "build" /\ verdict' = verdict
      /\ scan' = [content |-> c, token |-> ":"]
      /\ type' = type /\ left' = left /\ parent' = parent /\ node' = node /\ open' = open
      /\ named' = [named EXCEPT ![node] = TRUE] /\ Nameless /\ c = "STRING"
  BY DEF SetName, Step, Round, Acceptable, MayName, Openers, Closers, links
<1>2. live \subseteq Node /\ node \in live
      /\ \A q \in open : q \in live /\ q # node
  BY <1>1, CursorNotOpen
<1>3. named'[node] = TRUE /\ \A n \in Node : n # node => named'[n] = named[n]
  BY <1>1, <1>2 DEF IInv, TypeOK
<1>4. /\ verdict = "none" /\ Layered(open) /\ type[node] = "EMPTY"
      /\ \A q \in open : type[q] \in {"OBJECT", "ARRAY"} /\ HasName(q)
  BY <1>1, ValueHasName DEF Opened
<1>5. Opened'
  <2>1. ASSUME NEW q \in open PROVE HasName(q)'
    <3>1. named'[q] = named[q]
      BY <1>2, <1>3
    <3> QED BY <1>1, <1>4, <3>1 DEF HasName
  <2> QED BY <1>1, <1>4, <2>1 DEF Opened
<1>6. Stack' = Stack
  BY <1>1 DEF Stack, Reading, OpenTypes
<1>7. HasParent /\ Expecting = IF IsFirst THEN "firstMember" ELSE "member"
  BY <1>1, <1>4, ExpectingIs DEF Nameless, InObject
<1>8. Expecting' = IF IsFirst THEN "firstValue" ELSE "value"
  <2>1. HasParent' /\ ~Nameless' /\ (IsFirst' <=> IsFirst) /\ type'[node'] = "EMPTY"
    BY <1>1, <1>3, <1>4, <1>7 DEF HasParent, Nameless, InObject, IsFirst
  <2> QED BY <1>1, <2>1 DEF Expecting
<1>9. Grammar!Name(c)
  BY <1>1, <1>4, <1>6, <1>7, <1>8 DEF Grammar!Name, Grammar!Reads
<1> QED BY <1>5, <1>9 DEF Grammar!Next

(***************************************************************************)
(* ',': the value is complete, and the next one is expected.               *)
(***************************************************************************)
LEMMA NextSiblingReads ==
    ASSUME IInv, Blank, Opened, NEW c \in Contents, NextSibling(c)
    PROVE  Opened' /\ Grammar!Next
<1> USE MaxNodesAssumption DEF Node, NULL, Root
<1>1. /\ pc = "build" /\ pc' = "build" /\ verdict' = verdict /\ count < MaxNodes
      /\ scan' = [content |-> c, token |-> ","]
      /\ type' = ValueType(c) /\ left' = left
      /\ parent' = [parent EXCEPT ![NewNode] = parent[node]]
      /\ node' = NewNode /\ open' = open /\ named' = named
      /\ ~Nameless /\ Complete(c) /\ HasParent
  BY DEF NextSibling, Step, Round, json_create, Acceptable, MayContinue, Openers, Closers,
         SiblingParent
<1>2. PICK N \in Node : /\ N = NewNode /\ N > count /\ N \notin live
                        /\ \A n \in live : left[n] # N
  BY <1>1, NewNodeFresh
<1>3. /\ live \subseteq Node /\ node \in live /\ \A q \in open : q \in live /\ q # node
  BY <1>1, CursorNotOpen
<1>4. type[N] = "EMPTY" /\ named[N] = FALSE
  BY <1>1, <1>2 DEF Blank
<1>5. PICK p \in open : p = parent[node] /\ p # NULL /\ p \in live
  BY <1>1, <1>3, TopOfStack DEF HasParent
<1>6. /\ \A n \in Node : n # node => type'[n] = type[n]
      /\ parent'[N] = p /\ \A n \in Node : n # N => parent'[n] = parent[n]
  <2>1. TypeOK /\ node \in Node
    BY <1>3 DEF IInv
  <2>2. \A n \in Node : n # node => type'[n] = type[n]
    BY <1>1, <2>1, ValueTypeIs
  <2> QED BY <1>1, <1>2, <1>5, <2>2 DEF IInv, TypeOK
<1>7. /\ verdict = "none" /\ Layered(open)
      /\ \A q \in open : type[q] \in {"OBJECT", "ARRAY"} /\ HasName(q)
  BY <1>1 DEF Opened
<1>8. \A q \in open : type'[q] = type[q] /\ q \in Node /\ q # N /\ parent'[q] = parent[q]
  BY <1>2, <1>3, <1>6
<1>9. type'[node'] = "EMPTY" /\ named'[node'] = FALSE /\ parent'[node'] = p
  BY <1>1, <1>2, <1>3, <1>4, <1>6
<1>10. Opened'
  <2>1. ASSUME NEW q \in open PROVE HasName(q)'
    <3>1. parent[q] \in open \cup {NULL}
      BY DEF IInv, LinkInv, Path
    <3>2. parent[q] # NULL => type'[parent[q]] = type[parent[q]]
      BY <1>8, <3>1
    <3>3. named'[q] = named[q] /\ parent'[q] = parent[q]
      BY <1>1, <1>8
    <3> QED BY <1>7, <3>2, <3>3 DEF HasName
  <2> QED BY <1>1, <1>7, <1>8, <1>9, <2>1 DEF Opened
<1>11. /\ Stack = OpenTypes /\ Stack # <<>> /\ Stack[Len(Stack)] = type[p]
       /\ Cardinality(open) \in Nat
  BY <1>1, <1>5, TopOfStack
<1>12. Stack' = Stack
  <2>1. \A i \in 1 .. Cardinality(open) : type'[AtDepth(open, i)] = type[AtDepth(open, i)]
    <3> TAKE i \in 1 .. Cardinality(open)
    <3>1. PICK q \in open : Depth(open, q) = i
      BY <1>7 DEF Layered
    <3>2. AtDepth(open, i) = q
      BY <3>1, OpenFinite, AtDepthIs
    <3> QED BY <1>8, <3>2
  <2>2. OpenTypes' = [i \in 1 .. Cardinality(open) |-> type'[AtDepth(open, i)]]
    BY <1>1 DEF OpenTypes
  <2>3. OpenTypes' = OpenTypes
    BY <2>1, <2>2 DEF OpenTypes
  <2> QED BY <1>1, <1>11, <2>3 DEF Stack, Reading
<1>13. Expecting' = IF Grammar!Innermost("OBJECT") THEN "member" ELSE "value"
  <2>1. Grammar!Innermost("OBJECT") <=> type[p] = "OBJECT"
    BY <1>11 DEF Grammar!Innermost
  <2>2. HasParent' /\ ~IsFirst' /\ (Nameless' <=> type[p] = "OBJECT")
    <3>1. left'[p] # N /\ type'[p] = type[p]
      BY <1>1, <1>2, <1>5, <1>8
    <3> QED BY <1>1, <1>2, <1>5, <1>9, <3>1 DEF HasParent, IsFirst, Nameless, InObject
  <2> QED BY <1>1, <1>9, <2>1, <2>2 DEF Expecting
<1>14. Grammar!ValueComplete(c)
  BY <1>1, CompleteIs
<1>15. Grammar!Comma(c)
  BY <1>1, <1>7, <1>11, <1>12, <1>13, <1>14 DEF Grammar!Comma, Grammar!Reads
<1> QED BY <1>10, <1>15 DEF Grammar!Next

(***************************************************************************)
(* ']' or '}': the cursor's group is taken off the stack.                  *)
(***************************************************************************)
LEMMA CloseGroupReads ==
    ASSUME IInv, Opened, NEW c \in Contents, NEW t \in Tokens, CloseGroup(c, t)
    PROVE  Opened' /\ Grammar!Next
<1> USE MaxNodesAssumption DEF Node, NULL, Root
<1>1. /\ pc = "build" /\ pc' = "build" /\ verdict' = verdict
      /\ scan' = [content |-> c, token |-> t]
      /\ type' = ValueType(c) /\ left' = left /\ parent' = parent
      /\ node' = parent[node] /\ open' = open \ {parent[node]} /\ named' = named
      /\ HasParent /\ MayClose(c, t) /\ Acceptable(c, t) /\ t \in {"}", "]"}
  BY DEF CloseGroup, Step, Round, Acceptable, MayClose, Openers, Closers, links
<1>2. /\ live \subseteq Node /\ node \in live /\ \A q \in open : q \in live /\ q # node
  BY <1>1, CursorNotOpen
<1>3. /\ Stack = OpenTypes /\ Stack \in Seq(Types) /\ Len(Stack) = Cardinality(open)
      /\ Stack # <<>> /\ Stack[Len(Stack)] = type[parent[node]]
      /\ parent[node] \in open /\ \A q \in open \ {parent[node]} : q < parent[node]
  BY <1>1, TopOfStack
<1>4. PICK p \in open : p = parent[node] /\ p # NULL /\ p \in live /\ \A q \in open \ {p} : q < p
  BY <1>1, <1>2, <1>3 DEF HasParent
<1>5. \A q \in open : type'[q] = type[q]
  <2>1. TypeOK /\ node \in Node
    BY <1>2 DEF IInv
  <2>2. \A n \in Node : n # node => type'[n] = type[n]
    BY <1>1, <2>1, ValueTypeIs
  <2> QED BY <1>2, <2>2
<1>6. /\ verdict = "none" /\ Layered(open)
      /\ \A q \in open : type[q] \in {"OBJECT", "ARRAY"} /\ HasName(q)
  BY <1>1 DEF Opened
<1> DEFINE S == open \ {p}
<1>7. S \in SUBSET Nat /\ IsFiniteSet(S) /\ p \in Nat /\ open = S \cup {p}
  <2>1. open \in SUBSET Nat /\ IsFiniteSet(open)
    BY OpenFinite
  <2>2. IsFiniteSet(S)
    BY <2>1, FS_Subset
  <2> QED BY <1>4, <2>1, <2>2
<1>8. open' = S
  BY <1>1, <1>4
<1>9. \A q \in S : q < p /\ q \in open
  BY <1>4
<1> HIDE DEF S
<1>10. /\ Cardinality(S) \in Nat /\ Cardinality(open) = Cardinality(S) + 1 /\ Layered(S)
       /\ \A i \in 1 .. Cardinality(S) : AtDepth(S, i) \in S /\ AtDepth(open, i) = AtDepth(S, i)
  BY <1>6, <1>7, <1>9, OnTop
<1>11. \A q \in open : HasName(q)'
  <2> TAKE q \in open
  <2>1. parent[q] \in open \cup {NULL}
    BY DEF IInv, LinkInv, Path
  <2>2. parent[q] # NULL => type'[parent[q]] = type[parent[q]]
    BY <1>5, <2>1
  <2>3. named'[q] = named[q] /\ parent'[q] = parent[q]
    BY <1>1
  <2> QED BY <1>6, <2>2, <2>3 DEF HasName
<1>12. Opened'
  <2>1. \A q \in open' : type'[q] \in {"OBJECT", "ARRAY"} /\ HasName(q)'
    BY <1>5, <1>6, <1>8, <1>9, <1>11
  <2>2. HasName(node)'
    <3>1. node' = p
      BY <1>1, <1>4
    <3> QED BY <1>11, <3>1 DEF HasName
  <2> QED BY <1>1, <1>6, <1>8, <1>10, <2>1, <2>2 DEF Opened
<1>13. Stack' = SubSeq(Stack, 1, Len(Stack) - 1)
  <2>1. Stack' = OpenTypes'
    BY <1>1 DEF Stack, Reading
  <2>2. OpenTypes' = [i \in 1 .. Cardinality(S) |-> type'[AtDepth(S, i)]]
    BY <1>8 DEF OpenTypes
  <2>3. \A i \in 1 .. Cardinality(S) : type'[AtDepth(S, i)] = OpenTypes[i]
    BY <1>5, <1>9, <1>10 DEF OpenTypes
  <2>4. OpenTypes' = [i \in 1 .. Cardinality(S) |-> OpenTypes[i]]
    BY <2>2, <2>3
  <2> QED BY <1>3, <1>10, <2>1, <2>4
<1>14. Expecting' = "after"
  <2>1. type'[node'] # "EMPTY"
    BY <1>1, <1>4, <1>5, <1>6
  <2> QED BY <1>1, <2>1 DEF Expecting
<1>15. Grammar!Innermost(Grammar!Group(t)) /\ type[p] = Grammar!Group(t)
  BY <1>1, <1>3, <1>4 DEF MayClose, Grammar!Innermost, Grammar!Group, json_token
<1>16. Grammar!Closes(c, t)
  BY <1>1, <1>6, <1>13, <1>14, <1>15 DEF Grammar!Closes, Grammar!Reads, Grammar!Pop
<1>17. \/ Grammar!ValueComplete(c)
       \/ Expecting \in {"firstMember", "firstValue"} /\ c = "none"
  <2>1. Grammar!CanRead(c, t)
    BY <1>1, CanReadIs
  <2> QED BY <1>1, <2>1 DEF Grammar!CanRead
<1>18. Grammar!Innermost("OBJECT") \/ Grammar!Innermost("ARRAY")
  BY <1>3, <1>4, <1>6 DEF Grammar!Innermost
<1>19. Grammar!CloseGroup(c, t) \/ Grammar!CloseEmptyMember(c, t)
  BY <1>16, <1>17, <1>18 DEF Grammar!CloseGroup, Grammar!CloseEmptyMember
<1> QED BY <1>1, <1>12, <1>19 DEF Grammar!Next

(***************************************************************************)
(* json_build returns: the grammar stops with the same verdict.            *)
(***************************************************************************)
LEMMA BuildStops ==
    ASSUME IInv, Opened, NEW c \in Contents, NEW t \in Tokens,
           Accept(c) \/ Reject(c, t) \/ OutOfMemory(c, t) \/ ScanError
    PROVE  Opened' /\ Grammar!Next
<1>1. pc = "build" /\ pc' \in {"parsed", "free"} /\ verdict = "none"
  BY DEF Accept, Reject, OutOfMemory, ScanError, Round, StartFree, Opened
<1>2. Opened'
  BY <1>1 DEF Opened
<1>3. Stack' = <<>> /\ Expecting' = "nothing"
  BY <1>1 DEF Stack, Reading, Expecting
<1>4. CASE Accept(c)
  <2>1. /\ scan' = [content |-> c, token |-> "end"] /\ verdict' = "accept"
        /\ ~HasParent /\ Complete(c)
    BY <1>4 DEF Accept, Round, Acceptable, MayEnd, Openers, Closers
  <2>2. Stack = <<>> /\ Grammar!ValueComplete(c)
    BY <1>1, <2>1, TopOfStack, CompleteIs DEF Nameless, InObject
  <2>3. Grammar!Accept(c)
    BY <1>1, <1>3, <2>1, <2>2 DEF Grammar!Accept, Grammar!Reads, Grammar!Stops
  <2> QED BY <1>2, <2>3 DEF Grammar!Next
<1>5. CASE Reject(c, t)
  <2>1. /\ scan' = [content |-> c, token |-> t] /\ verdict' = "syntax" /\ ~Acceptable(c, t)
    BY <1>5 DEF Reject, Round
  <2>2. Grammar!Reject(c, t)
    BY <1>1, <1>3, <2>1, CanReadIs DEF Grammar!Reject, Grammar!Reads, Grammar!Stops
  <2> QED BY <1>2, <2>2 DEF Grammar!Next, Tokens, Openers, Closers
<1>6. CASE OutOfMemory(c, t)
  <2>1. /\ scan' = [content |-> c, token |-> t] /\ verdict' = "memory" /\ Acceptable(c, t)
    BY <1>6 DEF OutOfMemory, Round
  <2>2. Grammar!GiveUp(c, t)
    BY <1>1, <1>3, <2>1, CanReadIs DEF Grammar!GiveUp, Grammar!Reads, Grammar!Stops
  <2> QED BY <1>2, <2>2 DEF Grammar!Next, Tokens, Openers, Closers
<1>7. CASE ScanError
  <2>1. Grammar!Unreadable
    BY <1>1, <1>3, <1>7 DEF ScanError, NothingScanned, Grammar!Unreadable, Grammar!Reads, Grammar!Stops
  <2> QED BY <1>2, <2>1 DEF Grammar!Next
<1> QED BY <1>4, <1>5, <1>6, <1>7

(***************************************************************************)
(* json_parse: a new root leaves the grammar where it starts.              *)
(***************************************************************************)
LEMMA ParseReads ==
    ASSUME IInv, Blank, Opened, json_parse
    PROVE  Opened' /\ [Grammar!Next]_Grammar!gvars
<1> USE MaxNodesAssumption DEF Node, NULL, Root
<1>1. /\ pc = "start" /\ verdict = "none" /\ open = {} /\ scan' = scan /\ open' = open
      /\ type' = type /\ parent' = parent /\ count = 0 /\ Layered(open)
  BY DEF json_parse, Opened, IInv, WalkInv, Starting, links
<1>2. CASE json_create /\ node' = 1 /\ pc' = "build" /\ verdict' = verdict
  <2>1. 1 \in Node /\ 1 > count
    BY <1>1, <1>2 DEF json_create, IInv, TypeOK
  <2>2. type'[node'] = "EMPTY" /\ parent'[node'] = NULL
    BY <1>1, <1>2, <2>1 DEF Blank, IInv, LinkInv, Fresh
  <2>3. Opened'
    BY <1>1, <1>2, <2>2 DEF Opened
  <2>4. Expecting = "value" /\ Expecting' = "value"
    BY <1>1, <1>2, <2>2 DEF Expecting, HasParent
  <2>5. Stack' = Stack
    <3>1. Cardinality(open) = 0
      BY <1>1, FS_EmptySet
    <3>2. OpenTypes = <<>> /\ OpenTypes' = <<>>
      BY <1>1, <3>1 DEF OpenTypes
    <3> QED BY <1>1, <1>2, <3>2 DEF Stack, Reading
  <2> QED BY <1>1, <1>2, <2>3, <2>4, <2>5 DEF Grammar!gvars
<1>3. CASE verdict' = "memory" /\ pc' = "done"
  <2>1. Opened' /\ Stack' = <<>> /\ Expecting' = "nothing"
    BY <1>3 DEF Opened, Stack, Reading, Expecting
  <2>2. Grammar!NeverStarted
    BY <1>1, <1>3, <2>1 DEF Grammar!NeverStarted, Grammar!Stops
  <2> QED BY <2>1, <2>2 DEF Grammar!Next
<1> QED BY <1>2, <1>3 DEF json_parse

LEMMA StepReads ==
    ASSUME IInv, Blank, Opened, [Next]_vars
    PROVE  Opened' /\ [Grammar!Next]_Grammar!gvars
<1>1. CASE json_build
  <2>1. ASSUME NEW c \in Contents, NEW t \in Tokens,
               OpenGroup(c, t) \/ CloseGroup(c, t) \/ Reject(c, t) \/ OutOfMemory(c, t)
        PROVE  Opened' /\ Grammar!Next
    BY <2>1, OpenGroupReads, CloseGroupReads, BuildStops
  <2>2. ASSUME NEW c \in Contents, SetName(c) \/ NextSibling(c) PROVE Opened' /\ Grammar!Next
    BY <2>2, SetNameReads, NextSiblingReads
  <2>3. ASSUME NEW c \in Contents, Accept(c) PROVE Opened' /\ Grammar!Next
    <3>1. "end" \in Tokens
      BY DEF Tokens
    <3> QED BY <2>3, <3>1, BuildStops
  <2>4. ASSUME ScanError PROVE Opened' /\ [Grammar!Next]_Grammar!gvars
    <3>1. /\ pc = "build" /\ pc' = "free" /\ verdict = "none" /\ verdict' = "syntax"
          /\ scan' = NothingScanned
      BY <2>4 DEF ScanError, StartFree, Opened
    <3>2. Opened' /\ Stack' = <<>> /\ Expecting' = "nothing"
      BY <3>1 DEF Opened, Stack, Reading, Expecting
    <3>3. Grammar!Unreadable
      BY <3>1, <3>2 DEF NothingScanned, Grammar!Unreadable, Grammar!Reads, Grammar!Stops
    <3> QED BY <3>2, <3>3 DEF Grammar!Next
  <2> QED BY <1>1, <2>1, <2>2, <2>3, <2>4 DEF json_build
<1>2. CASE Release \/ json_free
  <2>1. /\ pc \in {"parsed", "free"} /\ pc' \in {"free", "done"}
        /\ scan' = scan /\ verdict' = verdict
    BY <1>2 DEF Release, StartFree, json_free, FreeDescend, FreeNode, FreeReturn
  <2>2. Opened' /\ Stack' = Stack /\ Expecting' = Expecting
    BY <2>1 DEF Opened, Stack, Reading, Expecting
  <2> QED BY <2>1, <2>2 DEF Grammar!gvars
<1>3. CASE Terminated \/ UNCHANGED vars
  <2>1. UNCHANGED vars
    BY <1>3 DEF Terminated
  <2>2. Opened'
    BY <2>1 DEF vars, Opened, HasName
  <2>3. Stack' = Stack /\ Expecting' = Expecting
    BY <2>1 DEF vars, Stack, Reading, OpenTypes, Expecting, HasParent, Nameless, InObject, IsFirst
  <2> QED BY <2>1, <2>2, <2>3 DEF vars, Grammar!gvars
<1> QED BY <1>1, <1>2, <1>3, ParseReads DEF Next

(***************************************************************************)
(* json_build recognises the language of JsonGrammar, whatever the text    *)
(* and however deep it nests: every round is a step of the grammar, it     *)
(* accepts only where the grammar does, and it reports a syntax error only *)
(* where no rule of the grammar applies.                                   *)
(***************************************************************************)
THEOREM FollowsGrammar == Spec => RecognisesGrammar
<1>1. Init => Opened /\ Grammar!Init
  <2> SUFFICES ASSUME Init PROVE Opened /\ Grammar!Init
    OBVIOUS
  <2>1. Cardinality(open) = 0 /\ open = {}
    BY FS_EmptySet DEF Init
  <2>2. OpenTypes = <<>> /\ Layered(open)
    BY <2>1 DEF OpenTypes, Layered
  <2>3. Stack = <<>> /\ Expecting = "value"
    BY <2>2 DEF Init, Stack, Reading, Expecting
  <2>4. Opened
    BY <2>1, <2>2 DEF Init, Opened
  <2> QED BY <2>3, <2>4 DEF Init, Grammar!Init, NothingScanned
<1>2. ShapeInv => Blank
  BY DEF ShapeInv
<1>3. IInv /\ Blank /\ Opened /\ [Next]_vars => Opened' /\ [Grammar!Next]_Grammar!gvars
  BY StepReads
<1> QED BY <1>1, <1>2, <1>3, Invariance, ShapeInvariance, PTL
    DEF Spec, RecognisesGrammar, Grammar!Spec
=============================================================================
