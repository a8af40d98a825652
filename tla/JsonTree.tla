------------------------------ MODULE JsonTree ------------------------------
(***************************************************************************)
(* The life of one JSON document in App/json/json.c: json_parse creates    *)
(* the root node, json_build reads the text token by token and grows a     *)
(* left-child / right-sibling tree under it, and json_free walks that tree *)
(* without recursion and without a stack, releasing every node it leaves.  *)
(* json_free runs on the complete tree (called by main) and on whatever    *)
(* part of it existed when json_build gave up (called by json_parse).      *)
(*                                                                         *)
(* A text is an arbitrary sequence of scan results, chosen one at a time:  *)
(* json_scan hands json_build the next structural character (the token)    *)
(* and what stands before it (the content).  Any allocation may fail, as   *)
(* calloc and malloc may; MaxNodes is the number of nodes memory can hold. *)
(***************************************************************************)
EXTENDS Naturals, FiniteSets

CONSTANTS MaxNodes,     \* how many nodes json_create can allocate
          Contents      \* the kinds of content the texts hold

NULL == 0
Node == 1 .. MaxNodes
Root == 1

Openers     == {"{", "["}
Closers     == {"}", "]"}
Tokens      == Openers \cup Closers \cup {":", ",", "end"}
ScalarTypes == {"STRING", "NUMBER", "BOOLEAN", "NULL"}
Types       == {"EMPTY", "OBJECT", "ARRAY"} \cup ScalarTypes

(***************************************************************************)
(* "none" is a token with nothing but space before it (left = token);      *)
(* "junk" is a content that json_set_value takes for a number and strtod   *)
(* does not read to its end.                                               *)
(***************************************************************************)
ASSUME MaxNodesAssumption == MaxNodes \in Nat
ASSUME ContentsAssumption == Contents \subseteq ScalarTypes \cup {"none", "junk"}

VARIABLES
    type, named, left, right, parent,   \* the fields of struct json, per node
    count,      \* nodes allocated so far: 1 .. count, in this order
    live,       \* nodes allocated and not freed
    node,       \* the cursor of json_build, then of json_free
    scan,       \* the last result of json_scan
    pc,         \* where the document is
    verdict,    \* why json_build returned
    open,       \* history: groups json_build has open, then the nodes whose
                \*   children json_free has entered and that it has yet to free
    orphans     \* history: children whose only reference was overwritten

links == <<left, right, parent>>
vars  == <<type, named, left, right, parent, count, live, node, scan, pc,
           verdict, open, orphans>>

TypeOK ==
    /\ type \in [Node -> Types]
    /\ named \in [Node -> BOOLEAN]
    /\ left \in [Node -> Node \cup {NULL}]
    /\ right \in [Node -> Node \cup {NULL}]
    /\ parent \in [Node -> Node \cup {NULL}]
    /\ count \in 0 .. MaxNodes
    /\ live \subseteq 1 .. count
    /\ node \in Node \cup {NULL}
    /\ scan \in [content : Contents \cup {"malformed"}, token : Tokens \cup {"none"}]
    /\ pc \in {"start", "build", "parsed", "free", "done"}
    /\ verdict \in {"none", "accept", "syntax", "memory"}
    /\ open \subseteq live
    /\ orphans \subseteq 1 .. count

NothingScanned == [content |-> "malformed", token |-> "none"]

Init ==
    /\ type = [n \in Node |-> "EMPTY"]      \* calloc zeroes a node
    /\ named = [n \in Node |-> FALSE]
    /\ left = [n \in Node |-> NULL]
    /\ right = [n \in Node |-> NULL]
    /\ parent = [n \in Node |-> NULL]
    /\ count = 0
    /\ live = {}
    /\ node = NULL
    /\ scan = NothingScanned
    /\ pc = "start"
    /\ verdict = "none"
    /\ open = {}
    /\ orphans = {}

-----------------------------------------------------------------------------
(***************************************************************************)
(* json_create, where it succeeds: the next node of memory.                *)
(***************************************************************************)
NewNode == count + 1

json_create ==
    /\ count < MaxNodes
    /\ count' = NewNode
    /\ live' = live \cup {NewNode}

(***************************************************************************)
(* json_token: the group type an opening or closing token belongs to.      *)
(***************************************************************************)
json_token(t) == IF t \in {"{", "}"} THEN "OBJECT" ELSE "ARRAY"

HasParent == parent[node] # NULL
InObject  == HasParent /\ type[parent[node]] = "OBJECT"
Nameless  == InObject /\ ~named[node]

(***************************************************************************)
(* The checks json_build makes before it uses a token with content c       *)
(* before it, one operator per case of its switch.                         *)
(***************************************************************************)
\* Mutant: members of an object need no name.
MayOpenNameless(c) == c = "none"

MayOpen(c) == c = "none" /\ ~Nameless

MayName(c) == Nameless /\ c = "STRING"

Complete(c) == IF type[node] = "EMPTY" THEN c \in ScalarTypes ELSE c = "none"

MayContinue(c) == HasParent /\ ~Nameless /\ Complete(c)

\* Mutant: any element may be missing, not only the first.
MayCloseAfterComma(c, t) ==
    /\ HasParent /\ type[parent[node]] = json_token(t)
    /\ c = "none" \/ (Complete(c) /\ ~Nameless)

MayClose(c, t) ==
    /\ HasParent /\ type[parent[node]] = json_token(t)
    /\ \/ type[node] = "EMPTY" /\ c = "none" /\ left[parent[node]] = node
       \/ type[node] = "EMPTY" /\ c \in ScalarTypes /\ ~Nameless
       \/ type[node] # "EMPTY" /\ c = "none"

MayEnd(c) == ~HasParent /\ Complete(c)

Acceptable(c, t) ==
    \/ t \in Openers /\ MayOpen(c)
    \/ t = ":" /\ MayName(c)
    \/ t = "," /\ MayContinue(c)
    \/ t \in Closers /\ MayClose(c, t)
    \/ t = "end" /\ MayEnd(c)

\* Mutant: json_set_value types the node before strtod has read the content.
ValueTypeUnchecked(c) ==
    IF type[node] = "EMPTY" /\ c # "none"
    THEN [type EXCEPT ![node] = c] ELSE type

(***************************************************************************)
(* json_set_value gives an unused node the type of its content.  (The      *)
(* text of a name or a value is left out: nothing here depends on it.)     *)
(***************************************************************************)
ValueType(c) ==
    IF type[node] = "EMPTY" /\ c \in ScalarTypes
    THEN [type EXCEPT ![node] = c] ELSE type

(***************************************************************************)
(* json_free is called with the root of the tree.                          *)
(***************************************************************************)
StartFree == pc' = "free" /\ node' = Root /\ open' = {}

(***************************************************************************)
(* json_parse: the root node, or NULL when there is no memory for it.      *)
(***************************************************************************)
json_parse ==
    /\ pc = "start"
    /\ \/ json_create /\ node' = Root /\ pc' = "build" /\ UNCHANGED verdict
       \/ verdict' = "memory" /\ pc' = "done" /\ UNCHANGED <<count, live, node>>
    /\ UNCHANGED <<type, named, links, scan, open, orphans>>

(***************************************************************************)
(* One round of json_build's loop that finds token t after content c.      *)
(***************************************************************************)
Round(c, t) ==
    /\ pc = "build"
    /\ scan' = [content |-> c, token |-> t]

Step(c, t) == Round(c, t) /\ Acceptable(c, t) /\ UNCHANGED <<pc, verdict>>

(***************************************************************************)
(* '{' or '[': the node becomes a group and its first child the cursor.    *)
(* The child a group already had, if it had one, loses its only reference. *)
(***************************************************************************)
Orphaned == IF left[node] = NULL THEN orphans ELSE orphans \cup {left[node]}

OpenGroup(c, t) ==
    /\ t \in Openers
    /\ Step(c, t)
    /\ json_create
    /\ type' = [type EXCEPT ![node] = json_token(t)]
    /\ left' = [left EXCEPT ![node] = NewNode]
    /\ parent' = [parent EXCEPT ![NewNode] = node]
    /\ node' = NewNode
    /\ open' = open \cup {node}
    /\ orphans' = Orphaned
    /\ UNCHANGED <<named, right>>

(***************************************************************************)
(* ':': the content is the name of the node.                               *)
(***************************************************************************)
SetName(c) ==
    /\ Step(c, ":")
    /\ named' = [named EXCEPT ![node] = TRUE]
    /\ UNCHANGED <<type, links, count, live, node, open, orphans>>

\* Mutant: the new sibling is linked as if it were a child.
SiblingParentIsNode == node

SiblingParent == parent[node]

\* Mutant: the cursor does not move on to the new sibling.
NextSiblingCursorStays(c) ==
    /\ Step(c, ",")
    /\ json_create
    /\ type' = ValueType(c)
    /\ right' = [right EXCEPT ![node] = NewNode]
    /\ parent' = [parent EXCEPT ![NewNode] = SiblingParent]
    /\ UNCHANGED <<named, left, node, open, orphans>>

(***************************************************************************)
(* ',': the content is the node's value, and a sibling becomes the cursor. *)
(***************************************************************************)
NextSibling(c) ==
    /\ Step(c, ",")
    /\ json_create
    /\ type' = ValueType(c)
    /\ right' = [right EXCEPT ![node] = NewNode]
    /\ parent' = [parent EXCEPT ![NewNode] = SiblingParent]
    /\ node' = NewNode
    /\ UNCHANGED <<named, left, open, orphans>>

(***************************************************************************)
(* ']' or '}': back to the group, whose last element this was.             *)
(***************************************************************************)
CloseGroup(c, t) ==
    /\ t \in Closers
    /\ Step(c, t)
    /\ type' = ValueType(c)
    /\ node' = parent[node]
    /\ open' = open \ {parent[node]}
    /\ UNCHANGED <<named, links, count, live, orphans>>

(***************************************************************************)
(* The end of the text, with every group closed.                           *)
(***************************************************************************)
Accept(c) ==
    /\ Round(c, "end")
    /\ Acceptable(c, "end")
    /\ type' = ValueType(c)
    /\ verdict' = "accept"
    /\ pc' = "parsed"
    /\ UNCHANGED <<named, links, count, live, node, open, orphans>>

(***************************************************************************)
(* A check fails: json_build returns NULL and json_parse frees the tree.   *)
(* At the end of the text the value is stored before the check for open    *)
(* groups.                                                                 *)
(***************************************************************************)
Reject(c, t) ==
    /\ Round(c, t)
    /\ ~Acceptable(c, t)
    /\ type' = IF t = "end" THEN ValueType(c) ELSE type
    /\ verdict' = "syntax"
    /\ StartFree
    /\ UNCHANGED <<named, links, count, live, orphans>>

(***************************************************************************)
(* json_scan itself finds the text malformed (open quotes, bad escape).    *)
(***************************************************************************)
ScanError ==
    /\ pc = "build"
    /\ scan' = NothingScanned
    /\ verdict' = "syntax"
    /\ StartFree
    /\ UNCHANGED <<type, named, links, count, live, orphans>>

(***************************************************************************)
(* An allocation fails: the copy of a name or value, or the new node.  By  *)
(* then the type is set and node->left holds the NULL of json_create.      *)
(***************************************************************************)
OutOfMemory(c, t) ==
    /\ Round(c, t)
    /\ Acceptable(c, t)
    /\ t \in Openers \cup {":", ","} \/ c \in ScalarTypes
    /\ IF t \in Openers
       THEN /\ type' = [type EXCEPT ![node] = json_token(t)]
            /\ left' = [left EXCEPT ![node] = NULL]
            /\ orphans' = Orphaned
       ELSE /\ type' = IF t = ":" THEN type ELSE ValueType(c)
            /\ UNCHANGED <<left, orphans>>
    /\ verdict' = "memory"
    /\ StartFree
    /\ UNCHANGED <<named, right, parent, count, live>>

json_build ==
    \/ \E c \in Contents, t \in Tokens :
          \/ OpenGroup(c, t)
          \/ CloseGroup(c, t)
          \/ Reject(c, t)
          \/ OutOfMemory(c, t)
    \/ \E c \in Contents : SetName(c) \/ NextSibling(c) \/ Accept(c)
    \/ ScanError

-----------------------------------------------------------------------------
(***************************************************************************)
(* main is done with the tree and calls json_free.                         *)
(***************************************************************************)
Release ==
    /\ pc = "parsed"
    /\ StartFree
    /\ UNCHANGED <<type, named, links, count, live, scan, verdict, orphans>>

(***************************************************************************)
(* One round of json_free's loop at a node that has children: cut them off *)
(* and go to the first.                                                    *)
(***************************************************************************)
\* Mutant: node->left is not cleared.
CutNothing == left

CutChildren == [left EXCEPT ![node] = NULL]

FreeDescend ==
    /\ pc = "free" /\ node # NULL
    /\ left[node] # NULL
    /\ node' = left[node]
    /\ left' = CutChildren
    /\ open' = open \cup {node}
    /\ UNCHANGED <<type, named, right, parent, count, live, scan, pc, verdict, orphans>>

(***************************************************************************)
(* One round at a node without (remaining) children: free it and go to its *)
(* sibling or, after the last one, up to the parent.                       *)
(***************************************************************************)
\* Mutant: the siblings are forgotten.
AfterNodeNoSiblings == parent[node]

\* Mutant: the walk never climbs back to a parent.
AfterNodeNoParent == right[node]

AfterNode == IF right[node] # NULL THEN right[node] ELSE parent[node]

FreeNode ==
    /\ pc = "free" /\ node # NULL
    /\ left[node] = NULL
    /\ live' = live \ {node}
    /\ node' = AfterNode
    /\ open' = open \ {node}
    /\ UNCHANGED <<type, named, links, count, scan, pc, verdict, orphans>>

FreeReturn ==
    /\ pc = "free" /\ node = NULL
    /\ pc' = "done"
    /\ UNCHANGED <<type, named, links, count, live, node, scan, verdict, open, orphans>>

json_free == FreeDescend \/ FreeNode \/ FreeReturn

Terminated == pc = "done" /\ UNCHANGED vars

Next == json_parse \/ json_build \/ Release \/ json_free \/ Terminated

Spec == Init /\ [][Next]_vars

(***************************************************************************)
(* The walk of json_free is a loop of one thread: it keeps running.        *)
(***************************************************************************)
FairSpec == Spec /\ WF_vars(json_free)

-----------------------------------------------------------------------------
(***************************************************************************)
(* Properties.                                                             *)
(***************************************************************************)

(***************************************************************************)
(* The links of the tree agree, whatever was parsed and however far        *)
(* json_free has come: no live node points to a freed one, a first child   *)
(* knows its parent, siblings have the same parent, and no node is         *)
(* referred to twice.  (json_build writes left, right and parent in        *)
(* separate statements; json_free undoes them one at a time.)              *)
(***************************************************************************)
ChildLinks == \A n \in live : left[n] # NULL =>
    left[n] \in live /\ parent[left[n]] = n

SiblingLinks == \A n \in live : right[n] # NULL =>
    right[n] \in live /\ parent[right[n]] = parent[n]

OneReference ==
    /\ \A m, n \in live : right[m] # NULL /\ right[m] = right[n] => m = n
    /\ \A m, n \in live : left[m] # NULL => left[m] # right[n]

TreeLinks == ChildLinks /\ SiblingLinks /\ OneReference

(***************************************************************************)
(* json_free reads and frees only nodes that are still allocated: no use   *)
(* after free and no double free, although the only state it keeps is the  *)
(* cursor and it climbs back through parent pointers.                      *)
(***************************************************************************)
WalkOnLiveNodes == pc = "free" /\ node # NULL => node \in live

(***************************************************************************)
(* When json_free returns, what is still allocated hangs off a child that  *)
(* json_build had already lost; in particular a document that never lost   *)
(* one is released completely, accepted or rejected half-way.              *)
(***************************************************************************)
WholeTreeFreed == pc = "done" /\ orphans = {} => live = {}

OnlyOrphansLeft == pc = "done" =>
    \A n \in live : n \in orphans \/ \E m \in live : n \in {left[m], right[m]}

(***************************************************************************)
(* What the readers of the tree (json_item, json_items, json_node) rely on *)
(* in an accepted document: every group has a first child, members of an   *)
(* object have names and elements of an array have none, and an EMPTY node *)
(* is the only child of its group.                                         *)
(***************************************************************************)
Elements(p) == {n \in live : parent[n] = p}

AcceptedShape == pc = "parsed" /\ orphans = {} =>
    /\ node = Root /\ open = {} /\ right[Root] = NULL /\ type[Root] # "EMPTY"
    /\ \A n \in live :
        /\ type[n] \in {"OBJECT", "ARRAY"} <=> left[n] # NULL
        /\ type[n] = "EMPTY" => Elements(parent[n]) = {n}
        /\ type[n] = "OBJECT" =>
             \A k \in Elements(n) : named[k] \/ type[k] = "EMPTY"
        /\ type[n] = "ARRAY" => \A k \in Elements(n) : ~named[k]

(***************************************************************************)
(* json_build never overwrites a sibling link: node->right is written once *)
(* per node, so no element read before a comma is lost.                    *)
(***************************************************************************)
SiblingsKept == [][\A n \in Node : right[n] # NULL => right'[n] = right[n]]_vars

(***************************************************************************)
(* json_free's loop ends for every tree, complete or partial.              *)
(***************************************************************************)
FreeTerminates == pc = "free" ~> pc = "done"

(***************************************************************************)
(* json_build recognises exactly the language of JsonGrammar: it accepts a *)
(* text only along the grammar's rules, and reports a syntax error only    *)
(* where no rule applies.  The stack is the types of the open groups in    *)
(* the order of their creation, and what the grammar expects is read off   *)
(* the cursor.                                                             *)
(***************************************************************************)
Reading == pc \in {"start", "build"}

Depth(S, q) == Cardinality({p \in S : p <= q})
AtDepth(S, i) == CHOOSE q \in S : Depth(S, q) = i

OpenTypes == [i \in 1 .. Cardinality(open) |-> type[AtDepth(open, i)]]

Stack == IF Reading THEN OpenTypes ELSE <<>>

IsFirst == left[parent[node]] = node

Expecting ==
    CASE pc = "start" -> "value"
      [] pc = "build" /\ type[node] # "EMPTY" -> "after"
      [] pc = "build" /\ type[node] = "EMPTY" /\ ~HasParent -> "value"
      [] pc = "build" /\ type[node] = "EMPTY" /\ HasParent /\ Nameless ->
            IF IsFirst THEN "firstMember" ELSE "member"
      [] pc = "build" /\ type[node] = "EMPTY" /\ HasParent /\ ~Nameless ->
            IF IsFirst THEN "firstValue" ELSE "value"
      [] OTHER -> "nothing"

Grammar == INSTANCE JsonGrammar WITH stack <- Stack, expect <- Expecting

RecognisesGrammar == Grammar!Spec

(***************************************************************************)
(* What json.c:745 says of json_free ("Libera toda la memoria reservada    *)
(* para el arbol": it frees all the memory reserved for the tree): when it *)
(* returns for a document that was accepted, no node is allocated.         *)
(***************************************************************************)
AllMemoryFreed == pc = "done" /\ verdict = "accept" => live = {}

(***************************************************************************)
(* What json.c:348 says of a closing token with nothing before it ("Puede  *)
(* ser un grupo vacio: {} o []"): the node it leaves EMPTY stands for an   *)
(* empty group, so it has no name.                                         *)
(***************************************************************************)
EmptyOnlyInEmptyGroup ==
    pc = "parsed" => \A n \in live : type[n] = "EMPTY" => ~named[n]
=============================================================================
