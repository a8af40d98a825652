---------------------------- MODULE JsonGrammar ----------------------------
(***************************************************************************)
(* The language json_build recognises, as a pushdown automaton that knows  *)
(* nothing of nodes or memory: the groups still open and what may come     *)
(* next.  It is JSON plus two leniencies of the code, each an action of    *)
(* its own: ReopenGroup and CloseEmptyMember.                              *)
(***************************************************************************)
EXTENDS Naturals, Sequences

CONSTANTS Contents

Scalars == {"STRING", "NUMBER", "BOOLEAN", "NULL"}
Group(t) == IF t \in {"{", "}"} THEN "OBJECT" ELSE "ARRAY"

VARIABLES scan,         \* the last scan result
          stack,        \* the types of the open groups, innermost last
          expect,       \* what the grammar expects next
          verdict

gvars == <<scan, stack, expect, verdict>>

(***************************************************************************)
(* What may come next:                                                     *)
(*   firstMember  a name, or the end of an object just opened              *)
(*   member       a name                                                   *)
(*   firstValue   the first value of a group, or the end of an array       *)
(*   value        a value                                                  *)
(*   after        what follows a group: a comma, a closing token, the end  *)
(***************************************************************************)
Expectations == {"firstMember", "member", "firstValue", "value", "after", "nothing"}

TypeOK ==
    /\ stack \in Seq({"OBJECT", "ARRAY"})
    /\ expect \in Expectations
    /\ verdict \in {"none", "accept", "syntax", "memory"}

Init ==
    /\ scan = [content |-> "malformed", token |-> "none"]
    /\ stack = <<>>
    /\ expect = "value"
    /\ verdict = "none"

Innermost(g) == stack # <<>> /\ stack[Len(stack)] = g
Push(g) == stack' = Append(stack, g)
Pop == stack' = SubSeq(stack, 1, Len(stack) - 1)

Reads(c, t) == verdict = "none" /\ scan' = [content |-> c, token |-> t]

(***************************************************************************)
(* A value is complete: a scalar just read, or a group already closed.     *)
(***************************************************************************)
ValueComplete(c) ==
    \/ expect \in {"firstValue", "value"} /\ c \in Scalars
    \/ expect = "after" /\ c = "none"

Opens(c, t) ==
    /\ t \in {"{", "["} /\ c = "none"
    /\ Reads(c, t)
    /\ Push(Group(t))
    /\ expect' = IF t = "{" THEN "firstMember" ELSE "firstValue"
    /\ UNCHANGED verdict

OpenGroup(c, t) == expect \in {"firstValue", "value"} /\ Opens(c, t)

(***************************************************************************)
(* Leniency: a second group may stand where one has just been closed; it   *)
(* takes the place of the first.                                           *)
(***************************************************************************)
ReopenGroup(c, t) == expect = "after" /\ Opens(c, t)

Name(c) ==
    /\ expect \in {"firstMember", "member"} /\ c = "STRING"
    /\ Reads(c, ":")
    /\ expect' = IF expect = "firstMember" THEN "firstValue" ELSE "value"
    /\ UNCHANGED <<stack, verdict>>

Comma(c) ==
    /\ stack # <<>> /\ ValueComplete(c)
    /\ Reads(c, ",")
    /\ expect' = IF Innermost("OBJECT") THEN "member" ELSE "value"
    /\ UNCHANGED <<stack, verdict>>

Closes(c, t) ==
    /\ t \in {"}", "]"} /\ Innermost(Group(t))
    /\ Reads(c, t)
    /\ Pop
    /\ expect' = "after"
    /\ UNCHANGED verdict

CloseGroup(c, t) ==
    /\ \/ ValueComplete(c)
       \/ expect = "firstMember" /\ c = "none"
       \/ expect = "firstValue" /\ Innermost("ARRAY") /\ c = "none"
    /\ Closes(c, t)

(***************************************************************************)
(* Leniency: the first member of an object may lack its value.             *)
(***************************************************************************)
CloseEmptyMember(c, t) ==
    /\ expect = "firstValue" /\ Innermost("OBJECT") /\ c = "none"
    /\ Closes(c, t)

Stops(v) == verdict' = v /\ stack' = <<>> /\ expect' = "nothing"

Accept(c) ==
    /\ stack = <<>> /\ ValueComplete(c)
    /\ Reads(c, "end")
    /\ Stops("accept")

(***************************************************************************)
(* The text is rejected exactly when no rule can read the next token, or   *)
(* when no token can be read.                                              *)
(***************************************************************************)
CanRead(c, t) ==
    \/ t \in {"{", "["} /\ c = "none" /\ expect \in {"firstValue", "value", "after"}
    \/ t = ":" /\ c = "STRING" /\ expect \in {"firstMember", "member"}
    \/ t = "," /\ stack # <<>> /\ ValueComplete(c)
    \/ /\ t \in {"}", "]"} /\ Innermost(Group(t))
       /\ ValueComplete(c) \/ (expect \in {"firstMember", "firstValue"} /\ c = "none")
    \/ t = "end" /\ stack = <<>> /\ ValueComplete(c)

Reject(c, t) == Reads(c, t) /\ ~CanRead(c, t) /\ Stops("syntax")

Unreadable == Reads("malformed", "none") /\ Stops("syntax")

(***************************************************************************)
(* The recogniser may run out of memory on a text that is correct so far.  *)
(***************************************************************************)
GiveUp(c, t) == Reads(c, t) /\ CanRead(c, t) /\ Stops("memory")
NeverStarted == verdict = "none" /\ Stops("memory") /\ UNCHANGED scan

Next ==
    \/ \E c \in Contents, t \in {"{", "[", "}", "]"} :
          \/ OpenGroup(c, t)
          \/ ReopenGroup(c, t)
          \/ CloseGroup(c, t)
          \/ CloseEmptyMember(c, t)
    \/ \E c \in Contents : Name(c) \/ Comma(c) \/ Accept(c)
    \/ \E c \in Contents, t \in {"{", "[", "}", "]", ":", ",", "end"} :
          Reject(c, t) \/ GiveUp(c, t)
    \/ Unreadable
    \/ NeverStarted

Spec == Init /\ [][Next]_gvars
=============================================================================
