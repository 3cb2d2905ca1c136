---------------------------- MODULE SetContents ----------------------------
(***************************************************************************)
(* What the set.Set of cty promises, and the ValueSets and set values made *)
(* from it: each set holds a bag of elements of its own (two unknown       *)
(* elements are never known to be equal, so one may be held twice), an     *)
(* operation changes the set it is called on and no other, and a set that  *)
(* a cty value wraps never changes.                                        *)
(***************************************************************************)
EXTENDS Integers

CONSTANTS
  Handles,            \* names for the sets of the program
  Elements,           \* what a set may hold
  Equivalent(_, _),   \* the membership rules: the two are the same member
  Nothing             \* a name not in use

VARIABLES
  content,  \* Handles -> bag of elements, a function from Elements to Nat
  sealed    \* the handles of sets wrapped in a value

vars == <<content, sealed>>

Empty == [e \in Elements |-> 0]
Live(h) == content[h] # Nothing
Holds(bag, e) == \E m \in Elements : bag[m] > 0 /\ Equivalent(e, m)

Init == content = [h \in Handles |-> Nothing] /\ sealed = {}

Put(h, bag) == content' = [content EXCEPT ![h] = bag]

Create(d) == ~Live(d) /\ Put(d, Empty) /\ UNCHANGED sealed

Add(h, e) ==
  /\ Live(h) /\ h \notin sealed
  /\ Put(h, IF Holds(content[h], e) THEN content[h]
            ELSE [content[h] EXCEPT ![e] = @ + 1])
  /\ UNCHANGED sealed

(* A member equivalent to e goes, if there is one. *)
Remove(h, e) ==
  /\ Live(h) /\ h \notin sealed
  /\ \/ ~Holds(content[h], e) /\ UNCHANGED content
     \/ \E m \in Elements :
          /\ content[h][m] > 0 /\ Equivalent(e, m)
          /\ Put(h, [content[h] EXCEPT ![m] = @ - 1])
  /\ UNCHANGED sealed

Duplicate(h, d) ==
  Live(h) /\ ~Live(d) /\ Put(d, content[h]) /\ UNCHANGED sealed

Seal(h, d) ==
  Live(h) /\ ~Live(d) /\ Put(d, content[h]) /\ sealed' = sealed \cup {d}

(* The members of bag that keep retains. *)
Kept(bag, keep(_)) == [e \in Elements |-> IF keep(e) THEN bag[e] ELSE 0]

(* b, and the members of a that b has no equivalent of. *)
Joined(b, a) ==
  [e \in Elements |-> b[e] + IF Holds(b, e) THEN 0 ELSE a[e]]

Combine(g, h, d, combined(_, _)) ==
  /\ Live(g) /\ Live(h) /\ ~Live(d)
  /\ Put(d, combined(content[g], content[h]))
  /\ UNCHANGED sealed

UnionOf(a, b) == Joined(a, b)
IntersectionOf(a, b) == Kept(a, LAMBDA e : Holds(b, e))
DifferenceOf(a, b) == Kept(a, LAMBDA e : ~Holds(b, e))
SymmetricOf(a, b) == Joined(DifferenceOf(a, b), DifferenceOf(b, a))

Discard(h) == Live(h) /\ Put(h, Nothing) /\ sealed' = sealed \ {h}

Next ==
  \/ \E h \in Handles : Create(h) \/ Discard(h)
  \/ \E h \in Handles, e \in Elements : Add(h, e) \/ Remove(h, e)
  \/ \E h, d \in Handles : Duplicate(h, d) \/ Seal(h, d)
  \/ \E g, h, d \in Handles :
       \/ Combine(g, h, d, UnionOf) \/ Combine(g, h, d, IntersectionOf)
       \/ Combine(g, h, d, DifferenceOf) \/ Combine(g, h, d, SymmetricOf)

Spec == Init /\ [][Next]_vars
=============================================================================
