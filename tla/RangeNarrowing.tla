--------------------------- MODULE RangeNarrowing ---------------------------
(***************************************************************************)
(* What refinement promises, free of how a refinement is represented: a    *)
(* value denotes a set of concrete values that never changes; refining     *)
(* starts from that set and only ever shrinks it; the value that comes out *)
(* denotes what is left and carries the marks of the value that went in.   *)
(***************************************************************************)
CONSTANTS
  Values,    \* names of values
  Builders,  \* names of refinements in progress
  Null,      \* the null value
  Free,      \* a name not in use
  Closed     \* a refinement that has returned or been refused

VARIABLES
  meaning,   \* Values -> Free or the set a value denotes, with its marks
  range      \* Builders -> Free, Closed or the range reached so far

avars == <<meaning, range>>

(* null tells whether null is in the range: "T" only null, "F" no null.    *)
(* vals are the non-null values in the range; they stay known while the    *)
(* range is {Null}, so that a later contradiction is still one.            *)
Denotes(r) ==
  (IF r.null = "F" THEN {} ELSE {Null}) \cup (IF r.null = "T" THEN {} ELSE r.vals)

Starts(m) ==
  [null |-> IF Null \notin m.vals THEN "F"
            ELSE IF m.vals = {Null} THEN "T" ELSE "U",
   vals |-> m.vals \ {Null}, marks |-> m.marks]

Init ==
  /\ \E v \in Values : \A w \in Values : w # v => meaning[w] = Free
  /\ \A b \in Builders : range[b] = Free

(* The range a refinement starts from is what the value denotes. *)
Begin(b, v) ==
  /\ range[b] = Free /\ meaning[v] # Free
  /\ range' = [range EXCEPT ![b] = Starts(meaning[v])]
  /\ UNCHANGED meaning

Open(b) == range[b] \notin {Free, Closed}

(* Some candidates go, never all of them. *)
Narrow(b) ==
  /\ Open(b) /\ Open(b)'
  /\ LET left == range'[b].vals IN
     /\ left \subseteq range[b].vals
     /\ left = {} => range[b].vals = {}
     /\ range' = [range EXCEPT ![b].vals = left]
  /\ UNCHANGED meaning

(* Nullness is decided, never reversed. *)
Decide(b, t) ==
  /\ Open(b) /\ range[b].null = "U"
  /\ range' = [range EXCEPT ![b].null = t]
  /\ UNCHANGED meaning

Refuse(b) ==
  /\ Open(b)
  /\ range' = [range EXCEPT ![b] = Closed]
  /\ UNCHANGED meaning

Return(b, v) ==
  /\ Open(b) /\ meaning[v] = Free
  /\ meaning' = [meaning EXCEPT ![v] =
       [vals |-> Denotes(range[b]), marks |-> range[b].marks]]
  /\ range' = [range EXCEPT ![b] = Closed]

Next ==
  \E b \in Builders :
    \/ \E v \in Values : Begin(b, v) \/ Return(b, v)
    \/ Narrow(b) \/ Decide(b, "T") \/ Decide(b, "F") \/ Refuse(b)

Spec == Init /\ [][Next]_avars
=============================================================================
