----------------------------- MODULE Traversal -----------------------------
(***************************************************************************)
(* Traversals of a nested value with callbacks: Walk, Transform,           *)
(* WrangleMarksDeep and, built on these, UnmarkDeepWithPaths and           *)
(* MarkWithPaths (cty/walk.go, marks_wrangle.go, marks.go).  Each is a     *)
(* recursion over the parts of the value, whose frames are on the stack;   *)
(* the paths that callbacks are given are Go slices that share arrays      *)
(* (path.go), and a callback that keeps one must copy it.  The value is a  *)
(* tree of parts with marks; a step of a path is the part it leads to.     *)
(***************************************************************************)
EXTENDS Integers, Sequences, FiniteSets

CONSTANTS
  Parts,       \* the parts of the value, itself among them
  Root,        \* the value itself
  Kids,        \* the parts directly in a part, in order of iteration
  Kind,        \* of a part: "leaf", "sequence", "map", "object" or "set"
  Marks,
  Given,       \* the marks of each part to begin with
  Nothing,     \* no part and no mark
  Depth,       \* bound: steps of a path that the program makes
  Programs,    \* sequences of traversals that a program makes
  MaxKept,     \* bound: paths the program keeps
  MaxAnswers   \* bound: answers of callbacks that are not the usual one

In(s) == {s[i] : i \in DOMAIN s}

(* A part and all parts in it. *)
Below[p \in Parts] == {p} \cup UNION {Below[k] : k \in In(Kids[p])}

ASSUME TreeAssumption ==
  /\ Root \in Parts /\ Nothing \notin Parts \cup Marks
  /\ Kids \in [Parts -> Seq(Parts)] /\ Given \in [Parts -> SUBSET Marks]
  /\ Kind \in [Parts -> {"leaf", "sequence", "map", "object", "set"}]
  /\ Depth \in Nat /\ MaxKept \in Nat

(* A value has finitely many parts, and a program finitely many marks. *)
ASSUME PartsAssumption == IsFiniteSet(Parts)
ASSUME MarksAssumption == IsFiniteSet(Marks)

(* Each part is in one other; nothing in a set has marks.                  *)
ASSUME ShapeAssumption ==
  /\ Below[Root] = Parts /\ \A p \in Parts : Root \notin In(Kids[p])
  /\ \A p, q \in Parts : \A i \in DOMAIN Kids[p], j \in DOMAIN Kids[q] :
       Kids[p][i] = Kids[q][j] => p = q /\ i = j
  /\ \A p \in Parts :
       /\ Kind[p] = "leaf" => Kids[p] = << >>
       /\ Kind[p] = "set" => \A q \in Below[p] \ {p} : Given[q] = {}

VARIABLES
  value,    \* the marks of each part that is in the program's value
  call,     \* the traversal under way, or "none"
  stack,    \* its frames
  calls,    \* the traversals that have ended, and whether with success
  heap,     \* the arrays of paths
  kept,     \* the program's set of paths, and what each was when it was kept
  pvm,      \* the marks and paths of the last UnmarkDeepWithPaths
  visited,  \* the parts given to callbacks, in order
  answers   \* the answers of callbacks that were not the usual one

vars == <<value, call, stack, calls, heap, kept, pvm, visited, answers>>

----------------------------------------------------------------------------
(* Paths: slices of arrays.                                                *)

NilPath == [array |-> 0, len |-> 0]
Cap(h, s) == IF s.array = 0 THEN 0 ELSE h[s.array].cap
Contents(h, s) == [i \in 1 .. s.len |-> h[s.array].at[i]]

Array(cap, path) ==
  [cap |-> cap, at |-> [i \in 1 .. cap |-> IF i \in DOMAIN path THEN path[i] ELSE Nothing]]

(* append(path, step): in place while there is room, or else in an array   *)
(* of twice the capacity.                                                  *)
Grown(n) == IF n = 0 THEN 1 ELSE 2 * n
HasRoom(h, s) == s.len < Cap(h, s)
AppendHeap(h, s, step) ==
  IF HasRoom(h, s) THEN [h EXCEPT ![s.array].at[s.len + 1] = step]
                   ELSE Append(h, Array(Grown(s.len), Append(Contents(h, s), step)))
AppendPath(h, s) ==
  [array |-> IF HasRoom(h, s) THEN s.array ELSE Len(h) + 1, len |-> s.len + 1]

(* A path in an array of its own: Path.Copy, Path.Index and Path.GetAttr.  *)
(* The first definition is a faulty variant in which Path.Copy gives the   *)
(* slice itself.                                                           *)
Aliased(h, s, extra) ==
  IF extra = 0 THEN s ELSE [array |-> Len(h) + 1, len |-> s.len + extra]
OwnHeap(h, path) == Append(h, Array(Len(path), path))
OwnPath(h, s, extra) == [array |-> Len(h) + 1, len |-> s.len + extra]

(* The program keeps a copy of a path and of all steps to it: slices of    *)
(* the one array (PathSet.AddAllSteps), unless it has them already.        *)
AllSteps(h, s, path) ==
  {[slice |-> [s EXCEPT !.len = i], was |-> SubSeq(path, 1, i)] : i \in 1 .. s.len}
New(paths) == {k \in paths : \A old \in kept : old.was # k.was}

KeepOwn(path, s, extra) ==
  /\ path # << >> /\ Cardinality(kept) < MaxKept
  /\ heap' = OwnHeap(heap, path)
  /\ kept' = kept \cup New(AllSteps(heap', OwnPath(heap, s, extra), path))

(* What a callback of the program does with the path it is given.          *)
MayKeep(s) ==
  \/ UNCHANGED <<heap, kept>>
  \/ KeepOwn(Contents(heap, s), s, 0)

(* The program makes a longer path of one that it kept.                    *)
Extend(k, step) ==
  /\ k.slice.len < Depth
  /\ KeepOwn(Append(Contents(heap, k.slice), step), k.slice, 1)
  /\ UNCHANGED <<value, call, stack, calls, pvm, visited, answers>>

----------------------------------------------------------------------------
(* Frames.  In a frame, val is the part's value as it stands: when the     *)
(* frame returns, it is the value returned, unless made says that nothing  *)
(* changed (wrangleMarksDeep returns NilVal).                              *)

Walks == {"Walk"}
Transforms == {"Transform", "MarkWithPaths"}
Wrangles == {"WrangleMarksDeep", "UnmarkDeepWithPaths"}

Of(f, p) == [q \in Below[p] \cap DOMAIN f |-> f[q]]
Frame(p, path, f) ==
  [part |-> p, path |-> path, inside |-> FALSE, val |-> Of(f, p), made |-> FALSE,
   given |-> f[p], top |-> {}, todo |-> {}]

Top == stack[Len(stack)]
Outer == SubSeq(stack, 1, Len(stack) - 1)
WithTop(frame) == [stack EXCEPT ![Len(stack)] = frame]

KidsIn(p, f) == In(Kids[p]) \cap DOMAIN f

(* The attributes of an object are transformed in random order.  FirstOf   *)
(* is a faulty variant that waits for a part that is done.                 *)
FirstOf(frame) == {k \in frame.todo : Kids[frame.part][1] = k}
NextKids(frame) ==
  IF call \in Transforms /\ Kind[frame.part] = "object" THEN frame.todo
  ELSE {k \in frame.todo :
          \E i \in DOMAIN Kids[frame.part] :
            /\ Kids[frame.part][i] = k
            /\ \A j \in 1 .. i - 1 : Kids[frame.part][j] \notin frame.todo}

Ops == [i \in DOMAIN calls |-> calls[i].op]
Running(ops) == call \in ops
Entering(ops) == Running(ops) /\ ~Top.inside
Leaving(ops) == Running(ops) /\ Top.inside /\ Top.todo = {}

(* A traversal begins with the nil path, or with one that has room for     *)
(* four steps if the value has parts (marks_wrangle.go:36).                *)
Begin(op, h, path) ==
  /\ call = "none"
  /\ \E program \in Programs :
       Len(Ops) < Len(program) /\ Append(Ops, op) = SubSeq(program, 1, Len(Ops) + 1)
  /\ call' = op /\ stack' = <<Frame(Root, path, value)>> /\ heap' = h
  /\ visited' = << >> /\ answers' = {}
  /\ UNCHANGED <<value, calls, kept>>

BeginWalk == Begin("Walk", heap, NilPath) /\ UNCHANGED pvm
BeginTransform == Begin("Transform", heap, NilPath) /\ UNCHANGED pvm
BeginMarkWithPaths == pvm # << >> /\ Begin("MarkWithPaths", heap, NilPath) /\ UNCHANGED pvm
WranglePath == IF Kind[Root] = "leaf" THEN NilPath ELSE [array |-> Len(heap) + 1, len |-> 0]
WrangleHeap == IF Kind[Root] = "leaf" THEN heap ELSE Append(heap, Array(4, << >>))
BeginWrangle == Begin("WrangleMarksDeep", WrangleHeap, WranglePath) /\ UNCHANGED pvm
BeginUnmarkWithPaths ==
  Begin("UnmarkDeepWithPaths", WrangleHeap, WranglePath) /\ pvm' = << >>

End(result, ok) ==
  /\ call' = "none" /\ stack' = << >> /\ value' = result
  /\ calls' = Append(calls, [op |-> call, ok |-> ok])

(* Into the next part.  PushOntoPath is a faulty variant that assigns to   *)
(* the path of the frame above.                                            *)
PushOntoPath(k, path) ==
  Append(WithTop([Top EXCEPT !.todo = @ \ {k}, !.path = path]), Frame(k, path, Top.val))
Push(k, path) == Append(WithTop([Top EXCEPT !.todo = @ \ {k}]), Frame(k, path, Top.val))
Down(k) ==
  /\ call # "none" /\ Top.inside /\ k \in NextKids(Top)
  /\ heap' = AppendHeap(heap, Top.path, k)
  /\ stack' = Push(k, AppendPath(heap, Top.path))
  /\ UNCHANGED <<value, call, calls, kept, pvm, visited, answers>>

(* What the frame above makes of a value returned for one of its parts.    *)
(* The first definition is a faulty variant that does not note the change. *)
TakenUnnoted(outer, result) ==
  [outer EXCEPT !.val = [q \in DOMAIN outer.val \ (Below[Top.part] \ DOMAIN result) |->
                           IF q \in DOMAIN result THEN result[q] ELSE outer.val[q]]]
Taken(outer, result) ==
  [outer EXCEPT
    !.made = TRUE,
    !.val = [q \in DOMAIN outer.val \ (Below[Top.part] \ DOMAIN result) |->
               IF q \in DOMAIN result THEN result[q] ELSE outer.val[q]]]
Return(result) ==
  IF Len(stack) = 1 THEN End(result, TRUE)
  ELSE /\ stack' = [Outer EXCEPT ![Len(Outer)] = Taken(@, result)]
       /\ UNCHANGED <<value, call, calls>>
ReturnUnchanged ==
  IF Len(stack) = 1 THEN End(value, TRUE)
  ELSE stack' = Outer /\ UNCHANGED <<value, call, calls>>

(* An answer that is not the usual one.                                    *)
Answer(what, mark, by) ==
  /\ Cardinality(answers) < MaxAnswers
  /\ answers' = answers \cup {[part |-> Top.part, what |-> what, mark |-> mark, by |-> by]}

----------------------------------------------------------------------------
(* Walk.                                                                   *)

WalkVisit ==
  /\ Entering(Walks)
  /\ visited' = Append(visited, Top.part) /\ MayKeep(Top.path)
  /\ \/ /\ stack' = WithTop([Top EXCEPT !.inside = TRUE, !.todo = KidsIn(Top.part, value)])
        /\ UNCHANGED answers
     \/ /\ stack' = WithTop([Top EXCEPT !.inside = TRUE])
        /\ Answer("stop", Nothing, Nothing)
  /\ UNCHANGED <<value, call, calls, pvm>>

(* The callback returns an error, or a loop over DeepValues is left.       *)
WalkHalt ==
  /\ Entering(Walks)
  /\ visited' = Append(visited, Top.part) /\ End(value, FALSE)
  /\ UNCHANGED <<heap, kept, pvm, answers>>

WalkLeave ==
  /\ Leaving(Walks) /\ ReturnUnchanged
  /\ UNCHANGED <<heap, kept, pvm, visited, answers>>

----------------------------------------------------------------------------
(* Transform: Enter may put another value, without parts, in place of the  *)
(* part; Exit may mark what has become of it.                              *)

Cut(frame) == [frame EXCEPT !.val = [q \in {frame.part} |-> frame.val[q]]]
Into(frame) == [frame EXCEPT !.inside = TRUE, !.todo = KidsIn(frame.part, frame.val)]

TransformEnter ==
  /\ Entering(Transforms)
  /\ \/ stack' = WithTop(Into(Top)) /\ UNCHANGED answers
     \/ /\ call = "Transform"
        /\ stack' = WithTop(Into(Cut(Top))) /\ Answer("cut", Nothing, Nothing)
  /\ UNCHANGED <<value, call, calls, heap, kept, pvm, visited>>

(* The value given to Exit is made of the new parts; a set takes the marks *)
(* of its parts (SetVal).                                                  *)
Assembled(frame) ==
  IF Kind[frame.part] = "set"
    THEN [q \in DOMAIN frame.val |->
            IF q = frame.part THEN UNION {frame.val[r] : r \in DOMAIN frame.val} ELSE {}]
    ELSE frame.val

WithMarks(f, p, marks) == [f EXCEPT ![p] = @ \cup marks]

TransformExit ==
  /\ Leaving({"Transform"})
  /\ visited' = Append(visited, Top.part) /\ MayKeep(Top.path)
  /\ \/ Return(Assembled(Top)) /\ UNCHANGED answers
     \/ \E m \in Marks :
          /\ Return(WithMarks(Assembled(Top), Top.part, {m}))
          /\ Answer("mark", m, Nothing)
  /\ UNCHANGED pvm

(* Enter or Exit returns an error. *)
TransformFails ==
  /\ Entering({"Transform"}) \/ Leaving({"Transform"})
  /\ End(value, FALSE) /\ UNCHANGED <<heap, kept, pvm, visited, answers>>

(* The Exit of MarkWithPaths: the first entry for this path counts. *)
MarksFor(path) ==
  LET found == {i \in DOMAIN pvm : Contents(heap, pvm[i].path) = path} IN
  IF found = {} THEN {} ELSE pvm[CHOOSE i \in found : \A j \in found : i <= j].marks

MarkWithPathsExit ==
  /\ Leaving({"MarkWithPaths"})
  /\ visited' = Append(visited, Top.part)
  /\ Return(WithMarks(Assembled(Top), Top.part, MarksFor(Contents(heap, Top.path))))
  /\ UNCHANGED <<heap, kept, pvm, answers>>

----------------------------------------------------------------------------
(* WrangleMarksDeep: the marks of a part are visited in random order, then *)
(* its parts; top collects, in the outermost frame, the marks to expand.   *)

Drop(frame, m) == [frame EXCEPT !.val[frame.part] = @ \ {m}, !.made = TRUE]
Replace(frame, m, by) == [frame EXCEPT !.val[frame.part] = (@ \ {m}) \cup {by}, !.made = TRUE]
Visited(frame, m) == [frame EXCEPT !.given = @ \ {m}]
Expand(m) == [WithTop(Visited(Top, m)) EXCEPT ![1].top = @ \cup {m}]

(* The answer is that of the first wrangler that has one.                  *)
WrangleMark(m) ==
  /\ Entering({"WrangleMarksDeep"}) /\ m \in Top.given
  /\ \/ /\ stack' = WithTop(Visited(Top, m))
        /\ UNCHANGED answers /\ MayKeep(Top.path)
     \/ /\ stack' = WithTop(Drop(Visited(Top, m), m))
        /\ Answer("drop", m, Nothing) /\ UNCHANGED <<heap, kept>>
     \/ /\ stack' = Expand(m)
        /\ Answer("expand", m, Nothing) /\ UNCHANGED <<heap, kept>>
     \/ \E by \in Marks :
          /\ stack' = WithTop(Replace(Visited(Top, m), m, by))
          /\ Answer("replace", m, by) /\ UNCHANGED <<heap, kept>>
  /\ UNCHANGED <<value, call, calls, pvm, visited>>

(* The wrangler of UnmarkDeepWithPaths drops every mark and notes it, with *)
(* the marks noted last if these are at the same path.  The first          *)
(* definition is a faulty variant that only compares lengths.              *)
NotedByLength(path, m) ==
  IF pvm # << >> /\ Len(Contents(heap, pvm[Len(pvm)].path)) = Len(path)
    THEN [pvm EXCEPT ![Len(pvm)].marks = @ \cup {m}]
    ELSE Append(pvm, [path |-> [array |-> Len(heap) + 1, len |-> Len(path)], marks |-> {m}])
Noted(path, m) ==
  IF pvm # << >> /\ Contents(heap, pvm[Len(pvm)].path) = path
    THEN [pvm EXCEPT ![Len(pvm)].marks = @ \cup {m}]
    ELSE Append(pvm, [path |-> OwnPath(heap, Top.path, 0), marks |-> {m}])

UnmarkWithPaths(m) ==
  /\ Entering({"UnmarkDeepWithPaths"}) /\ m \in Top.given
  /\ stack' = WithTop(Drop(Visited(Top, m), m))
  /\ pvm' = Noted(Contents(heap, Top.path), m)
  /\ heap' = IF Len(pvm') = Len(pvm) THEN heap ELSE OwnHeap(heap, Contents(heap, Top.path))
  /\ UNCHANGED <<value, call, calls, kept, visited, answers>>

WrangleInto ==
  /\ Entering(Wrangles) /\ Top.given = {}
  /\ stack' = WithTop([Top EXCEPT !.inside = TRUE,
                         !.todo = IF Kind[Top.part] = "set" THEN {} ELSE KidsIn(Top.part, value)])
  /\ UNCHANGED <<value, call, calls, heap, kept, pvm, visited, answers>>

WrangleLeave ==
  /\ Leaving(Wrangles)
  /\ IF Len(stack) = 1
       THEN End(WithMarks(IF Top.made THEN Top.val ELSE value, Root, Top.top), TRUE)
       ELSE IF Top.made THEN Return(Top.val) ELSE ReturnUnchanged
  /\ UNCHANGED <<heap, kept, pvm, visited, answers>>

----------------------------------------------------------------------------

Init ==
  /\ value = Given /\ call = "none" /\ stack = << >> /\ calls = << >>
  /\ heap = << >> /\ kept = {} /\ pvm = << >> /\ visited = << >> /\ answers = {}

Start ==
  BeginWalk \/ BeginTransform \/ BeginMarkWithPaths \/ BeginWrangle \/ BeginUnmarkWithPaths

(* A step of the traversal under way; all its callbacks return.            *)
Step ==
  \/ \E k \in Parts : Down(k)
  \/ WalkVisit \/ WalkHalt \/ WalkLeave
  \/ TransformEnter \/ TransformExit \/ TransformFails \/ MarkWithPathsExit
  \/ \E m \in Marks : WrangleMark(m) \/ UnmarkWithPaths(m)
  \/ WrangleInto \/ WrangleLeave

Next == Start \/ Step \/ \E k \in kept, step \in Parts : Extend(k, step)

Spec == Init /\ [][Next]_vars /\ WF_vars(Step)

----------------------------------------------------------------------------
(* Properties.                                                             *)

(* Do these steps lead from the whole value to p (Path.Apply)?             *)
LeadTo(path, p) ==
  /\ IF path = << >> THEN p = Root
     ELSE path[1] \in In(Kids[Root]) /\ path[Len(path)] = p
  /\ \A i \in 1 .. Len(path) - 1 : path[i + 1] \in In(Kids[path[i]])

(* The path of every part that is being visited, the innermost and those   *)
(* around it that have yet to be left, leads to that part, although the    *)
(* paths of other parts were written to the same arrays (walk.go:85).      *)
PathsLeadToParts ==
  \A i \in DOMAIN stack : LeadTo(Contents(heap, stack[i].path), stack[i].part)

(* A path that the program keeps a copy of, or of whose copy it keeps a    *)
(* part or an extension, stays as it was (path.go:188, path_set.go:47).    *)
KeptPathsStay == \A k \in kept : Contents(heap, k.slice) = k.was

Answered(what) == {a \in answers' : a.what = what}
PartsAnswered(what) == {a.part : a \in Answered(what)}
Within(p, outer) == \E q \in outer : p \in Below[q] \ {q}
EndsWell(op) == call = op /\ call' = "none" /\ calls'[Len(calls')].ok

(* A callback is given each part at most once, and a part before all that  *)
(* is in it by Walk, and after all that is in it by Transform (walk.go:7). *)
VisitsInOrder(op) ==
  \A j \in DOMAIN visited' : \A i \in 1 .. j - 1 :
    IF op = "Walk" THEN visited'[i] \notin Below[visited'[j]]
                   ELSE visited'[j] \notin Below[visited'[i]]

(* A walk that is not halted visits all parts but those in parts it was    *)
(* told not to enter.                                                      *)
WalksEverywhere ==
  In(visited') = {p \in DOMAIN value : ~Within(p, PartsAnswered("stop"))}

(* A transformation gives the value that the answers of Enter and Exit     *)
(* describe; what is in a set passes its marks on to the set.              *)
MarksAnswered(p, what) == {a.mark : a \in {b \in Answered(what) : b.part = p}}
Left == {p \in DOMAIN value : ~Within(p, PartsAnswered("cut"))}
Own(p) == value[p] \cup MarksAnswered(p, "mark")
TransformsAsAnswered ==
  value' = [p \in Left |->
              IF Within(p, {q \in Parts : Kind[q] = "set"}) THEN {}
              ELSE IF Kind[p] = "set" THEN UNION {Own(q) : q \in Below[p] \cap Left}
              ELSE Own(p)]

(* Marks are dropped, replaced and expanded where the wranglers said so    *)
(* and nowhere else, in whatever order they were visited.  Only of a mark  *)
(* that one answer takes from a part and another puts there does the order *)
(* decide (marks_wrangle.go:92).                                           *)
TakenFrom(p) == MarksAnswered(p, "drop") \cup MarksAnswered(p, "replace")
PutAt(p) == {a.by : a \in {b \in Answered("replace") : b.part = p}}
Contested(p) == TakenFrom(p) \cap PutAt(p)
Wrangled(p) ==
  (value[p] \ TakenFrom(p)) \cup PutAt(p)
    \cup (IF p = Root THEN {a.mark : a \in Answered("expand")} ELSE {})
WranglesAsAnswered ==
  /\ DOMAIN value' = DOMAIN value
  /\ \A p \in DOMAIN value : value'[p] \ Contested(p) = Wrangled(p) \ Contested(p)

(* A traversal that ends without error has given the callbacks the parts,  *)
(* and made of the value, what the callbacks' answers asked for, however   *)
(* they differed from part to part.                                        *)
AnswersAreObeyed ==
  [][/\ EndsWell("Walk") => WalksEverywhere /\ VisitsInOrder("Walk")
     /\ EndsWell("Transform") => TransformsAsAnswered /\ VisitsInOrder("Transform")
     /\ EndsWell("WrangleMarksDeep") => WranglesAsAnswered]_vars

(* UnmarkDeepWithPaths leaves no mark, and MarkWithPaths puts every one    *)
(* back in its place (marks.go:351).                                       *)
UnmarkThenMarkRestores ==
  /\ Ops = <<"UnmarkDeepWithPaths">> => \A p \in DOMAIN value : value[p] = {}
  /\ Ops = <<"UnmarkDeepWithPaths", "MarkWithPaths">> => value = Given

(* Every traversal ends.                                                   *)
TraversalsEnd == (call # "none") ~> (call = "none")
=============================================================================
