--------------------------- MODULE Traversal_proofs ---------------------------
(***************************************************************************)
(* Theorems about Traversal, for every tree of parts, every sequence of    *)
(* traversals and all answers of the callbacks: the paths that callbacks   *)
(* see, those they keep, and the marks that are taken out and put back by  *)
(* them.                                                                   *)
(*                                                                         *)
(* The frames on the stack share arrays, and so do the paths that the      *)
(* program keeps.  The inductive invariant IInv says that the path of a    *)
(* frame spells the parts of the frames up to it, and owns no more of its  *)
(* array than that, and that no array of the stack is one of the           *)
(* program's.                                                              *)
(*                                                                         *)
(* RestoreInv adds what UnmarkDeepWithPaths has done so far: each part is  *)
(* still to be visited and has its marks, or has lost them to a note; and  *)
(* a note is in an array of its own, where it goes on spelling the only    *)
(* way to its part, which MarkWithPaths finds it by.                       *)
(*                                                                         *)
(* ObeyInv says what the callbacks' answers have been made of.  PartsInv:  *)
(* the parts that the frames hold are those of the value that have yet to  *)
(* be visited, and of those behind as many as the answers left.  WalkInv:  *)
(* a part has been visited, or is ahead, or is in one that was not to be   *)
(* entered.  TransformInv: what is behind is as the answers describe it,   *)
(* but for the marks that a set further out will take.  WrangleInv: each   *)
(* frame holds the marks that its part was given, and what it did not note *)
(* as changed is what the frame around it holds.                           *)
(*                                                                         *)
(* From IInv and PartsInv it follows that each step leaves less to do.     *)
(***************************************************************************)
EXTENDS Traversal, TLAPS, WellFoundedInduction, FiniteSetTheorems

Arrays == UNION {[cap : {n}, at : [1 .. n -> Parts \cup {Nothing}]] : n \in Nat}

HeapOK == heap \in Seq(Arrays)

IsFrame(f) ==
  f \in [part : Parts, path : [array : Nat, len : Nat], inside : BOOLEAN, val : {f.val},
         made : BOOLEAN, given : {f.given}, top : {f.top}, todo : SUBSET In(Kids[f.part])]

(* The frames lead from the whole value into one of its parts. *)
StackOK ==
  /\ stack \in Seq(In(stack))
  /\ call # "none" => stack # << >>
  /\ \A i \in DOMAIN stack :
       /\ IsFrame(stack[i])
       /\ i = 1 => stack[i].part = Root
       /\ i > 1 => stack[i].part \in In(Kids[stack[i - 1].part])

(* A slice lies within an array. *)
IsSlice(h, s) ==
  /\ s \in [array : 0 .. Len(h), len : Nat]
  /\ s.len <= Cap(h, s)

(* The path of each frame spells the parts of the frames up to it. *)
Spelled ==
  \A i \in DOMAIN stack :
    /\ IsSlice(heap, stack[i].path) /\ stack[i].path.len = i - 1
    /\ \A j \in 1 .. i - 1 : heap[stack[i].path.array].at[j] = stack[j + 1].part

(* What the program keeps is in arrays of its own. *)
KeptOK ==
  \A k \in kept :
    /\ IsSlice(heap, k.slice) /\ k.slice.array # 0
    /\ Contents(heap, k.slice) = k.was
    /\ \A i \in DOMAIN stack : stack[i].path.array # k.slice.array

IInv == HeapOK /\ StackOK /\ Spelled /\ KeptOK

----------------------------------------------------------------------------
(* Arrays and slices of them.                                              *)

LEMMA SequenceOfItself ==
  ASSUME NEW S, NEW s \in Seq(S)
  PROVE  s \in Seq(In(s))
BY DEF In

LEMMA ArrayFields ==
  ASSUME NEW x \in Arrays
  PROVE  x.cap \in Nat /\ x.at \in [1 .. x.cap -> Parts \cup {Nothing}]
BY DEF Arrays

LEMMA ArrayIsArray ==
  ASSUME NEW n \in Nat, NEW path \in Seq(Parts \cup {Nothing})
  PROVE  /\ Array(n, path) \in Arrays /\ Array(n, path).cap = n
         /\ \A i \in 1 .. n : i <= Len(path) => Array(n, path).at[i] = path[i]
<1>1. Array(n, path).at \in [1 .. n -> Parts \cup {Nothing}]
  BY DEF Array
<1> QED BY <1>1 DEF Array, Arrays

LEMMA ContentsAreAPath ==
  ASSUME HeapOK, NEW s, IsSlice(heap, s)
  PROVE  /\ Contents(heap, s) \in Seq(Parts \cup {Nothing})
         /\ Len(Contents(heap, s)) = s.len
         /\ \A i \in 1 .. s.len : Contents(heap, s)[i] = heap[s.array].at[i]
<1>1. s.len \in Nat
  BY DEF IsSlice
<1>2. ASSUME NEW i \in 1 .. s.len
      PROVE  heap[s.array].at[i] \in Parts \cup {Nothing}
  <2>1. s.array \in 1 .. Len(heap) /\ s.len <= heap[s.array].cap
    BY <1>1, <1>2 DEF IsSlice, Cap
  <2>2. heap[s.array] \in Arrays
    BY <2>1 DEF HeapOK
  <2> QED BY <1>1, <1>2, <2>1, <2>2, ArrayFields
<1> QED BY <1>1, <1>2 DEF Contents

(* Arrays are only added. *)
Steady ==
  /\ HeapOK' /\ Len(heap) <= Len(heap')
  /\ \A a \in 1 .. Len(heap) : heap'[a] = heap[a]

LEMMA SteadySlices ==
  ASSUME HeapOK, Steady, NEW s, IsSlice(heap, s)
  PROVE  /\ IsSlice(heap', s) /\ Contents(heap', s) = Contents(heap, s)
         /\ \A j \in 1 .. s.len : heap'[s.array].at[j] = heap[s.array].at[j]
<1>1. Len(heap) \in Nat /\ Len(heap') \in Nat
  BY DEF HeapOK, Steady
<1>2. s.array \in 0 .. Len(heap) /\ s.len \in Nat /\ s.len <= Cap(heap, s)
      /\ s \in [array : 0 .. Len(heap'), len : Nat]
  BY <1>1 DEF IsSlice, Steady
<1>3. CASE s.array = 0
  BY <1>2, <1>3 DEF IsSlice, Cap, Contents
<1>4. CASE s.array # 0
  <2>1. heap'[s.array] = heap[s.array]
    BY <1>1, <1>2, <1>4 DEF Steady
  <2> QED BY <1>2, <1>4, <2>1 DEF IsSlice, Cap, Contents
<1> QED BY <1>3, <1>4

(* The stack keeps its frames, or the outer ones of them, with what they   *)
(* are about.                                                              *)
Shrinks ==
  /\ stack' \in Seq(In(stack')) /\ (call' # "none" => stack' # << >>)
  /\ Len(stack') <= Len(stack)
  /\ \A i \in 1 .. Len(stack') :
       /\ IsFrame(stack'[i])
       /\ stack'[i].part = stack[i].part /\ stack'[i].path = stack[i].path

LEMMA ShrinkingFrames ==
  ASSUME IInv, Shrinks
  PROVE  /\ Len(stack) \in Nat /\ Len(stack') \in Nat /\ Len(stack') <= Len(stack)
         /\ DOMAIN stack = 1 .. Len(stack) /\ DOMAIN stack' = 1 .. Len(stack')
         /\ \A i \in DOMAIN stack' :
              i \in DOMAIN stack /\ stack'[i].path = stack[i].path
<1>1. /\ Len(stack) \in Nat /\ Len(stack') \in Nat /\ Len(stack') <= Len(stack)
      /\ DOMAIN stack = 1 .. Len(stack) /\ DOMAIN stack' = 1 .. Len(stack')
  BY DEF IInv, StackOK, Shrinks
<1>2. \A i \in 1 .. Len(stack') : stack'[i].path = stack[i].path
  BY DEF Shrinks
<1> QED BY <1>1, <1>2

LEMMA ShrinkingKeepsFrames ==
  ASSUME IInv, Steady, Shrinks
  PROVE  HeapOK' /\ StackOK' /\ Spelled'
<1>1. /\ DOMAIN stack = 1 .. Len(stack) /\ DOMAIN stack' = 1 .. Len(stack')
      /\ Len(stack) \in Nat /\ Len(stack') \in Nat /\ Len(stack') <= Len(stack)
  BY ShrinkingFrames
<1>2. ASSUME NEW i \in DOMAIN stack'
      PROVE  /\ i \in DOMAIN stack
             /\ i = 1 => stack'[i].part = Root
             /\ i > 1 => stack'[i].part \in In(Kids[stack'[i - 1].part])
  <2>1. i > 1 => i - 1 \in 1 .. Len(stack')
    BY <1>1, <1>2
  <2> QED BY <1>1, <1>2, <2>1 DEF IInv, StackOK, Shrinks
<1>3. StackOK'
  BY <1>1, <1>2 DEF StackOK, Shrinks
<1>4. ASSUME NEW i \in DOMAIN stack'
      PROVE  /\ IsSlice(heap', stack'[i].path) /\ stack'[i].path.len = i - 1
             /\ \A j \in 1 .. i - 1 :
                  heap'[stack'[i].path.array].at[j] = stack'[j + 1].part
  <2>1. stack'[i].path = stack[i].path /\ IsSlice(heap, stack[i].path)
        /\ stack[i].path.len = i - 1
    BY <1>1, <1>2, <1>4 DEF IInv, Spelled, Shrinks
  <2>2. /\ IsSlice(heap', stack[i].path)
        /\ \A j \in 1 .. i - 1 :
             heap'[stack[i].path.array].at[j] = heap[stack[i].path.array].at[j]
    BY <2>1, SteadySlices DEF IInv
  <2>3. ASSUME NEW j \in 1 .. i - 1
        PROVE  stack'[j + 1].part = stack[j + 1].part
    BY <1>1, <1>4 DEF Shrinks
  <2> QED BY <1>2, <2>1, <2>2, <2>3 DEF IInv, Spelled
<1> QED BY <1>3, <1>4 DEF Steady, Spelled

(* What is kept is still there. *)
LEMMA ShrinkingKeepsKept ==
  ASSUME IInv, Steady, Shrinks, NEW k \in kept
  PROVE  /\ IsSlice(heap', k.slice) /\ k.slice.array # 0
         /\ Contents(heap', k.slice) = k.was
         /\ \A i \in DOMAIN stack' : stack'[i].path.array # k.slice.array
<1>1. \A i \in DOMAIN stack' : i \in DOMAIN stack /\ stack'[i].path = stack[i].path
  BY ShrinkingFrames
<1> QED BY <1>1, SteadySlices DEF IInv, KeptOK

LEMMA ShrinkingKeepsIInv ==
  ASSUME IInv, Shrinks, UNCHANGED <<heap, kept>>
  PROVE  IInv'
<1>1. Steady
  BY DEF IInv, HeapOK, Steady
<1> QED BY <1>1, ShrinkingKeepsFrames, ShrinkingKeepsKept DEF IInv, KeptOK

(* A path in an array of its own, kept with all the steps to it. *)
LEMMA KeepOwnKeepsIInv ==
  ASSUME IInv, Shrinks, NEW path \in Seq(Parts \cup {Nothing}), NEW s, NEW extra \in Nat,
         s.len \in Nat, Len(path) = s.len + extra, KeepOwn(path, s, extra)
  PROVE  IInv'
<1>1. heap' = Append(heap, Array(Len(path), path))
  BY DEF KeepOwn, OwnHeap
<1>2. Array(Len(path), path) \in Arrays
  BY ArrayIsArray
<1>3. Len(heap) \in Nat /\ Len(heap') = Len(heap) + 1 /\ HeapOK'
  BY <1>1, <1>2 DEF IInv, HeapOK
<1>4. Steady
  BY <1>1, <1>2, <1>3 DEF IInv, HeapOK, Steady
<1>5. heap'[Len(heap) + 1] = Array(Len(path), path)
  BY <1>1, <1>2 DEF IInv, HeapOK
<1>6. \A i \in DOMAIN stack' : stack'[i].path.array \in 0 .. Len(heap)
  <2>1. \A i \in DOMAIN stack' : i \in DOMAIN stack /\ stack'[i].path = stack[i].path
    BY ShrinkingFrames
  <2>2. \A i \in DOMAIN stack : IsSlice(heap, stack[i].path)
    BY DEF IInv, Spelled
  <2>3. \A i \in DOMAIN stack : stack[i].path.array \in 0 .. Len(heap)
    BY <2>2 DEF IsSlice
  <2> QED BY <2>1, <2>3
<1>7. ASSUME NEW i \in 1 .. Len(path), NEW k,
             k = [slice |-> [array |-> Len(heap) + 1, len |-> i], was |-> SubSeq(path, 1, i)]
      PROVE  /\ IsSlice(heap', k.slice) /\ k.slice.array # 0
             /\ Contents(heap', k.slice) = k.was
             /\ \A j \in DOMAIN stack' : stack'[j].path.array # k.slice.array
  <2>1. /\ k.slice.array = Len(heap) + 1 /\ k.slice.len = i /\ Len(path) \in Nat
        /\ k.slice \in [array : 0 .. Len(heap'), len : Nat] /\ k.slice.array # 0
    BY <1>3, <1>7
  <2>2. Cap(heap', k.slice) = Len(path)
    BY <1>3, <1>5, <2>1, ArrayIsArray DEF Cap
  <2>3. \A j \in 1 .. i : heap'[Len(heap) + 1].at[j] = path[j]
    <3>1. \A j \in 1 .. Len(path) : Array(Len(path), path).at[j] = path[j]
      BY <2>1, ArrayIsArray
    <3> QED BY <1>5, <2>1, <3>1
  <2>4. Contents(heap', k.slice) = SubSeq(path, 1, i)
    BY <2>1, <2>3 DEF Contents
  <2> QED BY <1>3, <1>6, <1>7, <2>1, <2>2, <2>4 DEF IsSlice
<1>8. ASSUME NEW k \in kept', k \notin kept
      PROVE  \E i \in 1 .. Len(path) :
               k = [slice |-> [array |-> Len(heap) + 1, len |-> i], was |-> SubSeq(path, 1, i)]
  <2>1. k \in AllSteps(heap', OwnPath(heap, s, extra), path)
    BY <1>8 DEF KeepOwn, New
  <2> QED BY <2>1 DEF AllSteps, OwnPath
<1>9. KeptOK'
  BY <1>4, <1>7, <1>8, ShrinkingKeepsKept DEF KeptOK
<1> QED BY <1>4, <1>9, ShrinkingKeepsFrames DEF IInv

----------------------------------------------------------------------------
(* Into a part: the path grows in place, where no other frame's path and   *)
(* no kept path reaches, or into a new array.                              *)

(* What has become of the heap, and the new slice t of it, when step k was *)
(* appended to slice s.                                                    *)
Appended(h, t, s, k) ==
  /\ h \in Seq(Arrays) /\ Len(heap) <= Len(h)
  /\ IsSlice(h, t) /\ t.len = s.len + 1 /\ t.array # 0
  /\ t.array \in {s.array, Len(heap) + 1}
  /\ \A j \in 1 .. s.len : h[t.array].at[j] = heap[s.array].at[j]
  /\ h[t.array].at[s.len + 1] = k
  /\ \A a \in 1 .. Len(heap) :
       /\ a # s.array => h[a] = heap[a]
       /\ h[a].cap = heap[a].cap
       /\ \A j \in 1 .. s.len : h[a].at[j] = heap[a].at[j]

LEMMA AppendKeepsArrays ==
  ASSUME HeapOK, NEW s, IsSlice(heap, s), NEW k \in Parts
  PROVE  Appended(AppendHeap(heap, s, k), AppendPath(heap, s), s, k)
<1> DEFINE h == AppendHeap(heap, s, k)
           t == AppendPath(heap, s)
<1>1. /\ Len(heap) \in Nat /\ s.len \in Nat /\ s.array \in 0 .. Len(heap)
      /\ s.len <= Cap(heap, s)
      /\ \A a \in 1 .. Len(heap) :
           /\ heap[a] \in Arrays /\ heap[a].cap \in Nat
           /\ heap[a].at \in [1 .. heap[a].cap -> Parts \cup {Nothing}]
  BY ArrayFields DEF HeapOK, IsSlice
<1>2. CASE HasRoom(heap, s)
  <2> DEFINE x == [heap[s.array] EXCEPT !.at[s.len + 1] = k]
  <2>1. s.array \in 1 .. Len(heap) /\ s.len + 1 \in 1 .. heap[s.array].cap
    BY <1>1, <1>2 DEF HasRoom, Cap
  <2>2. heap[s.array] \in [cap : {heap[s.array].cap},
                           at : [1 .. heap[s.array].cap -> Parts \cup {Nothing}]]
    BY <1>1, <2>1 DEF Arrays
  <2>3. /\ x.cap = heap[s.array].cap /\ x \in [cap : {heap[s.array].cap},
                           at : [1 .. heap[s.array].cap -> Parts \cup {Nothing}]]
        /\ x.at[s.len + 1] = k
        /\ \A j \in 1 .. s.len : x.at[j] = heap[s.array].at[j]
    BY <1>1, <2>1, <2>2
  <2>4. x \in Arrays
    BY <1>1, <2>1, <2>3 DEF Arrays
  <2>5. h = [heap EXCEPT ![s.array] = x] /\ t = [array |-> s.array, len |-> s.len + 1]
    BY <1>2 DEF AppendHeap, AppendPath
  <2> HIDE DEF x
  <2>6. h \in Seq(Arrays) /\ Len(h) = Len(heap) /\ h[s.array] = x
        /\ \A a \in 1 .. Len(heap) : a # s.array => h[a] = heap[a]
    BY <2>1, <2>4, <2>5 DEF HeapOK
  <2>7. IsSlice(h, t)
    BY <1>1, <2>1, <2>3, <2>5, <2>6 DEF IsSlice, Cap
  <2> QED BY <1>1, <2>1, <2>3, <2>5, <2>6, <2>7 DEF Appended
<1>3. CASE ~HasRoom(heap, s)
  <2> DEFINE path == Append(Contents(heap, s), k)
             x == Array(Grown(s.len), path)
  <2>1. path \in Seq(Parts \cup {Nothing}) /\ Len(path) = s.len + 1
        /\ path[s.len + 1] = k /\ \A j \in 1 .. s.len : path[j] = heap[s.array].at[j]
    BY <1>1, ContentsAreAPath
  <2>2. Grown(s.len) \in Nat /\ Grown(s.len) >= s.len + 1
    BY <1>1 DEF Grown
  <2> HIDE DEF path
  <2>3. x \in Arrays /\ x.cap = Grown(s.len)
        /\ \A i \in 1 .. s.len + 1 : x.at[i] = path[i]
    BY <1>1, <2>1, <2>2, ArrayIsArray
  <2>4. h = Append(heap, x) /\ t = [array |-> Len(heap) + 1, len |-> s.len + 1]
    BY <1>3 DEF AppendHeap, AppendPath, path
  <2> HIDE DEF x
  <2>5. h \in Seq(Arrays) /\ Len(h) = Len(heap) + 1 /\ h[Len(heap) + 1] = x
        /\ \A a \in 1 .. Len(heap) : h[a] = heap[a]
    BY <1>1, <2>3, <2>4 DEF HeapOK
  <2>6. IsSlice(h, t)
    BY <1>1, <2>2, <2>3, <2>4, <2>5 DEF IsSlice, Cap
  <2> QED BY <1>1, <2>1, <2>3, <2>4, <2>5, <2>6 DEF Appended
<1> QED BY <1>2, <1>3

LEMMA DownKeepsIInv ==
  ASSUME IInv, NEW k \in Parts, Down(k)
  PROVE  IInv'
<1> DEFINE n == Len(stack)
           s == Top.path
           t == AppendPath(heap, s)
           frame == [Top EXCEPT !.todo = @ \ {k}]
<1>1. /\ call # "none" /\ k \in NextKids(Top) /\ UNCHANGED <<call, kept>>
      /\ heap' = AppendHeap(heap, s, k)
      /\ stack' = Append([stack EXCEPT ![n] = frame], Frame(k, t, Top.val))
  BY DEF Down, Push, WithTop
<1>2. /\ n \in Nat /\ n >= 1 /\ DOMAIN stack = 1 .. n /\ stack \in Seq(In(stack))
      /\ Top = stack[n] /\ IsFrame(Top)
  BY <1>1 DEF IInv, StackOK, Top
<1>3. k \in In(Kids[Top.part])
  BY <1>1, <1>2 DEF NextKids, IsFrame
<1>4. IsSlice(heap, s) /\ s.len = n - 1
  BY <1>2 DEF IInv, Spelled
<1>5. /\ heap' \in Seq(Arrays) /\ Len(heap) <= Len(heap')
      /\ IsSlice(heap', t) /\ t.len = n /\ t.array # 0
      /\ t.array \in {s.array, Len(heap) + 1}
      /\ \A j \in 1 .. n - 1 : heap'[t.array].at[j] = heap[s.array].at[j]
      /\ heap'[t.array].at[n] = k
      /\ \A a \in 1 .. Len(heap) :
           /\ a # s.array => heap'[a] = heap[a]
           /\ heap'[a].cap = heap[a].cap
           /\ \A j \in 1 .. n - 1 : heap'[a].at[j] = heap[a].at[j]
  <2>1. Appended(heap', t, s, k)
    BY <1>1, <1>4, AppendKeepsArrays DEF IInv
  <2>2. s.len + 1 = n
    BY <1>2, <1>4
  <2> HIDE DEF s, t, n
  <2> QED BY <1>4, <2>1, <2>2 DEF Appended
<1>6. IsFrame(frame) /\ frame.part = Top.part /\ frame.path = s
  BY <1>2 DEF IsFrame
<1>7. IsFrame(Frame(k, t, Top.val)) /\ Frame(k, t, Top.val).part = k
      /\ Frame(k, t, Top.val).path = t
  <2>1. t \in [array : Nat, len : Nat]
    BY <1>4, <1>5 DEF IsSlice, IInv, HeapOK, AppendPath
  <2> QED BY <2>1 DEF IsFrame, Frame
<1> HIDE DEF n, s, t, frame
<1>8. /\ stack' \in Seq(In(stack')) /\ Len(stack') = n + 1
      /\ stack'[n + 1] = Frame(k, t, Top.val) /\ stack'[n] = frame
      /\ \A i \in 1 .. n - 1 : stack'[i] = stack[i]
  <2>1. [stack EXCEPT ![n] = frame] \in Seq(In(stack) \cup {frame})
        /\ Len([stack EXCEPT ![n] = frame]) = n
    BY <1>2
  <2>2. stack' \in Seq(In(stack) \cup {frame, Frame(k, t, Top.val)})
        /\ Len(stack') = n + 1
    BY <1>1, <2>1, <1>2
  <2>3. stack'[n + 1] = Frame(k, t, Top.val) /\ stack'[n] = frame
        /\ \A i \in 1 .. n - 1 : stack'[i] = stack[i]
    BY <1>1, <1>2, <2>1
  <2> QED BY <2>2, <2>3, SequenceOfItself
<1>9. \A i \in 1 .. n : /\ IsFrame(stack'[i])
                        /\ stack'[i].part = stack[i].part /\ stack'[i].path = stack[i].path
  <2>1. \A i \in 1 .. n - 1 : IsFrame(stack[i])
    BY <1>2 DEF IInv, StackOK
  <2> QED BY <1>2, <1>6, <1>8, <2>1 DEF s
<1>10. DOMAIN stack' = 1 .. n + 1
  BY <1>2, <1>8
<1>11. StackOK'
  <2>1. ASSUME NEW i \in 1 .. n + 1
        PROVE  /\ IsFrame(stack'[i])
               /\ i = 1 => stack'[i].part = Root
               /\ i > 1 => stack'[i].part \in In(Kids[stack'[i - 1].part])
    <3>1. CASE i <= n
      <4>1. i \in 1 .. n /\ i \in DOMAIN stack /\ (i > 1 => i - 1 \in 1 .. n)
        BY <1>2, <2>1, <3>1
      <4> QED BY <1>9, <4>1 DEF IInv, StackOK
    <3>2. CASE i = n + 1
      <4>1. stack'[n].part = Top.part
        BY <1>2, <1>9
      <4> QED BY <1>2, <1>3, <1>7, <1>8, <3>2, <4>1
    <3> QED BY <1>2, <2>1, <3>1, <3>2
  <2>2. stack' # << >>
    BY <1>2, <1>8
  <2> QED BY <1>8, <1>10, <2>1, <2>2 DEF StackOK
<1>12. Spelled'
  <2>1. ASSUME NEW i \in 1 .. n + 1
        PROVE  /\ IsSlice(heap', stack'[i].path) /\ stack'[i].path.len = i - 1
               /\ \A j \in 1 .. i - 1 :
                    heap'[stack'[i].path.array].at[j] = stack'[j + 1].part
    <3>1. CASE i <= n
      <4>1. i \in DOMAIN stack /\ i \in 1 .. n /\ i - 1 <= n - 1
        BY <1>2, <2>1, <3>1
      <4>2. /\ IsSlice(heap, stack[i].path) /\ stack[i].path.len = i - 1
            /\ \A j \in 1 .. i - 1 : heap[stack[i].path.array].at[j] = stack[j + 1].part
        BY <4>1 DEF IInv, Spelled
      <4>3. stack'[i].path = stack[i].path
        BY <1>9, <4>1
      <4>4. IsSlice(heap', stack[i].path)
        BY <1>5, <4>2 DEF IsSlice, Cap, IInv, HeapOK
      <4>5. ASSUME NEW j \in 1 .. i - 1
            PROVE  heap'[stack[i].path.array].at[j] = stack'[j + 1].part
        <5>1. stack[i].path.array \in 1 .. Len(heap)
          BY <4>1, <4>2, <4>5, <1>2 DEF IsSlice, Cap, IInv, HeapOK
        <5>2. j \in 1 .. n - 1 /\ j + 1 \in 1 .. n
          BY <1>2, <4>1, <4>5
        <5> QED BY <1>5, <1>9, <4>2, <4>5, <5>1, <5>2
      <4> QED BY <4>2, <4>3, <4>4, <4>5
    <3>2. CASE i = n + 1
      <4>1. stack'[i].path = t
        BY <1>7, <1>8, <3>2
      <4>2. ASSUME NEW j \in 1 .. n
            PROVE  heap'[t.array].at[j] = stack'[j + 1].part
        <5>1. CASE j = n
          BY <1>5, <1>7, <1>8, <5>1
        <5>2. CASE j \in 1 .. n - 1
          <6>1. heap[s.array].at[j] = stack[j + 1].part
            BY <1>2, <5>2 DEF IInv, Spelled, s
          <6>2. stack'[j + 1].part = stack[j + 1].part
            BY <1>2, <1>9, <5>2
          <6> QED BY <1>5, <5>2, <6>1, <6>2
        <5> QED BY <1>2, <4>2, <5>1, <5>2
      <4> QED BY <1>2, <1>5, <3>2, <4>1, <4>2
    <3> QED BY <1>2, <2>1, <3>1, <3>2
  <2> QED BY <1>10, <2>1 DEF Spelled
<1>13. KeptOK'
  <2>1. ASSUME NEW p \in kept
        PROVE  /\ IsSlice(heap', p.slice) /\ p.slice.array # 0
               /\ Contents(heap', p.slice) = p.was
               /\ \A i \in DOMAIN stack' : stack'[i].path.array # p.slice.array
    <3>1. /\ IsSlice(heap, p.slice) /\ p.slice.array # 0
          /\ Contents(heap, p.slice) = p.was
          /\ \A i \in DOMAIN stack : stack[i].path.array # p.slice.array
      BY DEF IInv, KeptOK
    <3>2. p.slice.array \in 1 .. Len(heap) /\ p.slice.array # s.array
          /\ p.slice \in [array : 0 .. Len(heap), len : Nat] /\ Len(heap) \in Nat
      BY <1>2, <3>1 DEF IsSlice, s, IInv, HeapOK
    <3>3. heap'[p.slice.array] = heap[p.slice.array]
      BY <1>5, <3>2
    <3>4. IsSlice(heap', p.slice) /\ Contents(heap', p.slice) = Contents(heap, p.slice)
      <4>1. p.slice \in [array : 0 .. Len(heap'), len : Nat]
        BY <1>5, <3>2
      <4> QED BY <3>1, <3>2, <3>3, <4>1 DEF IsSlice, Cap, Contents
    <3>5. \A i \in 1 .. n : stack'[i].path.array # p.slice.array
      BY <1>2, <1>9, <3>1
    <3>6. stack'[n + 1].path.array # p.slice.array
      BY <1>5, <1>7, <1>8, <3>2
    <3> QED BY <1>2, <1>10, <3>1, <3>4, <3>5, <3>6
  <2> QED BY <1>1, <2>1 DEF KeptOK
<1> QED BY <1>5, <1>11, <1>12, <1>13 DEF IInv, HeapOK

----------------------------------------------------------------------------
(* What the other steps do to the stack.                                   *)

LEMMA TopIsAFrame ==
  ASSUME IInv, call # "none"
  PROVE  /\ Len(stack) \in Nat /\ Len(stack) >= 1 /\ DOMAIN stack = 1 .. Len(stack)
         /\ Top = stack[Len(stack)] /\ IsFrame(Top)
         /\ IsSlice(heap, Top.path) /\ Top.path.len = Len(stack) - 1
<1>1. /\ Len(stack) \in Nat /\ Len(stack) >= 1 /\ DOMAIN stack = 1 .. Len(stack)
      /\ Top = stack[Len(stack)]
  BY DEF IInv, StackOK, Top
<1> QED BY <1>1 DEF IInv, StackOK, Spelled

(* Frame g is about what frame f is about. *)
SameAs(g, f) == IsFrame(g) /\ g.part = f.part /\ g.path = f.path

LEMMA ChangingTopShrinks ==
  ASSUME IInv, call # "none", NEW g, SameAs(g, Top), stack' = WithTop(g)
  PROVE  Shrinks
<1> DEFINE n == Len(stack)
<1>1. /\ n \in Nat /\ n >= 1 /\ DOMAIN stack = 1 .. n /\ Top = stack[n]
      /\ stack \in Seq(In(stack)) /\ \A i \in 1 .. n : IsFrame(stack[i])
  BY TopIsAFrame DEF IInv, StackOK
<1>2. /\ stack' \in Seq(In(stack) \cup {g}) /\ Len(stack') = n /\ stack'[n] = g
      /\ \A i \in 1 .. n - 1 : stack'[i] = stack[i]
  <2>1. [stack EXCEPT ![n] = g] \in Seq(In(stack) \cup {g})
        /\ Len([stack EXCEPT ![n] = g]) = n
    BY <1>1
  <2>2. stack' = [stack EXCEPT ![n] = g]
    BY DEF WithTop
  <2>3. stack'[n] = g
    BY <1>1, <2>2
  <2>4. ASSUME NEW i \in 1 .. n - 1 PROVE stack'[i] = stack[i]
    <3> HIDE DEF n
    <3>1. i \in 1 .. n /\ i # n
      BY <1>1
    <3> QED BY <1>1, <2>2, <3>1
  <2> QED BY <2>1, <2>2, <2>3, <2>4
<1>3. stack' \in Seq(In(stack')) /\ stack' # << >>
  BY <1>1, <1>2, SequenceOfItself
<1> HIDE DEF n
<1>4. \A i \in 1 .. n : /\ IsFrame(stack'[i])
                        /\ stack'[i].part = stack[i].part /\ stack'[i].path = stack[i].path
  BY <1>1, <1>2 DEF SameAs
<1> QED BY <1>1, <1>2, <1>3, <1>4 DEF Shrinks, n

LEMMA ExpandingShrinks ==
  ASSUME IInv, call # "none", NEW m, stack' = Expand(m)
  PROVE  Shrinks
<1> DEFINE n == Len(stack)
           g == Visited(Top, m)
           mid == [stack EXCEPT ![n] = g]
           first == [mid[1] EXCEPT !.top = @ \cup {m}]
<1>1. /\ n \in Nat /\ n >= 1 /\ DOMAIN stack = 1 .. n /\ Top = stack[n]
      /\ stack \in Seq(In(stack)) /\ \A i \in 1 .. n : IsFrame(stack[i])
  BY TopIsAFrame DEF IInv, StackOK
<1>2. IsFrame(g) /\ g.part = stack[n].part /\ g.path = stack[n].path
  BY <1>1 DEF IsFrame, Visited
<1> HIDE DEF g
<1>3. /\ mid \in Seq(In(stack) \cup {g}) /\ Len(mid) = n
      /\ \A i \in 1 .. n : /\ IsFrame(mid[i])
                           /\ mid[i].part = stack[i].part /\ mid[i].path = stack[i].path
  BY <1>1, <1>2
<1>4. stack' = [mid EXCEPT ![1] = first]
  BY DEF Expand, WithTop, g
<1> HIDE DEF mid
<1>5. IsFrame(first) /\ first.part = stack[1].part /\ first.path = stack[1].path
  <2>1. IsFrame(mid[1]) /\ mid[1].part = stack[1].part /\ mid[1].path = stack[1].path
    BY <1>1, <1>3
  <2> QED BY <2>1 DEF IsFrame
<1> HIDE DEF first, n
<1>6. /\ stack' \in Seq(In(stack) \cup {g, first}) /\ Len(stack') = n
      /\ \A i \in 1 .. n : /\ IsFrame(stack'[i])
                           /\ stack'[i].part = stack[i].part /\ stack'[i].path = stack[i].path
  BY <1>1, <1>3, <1>4, <1>5
<1>7. stack' \in Seq(In(stack')) /\ stack' # << >>
  BY <1>1, <1>6, SequenceOfItself
<1> QED BY <1>1, <1>6, <1>7 DEF Shrinks, n

LEMMA EndingShrinks ==
  ASSUME IInv, NEW result, NEW ok, End(result, ok)
  PROVE  Shrinks
<1>1. stack' = << >> /\ call' = "none"
  BY DEF End
<1>2. Len(stack) \in Nat
  BY DEF IInv, StackOK
<1> QED BY <1>1, <1>2 DEF Shrinks

LEMMA OuterFrames ==
  ASSUME IInv, call # "none", Len(stack) # 1
  PROVE  /\ Outer \in Seq(In(stack)) /\ Len(Outer) = Len(stack) - 1 /\ Len(Outer) >= 1
         /\ \A i \in 1 .. Len(Outer) : Outer[i] = stack[i] /\ IsFrame(Outer[i])
<1>1. /\ Len(stack) \in Nat /\ Len(stack) > 1 /\ DOMAIN stack = 1 .. Len(stack)
  BY TopIsAFrame
<1>2. /\ stack \in Seq(In(stack)) /\ \A i \in 1 .. Len(stack) : IsFrame(stack[i])
  BY <1>1 DEF IInv, StackOK
<1> QED BY <1>1, <1>2 DEF Outer

LEMMA ReturningUnchangedShrinks ==
  ASSUME IInv, call # "none", ReturnUnchanged
  PROVE  Shrinks
<1>1. CASE Len(stack) = 1
  BY <1>1, EndingShrinks DEF ReturnUnchanged
<1>2. CASE Len(stack) # 1
  <2>1. stack' = Outer
    BY <1>2 DEF ReturnUnchanged
  <2>2. stack' \in Seq(In(stack')) /\ stack' # << >> /\ Len(stack') <= Len(stack)
    BY <1>2, <2>1, OuterFrames, TopIsAFrame, SequenceOfItself
  <2> QED BY <1>2, <2>1, <2>2, OuterFrames DEF Shrinks
<1> QED BY <1>1, <1>2

LEMMA ReturningShrinks ==
  ASSUME IInv, call # "none", NEW result, Return(result)
  PROVE  Shrinks
<1>1. CASE Len(stack) = 1
  BY <1>1, EndingShrinks DEF Return
<1>2. CASE Len(stack) # 1
  <2> DEFINE n == Len(Outer)
             g == Taken(Outer[n], result)
  <2>1. stack' = [Outer EXCEPT ![n] = g]
    BY <1>2 DEF Return
  <2>2. /\ Outer \in Seq(In(stack)) /\ n = Len(stack) - 1 /\ n >= 1 /\ n \in Nat
        /\ \A i \in 1 .. n : Outer[i] = stack[i] /\ IsFrame(Outer[i])
    BY <1>2, OuterFrames
  <2>3. IsFrame(g) /\ g.part = Outer[n].part /\ g.path = Outer[n].path
    <3>1. IsFrame(Outer[n])
      BY <2>2
    <3> HIDE DEF n
    <3> QED BY <3>1 DEF IsFrame, Taken
  <2> HIDE DEF g, n
  <2>4. /\ stack' \in Seq(In(stack) \cup {g}) /\ Len(stack') = n
        /\ \A i \in 1 .. n : /\ IsFrame(stack'[i])
                             /\ stack'[i].part = stack[i].part
                             /\ stack'[i].path = stack[i].path
    BY <2>1, <2>2, <2>3 DEF n
  <2>5. stack' \in Seq(In(stack')) /\ stack' # << >>
    BY <2>2, <2>4, SequenceOfItself
  <2>6. Len(stack) \in Nat
    BY DEF IInv, StackOK
  <2> QED BY <2>2, <2>4, <2>5, <2>6 DEF Shrinks
<1> QED BY <1>1, <1>2

LEMMA SameStackShrinks ==
  ASSUME IInv, UNCHANGED <<call, stack>>
  PROVE  Shrinks
BY DEF IInv, StackOK, Shrinks

----------------------------------------------------------------------------
(* What the other steps do to the heap.                                    *)

LEMMA KeepingKeepsIInv ==
  ASSUME IInv, Shrinks, NEW s, IsSlice(heap, s), MayKeep(s)
  PROVE  IInv'
<1>1. CASE UNCHANGED <<heap, kept>>
  BY <1>1, ShrinkingKeepsIInv
<1>2. CASE KeepOwn(Contents(heap, s), s, 0)
  <2>1. s.len \in Nat
    BY DEF IsSlice
  <2>2. Contents(heap, s) \in Seq(Parts \cup {Nothing}) /\ Len(Contents(heap, s)) = s.len + 0
    BY <2>1, ContentsAreAPath DEF IInv
  <2> QED BY <1>2, <2>1, <2>2, KeepOwnKeepsIInv
<1> QED BY <1>1, <1>2 DEF MayKeep

LEMMA ExtendingKeepsIInv ==
  ASSUME IInv, NEW k \in kept, NEW step \in Parts, Extend(k, step)
  PROVE  IInv'
<1>1. IsSlice(heap, k.slice) /\ k.slice.len \in Nat
  BY DEF IInv, KeptOK, IsSlice
<1> DEFINE path == Contents(heap, k.slice)
<1>2. path \in Seq(Parts \cup {Nothing}) /\ Len(path) = k.slice.len
  BY <1>1, ContentsAreAPath DEF IInv
<1> HIDE DEF path
<1>3. Append(path, step) \in Seq(Parts \cup {Nothing})
      /\ Len(Append(path, step)) = k.slice.len + 1
  BY <1>2
<1>4. KeepOwn(Append(path, step), k.slice, 1) /\ UNCHANGED <<call, stack>>
  BY DEF Extend, path
<1> QED BY <1>1, <1>3, <1>4, SameStackShrinks, KeepOwnKeepsIInv

LEMMA BeginningKeepsIInv ==
  ASSUME IInv, NEW op, NEW h \in Seq(Arrays), NEW path, Begin(op, h, path),
         Len(heap) <= Len(h), \A a \in 1 .. Len(heap) : h[a] = heap[a],
         IsSlice(h, path), path.len = 0, path.array \notin 1 .. Len(heap)
  PROVE  IInv'
<1>1. stack' = <<Frame(Root, path, value)>> /\ heap' = h /\ UNCHANGED kept
  BY DEF Begin
<1>2. Steady
  BY <1>1 DEF Steady, HeapOK
<1>3. path \in [array : Nat, len : Nat] /\ Len(heap) \in Nat
  BY DEF IsSlice, IInv, HeapOK
<1>4. IsFrame(Frame(Root, path, value)) /\ Frame(Root, path, value).part = Root
      /\ Frame(Root, path, value).path = path
  BY <1>3, TreeAssumption DEF IsFrame, Frame
<1>5. /\ stack' \in Seq({Frame(Root, path, value)}) /\ DOMAIN stack' = {1}
      /\ stack'[1] = Frame(Root, path, value) /\ stack' # << >>
  BY <1>1
<1>6. StackOK'
  BY <1>4, <1>5, SequenceOfItself DEF StackOK
<1>7. Spelled'
  BY <1>1, <1>4, <1>5 DEF Spelled
<1>8. ASSUME NEW k \in kept
      PROVE  /\ IsSlice(heap', k.slice) /\ k.slice.array # 0
             /\ Contents(heap', k.slice) = k.was
             /\ \A i \in DOMAIN stack' : stack'[i].path.array # k.slice.array
  <2>1. /\ IsSlice(heap, k.slice) /\ k.slice.array # 0 /\ Contents(heap, k.slice) = k.was
    BY DEF IInv, KeptOK
  <2>2. IsSlice(heap', k.slice) /\ Contents(heap', k.slice) = k.was
    BY <1>2, <2>1, SteadySlices DEF IInv
  <2>3. k.slice.array \in 1 .. Len(heap)
    BY <1>3, <2>1 DEF IsSlice
  <2> QED BY <1>4, <1>5, <2>1, <2>2, <2>3
<1> QED BY <1>1, <1>2, <1>6, <1>7, <1>8 DEF IInv, Steady, KeptOK

LEMMA StartingKeepsIInv ==
  ASSUME IInv, Start
  PROVE  IInv'
<1>1. heap \in Seq(Arrays) /\ Len(heap) \in Nat
  BY DEF IInv, HeapOK
<1>2. ASSUME NEW op, Begin(op, heap, NilPath)
      PROVE  IInv'
  <2>1. IsSlice(heap, NilPath) /\ NilPath.len = 0 /\ NilPath.array \notin 1 .. Len(heap)
    BY <1>1 DEF IsSlice, NilPath, Cap
  <2> QED BY <1>1, <1>2, <2>1, BeginningKeepsIInv
<1>3. ASSUME NEW op, Begin(op, WrangleHeap, WranglePath)
      PROVE  IInv'
  <2>1. CASE Kind[Root] = "leaf"
    BY <1>2, <1>3, <2>1 DEF WrangleHeap, WranglePath
  <2>2. CASE Kind[Root] # "leaf"
    <3> DEFINE x == Array(4, << >>)
    <3>1. x \in Arrays /\ x.cap = 4
      <4>1. << >> \in Seq(Parts \cup {Nothing}) /\ 4 \in Nat
        OBVIOUS
      <4> QED BY <4>1, ArrayIsArray
    <3> HIDE DEF x
    <3>2. WrangleHeap = Append(heap, x)
          /\ WranglePath = [array |-> Len(heap) + 1, len |-> 0]
      BY <2>2 DEF WrangleHeap, WranglePath, x
    <3>3. /\ WrangleHeap \in Seq(Arrays) /\ Len(WrangleHeap) = Len(heap) + 1
          /\ WrangleHeap[Len(heap) + 1] = x
          /\ \A a \in 1 .. Len(heap) : WrangleHeap[a] = heap[a]
      BY <1>1, <3>1, <3>2
    <3>4. IsSlice(WrangleHeap, WranglePath) /\ WranglePath.len = 0
          /\ WranglePath.array \notin 1 .. Len(heap)
      BY <1>1, <3>1, <3>2, <3>3 DEF IsSlice, Cap
    <3> QED BY <1>1, <1>3, <3>3, <3>4, BeginningKeepsIInv
  <2> QED BY <2>1, <2>2
<1> QED BY <1>2, <1>3 DEF Start, BeginWalk, BeginTransform, BeginMarkWithPaths,
                          BeginWrangle, BeginUnmarkWithPaths

----------------------------------------------------------------------------
(* The steps of a traversal.                                               *)

LEMMA TraversalIsUnderWay ==
  ASSUME NEW ops, Entering(ops) \/ Leaving(ops), "none" \notin ops
  PROVE  call # "none"
BY DEF Entering, Leaving, Running

LEMMA WalkShrinks ==
  ASSUME IInv, WalkVisit \/ WalkHalt \/ WalkLeave
  PROVE  Shrinks /\ call # "none"
<1>1. call # "none"
  BY TraversalIsUnderWay DEF WalkVisit, WalkHalt, WalkLeave, Walks
<1>2. IsFrame(Top)
  BY <1>1, TopIsAFrame
<1>3. CASE WalkVisit
  <2>1. ASSUME NEW todo \in SUBSET In(Kids[Top.part])
        PROVE  SameAs([Top EXCEPT !.inside = TRUE, !.todo = todo], Top)
    BY <1>2 DEF SameAs, IsFrame
  <2>2. SameAs([Top EXCEPT !.inside = TRUE], Top)
    BY <1>2 DEF SameAs, IsFrame
  <2>3. KidsIn(Top.part, value) \in SUBSET In(Kids[Top.part])
    BY DEF KidsIn
  <2> QED BY <1>1, <1>3, <2>1, <2>2, <2>3, ChangingTopShrinks DEF WalkVisit
<1>4. CASE WalkHalt
  BY <1>1, <1>4, EndingShrinks DEF WalkHalt
<1>5. CASE WalkLeave
  BY <1>1, <1>5, ReturningUnchangedShrinks DEF WalkLeave
<1> QED BY <1>3, <1>4, <1>5

LEMMA TransformShrinks ==
  ASSUME IInv, TransformEnter \/ TransformExit \/ TransformFails \/ MarkWithPathsExit
  PROVE  Shrinks /\ call # "none"
<1>1. call # "none"
  BY TraversalIsUnderWay
  DEF TransformEnter, TransformExit, TransformFails, MarkWithPathsExit, Transforms
<1>2. IsFrame(Top)
  BY <1>1, TopIsAFrame
<1>3. CASE TransformEnter
  <2>1. SameAs(Into(Top), Top)
    BY <1>2 DEF SameAs, IsFrame, Into, KidsIn
  <2>2. SameAs(Cut(Top), Top)
    BY <1>2 DEF SameAs, IsFrame, Cut
  <2>3. SameAs(Into(Cut(Top)), Top)
    BY <2>2 DEF SameAs, IsFrame, Into, KidsIn
  <2> QED BY <1>1, <1>3, <2>1, <2>3, ChangingTopShrinks DEF TransformEnter
<1>4. CASE TransformExit
  BY <1>1, <1>4, ReturningShrinks DEF TransformExit
<1>5. CASE TransformFails
  BY <1>1, <1>5, EndingShrinks DEF TransformFails
<1>6. CASE MarkWithPathsExit
  BY <1>1, <1>6, ReturningShrinks DEF MarkWithPathsExit
<1> QED BY <1>3, <1>4, <1>5, <1>6

LEMMA MarksOfFrames ==
  ASSUME NEW f, IsFrame(f), NEW m
  PROVE  /\ SameAs(Visited(f, m), f) /\ SameAs(Drop(f, m), f)
         /\ \A by : SameAs(Replace(f, m, by), f)
BY DEF IsFrame, SameAs, Visited, Drop, Replace

LEMMA WrangleShrinks ==
  ASSUME IInv, WrangleInto \/ WrangleLeave
               \/ \E m \in Marks : WrangleMark(m) \/ UnmarkWithPaths(m)
  PROVE  Shrinks /\ call # "none"
<1>1. call # "none"
  BY TraversalIsUnderWay DEF WrangleInto, WrangleLeave, WrangleMark, UnmarkWithPaths, Wrangles
<1>2. IsFrame(Top)
  BY <1>1, TopIsAFrame
<1>3. ASSUME NEW m \in Marks, WrangleMark(m) \/ UnmarkWithPaths(m)
      PROVE  Shrinks
  <2>1. SameAs(Visited(Top, m), Top)
    BY <1>2, MarksOfFrames
  <2>2. /\ SameAs(Drop(Visited(Top, m), m), Top)
        /\ \A by : SameAs(Replace(Visited(Top, m), m, by), Top)
    BY <2>1, MarksOfFrames DEF SameAs
  <2> QED BY <1>1, <1>3, <2>1, <2>2, ChangingTopShrinks, ExpandingShrinks
          DEF WrangleMark, UnmarkWithPaths
<1>4. CASE WrangleInto
  <2> DEFINE todo == IF Kind[Top.part] = "set" THEN {} ELSE KidsIn(Top.part, value)
  <2>1. todo \in SUBSET In(Kids[Top.part])
    BY DEF KidsIn
  <2> HIDE DEF todo
  <2>2. SameAs([Top EXCEPT !.inside = TRUE, !.todo = todo], Top)
    BY <1>2, <2>1 DEF SameAs, IsFrame
  <2> QED BY <1>1, <1>4, <2>2, ChangingTopShrinks DEF WrangleInto, todo
<1>5. CASE WrangleLeave
  BY <1>1, <1>5, EndingShrinks, ReturningShrinks, ReturningUnchangedShrinks
  DEF WrangleLeave
<1> QED BY <1>1, <1>3, <1>4, <1>5

(* A step of the traversal under way, but not one into a part. *)
Stays ==
  \/ WalkVisit \/ WalkHalt \/ WalkLeave
  \/ TransformEnter \/ TransformExit \/ TransformFails \/ MarkWithPathsExit
  \/ \E m \in Marks : WrangleMark(m) \/ UnmarkWithPaths(m)
  \/ WrangleInto \/ WrangleLeave

LEMMA StayingShrinks ==
  ASSUME IInv, Stays
  PROVE  /\ Shrinks /\ call # "none"
         /\ IsFrame(Top) /\ IsSlice(heap, Top.path)
BY WalkShrinks, TransformShrinks, WrangleShrinks, TopIsAFrame DEF Stays

LEMMA UnmarkSteadies ==
  ASSUME IInv, NEW m \in Marks, UnmarkWithPaths(m)
  PROVE  Steady /\ UNCHANGED kept
<1>1. IsSlice(heap, Top.path)
  BY StayingShrinks DEF Stays
<1> DEFINE path == Contents(heap, Top.path)
           x == Array(Len(path), path)
<1>2. heap' = heap \/ heap' = Append(heap, x)
  BY DEF UnmarkWithPaths, OwnHeap
<1>3. path \in Seq(Parts \cup {Nothing}) /\ Len(path) \in Nat
  BY <1>1, ContentsAreAPath DEF IInv
<1>4. x \in Arrays
  BY <1>3, ArrayIsArray
<1> HIDE DEF x
<1>5. heap \in Seq(Arrays) /\ Len(heap) \in Nat
  BY DEF IInv, HeapOK
<1>6. Steady
  BY <1>2, <1>4, <1>5 DEF Steady, HeapOK
<1> QED BY <1>6 DEF UnmarkWithPaths

LEMMA StayingKeepsIInv ==
  ASSUME IInv, Stays
  PROVE  IInv'
<1>1. Shrinks /\ IsSlice(heap, Top.path)
  BY StayingShrinks
<1>2. CASE UNCHANGED <<heap, kept>>
  BY <1>1, <1>2, ShrinkingKeepsIInv
<1>3. CASE MayKeep(Top.path)
  BY <1>1, <1>3, KeepingKeepsIInv
<1>4. CASE \E m \in Marks : UnmarkWithPaths(m)
  <2>1. Steady /\ UNCHANGED kept
    BY <1>4, UnmarkSteadies
  <2>2. KeptOK'
    BY <1>1, <2>1, ShrinkingKeepsKept DEF KeptOK
  <2> QED BY <1>1, <2>1, <2>2, ShrinkingKeepsFrames DEF IInv
<1> QED BY <1>2, <1>3, <1>4
        DEF Stays, WalkVisit, WalkHalt, WalkLeave, TransformEnter, TransformExit,
            TransformFails, MarkWithPathsExit, WrangleMark, WrangleInto, WrangleLeave

----------------------------------------------------------------------------

LEMMA InitEstablishesIInv == Init => IInv
BY DEF Init, IInv, HeapOK, StackOK, Spelled, KeptOK, In

LEMMA NextKeepsIInv ==
  ASSUME IInv, [Next]_vars
  PROVE  IInv'
<1>1. CASE Start
  BY <1>1, StartingKeepsIInv
<1>2. CASE Step
  BY <1>2, DownKeepsIInv, StayingKeepsIInv DEF Step, Stays
<1>3. ASSUME NEW k \in kept, NEW step \in Parts, Extend(k, step)
      PROVE  IInv'
  BY <1>3, ExtendingKeepsIInv
<1>4. CASE UNCHANGED vars
  BY <1>4, SameStackShrinks, ShrinkingKeepsIInv DEF vars
<1> QED BY <1>1, <1>2, <1>3, <1>4 DEF Next

LEMMA IInvHolds == Spec => []IInv
<1>1. IInv /\ [Next]_vars => IInv'
  BY NextKeepsIInv
<1> QED BY <1>1, InitEstablishesIInv, PTL DEF Spec

LEMMA SpelledPathsLead ==
  ASSUME IInv
  PROVE  PathsLeadToParts
<1> SUFFICES ASSUME NEW i \in DOMAIN stack
             PROVE  LeadTo(Contents(heap, stack[i].path), stack[i].part)
  BY DEF PathsLeadToParts
<1> DEFINE path == Contents(heap, stack[i].path)
<1>1. /\ Len(stack) \in Nat /\ DOMAIN stack = 1 .. Len(stack)
      /\ \A j \in 1 .. Len(stack) : /\ j = 1 => stack[j].part = Root
                                    /\ j > 1 => stack[j].part \in In(Kids[stack[j - 1].part])
  BY DEF IInv, StackOK
<1>2. /\ path \in Seq(Parts \cup {Nothing}) /\ Len(path) = i - 1
      /\ \A j \in 1 .. i - 1 : path[j] = stack[j + 1].part
  BY ContentsAreAPath DEF IInv, Spelled
<1> HIDE DEF path
<1>3. path = << >> => stack[i].part = Root
  BY <1>1, <1>2
<1>4. path # << >> => path[1] \in In(Kids[Root]) /\ path[Len(path)] = stack[i].part
  <2> SUFFICES ASSUME path # << >>
               PROVE  path[1] \in In(Kids[Root]) /\ path[Len(path)] = stack[i].part
    OBVIOUS
  <2>1. i > 1 /\ i \in 1 .. Len(stack)
    BY <1>1, <1>2
  <2>2. path[1] = stack[2].part /\ path[i - 1] = stack[i].part
    BY <1>1, <1>2, <2>1
  <2>3. stack[2].part \in In(Kids[stack[1].part]) /\ stack[1].part = Root
    <3>1. 2 \in 1 .. Len(stack) /\ 1 \in 1 .. Len(stack) /\ 2 - 1 = 1
      BY <1>1, <2>1
    <3> QED BY <1>1, <3>1
  <2> QED BY <1>2, <2>2, <2>3
<1>5. ASSUME NEW j \in 1 .. Len(path) - 1
      PROVE  path[j + 1] \in In(Kids[path[j]])
  <2>1. j + 2 \in 1 .. Len(stack) /\ j + 2 - 1 = j + 1 /\ j + 2 > 1
    BY <1>1, <1>2
  <2>2. stack[j + 2].part \in In(Kids[stack[j + 1].part])
    BY <1>1, <2>1
  <2>3. path[j] = stack[j + 1].part /\ path[j + 1] = stack[j + 2].part
    BY <1>1, <1>2
  <2> QED BY <2>2, <2>3
<1> QED BY <1>3, <1>4, <1>5 DEF LeadTo, path

(* At every moment of every traversal, the path of each part being visited *)
(* leads to that part, although paths share arrays and append writes into  *)
(* them (walk.go:85).                                                      *)
THEOREM PathsAlwaysLead == Spec => []PathsLeadToParts
BY IInvHolds, SpelledPathsLead, PTL

(* No traversal and no use of another path ever writes to a path that the  *)
(* program keeps (path.go:188, path_set.go:47).                            *)
THEOREM KeptPathsAlwaysStay == Spec => []KeptPathsStay
<1>1. IInv => KeptPathsStay
  BY DEF IInv, KeptOK, KeptPathsStay
<1> QED BY <1>1, IInvHolds, PTL

(* The parts that steps from a part lead to, by a sequence of them. *)
IsWay(w, p, q) ==
  /\ w \in Seq(Parts) /\ Len(w) >= 1 /\ w[1] = p /\ w[Len(w)] = q
  /\ \A i \in 1 .. Len(w) - 1 : w[i + 1] \in In(Kids[w[i]])
Reached == [p \in Parts |-> {q \in Parts : \E w \in Seq(Parts) : IsWay(w, p, q)}]

LEMMA KidsAreParts ==
  ASSUME NEW p \in Parts
  PROVE  In(Kids[p]) \subseteq Parts /\ Kids[p] \in Seq(Parts)
BY TreeAssumption DEF In

LEMMA ReachedUnfolds ==
  ASSUME NEW p \in Parts
  PROVE  Reached[p] = {p} \cup UNION {Reached[k] : k \in In(Kids[p])}
<1>1. p \in Reached[p]
  <2>1. <<p>> \in Seq(Parts) /\ IsWay(<<p>>, p, p)
    BY DEF IsWay
  <2> QED BY <2>1 DEF Reached
<1>2. ASSUME NEW k \in In(Kids[p]), NEW q \in Reached[k]
      PROVE  q \in Reached[p]
  <2>1. k \in Parts
    BY KidsAreParts
  <2>2. q \in Parts /\ \E w \in Seq(Parts) : IsWay(w, k, q)
    BY <2>1, <1>2 DEF Reached
  <2>3. PICK w \in Seq(Parts) : IsWay(w, k, q)
    BY <2>2
  <2> DEFINE v == <<p>> \o w
  <2>4. /\ v \in Seq(Parts) /\ Len(v) = Len(w) + 1 /\ v[1] = p
        /\ \A i \in 1 .. Len(w) : v[i + 1] = w[i]
    OBVIOUS
  <2>5. /\ Len(w) \in Nat /\ Len(w) >= 1 /\ w[1] = k /\ w[Len(w)] = q
        /\ \A i \in 1 .. Len(w) - 1 : w[i + 1] \in In(Kids[w[i]])
    BY <2>3 DEF IsWay
  <2> HIDE DEF v
  <2>6. ASSUME NEW i \in 1 .. Len(v) - 1
        PROVE  v[i + 1] \in In(Kids[v[i]])
    <3>1. CASE i = 1
      BY <2>4, <2>5, <3>1
    <3>2. CASE i > 1
      <4>1. i - 1 \in 1 .. Len(w) - 1 /\ i - 1 + 1 = i /\ i \in 1 .. Len(w)
        BY <2>4, <2>5, <2>6, <3>2
      <4>2. w[i] \in In(Kids[w[i - 1]])
        BY <2>5, <4>1
      <4>3. v[i] = w[i - 1] /\ v[i + 1] = w[i]
        BY <2>4, <4>1
      <4> QED BY <4>2, <4>3
    <3> QED BY <3>1, <3>2
  <2>7. IsWay(v, p, q)
    BY <2>4, <2>5, <2>6 DEF IsWay
  <2> QED BY <2>2, <2>4, <2>7 DEF Reached
<1>3. ASSUME NEW q \in Reached[p], q # p
      PROVE  \E k \in In(Kids[p]) : q \in Reached[k]
  <2>1. q \in Parts /\ \E w \in Seq(Parts) : IsWay(w, p, q)
    BY <1>3 DEF Reached
  <2>2. PICK w \in Seq(Parts) : IsWay(w, p, q)
    BY <2>1
  <2>3. /\ Len(w) \in Nat /\ Len(w) >= 1 /\ w[1] = p /\ w[Len(w)] = q
        /\ \A i \in 1 .. Len(w) - 1 : w[i + 1] \in In(Kids[w[i]])
    BY <2>2 DEF IsWay
  <2>4. Len(w) > 1 /\ w[2] \in In(Kids[p])
    BY <1>3, <2>3
  <2> DEFINE v == Tail(w)
  <2>5. /\ v \in Seq(Parts) /\ Len(v) = Len(w) - 1
        /\ \A i \in 1 .. Len(w) - 1 : v[i] = w[i + 1]
    BY <2>3, <2>4
  <2> HIDE DEF v
  <2>6. /\ Len(v) >= 1 /\ v[1] = w[2] /\ v[Len(v)] = q
        /\ \A i \in 1 .. Len(v) - 1 : v[i + 1] \in In(Kids[v[i]])
    BY <2>3, <2>4, <2>5
  <2>7. IsWay(v, w[2], q) /\ w[2] \in Parts
    BY <2>3, <2>4, <2>5, <2>6, KidsAreParts DEF IsWay
  <2>8. q \in Reached[w[2]]
    BY <2>1, <2>5, <2>7 DEF Reached
  <2> QED BY <2>4, <2>8
<1> QED BY <1>1, <1>2, <1>3

LEMMA BelowUnfolds ==
  \A p \in Parts : Below[p] = {p} \cup UNION {Below[k] : k \in In(Kids[p])}
<1> DEFINE Unfolds(f) == f = [p \in Parts |-> {p} \cup UNION {f[k] : k \in In(Kids[p])}]
<1>1. Unfolds(Reached)
  <2>1. \A p \in Parts : Reached[p] = {p} \cup UNION {Reached[k] : k \in In(Kids[p])}
    BY ReachedUnfolds
  <2>2. Reached = [p \in Parts |-> Reached[p]]
    BY DEF Reached
  <2> QED BY <2>1, <2>2
<1>2. Below = CHOOSE f : Unfolds(f)
  BY DEF Below
<1> HIDE DEF Reached
<1>3. Unfolds(CHOOSE f : Unfolds(f))
  <2> HIDE DEF Unfolds
  <2>1. \E f : Unfolds(f)
    BY <1>1
  <2> QED BY <2>1, Zenon
<1>4. Unfolds(Below)
  <2> HIDE DEF Unfolds
  <2> QED BY <1>2, <1>3, Zenon
<1> QED BY <1>4

LEMMA BelowAPart ==
  ASSUME NEW p \in Parts
  PROVE  /\ p \in Below[p]
         /\ \A k \in In(Kids[p]) : Below[k] \subseteq Below[p]
         /\ \A q \in Below[p] : q = p \/ \E k \in In(Kids[p]) : q \in Below[k]
BY BelowUnfolds

(* A set of numbers that is not empty has a least one. *)
LEMMA LeastNumber ==
  ASSUME NEW S \in SUBSET Nat, S # {}
  PROVE  \E n \in S : \A m \in S : n <= m
<1> DEFINE R == {ss \in Nat \X Nat : ss[1] < ss[2]}
<1>1. IsWellFoundedOn(R, Nat)
  BY NatLessThanWellFounded DEF OpToRel
<1>2. PICK n \in S : \A m \in S : ~ (<<m, n>> \in R)
  <2> HIDE DEF R
  <2> QED BY <1>1, WFMin
<1>3. ASSUME NEW m \in S PROVE n <= m
  <2>1. m \in Nat /\ n \in Nat /\ <<m, n>> \in Nat \X Nat
    OBVIOUS
  <2>2. ~ (m < n)
    BY <1>2, <2>1
  <2> QED BY <2>1, <2>2
<1> QED BY <1>3

LEMMA OneParent ==
  ASSUME NEW p \in Parts, NEW q \in Parts, NEW k \in In(Kids[p]), k \in In(Kids[q])
  PROVE  p = q
<1>1. PICK i \in DOMAIN Kids[p] : Kids[p][i] = k
  BY DEF In
<1>2. PICK j \in DOMAIN Kids[q] : Kids[q][j] = k
  BY DEF In
<1> QED BY <1>1, <1>2, ShapeAssumption

LEMMA WaysAgreeFromTheEnd ==
  ASSUME NEW p, NEW u, NEW v, IsWay(u, Root, p), IsWay(v, Root, p),
         NEW n \in Nat, n < Len(u), n < Len(v)
  PROVE  u[Len(u) - n] = v[Len(v) - n]
<1>1. ASSUME NEW w, IsWay(w, Root, p)
      PROVE  /\ w \in Seq(Parts) /\ Len(w) \in Nat /\ w[Len(w)] = p
             /\ \A j \in 1 .. Len(w) - 1 : w[j + 1] \in In(Kids[w[j]])
  BY <1>1 DEF IsWay
<1>2. /\ u \in Seq(Parts) /\ Len(u) \in Nat /\ u[Len(u)] = p
      /\ v \in Seq(Parts) /\ Len(v) \in Nat /\ v[Len(v)] = p
      /\ \A j \in 1 .. Len(u) - 1 : u[j + 1] \in In(Kids[u[j]])
      /\ \A j \in 1 .. Len(v) - 1 : v[j + 1] \in In(Kids[v[j]])
  BY <1>1, Zenon
<1> DEFINE S == {i \in Nat : i < Len(u) /\ i < Len(v) /\ u[Len(u) - i] # v[Len(v) - i]}
<1> SUFFICES ASSUME S # {} PROVE FALSE
  OBVIOUS
<1>3. PICK i \in S : \A j \in S : i <= j
  BY LeastNumber
<1>4. i \in Nat /\ i < Len(u) /\ i < Len(v) /\ u[Len(u) - i] # v[Len(v) - i]
  OBVIOUS
<1>5. i > 0
  BY <1>2, <1>4
<1>6. i - 1 \notin S
  BY <1>3, <1>4, <1>5
<1> HIDE DEF S
<1> DEFINE a == Len(u) - i
           b == Len(v) - i
<1>7. a \in 1 .. Len(u) - 1 /\ b \in 1 .. Len(v) - 1
  BY <1>2, <1>4, <1>5
<1>8. u[a + 1] = v[b + 1]
  <2>1. u[Len(u) - (i - 1)] = v[Len(v) - (i - 1)]
    BY <1>2, <1>4, <1>5, <1>6 DEF S
  <2>2. Len(u) - (i - 1) = a + 1 /\ Len(v) - (i - 1) = b + 1
    BY <1>2, <1>4
  <2> QED BY <2>1, <2>2
<1>9. u[a] \in Parts /\ v[b] \in Parts /\ u[a] # v[b]
  BY <1>2, <1>4, <1>7
<1> HIDE DEF a, b
<1>10. u[a + 1] \in In(Kids[u[a]]) /\ v[b + 1] \in In(Kids[v[b]])
  BY <1>2, <1>7
<1> QED BY <1>8, <1>9, <1>10, OneParent

LEMMA NoLongerWay ==
  ASSUME NEW p, NEW u, NEW v, IsWay(u, Root, p), IsWay(v, Root, p), Len(u) < Len(v)
  PROVE  FALSE
<1>1. /\ u \in Seq(Parts) /\ Len(u) \in Nat /\ Len(u) >= 1 /\ u[1] = Root
      /\ v \in Seq(Parts) /\ Len(v) \in Nat
      /\ \A j \in 1 .. Len(v) - 1 : v[j + 1] \in In(Kids[v[j]])
  BY DEF IsWay
<1> DEFINE n == Len(u) - 1
           b == Len(v) - Len(u)
<1>2. n \in Nat /\ n < Len(u) /\ n < Len(v) /\ Len(u) - n = 1 /\ Len(v) - n = b + 1
      /\ b \in 1 .. Len(v) - 1
  BY <1>1
<1> HIDE DEF n, b
<1>3. v[b + 1] = Root
  BY <1>1, <1>2, WaysAgreeFromTheEnd
<1>4. v[b + 1] \in In(Kids[v[b]]) /\ v[b] \in Parts
  BY <1>1, <1>2
<1> QED BY <1>3, <1>4, ShapeAssumption

(* Only one way leads from the whole value to each of its parts. *)
LEMMA OneWay ==
  ASSUME NEW p, NEW u, NEW v, IsWay(u, Root, p), IsWay(v, Root, p)
  PROVE  u = v
<1>1. u \in Seq(Parts) /\ Len(u) \in Nat /\ v \in Seq(Parts) /\ Len(v) \in Nat
  BY DEF IsWay
<1>2. Len(u) = Len(v)
  BY <1>1, NoLongerWay
<1>3. ASSUME NEW j \in 1 .. Len(u) PROVE u[j] = v[j]
  <2> DEFINE n == Len(u) - j
  <2>1. n \in Nat /\ n < Len(u) /\ Len(u) - n = j
    BY <1>1
  <2> HIDE DEF n
  <2>2. u[Len(u) - n] = v[Len(v) - n]
    BY <1>2, <2>1, WaysAgreeFromTheEnd
  <2> QED BY <1>2, <2>1, <2>2
<1> QED BY <1>1, <1>2, <1>3

(* An array that no path of the stack is in is left alone.                 *)
Undisturbed ==
  /\ HeapOK' /\ Len(heap) <= Len(heap')
  /\ \A a \in 1 .. Len(heap) :
       (\A i \in DOMAIN stack : stack[i].path.array # a) =>
         /\ heap'[a] = heap[a]
         /\ \A i \in DOMAIN stack' : stack'[i].path.array # a

LEMMA OwnArraySteadies ==
  ASSUME HeapOK, NEW path \in Seq(Parts \cup {Nothing}), heap' = OwnHeap(heap, path)
  PROVE  Steady
<1> DEFINE x == Array(Len(path), path)
<1>1. x \in Arrays
  BY ArrayIsArray
<1>2. heap' = Append(heap, x)
  BY DEF OwnHeap
<1> HIDE DEF x
<1> QED BY <1>1, <1>2 DEF HeapOK, Steady

LEMMA ShrinkingDisturbsNothing ==
  ASSUME IInv, Steady, Shrinks
  PROVE  Undisturbed
BY ShrinkingFrames DEF Steady, Undisturbed

LEMMA KeepingSteadies ==
  ASSUME IInv, NEW s, IsSlice(heap, s), MayKeep(s)
  PROVE  Steady
<1>1. Contents(heap, s) \in Seq(Parts \cup {Nothing})
  BY ContentsAreAPath DEF IInv
<1>2. CASE UNCHANGED heap
  BY <1>2 DEF IInv, HeapOK, Steady
<1> QED BY <1>1, <1>2, OwnArraySteadies DEF MayKeep, KeepOwn, IInv

LEMMA StayingSteadies ==
  ASSUME IInv, Stays
  PROVE  Steady
<1>1. IsSlice(heap, Top.path)
  BY StayingShrinks
<1>2. CASE UNCHANGED heap
  BY <1>2 DEF IInv, HeapOK, Steady
<1>3. CASE MayKeep(Top.path)
  BY <1>1, <1>3, KeepingSteadies
<1>4. CASE \E m \in Marks : UnmarkWithPaths(m)
  BY <1>4, UnmarkSteadies
<1> QED BY <1>2, <1>3, <1>4
        DEF Stays, WalkVisit, WalkHalt, WalkLeave, TransformEnter, TransformExit,
            TransformFails, MarkWithPathsExit, WrangleMark, WrangleInto, WrangleLeave

LEMMA BeginningDisturbsNothing ==
  ASSUME IInv, Start
  PROVE  Undisturbed /\ UNCHANGED <<value, calls>>
<1>1. heap \in Seq(Arrays) /\ Len(heap) \in Nat
  BY DEF IInv, HeapOK
<1>2. ASSUME NEW op, NEW h \in Seq(Arrays), NEW path, Begin(op, h, path),
             Len(heap) <= Len(h), \A a \in 1 .. Len(heap) : h[a] = heap[a],
             path.array \notin 1 .. Len(heap)
      PROVE  Undisturbed
  <2>1. heap' = h /\ stack' = <<Frame(Root, path, value)>>
    BY <1>2 DEF Begin
  <2>2. DOMAIN stack' = {1} /\ stack'[1].path = path
    BY <2>1 DEF Frame
  <2> QED BY <1>2, <2>1, <2>2 DEF Undisturbed, HeapOK
<1>3. ASSUME NEW op, Begin(op, heap, NilPath) PROVE Undisturbed
  BY <1>1, <1>2, <1>3 DEF NilPath
<1>4. ASSUME NEW op, Begin(op, WrangleHeap, WranglePath) PROVE Undisturbed
  <2>1. CASE Kind[Root] = "leaf"
    BY <1>3, <1>4, <2>1 DEF WrangleHeap, WranglePath
  <2>2. CASE Kind[Root] # "leaf"
    <3> DEFINE x == Array(4, << >>)
    <3>1. x \in Arrays
      <4>1. << >> \in Seq(Parts \cup {Nothing}) /\ 4 \in Nat
        OBVIOUS
      <4> QED BY <4>1, ArrayIsArray
    <3> HIDE DEF x
    <3>2. WrangleHeap = Append(heap, x)
          /\ WranglePath = [array |-> Len(heap) + 1, len |-> 0]
      BY <2>2 DEF WrangleHeap, WranglePath, x
    <3>3. /\ WrangleHeap \in Seq(Arrays) /\ Len(WrangleHeap) = Len(heap) + 1
          /\ \A a \in 1 .. Len(heap) : WrangleHeap[a] = heap[a]
      BY <1>1, <3>1, <3>2
    <3>4. Len(heap) <= Len(WrangleHeap) /\ WranglePath.array \notin 1 .. Len(heap)
      BY <1>1, <3>2, <3>3
    <3> QED BY <1>2, <1>4, <3>3, <3>4
  <2> QED BY <2>1, <2>2
<1> QED BY <1>3, <1>4 DEF Start, BeginWalk, BeginTransform, BeginMarkWithPaths,
                          BeginWrangle, BeginUnmarkWithPaths, Begin

LEMMA GoingDownDisturbsNothing ==
  ASSUME IInv, NEW k \in Parts, Down(k)
  PROVE  Undisturbed
<1> DEFINE n == Len(stack)
           s == Top.path
           t == AppendPath(heap, s)
           frame == [Top EXCEPT !.todo = @ \ {k}]
<1>1. /\ call # "none"
      /\ heap' = AppendHeap(heap, s, k)
      /\ stack' = Append([stack EXCEPT ![n] = frame], Frame(k, t, Top.val))
  BY DEF Down, Push, WithTop
<1>2. /\ n \in Nat /\ n >= 1 /\ DOMAIN stack = 1 .. n /\ stack \in Seq(In(stack))
      /\ Top = stack[n] /\ IsFrame(Top) /\ IsSlice(heap, s)
  BY <1>1, TopIsAFrame DEF IInv, StackOK
<1>3. Appended(heap', t, s, k)
  BY <1>1, <1>2, AppendKeepsArrays DEF IInv
<1>4. frame.path = s /\ Frame(k, t, Top.val).path = t
  BY <1>2 DEF IsFrame, Frame
<1> HIDE DEF frame, t
<1>5. \A i \in DOMAIN stack' : stack'[i].path = t \/ \E j \in DOMAIN stack : stack'[i].path = stack[j].path
  BY <1>1, <1>2, <1>4
<1> HIDE DEF s, n
<1>6. s.array \in {stack[i].path.array : i \in DOMAIN stack}
  BY <1>2 DEF s
<1>7. t.array = s.array \/ t.array = Len(heap) + 1
  BY <1>3 DEF Appended
<1>8. HeapOK' /\ Len(heap) <= Len(heap')
      /\ \A a \in 1 .. Len(heap) : a # s.array => heap'[a] = heap[a]
  BY <1>3 DEF Appended, HeapOK
<1>9. Len(heap) \in Nat
  BY DEF IInv, HeapOK
<1> QED BY <1>5, <1>6, <1>7, <1>8, <1>9 DEF Undisturbed

(* No step writes to an array that no path of the stack is in. *)
LEMMA NothingElseIsDisturbed ==
  ASSUME IInv, [Next]_vars
  PROVE  Undisturbed
<1>1. CASE Start
  BY <1>1, BeginningDisturbsNothing
<1>2. CASE Step
  BY <1>2, GoingDownDisturbsNothing, StayingShrinks, StayingSteadies, ShrinkingDisturbsNothing
  DEF Step, Stays
<1>3. ASSUME NEW k \in kept, NEW step \in Parts, Extend(k, step)
      PROVE  Undisturbed
  <2> DEFINE path == Contents(heap, k.slice)
  <2>1. path \in Seq(Parts \cup {Nothing})
    BY ContentsAreAPath DEF IInv, KeptOK
  <2> HIDE DEF path
  <2>2. Append(path, step) \in Seq(Parts \cup {Nothing})
    BY <2>1
  <2>3. heap' = OwnHeap(heap, Append(path, step)) /\ UNCHANGED <<call, stack>>
    BY <1>3 DEF Extend, KeepOwn, path
  <2>4. Steady
    BY <2>2, <2>3, OwnArraySteadies DEF IInv
  <2> QED BY <2>3, <2>4, SameStackShrinks, ShrinkingDisturbsNothing
<1>4. CASE UNCHANGED vars
  BY <1>4 DEF vars, Undisturbed, IInv, HeapOK
<1> QED BY <1>1, <1>2, <1>3, <1>4 DEF Next

(* A slice of an array that no path of the stack is in. *)
OwnedIn(h, frames, s) ==
  /\ IsSlice(h, s) /\ s.array # 0
  /\ \A i \in DOMAIN frames : frames[i].path.array # s.array
Owned(s) == OwnedIn(heap, stack, s)

LEMMA OwnedStays ==
  ASSUME IInv, [Next]_vars, NEW s, Owned(s)
  PROVE  OwnedIn(heap', stack', s) /\ Contents(heap', s) = Contents(heap, s)
<1>1. Undisturbed
  BY NothingElseIsDisturbed
<1>2. Len(heap) \in Nat /\ Len(heap') \in Nat
  BY <1>1 DEF IInv, HeapOK, Undisturbed
<1>3. /\ s \in [array : 0 .. Len(heap), len : Nat] /\ s.array \in 1 .. Len(heap)
      /\ s.len <= heap[s.array].cap
  BY <1>2 DEF Owned, OwnedIn, IsSlice, Cap
<1>4. heap'[s.array] = heap[s.array] /\ \A i \in DOMAIN stack' : stack'[i].path.array # s.array
  BY <1>1, <1>3 DEF Undisturbed, Owned, OwnedIn
<1>5. s \in [array : 0 .. Len(heap'), len : Nat]
  BY <1>1, <1>2, <1>3 DEF Undisturbed
<1> QED BY <1>3, <1>4, <1>5 DEF Owned, OwnedIn, IsSlice, Cap, Contents

(* The notes of UnmarkDeepWithPaths are in arrays of their own. *)
NotesOK ==
  /\ pvm \in Seq([path : [array : Nat, len : Nat], marks : SUBSET Marks])
  /\ \A j \in DOMAIN pvm : Owned(pvm[j].path)

(* The mark is noted with the last marks, or in a new note. *)
NotedWithLast(m) ==
  /\ pvm # << >> /\ Contents(heap, pvm[Len(pvm)].path) = Contents(heap, Top.path)
  /\ Len(pvm') = Len(pvm) /\ \A j \in 1 .. Len(pvm) - 1 : pvm'[j] = pvm[j]
  /\ pvm'[Len(pvm)].path = pvm[Len(pvm)].path
  /\ pvm'[Len(pvm)].marks = pvm[Len(pvm)].marks \cup {m}

NotedAnew(m) ==
  /\ pvm = << >> \/ Contents(heap, pvm[Len(pvm)].path) # Contents(heap, Top.path)
  /\ Len(pvm') = Len(pvm) + 1 /\ \A j \in 1 .. Len(pvm) : pvm'[j] = pvm[j]
  /\ OwnedIn(heap', stack', pvm'[Len(pvm) + 1].path)
  /\ Contents(heap', pvm'[Len(pvm) + 1].path) = Contents(heap, Top.path)
  /\ pvm'[Len(pvm) + 1].marks = {m}

LEMMA NewNoteIsOwned ==
  ASSUME IInv, Shrinks, NEW s, IsSlice(heap, s), heap' = OwnHeap(heap, Contents(heap, s))
  PROVE  /\ OwnedIn(heap', stack', OwnPath(heap, s, 0))
         /\ Contents(heap', OwnPath(heap, s, 0)) = Contents(heap, s)
         /\ OwnPath(heap, s, 0) \in [array : Nat, len : Nat]
<1> DEFINE path == Contents(heap, s)
           x == Array(Len(path), path)
           t == OwnPath(heap, s, 0)
<1>1. /\ path \in Seq(Parts \cup {Nothing}) /\ Len(path) = s.len /\ s.len \in Nat
  BY ContentsAreAPath DEF IInv, IsSlice
<1>2. path = [j \in 1 .. s.len |-> path[j]]
  BY <1>1
<1> HIDE DEF path
<1>3. /\ x \in Arrays /\ x.cap = s.len /\ \A i \in 1 .. s.len : x.at[i] = path[i]
  BY <1>1, ArrayIsArray
<1>4. heap' = Append(heap, x) /\ t = [array |-> Len(heap) + 1, len |-> s.len]
  BY <1>1 DEF OwnHeap, OwnPath, path
<1> HIDE DEF x, t
<1>5. heap \in Seq(Arrays) /\ Len(heap) \in Nat
  BY DEF IInv, HeapOK
<1>6. heap'[Len(heap) + 1] = x /\ Len(heap') = Len(heap) + 1
  BY <1>3, <1>4, <1>5
<1>7. t.array = Len(heap) + 1 /\ t.len = s.len
      /\ t \in [array : 0 .. Len(heap'), len : Nat] /\ t \in [array : Nat, len : Nat]
  BY <1>1, <1>4, <1>5, <1>6
<1>8. IsSlice(heap', t)
  BY <1>1, <1>3, <1>5, <1>6, <1>7 DEF IsSlice, Cap
<1>9. \A i \in DOMAIN stack' : stack'[i].path.array # t.array
  <2>1. \A i \in DOMAIN stack' : i \in DOMAIN stack /\ stack'[i].path = stack[i].path
    BY ShrinkingFrames
  <2>2. \A i \in DOMAIN stack : stack[i].path.array \in 0 .. Len(heap)
    BY DEF IInv, Spelled, IsSlice
  <2> QED BY <1>5, <1>7, <2>1, <2>2
<1>10. Contents(heap', t) = [j \in 1 .. s.len |-> path[j]]
  BY <1>1, <1>3, <1>6, <1>7 DEF Contents
<1>11. OwnedIn(heap', stack', t)
  BY <1>5, <1>7, <1>8, <1>9 DEF OwnedIn
<1> QED BY <1>2, <1>7, <1>10, <1>11 DEF t, path

LEMMA NotingAMark ==
  ASSUME IInv, NotesOK, NEW m \in Marks, UnmarkWithPaths(m)
  PROVE  /\ pvm' \in Seq([path : [array : Nat, len : Nat], marks : SUBSET Marks])
         /\ NotedWithLast(m) \/ NotedAnew(m)
<1> DEFINE Notes == [path : [array : Nat, len : Nat], marks : SUBSET Marks]
           path == Contents(heap, Top.path)
           n == Len(pvm)
<1>1. pvm' = Noted(path, m) /\ pvm \in Seq(Notes) /\ n \in Nat /\ DOMAIN pvm = 1 .. n
  BY DEF UnmarkWithPaths, NotesOK
<1>2. Shrinks /\ IsSlice(heap, Top.path)
  BY StayingShrinks DEF Stays
<1>3. CASE pvm # << >> /\ Contents(heap, pvm[n].path) = path
  <2> DEFINE note == [pvm[n] EXCEPT !.marks = @ \cup {m}]
  <2>1. n \in 1 .. n /\ pvm[n] \in Notes
    <3>1. pvm # << >>
      BY <1>3
    <3> HIDE DEF Notes
    <3> QED BY <1>1, <3>1
  <2>2. note \in Notes /\ note.path = pvm[n].path /\ note.marks = pvm[n].marks \cup {m}
    BY <2>1
  <2>3. pvm' = [pvm EXCEPT ![n] = note]
    BY <1>1, <1>3 DEF Noted
  <2> HIDE DEF note, Notes, n
  <2>4. pvm' \in Seq(Notes) /\ Len(pvm') = n /\ pvm'[n] = note
    BY <1>1, <2>1, <2>2, <2>3 DEF n
  <2>5. ASSUME NEW j \in 1 .. n - 1 PROVE pvm'[j] = pvm[j]
    <3>1. j # n /\ j \in DOMAIN pvm
      BY <1>1
    <3> QED BY <2>3, <3>1
  <2> QED BY <1>3, <2>2, <2>4, <2>5 DEF NotedWithLast, n, Notes
<1>4. CASE ~ (pvm # << >> /\ Contents(heap, pvm[n].path) = path)
  <2> DEFINE t == OwnPath(heap, Top.path, 0)
             note == [path |-> t, marks |-> {m}]
  <2>1. pvm' = Append(pvm, note)
    BY <1>1, <1>4 DEF Noted
  <2>2. Len(pvm') = n + 1
    <3> DEFINE S == Notes \cup {note}
    <3> HIDE DEF note, Notes
    <3>1. pvm \in Seq(S) /\ note \in S
      BY <1>1
    <3> HIDE DEF S
    <3> QED BY <2>1, <3>1
  <2>3. heap' = OwnHeap(heap, path)
    <3>1. Len(pvm') # Len(pvm)
      <4>1. n \in Nat
        BY <1>1
      <4> HIDE DEF n
      <4>2. Len(pvm') # n
        BY <2>2, <4>1
      <4> QED BY <4>2 DEF n
    <3> QED BY <3>1 DEF UnmarkWithPaths
  <2>4. OwnedIn(heap', stack', t) /\ Contents(heap', t) = path /\ t \in [array : Nat, len : Nat]
    BY <1>2, <2>3, NewNoteIsOwned
  <2>5. note \in Notes /\ note.path = t /\ note.marks = {m}
    BY <2>4
  <2> HIDE DEF note, Notes, n
  <2>6. pvm' \in Seq(Notes) /\ pvm'[n + 1] = note /\ \A j \in 1 .. n : pvm'[j] = pvm[j]
    BY <1>1, <2>1, <2>5 DEF n
  <2> HIDE DEF t, path
  <2> QED BY <1>4, <2>2, <2>4, <2>5, <2>6 DEF NotedAnew, n, path, Notes
<1> QED BY <1>3, <1>4

LEMMA NotesStay ==
  ASSUME IInv, NotesOK, [Next]_vars
  PROVE  NotesOK'
<1>1. \A s : Owned(s) => OwnedIn(heap', stack', s)
  BY OwnedStays
<1>2. SUFFICES /\ pvm' \in Seq([path : [array : Nat, len : Nat], marks : SUBSET Marks])
               /\ \A j \in DOMAIN pvm' : OwnedIn(heap', stack', pvm'[j].path)
  BY DEF NotesOK, Owned
<1>3. CASE UNCHANGED pvm
  BY <1>1, <1>3 DEF NotesOK
<1>4. CASE pvm' = << >>
  BY <1>4
<1>5. ASSUME NEW m \in Marks, UnmarkWithPaths(m)
      PROVE  /\ pvm' \in Seq([path : [array : Nat, len : Nat], marks : SUBSET Marks])
             /\ \A j \in DOMAIN pvm' : OwnedIn(heap', stack', pvm'[j].path)
  <2>1. pvm' \in Seq([path : [array : Nat, len : Nat], marks : SUBSET Marks])
        /\ (NotedWithLast(m) \/ NotedAnew(m))
    BY <1>5, NotingAMark
  <2>2. Len(pvm) \in Nat /\ DOMAIN pvm = 1 .. Len(pvm) /\ DOMAIN pvm' = 1 .. Len(pvm')
        /\ \A j \in 1 .. Len(pvm) : OwnedIn(heap', stack', pvm[j].path)
    BY <1>1, <2>1 DEF NotesOK
  <2>3. CASE NotedWithLast(m)
    <3>1. \A j \in 1 .. Len(pvm) : pvm'[j].path = pvm[j].path
      BY <2>2, <2>3 DEF NotedWithLast
    <3> QED BY <2>1, <2>2, <2>3, <3>1 DEF NotedWithLast
  <2>4. CASE NotedAnew(m)
    BY <2>1, <2>2, <2>4 DEF NotedAnew
  <2> QED BY <2>1, <2>3, <2>4
<1>6. UNCHANGED pvm \/ pvm' = << >> \/ \E m \in Marks : UnmarkWithPaths(m)
  BY DEF Next, Start, Step, BeginWalk, BeginTransform, BeginMarkWithPaths, BeginWrangle,
         BeginUnmarkWithPaths, Down, WalkVisit, WalkHalt, WalkLeave, TransformEnter,
         TransformExit, TransformFails, MarkWithPathsExit, WrangleMark, WrangleInto,
         WrangleLeave, Extend, vars
<1> QED BY <1>3, <1>4, <1>5, <1>6

----------------------------------------------------------------------------
(* The shapes of the stack after a step.                                   *)

(* Frame g in place of the innermost one, and perhaps another inside it.   *)
TopIs(g) ==
  /\ Len(stack') = Len(stack) /\ DOMAIN stack' = 1 .. Len(stack)
  /\ stack'[Len(stack)] = g /\ Top' = g
  /\ \A i \in 1 .. Len(stack) - 1 : stack'[i] = stack[i]

TopsAre(g, inner) ==
  /\ Len(stack') = Len(stack) + 1 /\ DOMAIN stack' = 1 .. Len(stack) + 1
  /\ stack'[Len(stack)] = g /\ stack'[Len(stack) + 1] = inner /\ Top' = inner
  /\ \A i \in 1 .. Len(stack) - 1 : stack'[i] = stack[i]

(* The innermost frame is gone, and g is in place of the one around it. *)
OuterIs(g) ==
  /\ Len(stack) > 1
  /\ Len(stack') = Len(stack) - 1 /\ DOMAIN stack' = 1 .. Len(stack) - 1
  /\ stack'[Len(stack) - 1] = g /\ Top' = g
  /\ \A i \in 1 .. Len(stack) - 2 : stack'[i] = stack[i]

LEMMA ChangingTopShape ==
  ASSUME IInv, call # "none", NEW g, stack' = WithTop(g)
  PROVE  TopIs(g)
<1> DEFINE n == Len(stack)
<1>1. n \in Nat /\ n >= 1 /\ DOMAIN stack = 1 .. n /\ stack \in Seq(In(stack))
  BY TopIsAFrame DEF IInv, StackOK
<1>2. stack' = [stack EXCEPT ![n] = g]
  BY DEF WithTop
<1> HIDE DEF n
<1>3. Len(stack') = n /\ DOMAIN stack' = 1 .. n /\ stack'[n] = g
      /\ \A i \in 1 .. n - 1 : stack'[i] = stack[i]
  <2>1. Len([stack EXCEPT ![n] = g]) = n
    BY <1>1 DEF n
  <2> QED BY <1>1, <1>2, <2>1
<1> QED BY <1>3 DEF TopIs, Top, n

LEMMA GoingDownShape ==
  ASSUME IInv, NEW k \in Parts, Down(k)
  PROVE  /\ k \in In(Kids[Top.part]) /\ k \in Top.todo
         /\ \E t : TopsAre([Top EXCEPT !.todo = @ \ {k}], Frame(k, t, Top.val))
<1> DEFINE n == Len(stack)
           g == [Top EXCEPT !.todo = @ \ {k}]
           inner == Frame(k, AppendPath(heap, Top.path), Top.val)
<1>1. stack' = Append([stack EXCEPT ![n] = g], inner)
  BY DEF Down, Push, WithTop
<1>2. /\ n \in Nat /\ n >= 1 /\ DOMAIN stack = 1 .. n /\ stack \in Seq(In(stack))
      /\ Top = stack[n] /\ IsFrame(Top)
  BY TopIsAFrame DEF Down, IInv, StackOK
<1>3. k \in Top.todo
  BY DEF Down, NextKids
<1> HIDE DEF n, g, inner
<1>4. [stack EXCEPT ![n] = g] \in Seq(In(stack) \cup {g, inner})
      /\ Len([stack EXCEPT ![n] = g]) = n
  BY <1>2 DEF n
<1>5. /\ Len(stack') = n + 1 /\ DOMAIN stack' = 1 .. n + 1
      /\ stack'[n] = g /\ stack'[n + 1] = inner
      /\ \A i \in 1 .. n - 1 : stack'[i] = stack[i]
  BY <1>1, <1>2, <1>4
<1>6. TopsAre(g, inner)
  BY <1>5 DEF TopsAre, Top, n
<1> QED BY <1>2, <1>3, <1>6 DEF IsFrame, g, inner

LEMMA LosingTopShape ==
  ASSUME IInv, call # "none", Len(stack) # 1, stack' = Outer
  PROVE  OuterIs(stack[Len(stack) - 1])
<1> DEFINE n == Len(stack)
<1>1. n \in Nat /\ n > 1
  BY TopIsAFrame
<1>2. /\ Len(stack') = n - 1 /\ DOMAIN stack' = 1 .. n - 1
      /\ \A i \in 1 .. n - 1 : stack'[i] = stack[i]
  BY OuterFrames
<1> HIDE DEF n
<1>3. stack'[n - 1] = stack[n - 1] /\ \A i \in 1 .. n - 2 : stack'[i] = stack[i]
  BY <1>1, <1>2
<1> QED BY <1>1, <1>2, <1>3 DEF OuterIs, Top, n

LEMMA ReturningShape ==
  ASSUME IInv, call # "none", Len(stack) # 1, NEW result, Return(result)
  PROVE  OuterIs(Taken(stack[Len(stack) - 1], result)) /\ UNCHANGED <<value, call, calls>>
<1> DEFINE n == Len(stack)
           g == Taken(stack[n - 1], result)
<1>1. n \in Nat /\ n > 1
  BY TopIsAFrame
<1>2. /\ Outer \in Seq(In(stack)) /\ Len(Outer) = n - 1 /\ DOMAIN Outer = 1 .. n - 1
      /\ \A i \in 1 .. n - 1 : Outer[i] = stack[i]
  BY OuterFrames
<1>3. stack' = [Outer EXCEPT ![n - 1] = g] /\ UNCHANGED <<value, call, calls>>
  BY <1>1, <1>2 DEF Return
<1> HIDE DEF n, g
<1>4. /\ Len(stack') = n - 1 /\ DOMAIN stack' = 1 .. n - 1
      /\ stack'[n - 1] = g /\ \A i \in 1 .. n - 2 : stack'[i] = stack[i]
  <2>1. n - 1 \in 1 .. n - 1
    BY <1>1
  <2> QED BY <1>1, <1>2, <1>3, <2>1
<1> QED BY <1>1, <1>3, <1>4 DEF OuterIs, Top, n, g

LEMMA FramesWay ==
  ASSUME IInv, NEW i \in DOMAIN stack
  PROVE  /\ IsWay(<<Root>> \o Contents(heap, stack[i].path), Root, stack[i].part)
         /\ stack[i].part \in Parts
<1> DEFINE path == Contents(heap, stack[i].path)
           way == <<Root>> \o path
<1>1. /\ Len(stack) \in Nat /\ DOMAIN stack = 1 .. Len(stack)
      /\ \A j \in 1 .. Len(stack) : /\ j = 1 => stack[j].part = Root
                                    /\ j > 1 => stack[j].part \in In(Kids[stack[j - 1].part])
  BY DEF IInv, StackOK
<1> HIDE DEF path
<1>2. \A j \in 1 .. Len(stack) : stack[j].part \in Parts
  BY <1>1 DEF IInv, StackOK, IsFrame
<1>3. /\ path \in Seq(Parts \cup {Nothing}) /\ Len(path) = i - 1
      /\ \A j \in 1 .. i - 1 : path[j] = stack[j + 1].part
  BY ContentsAreAPath DEF IInv, Spelled, path
<1>4. path \in Seq(Parts)
  <2>1. \A j \in 1 .. i - 1 : path[j] \in Parts
    BY <1>2, <1>1, <1>3
  <2> QED BY <1>1, <1>3, <2>1
<1>5. /\ way \in Seq(Parts) /\ Len(way) = i /\ way[1] = Root
      /\ \A j \in 1 .. i - 1 : way[j + 1] = path[j]
  BY <1>1, <1>3, <1>4, TreeAssumption
<1> HIDE DEF way
<1>6. ASSUME NEW j \in 1 .. i PROVE way[j] = stack[j].part
  <2>1. CASE j = 1
    BY <1>1, <1>5, <2>1
  <2>2. CASE j > 1
    <3>1. j - 1 \in 1 .. i - 1 /\ j - 1 + 1 = j
      BY <1>1, <2>2
    <3> QED BY <1>3, <1>5, <3>1
  <2> QED BY <1>1, <2>1, <2>2
<1>7. ASSUME NEW j \in 1 .. i - 1 PROVE way[j + 1] \in In(Kids[way[j]])
  <2>1. j + 1 \in 1 .. i /\ j \in 1 .. i /\ j + 1 > 1 /\ j + 1 - 1 = j /\ j + 1 \in 1 .. Len(stack)
    BY <1>1
  <2>2. stack[j + 1].part \in In(Kids[stack[j].part])
    BY <1>1, <2>1
  <2> QED BY <1>6, <2>1, <2>2
<1>8. i \in 1 .. i /\ i >= 1
  BY <1>1
<1> QED BY <1>2, <1>1, <1>5, <1>6, <1>7, <1>8 DEF IsWay, way, path

----------------------------------------------------------------------------
(* UnmarkDeepWithPaths, when it is the first traversal.                    *)

(* A note of all marks that part p had, at the path of that part.          *)
NoteIn(h, note, p) ==
  /\ IsWay(<<Root>> \o Contents(h, note.path), Root, p)
  /\ note.marks = Given[p]

(* A note of the marks that the part of frame f had and has not any more.  *)
PartlyIn(h, note, f) ==
  /\ ~f.inside /\ Contents(h, note.path) = Contents(h, f.path)
  /\ Given[f.part] \ f.given \subseteq note.marks /\ note.marks \subseteq Given[f.part]

NotedParts == {p \in Parts : \E j \in DOMAIN pvm : NoteIn(heap, pvm[j], p)}
Complete == \A j \in DOMAIN pvm : \E p \in Parts : NoteIn(heap, pvm[j], p)
LastIsPartly == pvm # << >> /\ PartlyIn(heap, pvm[Len(pvm)], Top)

(* All notes are of all marks of a part, but perhaps the last.             *)
NotesFit ==
  \A j \in DOMAIN pvm : \/ \E p \in Parts : NoteIn(heap, pvm[j], p)
                        \/ j = Len(pvm) /\ PartlyIn(heap, pvm[j], Top)

(* The parts in the frame inside frame i. *)
Deeper(frames, i) == IF i < Len(frames) THEN Below[frames[i + 1].part] ELSE {}

Fits(f) == Below[f.part] \subseteq Parts /\ f.val \in [Below[f.part] -> SUBSET Marks]

(* Each part in the frame has either been visited, and its marks been      *)
(* dropped and noted, or has its marks and will be visited.                *)
Unmarked(f, deeper, noted) ==
  /\ f.top = {}
  /\ \A q \in Below[f.part] : q # f.part \/ f.inside =>
       \/ f.val[q] = {} /\ (Given[q] # {} => q \in noted)
       \/ /\ f.val[q] = Given[q]
          /\ f.inside => q \in deeper \/ \E k \in f.todo : q \in Below[k]
  /\ ~f.inside => f.val[f.part] = f.given /\ f.given \subseteq Given[f.part]

SameIn(f, outer) == \A q \in Below[f.part] : f.val[q] = outer[q]

UnmarkFrame(frames, i, noted) ==
  /\ Fits(frames[i]) /\ (i < Len(frames) => frames[i].inside)
  /\ Unmarked(frames[i], Deeper(frames, i), noted)
  /\ frames[i].made \/ SameIn(frames[i], IF i = 1 THEN Given ELSE frames[i - 1].val)

TopUnmarked ==
  ~Top.inside => \/ Top.given = Given[Top.part]
                 \/ Top.given = {} /\ Top.part \in NotedParts
                 \/ LastIsPartly

UnmarkingOK ==
  /\ \A i \in DOMAIN stack : UnmarkFrame(stack, i, NotedParts)
  /\ TopUnmarked /\ NotesFit

LEMMA NotesKeepTheirPaths ==
  ASSUME IInv, NotesOK, [Next]_vars, NEW j \in DOMAIN pvm
  PROVE  Contents(heap', pvm[j].path) = Contents(heap, pvm[j].path)
BY OwnedStays DEF NotesOK

LEMMA UnchangedNotes ==
  ASSUME IInv, NotesOK, [Next]_vars, UNCHANGED pvm
  PROVE  NotedParts' = NotedParts /\ (Complete => Complete')
<1>1. \A j \in DOMAIN pvm, p \in Parts : NoteIn(heap', pvm[j], p) <=> NoteIn(heap, pvm[j], p)
  BY NotesKeepTheirPaths DEF NoteIn
<1>2. NotedParts' = {p \in Parts : \E j \in DOMAIN pvm : NoteIn(heap', pvm[j], p)}
  BY DEF NotedParts
<1>3. Complete' = \A j \in DOMAIN pvm : \E p \in Parts : NoteIn(heap', pvm[j], p)
  BY DEF Complete
<1> HIDE DEF NoteIn
<1>4. NotedParts' = NotedParts
  BY <1>1, <1>2 DEF NotedParts
<1> QED BY <1>1, <1>3, <1>4 DEF Complete

LEMMA InsideAllIsNoted ==
  ASSUME NotesFit, Top.inside
  PROVE  Complete
BY DEF NotesFit, PartlyIn, Complete

LEMMA CompleteNotesFit ==
  ASSUME Complete'
  PROVE  NotesFit'
BY DEF Complete, NotesFit

LEMMA MoreAreNoted ==
  ASSUME NEW f, NEW deeper, NEW a, NEW b, a \subseteq b, Unmarked(f, deeper, a)
  PROVE  Unmarked(f, deeper, b)
BY DEF Unmarked

(* Frames further out do not change. *)
LEMMA OuterUnmarkFrames ==
  ASSUME UnmarkingOK, NEW n \in Nat, n <= Len(stack), Len(stack) \in Nat,
         DOMAIN stack = 1 .. Len(stack), Len(stack') \in Nat, n <= Len(stack'),
         \A i \in 1 .. n - 1 : stack'[i] = stack[i],
         stack'[n].part = stack[n].part, NotedParts \subseteq NotedParts'
  PROVE  \A i \in 1 .. n - 1 : UnmarkFrame(stack', i, NotedParts')
<1> SUFFICES ASSUME NEW i \in 1 .. n - 1 PROVE UnmarkFrame(stack', i, NotedParts')
  OBVIOUS
<1>1. /\ i \in 1 .. Len(stack) /\ i < Len(stack) /\ i < Len(stack') /\ i + 1 \in 1 .. n
      /\ i > 1 => i - 1 \in 1 .. n - 1
  OBVIOUS
<1>2. UnmarkFrame(stack, i, NotedParts)
  BY <1>1 DEF UnmarkingOK
<1>3. stack'[i] = stack[i] /\ (i # 1 => stack'[i - 1] = stack[i - 1])
  BY <1>1
<1>4. stack'[i + 1].part = stack[i + 1].part
  <2>1. CASE i + 1 = n
    BY <2>1
  <2>2. CASE i + 1 # n
    <3>1. i + 1 \in 1 .. n - 1
      BY <1>1, <2>2
    <3> QED BY <3>1
  <2> QED BY <2>1, <2>2
<1>5. Deeper(stack', i) = Deeper(stack, i)
  BY <1>1, <1>4 DEF Deeper
<1>6. Unmarked(stack'[i], Deeper(stack', i), NotedParts')
  BY <1>2, <1>3, <1>5, MoreAreNoted DEF UnmarkFrame
<1> QED BY <1>1, <1>2, <1>3, <1>6 DEF UnmarkFrame

LEMMA KidsFit ==
  ASSUME NEW f, Fits(f), f.part \in Parts, NEW k \in In(Kids[f.part]), NEW t
  PROVE  /\ k \in Parts /\ k \in Below[k] /\ Below[k] \subseteq Below[f.part]
         /\ Fits(Frame(k, t, f.val)) /\ Frame(k, t, f.val).val = [q \in Below[k] |-> f.val[q]]
         /\ Frame(k, t, f.val).part = k /\ ~Frame(k, t, f.val).inside
         /\ ~Frame(k, t, f.val).made /\ Frame(k, t, f.val).top = {}
         /\ Frame(k, t, f.val).given = f.val[k] /\ Frame(k, t, f.val).path = t
<1>1. k \in Parts /\ Below[k] \subseteq Below[f.part] /\ k \in Below[k]
  BY BelowAPart, KidsAreParts
<1>2. Frame(k, t, f.val).val = [q \in Below[k] |-> f.val[q]]
  BY <1>1 DEF Frame, Of, Fits
<1>3. Frame(k, t, f.val).part = k
  BY DEF Frame
<1>4. Fits(Frame(k, t, f.val))
  BY <1>1, <1>2, <1>3 DEF Fits
<1> QED BY <1>1, <1>2, <1>3, <1>4 DEF Frame

LEMMA GoingDownUnmarks ==
  ASSUME IInv, NotesOK, UnmarkingOK, [Next]_vars, NEW k \in Parts, Down(k)
  PROVE  UnmarkingOK'
<1> DEFINE n == Len(stack)
           f == stack[n]
           g == [f EXCEPT !.todo = @ \ {k}]
<1>1. /\ n \in Nat /\ n >= 1 /\ DOMAIN stack = 1 .. n /\ Top = f /\ IsFrame(f)
      /\ f.inside /\ UNCHANGED pvm
  BY TopIsAFrame DEF Down
<1>2. PICK t : TopsAre(g, Frame(k, t, f.val))
  BY <1>1, GoingDownShape
<1>3. k \in In(Kids[f.part]) /\ k \in f.todo
  BY <1>1, GoingDownShape
<1> DEFINE inner == Frame(k, t, f.val)
<1>4. /\ Len(stack') = n + 1 /\ DOMAIN stack' = 1 .. n + 1
      /\ stack'[n] = g /\ stack'[n + 1] = inner /\ Top' = inner
      /\ \A i \in 1 .. n - 1 : stack'[i] = stack[i]
  BY <1>2 DEF TopsAre
<1>5. /\ g.part = f.part /\ g.inside /\ g.val = f.val /\ g.made = f.made /\ g.top = f.top
      /\ g.todo = f.todo \ {k}
  BY <1>1 DEF IsFrame
<1>6. NotedParts' = NotedParts /\ NotesFit'
  BY <1>1, UnchangedNotes, InsideAllIsNoted, CompleteNotesFit DEF UnmarkingOK
<1>7. UnmarkFrame(stack, n, NotedParts) /\ f.part \in Parts
  BY <1>1 DEF UnmarkingOK, IsFrame
<1>8. /\ Fits(f) /\ Unmarked(f, {}, NotedParts)
      /\ f.made \/ SameIn(f, IF n = 1 THEN Given ELSE stack[n - 1].val)
  BY <1>1, <1>7 DEF UnmarkFrame, Deeper
<1>9. k \in Below[k] /\ Below[k] \subseteq Below[f.part]
  BY <1>3, <1>7, BelowAPart
<1>10. /\ Fits(inner) /\ inner.part = k /\ \A q \in Below[k] : inner.val[q] = f.val[q]
       /\ ~inner.inside /\ ~inner.made /\ inner.top = {} /\ inner.given = f.val[k]
  <2> HIDE DEF f
  <2>1. Fits(f)
    BY <1>8
  <2>2. /\ Fits(inner) /\ inner.val = [q \in Below[k] |-> f.val[q]] /\ inner.part = k
        /\ ~inner.inside /\ ~inner.made /\ inner.top = {} /\ inner.given = f.val[k]
    BY <1>3, <1>7, <2>1, KidsFit
  <2> HIDE DEF inner
  <2> QED BY <2>2
<1> HIDE DEF inner, g, f
<1>11. \A i \in 1 .. n - 1 : UnmarkFrame(stack', i, NotedParts')
  BY <1>1, <1>4, <1>5, <1>6, OuterUnmarkFrames DEF f
<1>12. UnmarkFrame(stack', n, NotedParts')
  <2>1. Deeper(stack', n) = Below[k]
    BY <1>1, <1>4, <1>10 DEF Deeper
  <2>2. ASSUME NEW q \in Below[g.part]
        PROVE  \/ g.val[q] = {} /\ (Given[q] # {} => q \in NotedParts)
               \/ /\ g.val[q] = Given[q]
                  /\ g.inside => q \in Below[k] \/ \E j \in g.todo : q \in Below[j]
    BY <1>1, <1>5, <1>8, <2>2 DEF Unmarked
  <2>3. Unmarked(g, Below[k], NotedParts)
    BY <1>5, <1>8, <2>2 DEF Unmarked
  <2>4. Fits(g)
    BY <1>5, <1>8 DEF Fits
  <2>5. g.made \/ SameIn(g, IF n = 1 THEN Given ELSE stack'[n - 1].val)
    BY <1>1, <1>4, <1>5, <1>8 DEF SameIn
  <2> QED BY <1>4, <1>5, <1>6, <2>1, <2>3, <2>4, <2>5 DEF UnmarkFrame
<1>13. UnmarkFrame(stack', n + 1, NotedParts') /\ (inner.given = Given[k] \/ (inner.given = {} /\ k \in NotedParts))
  <2>1. Deeper(stack', n + 1) = {}
    BY <1>1, <1>4 DEF Deeper
  <2>2. ASSUME NEW q \in Below[k]
        PROVE  \/ f.val[q] = {} /\ (Given[q] # {} => q \in NotedParts)
               \/ f.val[q] = Given[q]
    BY <1>1, <1>8, <1>9 DEF Unmarked
  <2>3. inner.val[k] = inner.given /\ inner.given \subseteq Given[k]
        /\ (inner.given = Given[k] \/ (inner.given = {} /\ k \in NotedParts))
    <3>1. inner.val[k] = f.val[k]
      BY <1>9, <1>10
    <3>2. \/ f.val[k] = {} /\ (Given[k] # {} => k \in NotedParts)
          \/ f.val[k] = Given[k]
      BY <1>9, <2>2
    <3> QED BY <1>10, <3>1, <3>2
  <2>4. Unmarked(inner, {}, NotedParts)
    BY <1>10, <2>2, <2>3 DEF Unmarked
  <2>5. SameIn(inner, stack'[n].val)
    BY <1>4, <1>5, <1>10 DEF SameIn
  <2> DEFINE m == n + 1
  <2>6. m - 1 = n /\ m # 1 /\ ~(m < Len(stack')) /\ stack'[m] = inner /\ Deeper(stack', m) = {}
    BY <1>1, <1>4, <2>1
  <2> HIDE DEF m, n
  <2>7. UnmarkFrame(stack', m, NotedParts)
    BY <1>10, <2>4, <2>5, <2>6 DEF UnmarkFrame
  <2> USE DEF m
  <2> QED BY <1>6, <2>3, <2>7
<1>14. TopUnmarked'
  BY <1>4, <1>6, <1>10, <1>13 DEF TopUnmarked
<1>15. \A i \in 1 .. n + 1 : UnmarkFrame(stack', i, NotedParts')
  BY <1>1, <1>11, <1>12, <1>13
<1> QED BY <1>4, <1>6, <1>14, <1>15 DEF UnmarkingOK

LEMMA GoingInUnmarks ==
  ASSUME IInv, NotesOK, UnmarkingOK, [Next]_vars, WrangleInto, value = Given
  PROVE  UnmarkingOK'
<1> DEFINE n == Len(stack)
           f == stack[n]
           todo == IF Kind[f.part] = "set" THEN {} ELSE KidsIn(f.part, value)
           g == [f EXCEPT !.inside = TRUE, !.todo = todo]
<1>1. call # "none"
  BY TraversalIsUnderWay DEF WrangleInto, Wrangles
<1>2. /\ n \in Nat /\ n >= 1 /\ DOMAIN stack = 1 .. n /\ Top = f /\ IsFrame(f)
      /\ f.part \in Parts
  BY <1>1, TopIsAFrame DEF IsFrame
<1>3. /\ ~f.inside /\ f.given = {} /\ stack' = WithTop(g) /\ UNCHANGED <<pvm, heap>>
  BY <1>2 DEF WrangleInto, Entering
<1>4. /\ Len(stack') = n /\ DOMAIN stack' = 1 .. n /\ stack'[n] = g /\ Top' = g
      /\ \A i \in 1 .. n - 1 : stack'[i] = stack[i]
  BY <1>1, <1>3, ChangingTopShape DEF TopIs
<1>5. /\ g.part = f.part /\ g.inside /\ g.val = f.val /\ g.made = f.made /\ g.top = f.top
      /\ g.todo = todo
  BY <1>2 DEF IsFrame
<1>6. UnmarkFrame(stack, n, NotedParts)
  BY <1>2 DEF UnmarkingOK
<1>7. /\ Fits(f) /\ Unmarked(f, {}, NotedParts)
      /\ f.made \/ SameIn(f, IF n = 1 THEN Given ELSE stack[n - 1].val)
  BY <1>2, <1>6 DEF UnmarkFrame, Deeper
<1>8. IsWay(<<Root>> \o Contents(heap, f.path), Root, f.part)
  BY <1>2, FramesWay
<1>9. ASSUME NEW j \in DOMAIN pvm, PartlyIn(heap, pvm[j], Top)
      PROVE  NoteIn(heap, pvm[j], f.part)
  BY <1>2, <1>3, <1>8, <1>9 DEF PartlyIn, NoteIn
<1>10. Complete
  BY <1>2, <1>9 DEF UnmarkingOK, NotesFit, Complete
<1>11. NotedParts' = NotedParts /\ NotesFit'
  BY <1>3, <1>10, UnchangedNotes, CompleteNotesFit
<1>12. Given[f.part] # {} => f.part \in NotedParts
  <2>1. CASE LastIsPartly
    <3>1. Len(pvm) \in DOMAIN pvm
      BY <2>1 DEF LastIsPartly, NotesOK
    <3> QED BY <1>2, <1>9, <2>1, <3>1 DEF LastIsPartly, NotedParts
  <2> QED BY <1>2, <1>3, <2>1 DEF UnmarkingOK, TopUnmarked
<1>13. todo = In(Kids[f.part]) \/ \A q \in Below[f.part] \ {f.part} : Given[q] = {}
  <2>1. DOMAIN value = Parts
    BY TreeAssumption
  <2> QED BY <1>2, <2>1, KidsAreParts, ShapeAssumption DEF KidsIn
<1> HIDE DEF todo, g, f
<1>14. Unmarked(g, {}, NotedParts)
  <2>1. ASSUME NEW q \in Below[g.part]
        PROVE  \/ g.val[q] = {} /\ (Given[q] # {} => q \in NotedParts)
               \/ g.val[q] = Given[q] /\ \E k \in g.todo : q \in Below[k]
    <3>1. CASE q = f.part
      BY <1>3, <1>5, <1>7, <1>12, <3>1 DEF Unmarked
    <3>2. CASE q # f.part
      <4>1. \/ f.val[q] = {} /\ (Given[q] # {} => q \in NotedParts)
            \/ f.val[q] = Given[q]
        BY <1>5, <1>7, <2>1, <3>2 DEF Unmarked
      <4>2. \E k \in In(Kids[f.part]) : q \in Below[k]
        BY <1>2, <1>5, <2>1, <3>2, BelowAPart
      <4> QED BY <1>5, <1>13, <2>1, <3>2, <4>1, <4>2
    <3> QED BY <3>1, <3>2
  <2> QED BY <1>5, <1>7, <2>1 DEF Unmarked
<1>15. \A i \in 1 .. n - 1 : UnmarkFrame(stack', i, NotedParts')
  BY <1>2, <1>4, <1>5, <1>11, OuterUnmarkFrames DEF f
<1>16. UnmarkFrame(stack', n, NotedParts')
  <2>1. Deeper(stack', n) = {}
    BY <1>2, <1>4 DEF Deeper
  <2>2. Fits(g)
    BY <1>5, <1>7 DEF Fits
  <2>3. g.made \/ SameIn(g, IF n = 1 THEN Given ELSE stack'[n - 1].val)
    BY <1>2, <1>4, <1>5, <1>7 DEF SameIn
  <2> QED BY <1>4, <1>5, <1>11, <1>14, <2>1, <2>2, <2>3 DEF UnmarkFrame
<1>17. \A i \in 1 .. n : UnmarkFrame(stack', i, NotedParts')
  BY <1>2, <1>15, <1>16
<1> QED BY <1>4, <1>5, <1>11, <1>17 DEF UnmarkingOK, TopUnmarked

LEMMA ThePartOfAPath ==
  ASSUME NEW way, NEW p, NEW q, IsWay(way, Root, p), IsWay(way, Root, q)
  PROVE  p = q
BY DEF IsWay

(* Dropping and noting a mark m of the innermost frame. *)
LEMMA DroppingUnmarks ==
  ASSUME IInv, NotesOK, UnmarkingOK, [Next]_vars, NEW m \in Marks, UnmarkWithPaths(m)
  PROVE  UnmarkingOK'
<1> DEFINE n == Len(stack)
           f == stack[n]
           g == Drop(Visited(f, m), m)
           last == Len(pvm)
<1>1. call # "none"
  BY TraversalIsUnderWay DEF UnmarkWithPaths
<1>2. /\ n \in Nat /\ n >= 1 /\ DOMAIN stack = 1 .. n /\ Top = f /\ IsFrame(f)
      /\ f.part \in Parts /\ IsSlice(heap, f.path)
  BY <1>1, TopIsAFrame DEF IsFrame
<1>3. ~f.inside /\ m \in f.given /\ stack' = WithTop(g)
  BY <1>2 DEF UnmarkWithPaths, Entering
<1>4. /\ Len(stack') = n /\ DOMAIN stack' = 1 .. n /\ stack'[n] = g /\ Top' = g
      /\ \A i \in 1 .. n - 1 : stack'[i] = stack[i]
  BY <1>1, <1>3, ChangingTopShape DEF TopIs
<1>5. UnmarkFrame(stack, n, NotedParts)
  BY <1>2 DEF UnmarkingOK
<1>6. /\ Fits(f) /\ Unmarked(f, {}, NotedParts)
      /\ f.val[f.part] = f.given /\ f.given \subseteq Given[f.part]
  BY <1>2, <1>3, <1>5 DEF UnmarkFrame, Deeper, Unmarked
<1>7. /\ g.part = f.part /\ ~g.inside /\ g.made /\ g.top = f.top /\ g.path = f.path
      /\ g.given = f.given \ {m} /\ g.val = [f.val EXCEPT ![f.part] = @ \ {m}]
  BY <1>2, <1>3 DEF IsFrame, Drop, Visited
<1>8. f.part \in Below[f.part] /\ f.val \in [Below[f.part] -> SUBSET Marks]
  BY <1>2, <1>6, BelowAPart DEF Fits
<1>9. g.val[f.part] = g.given /\ \A q \in Below[f.part] \ {f.part} : g.val[q] = f.val[q]
      /\ g.val \in [Below[f.part] -> SUBSET Marks]
  BY <1>6, <1>7, <1>8
<1>10. IsWay(<<Root>> \o Contents(heap, f.path), Root, f.part)
  BY <1>2, FramesWay
<1>11. Contents(heap', f.path) = Contents(heap, f.path)
  BY <1>2, UnmarkSteadies, SteadySlices DEF IInv
<1>12. NotedWithLast(m) \/ NotedAnew(m)
  BY NotingAMark
<1>13. \A j \in DOMAIN pvm : Contents(heap', pvm[j].path) = Contents(heap, pvm[j].path)
  BY NotesKeepTheirPaths
<1>14. last \in Nat /\ DOMAIN pvm = 1 .. last /\ DOMAIN pvm' = 1 .. Len(pvm') /\ (pvm # << >> => last >= 1)
       /\ (pvm' = << >> => Len(pvm') = 0)
  <2>1. pvm' \in Seq([path : [array : Nat, len : Nat], marks : SUBSET Marks])
    BY NotingAMark
  <2> QED BY <2>1 DEF NotesOK
<1> HIDE DEF f, g, last
<1>15. /\ NotedWithLast(m) => Len(pvm') = last /\ \A j \in 1 .. last - 1 : pvm'[j] = pvm[j]
       /\ NotedAnew(m) => Len(pvm') = last + 1 /\ \A j \in 1 .. last : pvm'[j] = pvm[j]
  BY DEF NotedWithLast, NotedAnew, last
(* The last note is of the marks dropped so far, or of all. *)
<1>16. PartlyIn(heap', pvm'[Len(pvm')], g) /\ pvm' # << >>
  <2>1. CASE NotedWithLast(m)
    <3>1. /\ Contents(heap, pvm[last].path) = Contents(heap, f.path) /\ last \in DOMAIN pvm
          /\ Len(pvm') = last /\ pvm'[last].path = pvm[last].path
          /\ pvm'[last].marks = pvm[last].marks \cup {m}
      BY <1>2, <1>14, <2>1 DEF NotedWithLast, last
    <3>2. Contents(heap', pvm'[last].path) = Contents(heap', f.path)
      BY <1>11, <1>13, <3>1
    <3>3. Given[f.part] \ f.given \subseteq pvm[last].marks /\ pvm[last].marks \subseteq Given[f.part]
      <4>1. CASE \E p \in Parts : NoteIn(heap, pvm[last], p)
        BY <1>10, <3>1, <4>1, ThePartOfAPath DEF NoteIn
      <4>2. CASE PartlyIn(heap, pvm[last], Top)
        BY <1>2, <4>2 DEF PartlyIn
      <4> QED BY <3>1, <4>1, <4>2 DEF UnmarkingOK, NotesFit
    <3> QED BY <1>3, <1>6, <1>7, <1>14, <3>1, <3>2, <3>3 DEF PartlyIn
  <2>2. CASE NotedAnew(m)
    <3>1. /\ Len(pvm') = last + 1 /\ pvm'[last + 1].marks = {m}
          /\ Contents(heap', pvm'[last + 1].path) = Contents(heap', f.path)
      BY <1>2, <1>11, <2>2 DEF NotedAnew, last
    <3>2. ~LastIsPartly
      BY <2>2 DEF NotedAnew, LastIsPartly, PartlyIn
    <3>3. f.given = Given[f.part]
      BY <1>2, <1>3, <3>2 DEF UnmarkingOK, TopUnmarked
    <3> QED BY <1>3, <1>7, <1>14, <3>1, <3>3 DEF PartlyIn
  <2> QED BY <1>12, <2>1, <2>2
(* Notes of all marks of a part remain. *)
<1>17. ASSUME NEW j \in DOMAIN pvm, NEW p \in Parts, NoteIn(heap, pvm[j], p)
       PROVE  j \in DOMAIN pvm' /\ NoteIn(heap', pvm'[j], p)
  <2>1. CASE NotedWithLast(m) /\ j = last
    <3>1. /\ Contents(heap, pvm[last].path) = Contents(heap, f.path)
          /\ Len(pvm') = last /\ pvm'[last].path = pvm[last].path
          /\ pvm'[last].marks = pvm[last].marks \cup {m}
      BY <1>2, <2>1 DEF NotedWithLast, last
    <3>2. p = f.part
      BY <1>10, <1>17, <2>1, <3>1, ThePartOfAPath DEF NoteIn
    <3>3. j \in DOMAIN pvm' /\ Contents(heap', pvm'[j].path) = Contents(heap, pvm[j].path)
      BY <1>13, <1>14, <2>1, <3>1
    <3>4. pvm[j].marks = Given[p] /\ m \in Given[p] /\ pvm'[j].marks = pvm[j].marks \cup {m}
      BY <1>3, <1>6, <1>17, <2>1, <3>1, <3>2 DEF NoteIn
    <3>5. pvm'[j].marks = Given[p]
      BY <3>4
    <3> QED BY <1>17, <3>3, <3>5 DEF NoteIn
  <2>2. CASE ~(NotedWithLast(m) /\ j = last)
    <3>1. CASE NotedWithLast(m)
      <4>1. j \in 1 .. last - 1
        BY <1>14, <2>2, <3>1
      <4> QED BY <1>13, <1>14, <1>17, <1>15, <3>1, <4>1 DEF NoteIn
    <3>2. CASE NotedAnew(m)
      <4>1. j \in 1 .. last /\ j \in 1 .. last + 1
        BY <1>14
      <4> QED BY <1>13, <1>14, <1>17, <1>15, <3>2, <4>1 DEF NoteIn
    <3> QED BY <1>12, <3>1, <3>2
  <2> QED BY <2>1, <2>2
<1>18. NotedParts \subseteq NotedParts'
  BY <1>17 DEF NotedParts
<1>19. NotesFit'
  <2> SUFFICES ASSUME NEW j \in DOMAIN pvm', j # Len(pvm')
               PROVE  \E p \in Parts : NoteIn(heap', pvm'[j], p)
    BY <1>4, <1>16 DEF NotesFit
  <2>1. j \in DOMAIN pvm /\ (NotedWithLast(m) => j # last)
    <3>1. CASE NotedWithLast(m)
      <4>1. Len(pvm') = last
        BY <1>15, <3>1
      <4> QED BY <1>14, <4>1
    <3>2. CASE NotedAnew(m)
      <4>1. Len(pvm') = last + 1
        BY <1>15, <3>2
      <4>2. ~NotedWithLast(m)
        BY <1>14, <1>15, <4>1
      <4> QED BY <1>14, <4>1, <4>2
    <3> QED BY <1>12, <3>1, <3>2
  <2>2. ~PartlyIn(heap, pvm[j], Top) \/ j # last
    BY <1>12, <2>1 DEF NotedAnew, PartlyIn, last, NotesOK
  <2> QED BY <1>17, <2>1, <2>2 DEF UnmarkingOK, NotesFit, last
<1>20. TopUnmarked'
  BY <1>4, <1>16 DEF TopUnmarked, LastIsPartly
<1>21. \A i \in 1 .. n - 1 : UnmarkFrame(stack', i, NotedParts')
  BY <1>2, <1>4, <1>7, <1>18, OuterUnmarkFrames DEF f
<1>22. UnmarkFrame(stack', n, NotedParts')
  <2>1. Deeper(stack', n) = {}
    BY <1>2, <1>4 DEF Deeper
  <2>2. Fits(g)
    BY <1>6, <1>7, <1>9 DEF Fits
  <2>3. Unmarked(g, {}, NotedParts)
    BY <1>6, <1>7, <1>9 DEF Unmarked
  <2>4. Unmarked(g, {}, NotedParts')
    BY <1>18, <2>3, MoreAreNoted
  <2> QED BY <1>2, <1>4, <1>7, <2>1, <2>2, <2>4 DEF UnmarkFrame
<1>23. \A i \in 1 .. n : UnmarkFrame(stack', i, NotedParts')
  BY <1>2, <1>21, <1>22
<1> QED BY <1>4, <1>19, <1>20, <1>23 DEF UnmarkingOK

LEMMA TakingFits ==
  ASSUME NEW o, IsFrame(o), Fits(o), Below[Top.part] \subseteq Below[o.part],
         NEW result \in [Below[Top.part] -> SUBSET Marks]
  PROVE  /\ Fits(Taken(o, result)) /\ Taken(o, result).part = o.part
         /\ Taken(o, result).inside = o.inside /\ Taken(o, result).todo = o.todo
         /\ Taken(o, result).top = o.top /\ Taken(o, result).made
         /\ \A q \in Below[o.part] :
              Taken(o, result).val[q] = IF q \in Below[Top.part] THEN result[q] ELSE o.val[q]
<1> DEFINE g == Taken(o, result)
           D == DOMAIN o.val \ (Below[Top.part] \ DOMAIN result)
<1>1. /\ g.part = o.part /\ g.inside = o.inside /\ g.todo = o.todo /\ g.top = o.top
      /\ g.made = TRUE
      /\ g.val = [q \in D |-> IF q \in DOMAIN result THEN result[q] ELSE o.val[q]]
  BY DEF IsFrame, Taken
<1>2. D = Below[o.part] /\ DOMAIN result = Below[Top.part] /\ o.val \in [Below[o.part] -> SUBSET Marks]
  BY DEF Fits
<1> HIDE DEF g, D
<1>3. /\ g.val \in [Below[o.part] -> SUBSET Marks]
      /\ \A q \in Below[o.part] :
           g.val[q] = IF q \in Below[Top.part] THEN result[q] ELSE o.val[q]
  BY <1>1, <1>2
<1>4. Fits(g)
  BY <1>1, <1>3 DEF Fits
<1> QED BY <1>1, <1>3, <1>4 DEF g

(* A frame that is left has been cleared, and what was in it noted. *)
LEMMA LeftIsCleared ==
  ASSUME IInv, UnmarkingOK, WrangleLeave
  PROVE  /\ call # "none" /\ Top.inside /\ Top.top = {} /\ Fits(Top) /\ Complete
         /\ \A q \in Below[Top.part] : Top.val[q] = {} /\ (Given[q] # {} => q \in NotedParts)
         /\ Top.made \/ SameIn(Top, IF Len(stack) = 1 THEN Given ELSE stack[Len(stack) - 1].val)
<1>1. call # "none"
  BY TraversalIsUnderWay DEF WrangleLeave, Wrangles
<1>2. Len(stack) \in Nat /\ Len(stack) \in DOMAIN stack /\ Top = stack[Len(stack)]
  BY <1>1, TopIsAFrame
<1>3. Top.inside /\ Top.todo = {}
  BY DEF WrangleLeave, Leaving
<1>4. UnmarkFrame(stack, Len(stack), NotedParts)
  BY <1>2 DEF UnmarkingOK
<1>5. /\ Fits(Top) /\ Unmarked(Top, {}, NotedParts)
      /\ Top.made \/ SameIn(Top, IF Len(stack) = 1 THEN Given ELSE stack[Len(stack) - 1].val)
  BY <1>2, <1>4 DEF UnmarkFrame, Deeper
<1>6. ASSUME NEW q \in Below[Top.part]
      PROVE  Top.val[q] = {} /\ (Given[q] # {} => q \in NotedParts)
  BY <1>3, <1>5, <1>6 DEF Unmarked
<1>7. Complete
  BY <1>3, InsideAllIsNoted DEF UnmarkingOK
<1> QED BY <1>1, <1>3, <1>5, <1>6, <1>7 DEF Unmarked

LEMMA LeavingUnmarks ==
  ASSUME IInv, NotesOK, UnmarkingOK, [Next]_vars, WrangleLeave, Len(stack) # 1
  PROVE  UnmarkingOK' /\ UNCHANGED <<value, call, calls>>
<1> DEFINE n == Len(stack)
           f == stack[n]
           o == stack[n - 1]
           g == stack'[n - 1]
<1>1. /\ call # "none" /\ Top.inside /\ Fits(Top) /\ Complete
      /\ \A q \in Below[Top.part] : Top.val[q] = {} /\ (Given[q] # {} => q \in NotedParts)
      /\ Top.made \/ SameIn(Top, o.val)
  BY LeftIsCleared
<1>2. /\ n \in Nat /\ n > 1 /\ DOMAIN stack = 1 .. n /\ Top = f /\ IsFrame(f)
  BY <1>1, TopIsAFrame
<1>3. IsFrame(o) /\ f.part \in In(Kids[o.part]) /\ o.part \in Parts
  <2>1. n - 1 \in DOMAIN stack /\ n \in DOMAIN stack
    BY <1>2
  <2>2. IsFrame(o)
    BY <2>1 DEF IInv, StackOK
  <2>3. f.part \in In(Kids[o.part])
    BY <1>2, <2>1 DEF IInv, StackOK
  <2> QED BY <2>2, <2>3 DEF IsFrame
<1>4. Below[f.part] \subseteq Below[o.part]
  BY <1>3, BelowAPart
<1>5. UnmarkFrame(stack, n - 1, NotedParts)
  BY <1>2 DEF UnmarkingOK
<1>6. /\ Fits(o) /\ o.inside /\ Unmarked(o, Below[f.part], NotedParts)
      /\ o.made \/ SameIn(o, IF n - 1 = 1 THEN Given ELSE stack[n - 2].val)
  <2>1. n - 1 < Len(stack) /\ n - 1 + 1 = n /\ n - 1 - 1 = n - 2
    BY <1>2
  <2> HIDE DEF n
  <2> QED BY <1>5, <2>1 DEF UnmarkFrame, Deeper
<1>7. NotedParts' = NotedParts /\ NotesFit'
  <2>1. UNCHANGED pvm
    BY DEF WrangleLeave
  <2> QED BY <1>1, <2>1, UnchangedNotes, CompleteNotesFit
<1>8. /\ OuterIs(g) /\ Fits(g) /\ g.part = o.part /\ g.inside = o.inside /\ g.todo = o.todo
      /\ g.top = o.top /\ (g.made \/ g = o)
      /\ \A q \in Below[o.part] :
           g.val[q] = IF q \in Below[f.part] THEN f.val[q] ELSE o.val[q]
      /\ UNCHANGED <<value, call, calls>>
  <2>1. CASE Top.made
    <3>1. Return(Top.val)
      BY <2>1 DEF WrangleLeave
    <3>2. OuterIs(Taken(o, Top.val)) /\ UNCHANGED <<value, call, calls>>
      BY <1>1, <3>1, ReturningShape
    <3>3. g = Taken(o, Top.val)
      BY <3>2 DEF OuterIs
    <3>4. Top.val \in [Below[Top.part] -> SUBSET Marks]
      BY <1>1 DEF Fits
    <3>5. Top.part = f.part /\ Below[Top.part] \subseteq Below[o.part]
      BY <1>2, <1>4
    <3> HIDE DEF o, f, g, n
    <3> DEFINE taken == Taken(o, Top.val)
    <3>6. /\ Fits(taken) /\ taken.part = o.part /\ taken.inside = o.inside
          /\ taken.todo = o.todo /\ taken.top = o.top /\ taken.made
          /\ \A q \in Below[o.part] :
               taken.val[q] = IF q \in Below[Top.part] THEN Top.val[q] ELSE o.val[q]
      <4>1. IsFrame(o) /\ Fits(o)
        BY <1>3, <1>6
      <4> QED BY <3>4, <3>5, <4>1, TakingFits
    <3> HIDE DEF taken
    <3> QED BY <1>2, <3>2, <3>3, <3>6 DEF taken
  <2>2. CASE ~Top.made
    <3>1. stack' = Outer /\ UNCHANGED <<value, call, calls>>
      BY <2>2 DEF WrangleLeave, ReturnUnchanged
    <3>2. OuterIs(o)
      BY <1>1, <3>1, LosingTopShape
    <3>3. g = o
      BY <3>2 DEF OuterIs
    <3>4. \A q \in Below[f.part] : f.val[q] = o.val[q]
      BY <1>1, <1>2, <2>2 DEF SameIn
    <3> HIDE DEF o, f, g, n
    <3> QED BY <1>4, <1>6, <3>1, <3>2, <3>3, <3>4
  <2> QED BY <2>1, <2>2
<1>9. /\ Len(stack') = n - 1 /\ DOMAIN stack' = 1 .. n - 1 /\ Top' = g
      /\ \A i \in 1 .. n - 2 : stack'[i] = stack[i]
  BY <1>8 DEF OuterIs
<1>10. \A i \in 1 .. n - 2 : UnmarkFrame(stack', i, NotedParts')
  <2> DEFINE m == n - 1
  <2>1. m \in Nat /\ m <= Len(stack) /\ m <= Len(stack') /\ Len(stack') \in Nat /\ n - 2 = m - 1
    BY <1>2, <1>9
  <2>2. stack'[m].part = stack[m].part /\ \A i \in 1 .. m - 1 : stack'[i] = stack[i]
    BY <1>8, <1>9, <2>1
  <2> HIDE DEF m
  <2>3. \A i \in 1 .. m - 1 : UnmarkFrame(stack', i, NotedParts')
    BY <1>2, <1>7, <2>1, <2>2, OuterUnmarkFrames
  <2> QED BY <2>1, <2>3
<1> HIDE DEF g, o, f
<1>11. Unmarked(g, {}, NotedParts)
  <2>1. ASSUME NEW q \in Below[g.part]
        PROVE  \/ g.val[q] = {} /\ (Given[q] # {} => q \in NotedParts)
               \/ g.val[q] = Given[q] /\ \E k \in g.todo : q \in Below[k]
    <3>1. CASE q \in Below[f.part]
      BY <1>1, <1>2, <1>8, <2>1, <3>1
    <3>2. CASE q \notin Below[f.part]
      BY <1>6, <1>8, <2>1, <3>2 DEF Unmarked
    <3> QED BY <3>1, <3>2
  <2> QED BY <1>6, <1>8, <2>1 DEF Unmarked
<1>12. UnmarkFrame(stack', n - 1, NotedParts')
  <2> DEFINE m == n - 1
  <2>1. Deeper(stack', m) = {} /\ ~(m < Len(stack')) /\ stack'[m] = g
    BY <1>2, <1>9 DEF Deeper, g
  <2>2. g.made \/ SameIn(g, IF m = 1 THEN Given ELSE stack'[m - 1].val)
    <3>1. CASE g.made
      BY <3>1
    <3>2. CASE ~g.made
      <4>1. m # 1 => stack'[m - 1] = stack[n - 2]
        BY <1>2, <1>9
      <4> QED BY <1>6, <1>8, <3>2, <4>1
    <3> QED BY <3>1, <3>2
  <2> HIDE DEF m
  <2>3. UnmarkFrame(stack', m, NotedParts')
    <3>1. Unmarked(stack'[m], Deeper(stack', m), NotedParts')
      BY <1>7, <1>11, <2>1
    <3>2. Fits(stack'[m]) /\ (stack'[m].made \/ SameIn(stack'[m], IF m = 1 THEN Given ELSE stack'[m - 1].val))
      BY <1>8, <2>1, <2>2
    <3> QED BY <2>1, <3>1, <3>2 DEF UnmarkFrame
  <2> QED BY <2>3 DEF m
<1>13. \A i \in 1 .. n - 1 : UnmarkFrame(stack', i, NotedParts')
  <2>1. n \in Nat
    BY <1>2
  <2> HIDE DEF n
  <2>2. \A i \in 1 .. n - 1 : i \in 1 .. n - 2 \/ i = n - 1
    BY <2>1
  <2> QED BY <1>10, <1>12, <2>2
<1> QED BY <1>6, <1>7, <1>8, <1>9, <1>13 DEF UnmarkingOK, TopUnmarked

(* The value without marks; and the notes, when all of them are made. *)
Bare == [p \in Parts |-> {}]
AllNoted == Complete /\ \A p \in Parts : Given[p] # {} => p \in NotedParts

LEMMA EndingUnmarks ==
  ASSUME IInv, NotesOK, UnmarkingOK, [Next]_vars, WrangleLeave, Len(stack) = 1, value = Given
  PROVE  End(Bare, TRUE) /\ AllNoted'
<1>1. /\ call # "none" /\ Top.inside /\ Top.top = {} /\ Fits(Top) /\ Complete
      /\ \A q \in Below[Top.part] : Top.val[q] = {} /\ (Given[q] # {} => q \in NotedParts)
      /\ Top.made \/ SameIn(Top, Given)
  BY LeftIsCleared
<1>2. Top = stack[1] /\ 1 \in DOMAIN stack
  BY <1>1, TopIsAFrame
<1>3. Top.part = Root /\ Below[Root] = Parts /\ Root \in Parts
  BY <1>2, TreeAssumption, ShapeAssumption DEF IInv, StackOK
<1>4. (IF Top.made THEN Top.val ELSE value) = Bare
  <2>1. CASE Top.made
    BY <1>1, <1>3, <2>1 DEF Fits, Bare
  <2>2. CASE ~Top.made
    <3>1. \A q \in Parts : Given[q] = {}
      BY <1>1, <1>3, <2>2 DEF SameIn
    <3> QED BY <2>2, <3>1, TreeAssumption DEF Bare
  <2> QED BY <2>1, <2>2
<1>5. WithMarks(Bare, Root, {}) = Bare
  BY <1>3 DEF WithMarks, Bare
<1>6. End(Bare, TRUE)
  BY <1>1, <1>4, <1>5 DEF WrangleLeave
<1>7. NotedParts' = NotedParts /\ Complete'
  <2>1. UNCHANGED pvm
    BY DEF WrangleLeave
  <2> QED BY <1>1, <2>1, UnchangedNotes
<1> QED BY <1>1, <1>3, <1>6, <1>7 DEF AllNoted

LEMMA BeginningUnmarks ==
  ASSUME BeginUnmarkWithPaths, value = Given
  PROVE  UnmarkingOK'
<1> DEFINE g == Frame(Root, WranglePath, Given)
<1>1. stack' = <<g>> /\ pvm' = << >>
  BY DEF BeginUnmarkWithPaths, Begin
<1>2. Root \in Parts /\ Root \in Below[Root] /\ Below[Root] = Parts
      /\ Given \in [Parts -> SUBSET Marks]
  BY TreeAssumption, ShapeAssumption, BelowAPart
<1>3. Of(Given, Root) = Given
  BY <1>2 DEF Of
<1>4. /\ g.part = Root /\ ~g.inside /\ g.val = Given /\ ~g.made /\ g.given = Given[Root]
      /\ g.top = {}
  BY <1>3 DEF Frame
<1> HIDE DEF g
<1>5. Len(stack') = 1 /\ DOMAIN stack' = {1} /\ stack'[1] = g /\ Top' = g
  BY <1>1 DEF Top
<1>6. Fits(g) /\ SameIn(g, Given) /\ \A noted : Unmarked(g, {}, noted)
  BY <1>2, <1>4 DEF Fits, SameIn, Unmarked
<1>7. Deeper(stack', 1) = {}
  BY <1>5 DEF Deeper
<1>8. UnmarkFrame(stack', 1, NotedParts')
  BY <1>5, <1>6, <1>7 DEF UnmarkFrame
<1>9. TopUnmarked' /\ NotesFit'
  BY <1>1, <1>4, <1>5 DEF TopUnmarked, NotesFit
<1> QED BY <1>5, <1>8, <1>9 DEF UnmarkingOK

(* Nothing happens to the traversal. *)
Idle == UNCHANGED <<value, call, stack, calls, pvm>> /\ Steady

LEMMA ExtendingIsIdle ==
  ASSUME IInv, UNCHANGED vars \/ \E k \in kept, step \in Parts : Extend(k, step)
  PROVE  Idle
<1>1. CASE UNCHANGED vars
  BY <1>1 DEF vars, Idle, Steady, IInv, HeapOK
<1>2. ASSUME NEW k \in kept, NEW step \in Parts, Extend(k, step)
      PROVE  Idle
  <2> DEFINE path == Contents(heap, k.slice)
  <2>1. path \in Seq(Parts \cup {Nothing})
    BY ContentsAreAPath DEF IInv, KeptOK
  <2> HIDE DEF path
  <2>2. Append(path, step) \in Seq(Parts \cup {Nothing})
    BY <2>1
  <2>3. heap' = OwnHeap(heap, Append(path, step))
        /\ UNCHANGED <<value, call, stack, calls, pvm>>
    BY <1>2 DEF Extend, KeepOwn, path
  <2>4. Steady
    BY <2>2, <2>3, OwnArraySteadies DEF IInv
  <2> QED BY <2>3, <2>4 DEF Idle
<1> QED BY <1>1, <1>2

LEMMA IdlingUnmarks ==
  ASSUME IInv, NotesOK, UnmarkingOK, [Next]_vars, Idle, call # "none"
  PROVE  UnmarkingOK'
<1>1. stack' = stack /\ pvm' = pvm /\ Top' = Top
  BY DEF Idle, Top
<1>2. NotedParts' = NotedParts
  BY <1>1, UnchangedNotes
<1>3. Contents(heap', Top.path) = Contents(heap, Top.path)
  BY TopIsAFrame, SteadySlices DEF Idle, IInv
<1>4. ASSUME NEW j \in DOMAIN pvm
      PROVE  /\ \A p \in Parts : NoteIn(heap, pvm[j], p) => NoteIn(heap', pvm[j], p)
             /\ PartlyIn(heap, pvm[j], Top) => PartlyIn(heap', pvm[j], Top)
  BY <1>3, NotesKeepTheirPaths DEF NoteIn, PartlyIn
<1>5. NotesFit'
  BY <1>1, <1>4 DEF UnmarkingOK, NotesFit
<1>6. LastIsPartly => LastIsPartly'
  <2>1. pvm # << >> => Len(pvm) \in DOMAIN pvm
    BY DEF NotesOK
  <2> QED BY <1>1, <1>4, <2>1 DEF LastIsPartly
<1>7. TopUnmarked'
  BY <1>1, <1>2, <1>6 DEF UnmarkingOK, TopUnmarked
<1> QED BY <1>1, <1>2, <1>5, <1>7 DEF UnmarkingOK

LEMMA UnmarkingGoesOn ==
  ASSUME IInv, NotesOK, UnmarkingOK, value = Given, call = "UnmarkDeepWithPaths", [Next]_vars
  PROVE  \/ UnmarkingOK' /\ UNCHANGED <<value, call, calls>>
         \/ End(Bare, TRUE) /\ AllNoted'
<1>1. \/ \E k \in Parts : Down(k)
      \/ \E m \in Marks : UnmarkWithPaths(m)
      \/ WrangleInto
      \/ WrangleLeave
      \/ UNCHANGED vars \/ \E k \in kept, step \in Parts : Extend(k, step)
  BY DEF Next, Start, Step, BeginWalk, BeginTransform, BeginMarkWithPaths, BeginWrangle,
         BeginUnmarkWithPaths, Begin, WalkVisit, WalkHalt, WalkLeave, TransformEnter,
         TransformExit, TransformFails, MarkWithPathsExit, WrangleMark, Entering, Leaving,
         Running, Walks, Transforms
<1>2. ASSUME NEW k \in Parts, Down(k) PROVE UnmarkingOK' /\ UNCHANGED <<value, call, calls>>
  BY <1>2, GoingDownUnmarks DEF Down
<1>3. ASSUME NEW m \in Marks, UnmarkWithPaths(m)
      PROVE  UnmarkingOK' /\ UNCHANGED <<value, call, calls>>
  BY <1>3, DroppingUnmarks DEF UnmarkWithPaths
<1>4. CASE WrangleInto
  BY <1>4, GoingInUnmarks DEF WrangleInto
<1>5. CASE WrangleLeave
  BY <1>5, EndingUnmarks, LeavingUnmarks
<1>6. CASE UNCHANGED vars \/ \E k \in kept, step \in Parts : Extend(k, step)
  BY <1>6, ExtendingIsIdle, IdlingUnmarks DEF Idle
<1> QED BY <1>1, <1>2, <1>3, <1>4, <1>5, <1>6

----------------------------------------------------------------------------
(* MarkWithPaths, after UnmarkDeepWithPaths.                               *)

(* Each part in the frame has its marks again, or will have.               *)
Marked(f, deeper) ==
  \A q \in Below[f.part] :
    \/ f.val[q] = Given[q]
    \/ /\ f.val[q] = {}
       /\ f.inside => q = f.part \/ q \in deeper \/ \E k \in f.todo : q \in Below[k]

MarkFrame(frames, i) ==
  /\ Fits(frames[i]) /\ (i < Len(frames) => frames[i].inside)
  /\ Marked(frames[i], Deeper(frames, i))

MarkingOK == \A i \in DOMAIN stack : MarkFrame(stack, i)

LEMMA OuterMarkFrames ==
  ASSUME MarkingOK, NEW n \in Nat, n <= Len(stack), Len(stack) \in Nat,
         DOMAIN stack = 1 .. Len(stack), Len(stack') \in Nat, n <= Len(stack'),
         \A i \in 1 .. n - 1 : stack'[i] = stack[i], stack'[n].part = stack[n].part
  PROVE  \A i \in 1 .. n - 1 : MarkFrame(stack', i)
<1> SUFFICES ASSUME NEW i \in 1 .. n - 1 PROVE MarkFrame(stack', i)
  OBVIOUS
<1>1. i \in 1 .. Len(stack) /\ i < Len(stack) /\ i < Len(stack') /\ i + 1 \in 1 .. n
  OBVIOUS
<1>2. MarkFrame(stack, i) /\ stack'[i] = stack[i]
  BY <1>1 DEF MarkingOK
<1>3. stack'[i + 1].part = stack[i + 1].part
  <2>1. CASE i + 1 = n
    BY <2>1
  <2>2. CASE i + 1 # n
    <3>1. i + 1 \in 1 .. n - 1
      BY <1>1, <2>2
    <3> QED BY <3>1
  <2> QED BY <2>1, <2>2
<1>4. Deeper(stack', i) = Deeper(stack, i)
  BY <1>1, <1>3 DEF Deeper
<1> QED BY <1>1, <1>2, <1>4 DEF MarkFrame

(* The notes of a path are those of the part that it leads to. *)
LEMMA MarksForAPart ==
  ASSUME IInv, NotesOK, AllNoted, call # "none"
  PROVE  MarksFor(Contents(heap, Top.path)) = Given[Top.part]
<1> DEFINE path == Contents(heap, Top.path)
           p == Top.part
           found == {i \in DOMAIN pvm : Contents(heap, pvm[i].path) = path}
<1>1. IsWay(<<Root>> \o path, Root, p) /\ p \in Parts
  BY TopIsAFrame, FramesWay
<1>2. path \in Seq(Parts \cup {Nothing}) /\ DOMAIN pvm \in SUBSET Nat
  BY TopIsAFrame, ContentsAreAPath DEF IInv, NotesOK
<1>3. MarksFor(path) =
        IF found = {} THEN {} ELSE pvm[CHOOSE i \in found : \A j \in found : i <= j].marks
  BY DEF MarksFor
<1>4. CASE found = {}
  <2> SUFFICES ASSUME Given[p] # {} PROVE FALSE
    BY <1>3, <1>4
  <2>1. p \in NotedParts
    BY <1>1 DEF AllNoted
  <2>2. PICK j \in DOMAIN pvm : NoteIn(heap, pvm[j], p)
    BY <2>1 DEF NotedParts
  <2> DEFINE other == Contents(heap, pvm[j].path)
  <2>3. other \in Seq(Parts \cup {Nothing})
    BY ContentsAreAPath DEF IInv, NotesOK, Owned, OwnedIn
  <2>4. <<Root>> \o other = <<Root>> \o path
    BY <1>1, <2>2, OneWay DEF NoteIn
  <2>5. other = path
    <3> HIDE DEF other, path
    <3>1. Len(<<Root>> \o other) = Len(other) + 1 /\ Len(<<Root>> \o path) = Len(path) + 1
      BY <1>2, <2>3
    <3>2. Len(other) = Len(path) /\ Len(other) \in Nat
      BY <1>2, <2>3, <2>4, <3>1
    <3>3. ASSUME NEW i \in 1 .. Len(path) PROVE other[i] = path[i]
      <4>1. (<<Root>> \o other)[i + 1] = other[i] /\ (<<Root>> \o path)[i + 1] = path[i]
        BY <1>2, <2>3, <3>2
      <4> QED BY <2>4, <4>1
    <3> QED BY <1>2, <2>3, <3>2, <3>3
  <2> QED BY <1>4, <2>5
<1>5. CASE found # {}
  <2> DEFINE i == CHOOSE i \in found : \A j \in found : i <= j
  <2>1. \E j \in found : \A k \in found : j <= k
    <3>1. found \in SUBSET Nat
      BY <1>2
    <3> HIDE DEF found
    <3> QED BY <1>5, <3>1, LeastNumber
  <2>2. i \in found
    <3> HIDE DEF found
    <3> QED BY <2>1
  <2> HIDE DEF i
  <2>3. PICK q \in Parts : NoteIn(heap, pvm[i], q)
    BY <2>2 DEF AllNoted, Complete
  <2>4. q = p
    BY <1>1, <2>2, <2>3, ThePartOfAPath DEF NoteIn
  <2> QED BY <1>3, <1>5, <2>3, <2>4 DEF NoteIn, i
<1> QED BY <1>4, <1>5

LEMMA GoingDownMarks ==
  ASSUME IInv, MarkingOK, NEW k \in Parts, Down(k)
  PROVE  MarkingOK'
<1> DEFINE n == Len(stack)
           f == stack[n]
           g == [f EXCEPT !.todo = @ \ {k}]
<1>1. /\ n \in Nat /\ n >= 1 /\ DOMAIN stack = 1 .. n /\ Top = f /\ IsFrame(f)
      /\ f.inside
  BY TopIsAFrame DEF Down
<1>2. PICK t : TopsAre(g, Frame(k, t, f.val))
  BY <1>1, GoingDownShape
<1>3. k \in In(Kids[f.part]) /\ k \in f.todo
  BY <1>1, GoingDownShape
<1> DEFINE inner == Frame(k, t, f.val)
<1>4. /\ Len(stack') = n + 1 /\ DOMAIN stack' = 1 .. n + 1
      /\ stack'[n] = g /\ stack'[n + 1] = inner
      /\ \A i \in 1 .. n - 1 : stack'[i] = stack[i]
  BY <1>2 DEF TopsAre
<1>5. /\ g.part = f.part /\ g.inside /\ g.val = f.val /\ g.todo = f.todo \ {k}
  BY <1>1 DEF IsFrame
<1>6. MarkFrame(stack, n) /\ f.part \in Parts
  BY <1>1 DEF MarkingOK, IsFrame
<1>7. Fits(f) /\ Marked(f, {})
  BY <1>1, <1>6 DEF MarkFrame, Deeper
<1>8. k \in Below[k] /\ Below[k] \subseteq Below[f.part]
  BY <1>3, <1>6, BelowAPart
<1>9. /\ Fits(inner) /\ inner.part = k /\ \A q \in Below[k] : inner.val[q] = f.val[q]
      /\ ~inner.inside
  <2> HIDE DEF f
  <2>1. Fits(f) /\ f.part \in Parts
    BY <1>6, <1>7
  <2>2. /\ Fits(inner) /\ inner.val = [q \in Below[k] |-> f.val[q]] /\ inner.part = k
        /\ ~inner.inside
    BY <1>3, <2>1, KidsFit
  <2> HIDE DEF inner
  <2> QED BY <2>2
<1> HIDE DEF inner, g, f
<1>10. \A i \in 1 .. n - 1 : MarkFrame(stack', i)
  BY <1>1, <1>4, <1>5, OuterMarkFrames DEF f
<1>11. MarkFrame(stack', n)
  <2>1. Deeper(stack', n) = Below[k]
    BY <1>1, <1>4, <1>9 DEF Deeper
  <2>2. Marked(g, Below[k])
    <3>1. ASSUME NEW q \in Below[f.part], f.val[q] # Given[q]
          PROVE  f.val[q] = {} /\ (q = f.part \/ \E j \in f.todo : q \in Below[j])
      BY <1>1, <1>7, <3>1 DEF Marked
    <3> QED BY <1>5, <3>1 DEF Marked
  <2>3. Fits(g)
    BY <1>5, <1>7 DEF Fits
  <2> QED BY <1>4, <1>5, <2>1, <2>2, <2>3 DEF MarkFrame
<1>12. MarkFrame(stack', n + 1)
  <2> DEFINE m == n + 1
  <2>1. ~(m < Len(stack')) /\ stack'[m] = inner /\ Deeper(stack', m) = {}
    BY <1>1, <1>4 DEF Deeper
  <2> HIDE DEF m, n
  <2>2. \A q \in Below[k] : f.val[q] = Given[q] \/ f.val[q] = {}
    BY <1>7, <1>8 DEF Marked
  <2>3. Marked(inner, {})
    BY <1>9, <2>2 DEF Marked
  <2>4. MarkFrame(stack', m)
    BY <1>9, <2>1, <2>3 DEF MarkFrame
  <2> QED BY <2>4 DEF m
<1>13. \A i \in 1 .. n + 1 : MarkFrame(stack', i)
  BY <1>1, <1>10, <1>11, <1>12
<1> QED BY <1>4, <1>13 DEF MarkingOK

LEMMA GoingInMarks ==
  ASSUME IInv, MarkingOK, TransformEnter, call = "MarkWithPaths"
  PROVE  MarkingOK' /\ UNCHANGED <<value, call, calls, pvm>>
<1> DEFINE n == Len(stack)
           f == stack[n]
           g == Into(f)
<1>1. /\ n \in Nat /\ n >= 1 /\ DOMAIN stack = 1 .. n /\ Top = f /\ IsFrame(f)
      /\ f.part \in Parts
  BY TopIsAFrame DEF IsFrame
<1>2. stack' = WithTop(g) /\ UNCHANGED <<value, call, calls, pvm>>
  BY <1>1 DEF TransformEnter
<1>3. /\ Len(stack') = n /\ DOMAIN stack' = 1 .. n /\ stack'[n] = g
      /\ \A i \in 1 .. n - 1 : stack'[i] = stack[i]
  BY <1>1, <1>2, ChangingTopShape DEF TopIs
<1>4. /\ g.part = f.part /\ g.inside /\ g.val = f.val
      /\ g.todo = KidsIn(f.part, f.val)
  BY <1>1 DEF IsFrame, Into
<1>5. MarkFrame(stack, n)
  BY <1>1 DEF MarkingOK
<1>6. Fits(f) /\ Marked(f, {})
  BY <1>1, <1>5 DEF MarkFrame, Deeper
<1> HIDE DEF g, f
<1>7. g.todo = In(Kids[f.part])
  <2>1. \A k \in In(Kids[f.part]) : k \in Below[k] /\ Below[k] \subseteq Below[f.part]
    BY <1>1, BelowAPart, KidsAreParts
  <2> QED BY <1>4, <1>6, <2>1 DEF KidsIn, Fits
<1>8. Marked(g, {})
  <2>1. \A q \in Below[f.part] : q = f.part \/ \E k \in g.todo : q \in Below[k]
    BY <1>1, <1>7, BelowAPart
  <2> QED BY <1>4, <1>6, <2>1 DEF Marked
<1>9. \A i \in 1 .. n - 1 : MarkFrame(stack', i)
  BY <1>1, <1>3, <1>4, OuterMarkFrames DEF f
<1>10. MarkFrame(stack', n)
  <2>1. Deeper(stack', n) = {}
    BY <1>1, <1>3 DEF Deeper
  <2>2. Fits(g)
    BY <1>4, <1>6 DEF Fits
  <2> QED BY <1>3, <1>4, <1>8, <2>1, <2>2 DEF MarkFrame
<1>11. \A i \in 1 .. n : MarkFrame(stack', i)
  BY <1>1, <1>9, <1>10
<1> QED BY <1>2, <1>3, <1>11 DEF MarkingOK

(* A frame that is left has all its marks again. *)
LEMMA LeftIsMarked ==
  ASSUME IInv, NotesOK, AllNoted, MarkingOK, MarkWithPathsExit
  PROVE  /\ call # "none" /\ Below[Top.part] \subseteq Parts
         /\ Return([q \in Below[Top.part] |-> Given[q]])
<1> DEFINE p == Top.part
           val == Top.val
<1>1. call # "none" /\ Top.inside /\ Top.todo = {}
  BY DEF MarkWithPathsExit, Leaving, Running
<1>2. Len(stack) \in Nat /\ Len(stack) \in DOMAIN stack /\ Top = stack[Len(stack)] /\ p \in Parts
  BY <1>1, TopIsAFrame DEF IsFrame
<1>3. MarkFrame(stack, Len(stack))
  BY <1>2 DEF MarkingOK
<1>4. Fits(Top) /\ Marked(Top, {})
  BY <1>2, <1>3 DEF MarkFrame, Deeper
<1>5. /\ val \in [Below[p] -> SUBSET Marks] /\ Below[p] \subseteq Parts /\ p \in Below[p]
      /\ \A q \in Below[p] : val[q] = Given[q] \/ (q = p /\ val[q] = {})
  BY <1>1, <1>2, <1>4, BelowAPart DEF Fits, Marked
<1> DEFINE A == Assembled(Top)
<1>6. /\ DOMAIN A = Below[p] /\ A = [q \in Below[p] |-> A[q]]
      /\ A[p] \subseteq Given[p] /\ \A q \in Below[p] : q # p => A[q] = Given[q]
  <2>1. CASE Kind[p] # "set"
    <3>1. A = val
      BY <2>1 DEF Assembled
    <3> QED BY <1>5, <3>1
  <2>2. CASE Kind[p] = "set"
    <3>1. \A q \in Below[p] \ {p} : Given[q] = {}
      BY <1>2, <2>2, ShapeAssumption
    <3>2. A = [q \in Below[p] |-> IF q = p THEN UNION {val[r] : r \in Below[p]} ELSE {}]
      BY <1>5, <2>2 DEF Assembled
    <3>3. UNION {val[r] : r \in Below[p]} \subseteq Given[p]
      BY <1>5, <3>1
    <3> HIDE DEF A
    <3> QED BY <1>5, <3>1, <3>2, <3>3
  <2> QED BY <2>1, <2>2
<1> HIDE DEF A
<1>7. WithMarks(A, p, Given[p]) = [q \in Below[p] |-> Given[q]]
  <2>1. WithMarks(A, p, Given[p]) = [A EXCEPT ![p] = A[p] \cup Given[p]]
    BY DEF WithMarks
  <2>2. A[p] \cup Given[p] = Given[p]
    BY <1>6
  <2> QED BY <1>5, <1>6, <2>1, <2>2
<1>8. MarksFor(Contents(heap, Top.path)) = Given[p]
  BY <1>1, MarksForAPart
<1>9. Return(WithMarks(A, p, Given[p]))
  BY <1>8 DEF MarkWithPathsExit, A
<1> QED BY <1>1, <1>5, <1>7, <1>9

LEMMA LeavingMarks ==
  ASSUME IInv, NotesOK, AllNoted, MarkingOK, MarkWithPathsExit, Len(stack) # 1
  PROVE  MarkingOK' /\ UNCHANGED <<value, call, calls>>
<1> DEFINE n == Len(stack)
           f == stack[n]
           o == stack[n - 1]
           result == [q \in Below[f.part] |-> Given[q]]
           g == Taken(o, result)
<1>1. /\ call # "none" /\ Below[Top.part] \subseteq Parts
      /\ Return([q \in Below[Top.part] |-> Given[q]])
  BY LeftIsMarked
<1>2. /\ n \in Nat /\ n > 1 /\ DOMAIN stack = 1 .. n /\ Top = f
  BY <1>1, TopIsAFrame
<1>3. OuterIs(g) /\ UNCHANGED <<value, call, calls>>
  BY <1>1, <1>2, ReturningShape
<1>4. IsFrame(o) /\ f.part \in In(Kids[o.part]) /\ o.part \in Parts
  <2>1. n - 1 \in DOMAIN stack /\ n \in DOMAIN stack
    BY <1>2
  <2>2. IsFrame(o)
    BY <2>1 DEF IInv, StackOK
  <2>3. f.part \in In(Kids[o.part])
    BY <1>2, <2>1 DEF IInv, StackOK
  <2> QED BY <2>2, <2>3 DEF IsFrame
<1>5. Below[Top.part] = Below[f.part] /\ Below[f.part] \subseteq Below[o.part]
  BY <1>2, <1>4, BelowAPart
<1>6. MarkFrame(stack, n - 1)
  BY <1>2 DEF MarkingOK
<1>7. Fits(o) /\ o.inside /\ Marked(o, Below[f.part])
  <2>1. n - 1 < Len(stack) /\ n - 1 + 1 = n
    BY <1>2
  <2> HIDE DEF n
  <2> QED BY <1>6, <2>1 DEF MarkFrame, Deeper
<1>8. result \in [Below[Top.part] -> SUBSET Marks]
  BY <1>1, <1>5, TreeAssumption
<1>9. \A q \in Below[f.part] : result[q] = Given[q]
  OBVIOUS
<1> HIDE DEF o, f, result, g
<1>10. /\ Fits(g) /\ g.part = o.part /\ g.inside = o.inside /\ g.todo = o.todo
       /\ \A q \in Below[o.part] :
            g.val[q] = IF q \in Below[Top.part] THEN result[q] ELSE o.val[q]
  <2>1. IsFrame(o) /\ Fits(o)
    BY <1>4, <1>7
  <2>2. Below[Top.part] \subseteq Below[o.part]
    BY <1>5
  <2> QED BY <1>8, <2>1, <2>2, TakingFits DEF g
<1> HIDE DEF g
<1>11. Marked(g, {})
  <2>1. ASSUME NEW q \in Below[g.part]
        PROVE  \/ g.val[q] = Given[q]
               \/ g.val[q] = {} /\ (q = g.part \/ \E k \in g.todo : q \in Below[k])
    <3>1. CASE q \in Below[f.part]
      BY <1>5, <1>9, <1>10, <2>1, <3>1
    <3>2. CASE q \notin Below[f.part]
      <4>1. o.val[q] = Given[q] \/ (o.val[q] = {} /\ (q = o.part \/ \E k \in o.todo : q \in Below[k]))
        BY <1>7, <1>10, <2>1, <3>2 DEF Marked
      <4> QED BY <1>5, <1>10, <2>1, <3>2, <4>1
    <3> QED BY <3>1, <3>2
  <2> QED BY <2>1 DEF Marked
<1>12. /\ Len(stack') = n - 1 /\ DOMAIN stack' = 1 .. n - 1 /\ stack'[n - 1] = g
       /\ \A i \in 1 .. n - 2 : stack'[i] = stack[i]
  BY <1>3 DEF OuterIs
<1> DEFINE m == n - 1
<1>13. /\ m \in Nat /\ m <= Len(stack) /\ m <= Len(stack') /\ Len(stack') \in Nat
       /\ n - 2 = m - 1 /\ ~(m < Len(stack')) /\ Deeper(stack', m) = {}
       /\ stack'[m] = g /\ stack'[m].part = stack[m].part
  BY <1>2, <1>10, <1>12 DEF Deeper, o
<1>14. \A i \in 1 .. m - 1 : stack'[i] = stack[i]
  BY <1>12, <1>13
<1>15. DOMAIN stack' = 1 .. m
  BY <1>12
<1> HIDE DEF m
<1>16. \A i \in 1 .. m - 1 : MarkFrame(stack', i)
  BY <1>2, <1>13, <1>14, OuterMarkFrames
<1>17. MarkFrame(stack', m)
  BY <1>10, <1>11, <1>13 DEF MarkFrame
<1>18. \A i \in 1 .. m : MarkFrame(stack', i)
  <2>1. \A i \in 1 .. m : i \in 1 .. m - 1 \/ i = m
    BY <1>13
  <2> QED BY <1>16, <1>17, <2>1
<1> QED BY <1>3, <1>15, <1>18 DEF MarkingOK

LEMMA EndingMarks ==
  ASSUME IInv, NotesOK, AllNoted, MarkingOK, MarkWithPathsExit, Len(stack) = 1
  PROVE  End(Given, TRUE)
<1>1. call # "none" /\ Return([q \in Below[Top.part] |-> Given[q]])
  BY LeftIsMarked
<1>2. Top = stack[1] /\ 1 \in DOMAIN stack
  BY <1>1, TopIsAFrame
<1>3. Top.part = Root /\ Below[Root] = Parts
  BY <1>2, ShapeAssumption DEF IInv, StackOK
<1>4. [q \in Below[Top.part] |-> Given[q]] = Given
  BY <1>3, TreeAssumption
<1> QED BY <1>1, <1>4 DEF Return

LEMMA BeginningMarks ==
  ASSUME BeginMarkWithPaths, value = Bare
  PROVE  MarkingOK'
<1> DEFINE g == Frame(Root, NilPath, Bare)
<1>1. stack' = <<g>>
  BY DEF BeginMarkWithPaths, Begin
<1>2. Below[Root] = Parts /\ Root \in Parts
  BY TreeAssumption, ShapeAssumption
<1>3. g.part = Root /\ ~g.inside /\ g.val = Bare
  BY <1>2 DEF Frame, Of, Bare
<1> HIDE DEF g
<1>4. Len(stack') = 1 /\ DOMAIN stack' = {1} /\ stack'[1] = g
  BY <1>1
<1>5. Fits(g) /\ Marked(g, Deeper(stack', 1))
  BY <1>2, <1>3 DEF Fits, Marked, Bare
<1>6. MarkFrame(stack', 1)
  BY <1>4, <1>5 DEF MarkFrame
<1> QED BY <1>4, <1>6 DEF MarkingOK

LEMMA MarkingGoesOn ==
  ASSUME IInv, NotesOK, AllNoted, MarkingOK, call = "MarkWithPaths", [Next]_vars
  PROVE  \/ MarkingOK' /\ AllNoted' /\ UNCHANGED <<value, call, calls>>
         \/ End(Given, TRUE)
<1>1. \/ \E k \in Parts : Down(k)
      \/ TransformEnter
      \/ MarkWithPathsExit
      \/ UNCHANGED vars \/ \E k \in kept, step \in Parts : Extend(k, step)
  BY DEF Next, Start, Step, BeginWalk, BeginTransform, BeginMarkWithPaths, BeginWrangle,
         BeginUnmarkWithPaths, Begin, WalkVisit, WalkHalt, WalkLeave, TransformExit,
         TransformFails, WrangleMark, UnmarkWithPaths, WrangleInto, WrangleLeave,
         Entering, Leaving, Running, Walks, Wrangles
<1>2. ASSUME UNCHANGED pvm PROVE AllNoted'
  BY <1>2, UnchangedNotes DEF AllNoted
<1>3. ASSUME NEW k \in Parts, Down(k)
      PROVE  MarkingOK' /\ AllNoted' /\ UNCHANGED <<value, call, calls>>
  BY <1>2, <1>3, GoingDownMarks DEF Down
<1>4. CASE TransformEnter
  BY <1>2, <1>4, GoingInMarks
<1>5. CASE MarkWithPathsExit
  <2>1. UNCHANGED pvm
    BY <1>5 DEF MarkWithPathsExit
  <2> QED BY <1>2, <1>5, <2>1, EndingMarks, LeavingMarks
<1>6. CASE UNCHANGED vars \/ \E k \in kept, step \in Parts : Extend(k, step)
  <2>1. UNCHANGED <<value, call, stack, calls, pvm>>
    BY <1>6, ExtendingIsIdle DEF Idle
  <2>2. MarkingOK'
    BY <2>1 DEF MarkingOK
  <2> QED BY <1>2, <2>1, <2>2
<1> QED BY <1>1, <1>3, <1>4, <1>5, <1>6

----------------------------------------------------------------------------
(* The traversals that have ended.                                         *)

Ended(op1, op2) == Len(calls) = 2 /\ calls[1].op = op1 /\ calls[2].op = op2
EndedOnly(op) == Len(calls) = 1 /\ calls[1].op = op

(* The program's value and notes, from the beginning of an                 *)
(* UnmarkDeepWithPaths to the end of the MarkWithPaths after it.           *)
RestoreInv ==
  /\ calls \in Seq(In(calls)) /\ NotesOK
  /\ calls = << >> => value = Given /\ (call = "UnmarkDeepWithPaths" => UnmarkingOK)
  /\ EndedOnly("UnmarkDeepWithPaths") =>
       /\ value = Bare
       /\ call # "UnmarkDeepWithPaths" => AllNoted
       /\ call = "MarkWithPaths" => MarkingOK
  /\ Ended("UnmarkDeepWithPaths", "MarkWithPaths") => value = Given

LEMMA EndingAddsACall ==
  ASSUME calls \in Seq(In(calls)), NEW result, NEW ok, End(result, ok)
  PROVE  /\ calls' \in Seq(In(calls')) /\ Len(calls) \in Nat /\ Len(calls') = Len(calls) + 1
         /\ calls'[Len(calls) + 1].op = call
         /\ \A i \in 1 .. Len(calls) : calls'[i] = calls[i]
         /\ value' = result /\ call' = "none"
<1> DEFINE new == [op |-> call, ok |-> ok]
<1>1. calls' = Append(calls, new) /\ new.op = call
  BY DEF End
<1> HIDE DEF new
<1>2. calls' \in Seq(In(calls) \cup {new}) /\ Len(calls) \in Nat
      /\ Len(calls') = Len(calls) + 1 /\ calls'[Len(calls) + 1] = new
      /\ \A i \in 1 .. Len(calls) : calls'[i] = calls[i]
  BY <1>1
<1> QED BY <1>1, <1>2, SequenceOfItself DEF End

(* Nothing but the end of a traversal changes the program's value. *)
LEMMA OnlyEndsChangeValue ==
  ASSUME [Next]_vars
  PROVE  UNCHANGED <<value, calls>> \/ \E result, ok : End(result, ok)
<1>1. CASE Start
  BY <1>1 DEF Start, BeginWalk, BeginTransform, BeginMarkWithPaths, BeginWrangle,
         BeginUnmarkWithPaths, Begin
<1>2. CASE Step
  BY <1>2 DEF Step, Down, WalkVisit, WalkHalt, WalkLeave, TransformEnter,
         TransformExit, TransformFails, MarkWithPathsExit, WrangleMark, UnmarkWithPaths,
         WrangleInto, WrangleLeave, Return, ReturnUnchanged
<1> QED BY <1>1, <1>2 DEF Next, Extend, vars

LEMMA RestoreInitially == Init => RestoreInv
BY DEF Init, RestoreInv, NotesOK, EndedOnly, Ended, In

(* UnmarkDeepWithPaths ends with no mark left and each one noted, and      *)
(* MarkWithPaths with the marks restored; nothing is claimed of others.    *)
LEMMA EndingRestores ==
  ASSUME IInv, RestoreInv, [Next]_vars, NEW result, NEW ok, End(result, ok)
  PROVE  RestoreInv'
<1>1. /\ calls' \in Seq(In(calls')) /\ Len(calls) \in Nat /\ Len(calls') = Len(calls) + 1
      /\ calls'[Len(calls) + 1].op = call
      /\ \A i \in 1 .. Len(calls) : calls'[i] = calls[i]
      /\ value' = result /\ call' = "none"
  BY EndingAddsACall DEF RestoreInv
<1>2. NotesOK' /\ calls' # << >>
  BY <1>1, NotesStay DEF RestoreInv
<1>3. /\ calls = << >> \/ Len(calls) \in Nat \ {0}
      /\ calls' # calls
  <2>1. Len(calls') # Len(calls)
    BY <1>1
  <2> QED BY <1>1, <2>1 DEF RestoreInv
<1>4. ASSUME EndedOnly("UnmarkDeepWithPaths")'
      PROVE  value' = Bare /\ AllNoted'
  <2>1. Len(calls) = 0 /\ calls = << >> /\ call = "UnmarkDeepWithPaths"
    BY <1>1, <1>3, <1>4 DEF EndedOnly, RestoreInv
  <2>2. value = Given /\ UnmarkingOK
    BY <2>1 DEF RestoreInv
  <2>3. End(Bare, TRUE) /\ AllNoted'
    <3>1. UNCHANGED calls \/ (End(Bare, TRUE) /\ AllNoted')
      BY <2>1, <2>2, UnmarkingGoesOn DEF RestoreInv
    <3> QED BY <1>3, <3>1
  <2> QED BY <2>3 DEF End
<1>5. ASSUME Ended("UnmarkDeepWithPaths", "MarkWithPaths")'
      PROVE  value' = Given
  <2>1. EndedOnly("UnmarkDeepWithPaths") /\ call = "MarkWithPaths"
    <3>1. Len(calls) = 1 /\ 1 \in 1 .. Len(calls)
      <4>1. Len(calls') = 2
        BY <1>5 DEF Ended
      <4> DEFINE k == Len(calls)
      <4>2. k \in Nat /\ k + 1 = 2
        BY <1>1, <4>1
      <4> HIDE DEF k
      <4>3. k = 1
        BY <4>2
      <4> QED BY <4>3 DEF k
    <3>2. calls'[1] = calls[1] /\ calls'[2].op = call
      BY <1>1, <3>1
    <3> QED BY <1>5, <3>1, <3>2 DEF EndedOnly, Ended
  <2>2. AllNoted /\ MarkingOK
    BY <2>1 DEF RestoreInv
  <2>3. UNCHANGED calls \/ End(Given, TRUE)
    BY <2>1, <2>2, MarkingGoesOn DEF RestoreInv
  <2>4. End(Given, TRUE)
    BY <1>3, <2>3
  <2> QED BY <2>4 DEF End
<1> QED BY <1>1, <1>2, <1>4, <1>5 DEF RestoreInv

(* The notes change only in UnmarkDeepWithPaths. *)
LEMMA NotesAreKept ==
  ASSUME [Next]_vars, call # "UnmarkDeepWithPaths", call' # "UnmarkDeepWithPaths"
  PROVE  UNCHANGED pvm
<1>1. CASE Start
  BY <1>1 DEF Start, BeginWalk, BeginTransform, BeginMarkWithPaths, BeginWrangle,
         BeginUnmarkWithPaths, Begin
<1>2. CASE Step
  BY <1>2 DEF Step, Down, WalkVisit, WalkHalt, WalkLeave, TransformEnter,
         TransformExit, TransformFails, MarkWithPathsExit, WrangleMark, UnmarkWithPaths,
         WrangleInto, WrangleLeave, Entering, Running
<1> QED BY <1>1, <1>2 DEF Next, Extend, vars

(* A traversal begins only when the one before it has ended. *)
LEMMA NewTraversals ==
  ASSUME calls \in Seq(In(calls)), [Next]_vars, call' # call, UNCHANGED calls
  PROVE  /\ call = "none" /\ (call' = "UnmarkDeepWithPaths" => BeginUnmarkWithPaths)
         /\ call' = "MarkWithPaths" => BeginMarkWithPaths
<1>1. CASE Start
  <2>1. ASSUME NEW op, NEW h, NEW path, Begin(op, h, path)
        PROVE  call = "none" /\ call' = op
    BY <2>1 DEF Begin
  <2>2. /\ call = "none"
        /\ \/ call' \notin {"UnmarkDeepWithPaths", "MarkWithPaths"}
           \/ call' = "UnmarkDeepWithPaths" /\ BeginUnmarkWithPaths
           \/ call' = "MarkWithPaths" /\ BeginMarkWithPaths
    BY <1>1, <2>1 DEF Start, BeginWalk, BeginTransform, BeginMarkWithPaths, BeginWrangle,
           BeginUnmarkWithPaths
  <2> QED BY <2>2
<1>2. CASE Step
  <2>1. UNCHANGED call \/ \E result, ok : End(result, ok)
    BY <1>2 DEF Step, Down, WalkVisit, WalkHalt, WalkLeave, TransformEnter,
           TransformExit, TransformFails, MarkWithPathsExit, WrangleMark, UnmarkWithPaths,
           WrangleInto, WrangleLeave, Return, ReturnUnchanged
  <2>2. ASSUME NEW result, NEW ok, End(result, ok) PROVE calls' # calls
    <3>1. Len(calls') = Len(calls) + 1 /\ Len(calls) \in Nat
      BY <2>2, EndingAddsACall
    <3> QED BY <3>1
  <2> QED BY <2>1, <2>2
<1> QED BY <1>1, <1>2 DEF Next, Extend, vars

(* The invariant holds on, within a traversal and when one begins. *)
LEMMA GoingOnRestores ==
  ASSUME IInv, RestoreInv, [Next]_vars, UNCHANGED <<value, calls>>
  PROVE  RestoreInv'
<1>1. NotesOK' /\ calls' \in Seq(In(calls'))
  BY NotesStay DEF RestoreInv
<1>2. ASSUME calls = << >>, call' = "UnmarkDeepWithPaths"
      PROVE  UnmarkingOK'
  <2>1. CASE call = "UnmarkDeepWithPaths"
    <3>1. value = Given /\ UnmarkingOK
      BY <1>2, <2>1 DEF RestoreInv
    <3>2. UnmarkingOK' \/ End(Bare, TRUE)
      BY <2>1, <3>1, UnmarkingGoesOn DEF RestoreInv
    <3> QED BY <1>2, <3>2 DEF End
  <2>2. CASE call # "UnmarkDeepWithPaths"
    BY <1>2, <2>2, NewTraversals, BeginningUnmarks DEF RestoreInv
  <2> QED BY <2>1, <2>2
<1>3. ASSUME EndedOnly("UnmarkDeepWithPaths"), call' # "UnmarkDeepWithPaths"
      PROVE  AllNoted' /\ (call' = "MarkWithPaths" => MarkingOK')
  <2>1. call # "UnmarkDeepWithPaths"
    BY <1>3, NewTraversals DEF RestoreInv
  <2>2. UNCHANGED pvm
    BY <1>3, <2>1, NotesAreKept
  <2>3. AllNoted /\ value = Bare /\ (call = "MarkWithPaths" => MarkingOK)
    BY <1>3, <2>1 DEF RestoreInv
  <2>4. AllNoted'
    BY <2>2, <2>3, UnchangedNotes DEF AllNoted, RestoreInv
  <2>5. ASSUME call' = "MarkWithPaths" PROVE MarkingOK'
    <3>1. CASE call = "MarkWithPaths"
      <4>1. MarkingOK' \/ End(Given, TRUE)
        BY <2>3, <3>1, MarkingGoesOn DEF RestoreInv
      <4> QED BY <2>5, <4>1 DEF End
    <3>2. CASE call # "MarkWithPaths"
      BY <2>3, <2>5, <3>2, NewTraversals, BeginningMarks DEF RestoreInv
    <3> QED BY <3>1, <3>2
  <2> QED BY <2>4, <2>5
<1>4. /\ calls' = << >> => calls = << >>
      /\ EndedOnly("UnmarkDeepWithPaths")' => EndedOnly("UnmarkDeepWithPaths")
      /\ Ended("UnmarkDeepWithPaths", "MarkWithPaths")' => Ended("UnmarkDeepWithPaths", "MarkWithPaths")
  BY DEF EndedOnly, Ended
<1> QED BY <1>1, <1>2, <1>3, <1>4 DEF RestoreInv

LEMMA RestoreHolds == Spec => []RestoreInv
<1>1. Init => RestoreInv
  BY RestoreInitially
<1>2. ASSUME IInv, RestoreInv, [Next]_vars PROVE RestoreInv'
  <2>1. CASE UNCHANGED <<value, calls>>
    BY <1>2, <2>1, GoingOnRestores
  <2>2. ASSUME NEW result, NEW ok, End(result, ok) PROVE RestoreInv'
    BY <1>2, <2>2, EndingRestores
  <2> QED BY <1>2, <2>1, <2>2, OnlyEndsChangeValue
<1>3. Spec => []IInv
  BY IInvHolds
<1> QED BY <1>1, <1>2, <1>3, PTL DEF Spec

(* UnmarkDeepWithPaths leaves no mark anywhere in the value, and the       *)
(* MarkWithPaths after it puts every mark back on the part it was on       *)
(* (marks.go:351), whatever the order in which parts and marks are         *)
(* visited, and although it finds the parts by comparing paths.            *)
THEOREM MarksAreRestored == Spec => []UnmarkThenMarkRestores
<1>1. RestoreInv => UnmarkThenMarkRestores
  <2>1. ASSUME RestoreInv, Ops = <<"UnmarkDeepWithPaths">>
        PROVE  \A p \in DOMAIN value : value[p] = {}
    <3>1. EndedOnly("UnmarkDeepWithPaths")
      BY <2>1 DEF Ops, EndedOnly, RestoreInv
    <3> QED BY <2>1, <3>1 DEF RestoreInv, Bare
  <2>2. ASSUME RestoreInv, Ops = <<"UnmarkDeepWithPaths", "MarkWithPaths">>
        PROVE  value = Given
    <3>1. Ended("UnmarkDeepWithPaths", "MarkWithPaths")
      BY <2>2 DEF Ops, Ended, RestoreInv
    <3> QED BY <2>2, <3>1 DEF RestoreInv
  <2> QED BY <2>1, <2>2 DEF UnmarkThenMarkRestores
<1> QED BY <1>1, RestoreHolds, PTL

----------------------------------------------------------------------------
(* The tree of parts, which is finite.                                     *)

LEMMA WaysAreShort ==
  ASSUME NEW p, NEW w, IsWay(w, Root, p)
  PROVE  Cardinality(Parts) \in Nat /\ Len(w) <= Cardinality(Parts)
<1>1. /\ w \in Seq(Parts) /\ Len(w) \in Nat /\ Len(w) >= 1 /\ w[1] = Root
      /\ \A i \in 1 .. Len(w) - 1 : w[i + 1] \in In(Kids[w[i]])
  BY DEF IsWay
<1>2. ASSUME NEW i \in 1 .. Len(w), NEW j \in 1 .. Len(w), i < j
      PROVE  w[i] # w[j]
  <2> DEFINE u == SubSeq(w, 1, i)
             v == SubSeq(w, 1, j)
  <2>1. /\ u \in Seq(Parts) /\ Len(u) = i /\ \A k \in 1 .. i : u[k] = w[k]
        /\ v \in Seq(Parts) /\ Len(v) = j /\ \A k \in 1 .. j : v[k] = w[k]
    BY <1>1, <1>2
  <2> HIDE DEF u, v
  <2>2. /\ Len(u) >= 1 /\ u[1] = Root /\ u[Len(u)] = w[i]
        /\ \A k \in 1 .. Len(u) - 1 : u[k + 1] \in In(Kids[u[k]])
    BY <1>1, <1>2, <2>1
  <2>3. /\ Len(v) >= 1 /\ v[1] = Root /\ v[Len(v)] = w[j]
        /\ \A k \in 1 .. Len(v) - 1 : v[k + 1] \in In(Kids[v[k]])
    <3>1. j \in Nat /\ j >= 1 /\ j <= Len(w) /\ 1 \in 1 .. j
      BY <1>1
    <3>2. ASSUME NEW k \in 1 .. j - 1 PROVE v[k + 1] \in In(Kids[v[k]])
      <4>1. k \in 1 .. j /\ k + 1 \in 1 .. j /\ k \in 1 .. Len(w) - 1
        BY <1>1, <3>1
      <4> QED BY <1>1, <2>1, <4>1
    <3> QED BY <1>1, <2>1, <3>1, <3>2
  <2>4. IsWay(u, Root, w[i]) /\ IsWay(v, Root, w[j])
    BY <2>1, <2>2, <2>3 DEF IsWay
  <2> QED BY <1>2, <2>1, <2>4, NoLongerWay
<1>3. w \in Injection(1 .. Len(w), Parts)
  <2>1. w \in [1 .. Len(w) -> Parts]
    BY <1>1
  <2>2. ASSUME NEW i \in 1 .. Len(w), NEW j \in 1 .. Len(w), w[i] = w[j]
        PROVE  i = j
    BY <1>1, <1>2, <2>2
  <2> QED BY <2>1, <2>2 DEF Injection, IsInjective
<1>4. Cardinality(1 .. Len(w)) <= Cardinality(Parts)
  BY <1>3, PartsAssumption, FS_Injection
<1>5. Cardinality(1 .. Len(w)) = Len(w)
  BY <1>1, FS_Interval
<1> QED BY <1>4, <1>5, PartsAssumption, FS_CardinalityType

(* A way into a part, and on from it into another. *)
LEMMA LongerWay ==
  ASSUME NEW p, NEW q, NEW r, NEW u, IsWay(u, p, q), q \in Parts,
         NEW k \in In(Kids[q]), NEW v, IsWay(v, k, r)
  PROVE  \E w : IsWay(w, p, r) /\ Len(w) = Len(u) + Len(v) /\ w[Len(u) + 1] = k
<1> DEFINE w == u \o v
<1>1. /\ u \in Seq(Parts) /\ Len(u) \in Nat /\ Len(u) >= 1 /\ u[1] = p /\ u[Len(u)] = q
      /\ v \in Seq(Parts) /\ Len(v) \in Nat /\ Len(v) >= 1 /\ v[1] = k /\ v[Len(v)] = r
      /\ \A i \in 1 .. Len(u) - 1 : u[i + 1] \in In(Kids[u[i]])
      /\ \A i \in 1 .. Len(v) - 1 : v[i + 1] \in In(Kids[v[i]])
  BY DEF IsWay
<1>2. /\ w \in Seq(Parts) /\ Len(w) = Len(u) + Len(v)
      /\ \A i \in 1 .. Len(u) : w[i] = u[i]
      /\ \A i \in 1 .. Len(v) : w[Len(u) + i] = v[i]
  BY <1>1
<1> HIDE DEF w
<1>3. w[1] = p /\ w[Len(w)] = r /\ w[Len(u) + 1] = k /\ Len(w) >= 1
  BY <1>1, <1>2
<1>4. ASSUME NEW i \in 1 .. Len(w) - 1
      PROVE  w[i + 1] \in In(Kids[w[i]])
  <2>1. CASE i < Len(u)
    BY <1>1, <1>2, <1>4, <2>1
  <2>2. CASE i = Len(u)
    BY <1>1, <1>2, <1>3, <1>4, <2>2
  <2>3. CASE i > Len(u)
    <3> DEFINE j == i - Len(u)
    <3>1. j \in 1 .. Len(v) - 1 /\ i = Len(u) + j /\ i + 1 = Len(u) + (j + 1)
          /\ j \in 1 .. Len(v) /\ j + 1 \in 1 .. Len(v)
      BY <1>1, <1>2, <1>4, <2>3
    <3> HIDE DEF j
    <3>2. w[i] = v[j] /\ w[i + 1] = v[j + 1]
      BY <1>2, <3>1
    <3> QED BY <1>1, <3>1, <3>2
  <2> QED BY <1>1, <1>4, <2>1, <2>2, <2>3
<1>5. IsWay(w, p, r)
  BY <1>2, <1>3, <1>4 DEF IsWay
<1> QED BY <1>2, <1>3, <1>5

LEMMA WaysLeadBelow ==
  ASSUME NEW p, NEW q, NEW w, IsWay(w, p, q)
  PROVE  p \in Parts /\ q \in Parts /\ Below[q] \subseteq Below[p]
<1>1. /\ w \in Seq(Parts) /\ Len(w) \in Nat /\ Len(w) >= 1 /\ w[1] = p /\ w[Len(w)] = q
      /\ \A i \in 1 .. Len(w) - 1 : w[i + 1] \in In(Kids[w[i]])
  BY DEF IsWay
<1> DEFINE S == {n \in Nat : n < Len(w) /\ ~(Below[q] \subseteq Below[w[Len(w) - n]])}
<1>2. S = {}
  <2> SUFFICES ASSUME S # {} PROVE FALSE
    OBVIOUS
  <2>1. PICK n \in S : \A m \in S : n <= m
    BY LeastNumber
  <2>2. n \in Nat /\ n < Len(w) /\ ~(Below[q] \subseteq Below[w[Len(w) - n]])
    OBVIOUS
  <2>3. n > 0
    BY <1>1, <2>2
  <2>4. n - 1 \notin S
    BY <2>1, <2>2, <2>3
  <2>5. Below[q] \subseteq Below[w[Len(w) - (n - 1)]]
    BY <1>1, <2>2, <2>3, <2>4
  <2> HIDE DEF S
  <2> DEFINE i == Len(w) - n
  <2>6. i \in 1 .. Len(w) - 1 /\ Len(w) - (n - 1) = i + 1 /\ i \in 1 .. Len(w)
    BY <1>1, <2>2, <2>3
  <2>7. Below[q] \subseteq Below[w[i + 1]] /\ ~(Below[q] \subseteq Below[w[i]])
    BY <2>2, <2>5, <2>6
  <2> HIDE DEF i
  <2>8. w[i] \in Parts /\ w[i + 1] \in In(Kids[w[i]])
    BY <1>1, <2>6
  <2> QED BY <2>7, <2>8, BelowAPart
<1>3. Len(w) - 1 \notin S
  BY <1>2
<1>4. Len(w) - 1 \in Nat /\ Len(w) - 1 < Len(w) /\ Len(w) - (Len(w) - 1) = 1
  BY <1>1
<1>5. Below[q] \subseteq Below[p]
  BY <1>1, <1>3, <1>4
<1> QED BY <1>1, <1>5

LEMMA OneStepFurther ==
  ASSUME NEW p, NEW q \in Parts, NEW u, IsWay(u, p, q), NEW k \in In(Kids[q])
  PROVE  \E w : IsWay(w, p, k) /\ Len(w) = Len(u) + 1
<1> DEFINE w == Append(u, k)
<1>1. /\ u \in Seq(Parts) /\ Len(u) \in Nat /\ Len(u) >= 1 /\ u[1] = p /\ u[Len(u)] = q
      /\ \A i \in 1 .. Len(u) - 1 : u[i + 1] \in In(Kids[u[i]])
  BY DEF IsWay
<1>2. k \in Parts
  BY KidsAreParts
<1>3. /\ w \in Seq(Parts) /\ Len(w) = Len(u) + 1 /\ w[Len(u) + 1] = k
      /\ \A i \in 1 .. Len(u) : w[i] = u[i]
  BY <1>1, <1>2
<1> HIDE DEF w
<1>4. \A i \in 1 .. Len(w) - 1 : w[i + 1] \in In(Kids[w[i]])
  BY <1>1, <1>3
<1>5. IsWay(w, p, k)
  BY <1>1, <1>3, <1>4 DEF IsWay
<1> QED BY <1>3, <1>5

(* Of the ways down towards a part, the longest leads to it. *)
LEMMA WaysGoOn ==
  ASSUME NEW p \in Parts, NEW u, IsWay(u, Root, p), NEW q \in Below[p]
  PROVE  \E w : IsWay(w, p, q)
<1> DEFINE B == Cardinality(Parts)
           Long(n) == \E w, r : IsWay(w, p, r) /\ q \in Below[r] /\ B - Len(w) = n
           S == {n \in Nat : Long(n)}
<1>1. ASSUME NEW w, NEW r, IsWay(w, p, r)
      PROVE  Len(w) \in Nat /\ Len(w) >= 1 /\ Len(w) <= B /\ r \in Parts
  <2>1. /\ w \in Seq(Parts) /\ Len(w) \in Nat /\ Len(w) >= 1 /\ w[1] = p /\ w[Len(w)] = r
        /\ \A i \in 1 .. Len(w) - 1 : w[i + 1] \in In(Kids[w[i]])
    BY <1>1 DEF IsWay
  <2>2. u \in Seq(Parts) /\ Len(u) \in Nat /\ Len(u) >= 1 /\ B \in Nat /\ Len(u) <= B
    BY WaysAreShort DEF IsWay
  <2>3. CASE Len(w) = 1
    BY <2>1, <2>2, <2>3
  <2>4. CASE Len(w) > 1
    <3> DEFINE v == Tail(w)
    <3>1. /\ v \in Seq(Parts) /\ Len(v) = Len(w) - 1
          /\ \A i \in 1 .. Len(w) - 1 : v[i] = w[i + 1]
      BY <2>1, <2>4
    <3> HIDE DEF v
    <3>2. /\ Len(v) >= 1 /\ v[1] = w[2] /\ v[Len(v)] = r
          /\ \A i \in 1 .. Len(v) - 1 : v[i + 1] \in In(Kids[v[i]])
      BY <2>1, <2>4, <3>1
    <3>3. IsWay(v, w[2], r) /\ w[2] \in In(Kids[p])
      BY <2>1, <2>4, <3>1, <3>2 DEF IsWay
    <3>4. PICK x : IsWay(x, Root, r) /\ Len(x) = Len(u) + Len(v)
      BY <3>3, LongerWay
    <3>5. Len(u) + Len(v) <= B
      BY <3>4, WaysAreShort
    <3>6. r \in Parts
      BY <2>1
    <3> DEFINE a == Len(u)
               b == Len(v)
               c == Len(w)
    <3>7. B \in Nat /\ a \in Nat /\ b \in Nat /\ c \in Nat /\ b = c - 1 /\ a >= 1 /\ a + b <= B
          /\ c >= 1
      BY <2>1, <2>2, <3>1, <3>5
    <3> HIDE DEF B, a, b, c
    <3>8. c <= B
      BY <3>7
    <3> QED BY <3>6, <3>7, <3>8 DEF c
  <2> HIDE DEF B, Long, S
  <2>5. Len(w) \in Nat /\ Len(w) >= 1
    BY <2>1
  <2> DEFINE c == Len(w)
  <2>6. c = 1 \/ c > 1
    <3> HIDE DEF c
    <3>1. c \in Nat /\ c >= 1
      BY <2>5 DEF c
    <3> QED BY <3>1
  <2> QED BY <2>3, <2>4, <2>6
<1>2. IsWay(<<p>>, p, p)
  BY DEF IsWay
<1>3. B \in Nat /\ B >= 1
  <2>1. Len(u) >= 1 /\ Len(u) \in Nat
    BY DEF IsWay
  <2>2. B \in Nat /\ Len(u) <= B
    BY WaysAreShort
  <2> HIDE DEF B
  <2> QED BY <2>1, <2>2
<1>4. S # {}
  <2>1. Long(B - 1)
    <3>1. Len(<<p>>) = 1 /\ q \in Below[p]
      OBVIOUS
    <3> HIDE DEF B
    <3> QED BY <1>2, <3>1
  <2>2. B - 1 \in Nat
    BY <1>3
  <2> HIDE DEF Long, B
  <2> QED BY <2>1, <2>2
<1>5. PICK n \in S : \A m \in S : n <= m
  <2> HIDE DEF Long
  <2> QED BY <1>4, LeastNumber
<1>6. n \in Nat /\ Long(n)
  OBVIOUS
<1>7. PICK w, r : IsWay(w, p, r) /\ q \in Below[r] /\ B - Len(w) = n
  BY <1>6
<1>8. r \in Parts /\ Len(w) \in Nat
  BY <1>1, <1>7
<1>9. r = q
  <2> SUFFICES ASSUME r # q PROVE FALSE
    OBVIOUS
  <2>1. PICK k \in In(Kids[r]) : q \in Below[k]
    BY <1>7, <1>8, BelowAPart
  <2>2. PICK v : IsWay(v, p, k) /\ Len(v) = Len(w) + 1
    <3> HIDE DEF B, Long, S
    <3>1. IsWay(w, p, r) /\ r \in Parts
      BY <1>7, <1>8
    <3> QED BY <3>1, OneStepFurther
  <2>3. Len(v) <= B /\ Len(v) \in Nat
    BY <1>1, <2>2
  <2>4. B - Len(v) = n - 1 /\ n - 1 \in Nat
    <3> DEFINE b == Len(v)
               c == Len(w)
    <3>1. b \in Nat /\ c \in Nat /\ b = c + 1 /\ b <= B /\ B \in Nat /\ n \in Nat /\ B - c = n
      BY <1>3, <1>6, <1>7, <1>8, <2>2, <2>3
    <3> HIDE DEF B, b, c
    <3>2. B - b = n - 1 /\ n - 1 \in Nat
      BY <3>1
    <3> QED BY <3>2 DEF b
  <2>5. Long(n - 1)
    <3> HIDE DEF B
    <3> QED BY <2>1, <2>2, <2>4
  <2> HIDE DEF Long, B
  <2>6. n - 1 \in S
    BY <2>4, <2>5
  <2>7. n <= n - 1
    BY <1>5, <2>6
  <2> QED BY <1>6, <2>7
<1> QED BY <1>7, <1>9

(* A way leads from a part to every part in it. *)
LEMMA BelowByWays ==
  ASSUME NEW p \in Parts, NEW q \in Below[p]
  PROVE  /\ \E w : IsWay(w, p, q)
         /\ \E w : IsWay(w, Root, q)
         /\ q \in Parts /\ Below[q] \subseteq Below[p]
<1>1. Root \in Parts /\ IsWay(<<Root>>, Root, Root) /\ p \in Below[Root]
  BY TreeAssumption, ShapeAssumption DEF IsWay
<1>2. PICK u : IsWay(u, Root, p)
  BY <1>1, WaysGoOn
<1>3. PICK w : IsWay(w, p, q)
  BY <1>2, WaysGoOn
<1>4. q \in Parts /\ Below[q] \subseteq Below[p]
  BY <1>3, WaysLeadBelow
<1>5. \E v : IsWay(v, Root, q)
  BY <1>1, <1>4, ShapeAssumption, WaysGoOn
<1> QED BY <1>3, <1>4, <1>5

LEMMA WayThroughAKid ==
  ASSUME NEW p \in Parts, NEW u, IsWay(u, Root, p), NEW k \in In(Kids[p]), NEW q \in Below[k]
  PROVE  \E w : IsWay(w, Root, q) /\ Len(u) < Len(w) /\ w[Len(u) + 1] = k
<1>1. k \in Parts
  BY KidsAreParts
<1>2. PICK v : IsWay(v, k, q)
  BY <1>1, BelowByWays
<1>3. Len(u) \in Nat /\ Len(v) \in Nat /\ Len(v) >= 1
  BY <1>2 DEF IsWay
<1>4. PICK w : IsWay(w, Root, q) /\ Len(w) = Len(u) + Len(v) /\ w[Len(u) + 1] = k
  BY <1>2, LongerWay
<1>5. Len(u) < Len(w)
  BY <1>3, <1>4
<1> QED BY <1>4, <1>5

(* No part is in another by two ways, nor in itself. *)
LEMMA KidsAreApart ==
  ASSUME NEW p \in Parts, NEW k \in In(Kids[p])
  PROVE  /\ k \in Parts /\ p \notin Below[k]
         /\ \A l \in In(Kids[p]) : l # k => Below[l] \cap Below[k] = {}
<1>1. k \in Parts
  BY KidsAreParts
<1>2. PICK u : IsWay(u, Root, p)
  BY BelowAPart, BelowByWays
<1>3. ASSUME p \in Below[k] PROVE FALSE
  <2>1. PICK w : IsWay(w, Root, p) /\ Len(u) < Len(w)
    BY <1>2, <1>3, WayThroughAKid
  <2> QED BY <1>2, <2>1, NoLongerWay
<1>4. ASSUME NEW l \in In(Kids[p]), l # k, NEW q \in Below[l], q \in Below[k]
      PROVE  FALSE
  <2>1. PICK v : IsWay(v, Root, q) /\ v[Len(u) + 1] = k
    BY <1>2, <1>4, WayThroughAKid
  <2>2. PICK w : IsWay(w, Root, q) /\ w[Len(u) + 1] = l
    BY <1>2, <1>4, WayThroughAKid
  <2>3. v = w
    BY <2>1, <2>2, OneWay
  <2> QED BY <1>4, <2>1, <2>2, <2>3
<1> QED BY <1>1, <1>3, <1>4

LEMMA BelowIsAnOrder ==
  ASSUME NEW p \in Parts, NEW q \in Below[p], p \in Below[q]
  PROVE  p = q
<1> SUFFICES ASSUME p # q PROVE FALSE
  OBVIOUS
<1>1. PICK k \in In(Kids[p]) : q \in Below[k]
  BY BelowAPart
<1>2. k \in Parts /\ p \notin Below[k]
  BY KidsAreApart
<1>3. Below[q] \subseteq Below[k]
  BY <1>1, <1>2, BelowByWays
<1> QED BY <1>2, <1>3

----------------------------------------------------------------------------
(* Every traversal: what the frames hold of the value.                     *)

(* The marks of p and of parts in it: a part of a value has that value. *)
WellFormed(f, p) ==
  /\ f \in [DOMAIN f -> SUBSET Marks] /\ DOMAIN f \subseteq Below[p] /\ p \in DOMAIN f
  /\ \A r \in Below[p] : \A q \in Below[r] : q \in DOMAIN f => r \in DOMAIN f

(* The parts that a frame has yet to visit. *)
Waiting(f) == UNION {Below[k] : k \in f.todo}
Ahead(f) == IF f.inside THEN Waiting(f) ELSE Below[f.part]

(* What a frame f holds, given the parts that the frame inside it is of,   *)
(* if there is one, the value around it and the value v that op traverses. *)
FrameFits(f, inner, outer, v, op) ==
  /\ WellFormed(f.val, f.part) /\ f.todo \subseteq DOMAIN f.val
  /\ ~f.inside => f.todo = {}
  /\ \A k \in inner : f.inside /\ k \notin f.todo
  /\ DOMAIN f.val \subseteq DOMAIN outer /\ DOMAIN f.val \subseteq DOMAIN v
  /\ \A q \in Ahead(f) : q \in DOMAIN v => q \in DOMAIN f.val
  /\ op # "Transform" => DOMAIN f.val = Below[f.part] \cap DOMAIN v
  /\ f.top \subseteq Marks

InnerIn(s, i) == IF i < Len(s) THEN {s[i + 1].part} ELSE {}
AroundIn(s, i, v) == IF i = 1 THEN v ELSE s[i - 1].val

FramesFit(s, v, op) ==
  \A i \in DOMAIN s : FrameFits(s[i], InnerIn(s, i), AroundIn(s, i, v), v, op)

PartsInv == WellFormed(value, Root) /\ FramesFit(stack, value, call)

(* A part in p but not in its part k has nothing in k in it. *)
LEMMA Elsewhere ==
  ASSUME NEW p \in Parts, NEW k \in In(Kids[p]), NEW q \in Below[p], q # p, q \notin Below[k]
  PROVE  Below[q] \cap Below[k] = {}
<1>1. PICK l \in In(Kids[p]) : q \in Below[l]
  BY BelowAPart
<1>2. l \in Parts /\ l # k
  BY <1>1, KidsAreApart
<1>3. Below[q] \subseteq Below[l]
  BY <1>1, <1>2, BelowByWays
<1>4. Below[l] \cap Below[k] = {}
  BY <1>2, KidsAreApart
<1> QED BY <1>3, <1>4

LEMMA GoingDownFits ==
  ASSUME NEW f, NEW outer, NEW v, NEW op, FrameFits(f, {}, outer, v, op), f.inside,
         f.part \in Parts, f.todo \subseteq In(Kids[f.part]), NEW k \in f.todo, NEW t
  PROVE  FrameFits(Frame(k, t, f.val), {}, f.val, v, op)
<1> DEFINE g == Frame(k, t, f.val)
<1>1. /\ g.part = k /\ g.val = [q \in Below[k] \cap DOMAIN f.val |-> f.val[q]]
      /\ g.inside = FALSE /\ g.todo = {} /\ g.top = {}
  BY DEF Frame, Of
<1>2. /\ DOMAIN g.val = Below[k] \cap DOMAIN f.val
      /\ \A q \in Below[k] \cap DOMAIN f.val : g.val[q] = f.val[q]
  BY <1>1
<1> HIDE DEF g
<1>3. /\ f.val \in [DOMAIN f.val -> SUBSET Marks] /\ DOMAIN f.val \subseteq Below[f.part]
      /\ \A r \in Below[f.part] : \A q \in Below[r] : q \in DOMAIN f.val => r \in DOMAIN f.val
      /\ f.todo \subseteq DOMAIN f.val /\ DOMAIN f.val \subseteq DOMAIN v
      /\ \A q \in Ahead(f) : q \in DOMAIN v => q \in DOMAIN f.val
      /\ op # "Transform" => DOMAIN f.val = Below[f.part] \cap DOMAIN v
  BY DEF FrameFits, WellFormed
<1>4. k \in Parts /\ k \in Below[k] /\ Below[k] \subseteq Below[f.part] /\ k \in DOMAIN f.val
  BY <1>3, KidsAreParts, BelowAPart
<1>5. WellFormed(g.val, k)
  <2>1. g.val \in [DOMAIN g.val -> SUBSET Marks]
    BY <1>1, <1>2, <1>3
  <2>2. ASSUME NEW r \in Below[k], NEW q \in Below[r], q \in DOMAIN g.val
        PROVE  r \in DOMAIN g.val
    BY <1>2, <1>3, <1>4, <2>2
  <2> QED BY <1>2, <1>4, <2>1, <2>2 DEF WellFormed
<1>6. Below[k] \subseteq Ahead(f)
  BY DEF Ahead, Waiting
<1>7. Ahead(g) = Below[k]
  BY <1>1 DEF Ahead
<1>8. op # "Transform" => DOMAIN g.val = Below[k] \cap DOMAIN v
  BY <1>2, <1>3, <1>4
<1>9. FrameFits(g, {}, f.val, v, op)
  BY <1>1, <1>2, <1>3, <1>5, <1>6, <1>7, <1>8 DEF FrameFits
<1> QED BY <1>9 DEF g

LEMMA WaitingLessFits ==
  ASSUME NEW f, NEW outer, NEW v, NEW op, FrameFits(f, {}, outer, v, op), f.inside,
         NEW k \in f.todo, NEW g,
         g.part = f.part /\ g.val = f.val /\ g.inside = f.inside /\ g.top = f.top,
         g.todo = f.todo \ {k}
  PROVE  FrameFits(g, {k}, outer, v, op)
<1>1. Ahead(g) \subseteq Ahead(f)
  BY DEF Ahead, Waiting
<1> QED BY <1>1 DEF FrameFits

LEMMA GoingInFits ==
  ASSUME NEW f, NEW outer, NEW v, NEW op, FrameFits(f, {}, outer, v, op), ~f.inside,
         f.part \in Parts, NEW g, g.part = f.part /\ g.inside /\ g.top = f.top,
         g.val = f.val \/ (op = "Transform" /\ g.val = [q \in {f.part} |-> f.val[q]]),
         g.todo \subseteq In(Kids[f.part]), g.todo \subseteq DOMAIN g.val
  PROVE  FrameFits(g, {}, outer, v, op)
<1>1. /\ f.val \in [DOMAIN f.val -> SUBSET Marks] /\ DOMAIN f.val \subseteq Below[f.part]
      /\ f.part \in DOMAIN f.val /\ DOMAIN f.val \subseteq DOMAIN v
      /\ \A q \in Ahead(f) : q \in DOMAIN v => q \in DOMAIN f.val
      /\ DOMAIN f.val \subseteq DOMAIN outer
  BY DEF FrameFits, WellFormed
<1>2. Ahead(f) = Below[f.part] /\ Ahead(g) = UNION {Below[k] : k \in g.todo}
  BY DEF Ahead, Waiting
<1>3. Ahead(g) \subseteq Below[f.part]
  BY <1>2, BelowAPart
<1>4. CASE g.val = f.val
  BY <1>1, <1>2, <1>3, <1>4 DEF FrameFits
<1>5. CASE op = "Transform" /\ g.val = [q \in {f.part} |-> f.val[q]]
  <2>1. DOMAIN g.val = {f.part} /\ g.val \in [DOMAIN g.val -> SUBSET Marks]
    BY <1>1, <1>5
  <2>2. g.todo = {}
    BY <2>1, BelowAPart, KidsAreApart
  <2>3. \A r \in Below[f.part] : f.part \in Below[r] => r = f.part
    BY BelowIsAnOrder
  <2>4. f.part \in Below[f.part]
    BY BelowAPart
  <2>5. WellFormed(g.val, f.part)
    BY <2>1, <2>3, <2>4 DEF WellFormed
  <2>6. f.top \subseteq Marks
    BY DEF FrameFits
  <2> QED BY <1>1, <1>2, <1>5, <2>1, <2>2, <2>5, <2>6 DEF FrameFits
<1> QED BY <1>4, <1>5

(* New marks for the same parts. *)
LEMMA MarkingFits ==
  ASSUME NEW f, NEW inner, NEW outer, NEW v, NEW op, FrameFits(f, inner, outer, v, op), NEW g,
         g.part = f.part /\ g.inside = f.inside /\ g.todo = f.todo, g.top \subseteq Marks,
         g.val \in [DOMAIN f.val -> SUBSET Marks]
  PROVE  FrameFits(g, inner, outer, v, op)
<1>1. DOMAIN g.val = DOMAIN f.val
  OBVIOUS
<1>2. Ahead(g) = Ahead(f)
  BY DEF Ahead, Waiting
<1> QED BY <1>1, <1>2 DEF FrameFits, WellFormed

(* The result of the innermost frame f, taken into the frame o around it. *)
LEMMA TakenFields ==
  ASSUME NEW o, IsFrame(o), NEW result
  PROVE  /\ Taken(o, result).part = o.part /\ Taken(o, result).inside = o.inside
         /\ Taken(o, result).todo = o.todo /\ Taken(o, result).top = o.top
         /\ Taken(o, result).made /\ Taken(o, result).given = o.given
         /\ DOMAIN Taken(o, result).val = DOMAIN o.val \ (Below[Top.part] \ DOMAIN result)
         /\ \A q \in DOMAIN Taken(o, result).val :
              Taken(o, result).val[q] = IF q \in DOMAIN result THEN result[q] ELSE o.val[q]
BY DEF Taken, IsFrame

LEMMA TakingBackFits ==
  ASSUME NEW o, IsFrame(o), o.part \in Parts, NEW outer, NEW v, NEW op,
         FrameFits(o, {Top.part}, outer, v, op), Top.part \in In(Kids[o.part]),
         NEW result, WellFormed(result, Top.part), DOMAIN result \subseteq DOMAIN o.val,
         op # "Transform" => DOMAIN result = Below[Top.part] \cap DOMAIN v
  PROVE  FrameFits(Taken(o, result), {}, outer, v, op)
<1> DEFINE p == Top.part
           B == Below[p]
           g == Taken(o, result)
<1>1. /\ g.part = o.part /\ g.inside = o.inside /\ g.todo = o.todo /\ g.top = o.top
      /\ DOMAIN g.val = DOMAIN o.val \ (B \ DOMAIN result)
      /\ \A q \in DOMAIN g.val : g.val[q] = IF q \in DOMAIN result THEN result[q] ELSE o.val[q]
  BY TakenFields
<1>2. g.val = [q \in DOMAIN g.val |-> IF q \in DOMAIN result THEN result[q] ELSE o.val[q]]
  BY DEF Taken, IsFrame
<1> HIDE DEF g
<1>3. /\ o.val \in [DOMAIN o.val -> SUBSET Marks] /\ DOMAIN o.val \subseteq Below[o.part]
      /\ o.part \in DOMAIN o.val /\ o.todo \subseteq DOMAIN o.val
      /\ \A r \in Below[o.part] : \A q \in Below[r] : q \in DOMAIN o.val => r \in DOMAIN o.val
      /\ o.inside /\ p \notin o.todo /\ o.top \subseteq Marks
      /\ DOMAIN o.val \subseteq DOMAIN outer /\ DOMAIN o.val \subseteq DOMAIN v
      /\ \A q \in Ahead(o) : q \in DOMAIN v => q \in DOMAIN o.val
      /\ op # "Transform" => DOMAIN o.val = Below[o.part] \cap DOMAIN v
  BY DEF FrameFits, WellFormed
<1>4. /\ result \in [DOMAIN result -> SUBSET Marks] /\ DOMAIN result \subseteq B
      /\ p \in DOMAIN result
      /\ \A r \in B : \A q \in Below[r] : q \in DOMAIN result => r \in DOMAIN result
  BY DEF WellFormed
<1>5. /\ p \in Parts /\ p \in B /\ B \subseteq Below[o.part] /\ o.part \notin B
      /\ \A l \in o.todo : l \in In(Kids[o.part]) /\ l \in Below[l] /\ Below[l] \cap B = {}
  <2>1. p \in Parts /\ p \in B /\ B \subseteq Below[o.part] /\ o.part \notin B
    BY KidsAreApart, BelowAPart
  <2>2. o.todo \subseteq In(Kids[o.part])
    BY DEF IsFrame
  <2> HIDE DEF B
  <2>3. ASSUME NEW l \in o.todo PROVE l \in Below[l] /\ Below[l] \cap B = {}
    <3>1. l \in In(Kids[o.part]) /\ l # p /\ l \in Parts
      BY <1>3, <2>2, KidsAreParts
    <3> QED BY <3>1, KidsAreApart, BelowAPart DEF B
  <2> QED BY <2>1, <2>2, <2>3
<1>6. g.val \in [DOMAIN g.val -> SUBSET Marks]
  <2>1. ASSUME NEW q \in DOMAIN g.val PROVE g.val[q] \in SUBSET Marks
    <3>1. CASE q \in DOMAIN result
      BY <1>1, <1>4, <3>1
    <3>2. CASE q \notin DOMAIN result
      BY <1>1, <1>3, <3>2
    <3> QED BY <3>1, <3>2
  <2> QED BY <1>2, <2>1
<1>7. ASSUME NEW r \in Below[o.part], NEW q \in Below[r], q \in DOMAIN g.val
      PROVE  r \in DOMAIN g.val
  <2>1. r \in DOMAIN o.val
    BY <1>1, <1>3, <1>7
  <2>2. CASE r \in B
    <3>1. q \in B
      BY <1>5, <2>2, BelowByWays
    <3> QED BY <1>1, <1>4, <1>7, <2>1, <2>2, <3>1
  <2> QED BY <1>1, <2>1, <2>2
<1>8. WellFormed(g.val, g.part)
  BY <1>1, <1>3, <1>5, <1>6, <1>7 DEF WellFormed
<1>9. Ahead(g) = Ahead(o) /\ Ahead(o) = UNION {Below[l] : l \in o.todo}
  BY <1>1, <1>3 DEF Ahead, Waiting
<1>10. Ahead(o) \cap B = {}
  BY <1>5, <1>9
<1>11. g.todo \subseteq DOMAIN g.val
  BY <1>1, <1>3, <1>5
<1>12. op # "Transform" => DOMAIN g.val = Below[g.part] \cap DOMAIN v
  BY <1>1, <1>3, <1>4
<1>13. \A q \in Ahead(g) : q \in DOMAIN v => q \in DOMAIN g.val
  BY <1>1, <1>3, <1>9, <1>10
<1>14. FrameFits(g, {}, outer, v, op)
  BY <1>1, <1>3, <1>8, <1>11, <1>12, <1>13 DEF FrameFits
<1> QED BY <1>14 DEF g

----------------------------------------------------------------------------
(* What every step does to the frames.                                     *)

(* Frame g is frame f, but for the marks collected to be expanded. *)
Alike(g, f) ==
  /\ g.part = f.part /\ g.val = f.val /\ g.inside = f.inside /\ g.todo = f.todo
  /\ g.made = f.made /\ g.given = f.given /\ g.top \subseteq f.top \cup Marks

(* Frames further out than the m-th are as they were. *)
OuterAlike(m) ==
  /\ m \in DOMAIN stack /\ m \in DOMAIN stack' /\ stack'[m].part = stack[m].part
  /\ Len(stack) \in Nat /\ DOMAIN stack = 1 .. Len(stack)
  /\ Len(stack') \in Nat /\ DOMAIN stack' = 1 .. Len(stack')
  /\ \A i \in 1 .. m - 1 : Alike(stack'[i], stack[i])

LEMMA OuterFramesAlike ==
  ASSUME NEW m, OuterAlike(m), NEW v
  PROVE  /\ \A i \in 1 .. m - 1 : /\ i \in DOMAIN stack /\ Alike(stack'[i], stack[i])
                                  /\ InnerIn(stack', i) = InnerIn(stack, i)
                                  /\ AroundIn(stack', i, v) = AroundIn(stack, i, v)
         /\ AroundIn(stack', m, v) = AroundIn(stack, m, v)
<1>1. /\ m \in 1 .. Len(stack) /\ m \in 1 .. Len(stack') /\ Len(stack) \in Nat
      /\ Len(stack') \in Nat /\ DOMAIN stack = 1 .. Len(stack)
      /\ \A i \in 1 .. m : stack'[i].part = stack[i].part
      /\ \A i \in 1 .. m - 1 : Alike(stack'[i], stack[i])
  BY DEF OuterAlike, Alike
<1>2. \A i \in 1 .. m - 1 : stack'[i].val = stack[i].val
  BY <1>1 DEF Alike
<1>3. ASSUME NEW i \in 1 .. m
      PROVE  AroundIn(stack', i, v) = AroundIn(stack, i, v)
  <2>1. i # 1 => i - 1 \in 1 .. m - 1
    BY <1>1
  <2> QED BY <1>2, <2>1 DEF AroundIn
<1>4. ASSUME NEW i \in 1 .. m - 1
      PROVE  i \in DOMAIN stack /\ InnerIn(stack', i) = InnerIn(stack, i)
  <2>1. i \in 1 .. Len(stack) /\ i < Len(stack) /\ i < Len(stack') /\ i + 1 \in 1 .. m
    BY <1>1
  <2> QED BY <1>1, <2>1 DEF InnerIn
<1>5. m \in 1 .. m /\ \A i \in 1 .. m - 1 : i \in 1 .. m
  BY <1>1
<1> QED BY <1>1, <1>3, <1>4, <1>5

LEMMA AlikeFits ==
  ASSUME NEW f, NEW g, Alike(g, f), NEW inner, NEW outer, NEW v, NEW op,
         FrameFits(f, inner, outer, v, op)
  PROVE  FrameFits(g, inner, outer, v, op)
<1>1. Ahead(g) = Ahead(f)
  BY DEF Alike, Ahead, Waiting
<1> QED BY <1>1 DEF Alike, FrameFits

LEMMA OuterFramesFit ==
  ASSUME NEW v, NEW op, FramesFit(stack, v, op), NEW m, OuterAlike(m)
  PROVE  \A i \in 1 .. m - 1 :
           FrameFits(stack'[i], InnerIn(stack', i), AroundIn(stack', i, v), v, op)
<1> TAKE i \in 1 .. m - 1
<1>1. /\ i \in DOMAIN stack /\ Alike(stack'[i], stack[i])
      /\ InnerIn(stack', i) = InnerIn(stack, i) /\ AroundIn(stack', i, v) = AroundIn(stack, i, v)
  BY OuterFramesAlike
<1>2. FrameFits(stack[i], InnerIn(stack, i), AroundIn(stack, i, v), v, op)
  BY <1>1 DEF FramesFit
<1> QED BY <1>1, <1>2, AlikeFits

LEMMA TopFrameFits ==
  ASSUME IInv, PartsInv, call # "none"
  PROVE  /\ Len(stack) \in DOMAIN stack /\ InnerIn(stack, Len(stack)) = {}
         /\ FrameFits(Top, {}, AroundIn(stack, Len(stack), value), value, call)
         /\ Top.part \in Parts /\ Top.todo \subseteq In(Kids[Top.part]) /\ IsFrame(Top)
         /\ WellFormed(value, Root)
<1>1. /\ Len(stack) \in Nat /\ Len(stack) >= 1 /\ DOMAIN stack = 1 .. Len(stack)
      /\ Top = stack[Len(stack)] /\ IsFrame(Top)
  BY TopIsAFrame
<1>2. Len(stack) \in DOMAIN stack /\ InnerIn(stack, Len(stack)) = {}
  BY <1>1 DEF InnerIn
<1>3. FrameFits(Top, {}, AroundIn(stack, Len(stack), value), value, call)
  BY <1>1, <1>2 DEF PartsInv, FramesFit
<1> QED BY <1>1, <1>2, <1>3 DEF IsFrame, PartsInv

(* The frame around the innermost one. *)
LEMMA OuterFrameFits ==
  ASSUME IInv, PartsInv, call # "none", Len(stack) # 1
  PROVE  LET n == Len(stack) - 1
             o == stack[n]
         IN /\ n \in DOMAIN stack /\ n + 1 = Len(stack) /\ IsFrame(o) /\ o.part \in Parts
            /\ o.todo \subseteq In(Kids[o.part]) /\ Top.part \in In(Kids[o.part])
            /\ InnerIn(stack, n) = {Top.part}
            /\ AroundIn(stack, Len(stack), value) = o.val
            /\ FrameFits(o, {Top.part}, AroundIn(stack, n, value), value, call)
<1> DEFINE n == Len(stack) - 1
           o == stack[n]
<1>1. /\ Len(stack) \in Nat /\ Len(stack) > 1 /\ DOMAIN stack = 1 .. Len(stack)
      /\ Top = stack[Len(stack)] /\ IsFrame(Top)
  BY TopIsAFrame
<1>2. n \in 1 .. Len(stack) /\ n + 1 = Len(stack) /\ n < Len(stack) /\ n # 0
  BY <1>1
<1>3. InnerIn(stack, n) = {Top.part}
  BY <1>1, <1>2 DEF InnerIn
<1>4. AroundIn(stack, Len(stack), value) = o.val
  BY <1>1 DEF AroundIn
<1>5. IsFrame(o) /\ Top.part \in In(Kids[o.part])
  <2>1. IsFrame(stack[n])
    BY <1>1, <1>2 DEF IInv, StackOK
  <2>2. stack[Len(stack)].part \in In(Kids[stack[n].part])
    BY <1>1 DEF IInv, StackOK
  <2> QED BY <1>1, <2>1, <2>2
<1>6. FrameFits(o, InnerIn(stack, n), AroundIn(stack, n, value), value, call)
  <2>1. n \in DOMAIN stack
    BY <1>1, <1>2
  <2> HIDE DEF n
  <2> QED BY <2>1 DEF PartsInv, FramesFit
<1>7. o.part \in Parts /\ o.todo \subseteq In(Kids[o.part])
  BY <1>5 DEF IsFrame
<1> HIDE DEF n
<1> QED BY <1>1, <1>2, <1>3, <1>4, <1>5, <1>6, <1>7 DEF n

(* Frame g is in place of the innermost one. *)
TopLike(g) ==
  /\ OuterAlike(Len(stack)) /\ Len(stack') = Len(stack) /\ Alike(stack'[Len(stack)], g)

LEMMA SameTopIsAlike ==
  ASSUME IInv, call # "none", NEW g, g.part = Top.part, TopIs(g)
  PROVE  TopLike(g)
<1>1. /\ Len(stack) \in Nat /\ Len(stack) >= 1 /\ DOMAIN stack = 1 .. Len(stack)
      /\ Top = stack[Len(stack)]
  BY TopIsAFrame
<1> QED BY <1>1 DEF TopIs, TopLike, OuterAlike, Alike

(* The mark to expand is noted in the outermost frame. *)
LEMMA ExpandingIsAlike ==
  ASSUME IInv, call # "none", NEW m \in Marks, stack' = Expand(m)
  PROVE  /\ TopLike(Visited(Top, m)) /\ stack'[1].top = stack[1].top \cup {m}
         /\ Visited(Top, m).part = Top.part /\ Visited(Top, m).val = Top.val
         /\ Visited(Top, m).inside = Top.inside /\ Visited(Top, m).todo = Top.todo
         /\ Visited(Top, m).made = Top.made /\ Visited(Top, m).top = Top.top
         /\ Visited(Top, m).given = Top.given \ {m}
<1> DEFINE n == Len(stack)
           g == Visited(Top, m)
           mid == [stack EXCEPT ![n] = g]
           first == [mid[1] EXCEPT !.top = @ \cup {m}]
<1>1. /\ n \in Nat /\ n >= 1 /\ DOMAIN stack = 1 .. n /\ Top = stack[n]
      /\ stack \in Seq(In(stack)) /\ \A i \in 1 .. n : IsFrame(stack[i])
  BY TopIsAFrame DEF IInv, StackOK
<1>2. /\ g.part = Top.part /\ g.val = Top.val /\ g.inside = Top.inside /\ g.todo = Top.todo
      /\ g.made = Top.made /\ g.given = Top.given \ {m} /\ g.top = Top.top /\ IsFrame(g)
  <2>1. IsFrame(Top)
    BY <1>1
  <2>2. g = [Top EXCEPT !.given = @ \ {m}]
    BY DEF Visited
  <2>3. IsFrame(g)
    BY <2>1, <2>2 DEF IsFrame
  <2>4. g.part = Top.part /\ g.val = Top.val /\ g.inside = Top.inside /\ g.todo = Top.todo
    BY <2>1, <2>2 DEF IsFrame
  <2>5. g.made = Top.made /\ g.given = Top.given \ {m} /\ g.top = Top.top
    BY <2>1, <2>2 DEF IsFrame
  <2> QED BY <2>3, <2>4, <2>5
<1> HIDE DEF g
<1>3. /\ DOMAIN mid = 1 .. n /\ mid[n] = g /\ \A i \in 1 .. n - 1 : mid[i] = stack[i]
      /\ mid \in Seq(In(stack) \cup {g})
  BY <1>1
<1>4. stack' = [mid EXCEPT ![1] = first]
  BY DEF Expand, WithTop, g
<1> HIDE DEF mid
<1>5. IsFrame(mid[1]) /\ mid[1].top = stack[1].top
  <2>1. CASE n = 1
    BY <1>1, <1>2, <1>3, <2>1
  <2>2. CASE n # 1
    <3>1. mid[1] = stack[1]
      BY <1>1, <1>3, <2>2
    <3> QED BY <1>1, <3>1
  <2> QED BY <2>1, <2>2
<1>6. Alike(first, mid[1]) /\ first.top = stack[1].top \cup {m}
  BY <1>5 DEF IsFrame, Alike
<1> HIDE DEF first, n
<1>7. /\ stack' \in Seq(In(stack) \cup {g, first}) /\ Len(stack') = n /\ DOMAIN stack' = 1 .. n
      /\ stack'[1] = first /\ \A i \in 2 .. n : stack'[i] = mid[i]
  BY <1>1, <1>3, <1>4
<1>8. \A i \in 1 .. n : Alike(stack'[i], mid[i])
  <2>1. ASSUME NEW i \in 1 .. n PROVE Alike(stack'[i], mid[i])
    <3>1. CASE i = 1
      BY <1>6, <1>7, <3>1
    <3>2. CASE i # 1
      <4>1. i \in 2 .. n
        BY <1>1, <3>2
      <4> QED BY <1>7, <4>1 DEF Alike
    <3> QED BY <3>1, <3>2
  <2> QED BY <2>1
<1>9. Alike(stack'[n], g) /\ stack'[n].part = stack[n].part
  <2>1. n \in 1 .. n
    BY <1>1
  <2> QED BY <1>1, <1>2, <1>3, <1>8, <2>1 DEF Alike
<1>10. \A i \in 1 .. n - 1 : Alike(stack'[i], stack[i])
  <2>1. \A i \in 1 .. n - 1 : i \in 1 .. n
    BY <1>1
  <2> QED BY <1>3, <1>8, <2>1
<1>11. OuterAlike(n)
  BY <1>1, <1>7, <1>9, <1>10 DEF OuterAlike, n
<1>12. TopLike(g)
  BY <1>7, <1>9, <1>11 DEF TopLike, n
<1> QED BY <1>2, <1>6, <1>7, <1>12 DEF g

LEMMA TopsAreAlike ==
  ASSUME IInv, call # "none", NEW g, NEW inner, g.part = Top.part, TopsAre(g, inner)
  PROVE  OuterAlike(Len(stack))
<1>1. /\ Len(stack) \in Nat /\ Len(stack) >= 1 /\ DOMAIN stack = 1 .. Len(stack)
      /\ Top = stack[Len(stack)]
  BY TopIsAFrame
<1> QED BY <1>1 DEF TopsAre, OuterAlike, Alike

LEMMA OuterIsAlike ==
  ASSUME IInv, call # "none", NEW g, g.part = stack[Len(stack) - 1].part, OuterIs(g)
  PROVE  OuterAlike(Len(stack) - 1)
<1>1. /\ Len(stack) \in Nat /\ Len(stack) >= 1 /\ DOMAIN stack = 1 .. Len(stack)
      /\ Top = stack[Len(stack)]
  BY TopIsAFrame
<1>2. ASSUME NEW i \in 1 .. Len(stack) - 2 PROVE Alike(stack'[i], stack[i])
  BY <1>2 DEF OuterIs, Alike
<1> DEFINE m == Len(stack) - 1
<1>3. /\ m \in 1 .. Len(stack) /\ m \in 1 .. m /\ m \in Nat /\ 1 .. m - 1 = 1 .. Len(stack) - 2
  BY <1>1 DEF OuterIs
<1>4. Len(stack') = m /\ DOMAIN stack' = 1 .. m /\ stack'[m] = g /\ stack[m].part = g.part
  BY DEF OuterIs
<1> HIDE DEF m
<1>5. OuterAlike(m)
  BY <1>1, <1>2, <1>3, <1>4 DEF OuterAlike
<1> QED BY <1>5 DEF m

LEMMA ChangingTopKeepsParts ==
  ASSUME IInv, PartsInv, call # "none", NEW g, TopLike(g), UNCHANGED <<value, call>>,
         FrameFits(g, {}, AroundIn(stack, Len(stack), value), value, call)
  PROVE  PartsInv'
<1> DEFINE n == Len(stack)
<1>1. n \in Nat /\ n >= 1
  BY TopIsAFrame
<1>2. /\ OuterAlike(n) /\ Len(stack') = n /\ Alike(stack'[n], g) /\ DOMAIN stack' = 1 .. n
  BY DEF TopLike, OuterAlike
<1>3. FramesFit(stack, value, call)
  BY DEF PartsInv
<1>4. InnerIn(stack', n) = {} /\ AroundIn(stack', n, value) = AroundIn(stack, n, value)
  <2>1. InnerIn(stack', n) = {}
    BY <1>1, <1>2 DEF InnerIn
  <2> HIDE DEF n
  <2> QED BY <1>2, <2>1, OuterFramesAlike
<1> HIDE DEF n
<1>5. \A i \in 1 .. n - 1 :
        FrameFits(stack'[i], InnerIn(stack', i), AroundIn(stack', i, value), value, call)
  BY <1>2, <1>3, OuterFramesFit
<1>6. FrameFits(stack'[n], InnerIn(stack', n), AroundIn(stack', n, value), value, call)
  BY <1>2, <1>4, AlikeFits DEF n
<1>7. \A i \in 1 .. n : i = n \/ i \in 1 .. n - 1
  BY <1>1
<1>8. FramesFit(stack', value', call')
  BY <1>2, <1>5, <1>6, <1>7 DEF FramesFit
<1> QED BY <1>8 DEF PartsInv

LEMMA BeginningKeepsParts ==
  ASSUME WellFormed(value, Root), NEW op, NEW h, NEW path, Begin(op, h, path)
  PROVE  /\ PartsInv' /\ call = "none" /\ call' = op /\ UNCHANGED value
         /\ stack' = <<Frame(Root, path, value)>> /\ DOMAIN stack' = {1} /\ Len(stack') = 1
         /\ stack'[1] = Frame(Root, path, value) /\ visited' = << >> /\ answers' = {}
         /\ stack'[1].part = Root /\ ~stack'[1].inside /\ stack'[1].todo = {}
         /\ stack'[1].val = value /\ ~stack'[1].made /\ stack'[1].top = {}
         /\ stack'[1].given = value[Root]
<1>1. /\ stack' = <<Frame(Root, path, value)>> /\ UNCHANGED value /\ call' = op
      /\ call = "none" /\ visited' = << >> /\ answers' = {}
  BY DEF Begin
<1>2. DOMAIN stack' = {1} /\ Len(stack') = 1 /\ stack'[1] = Frame(Root, path, value)
  BY <1>1
<1> DEFINE g == Frame(Root, path, value)
<1>3. /\ g.part = Root /\ g.val = [q \in Below[Root] \cap DOMAIN value |-> value[q]]
      /\ g.inside = FALSE /\ g.todo = {} /\ g.top = {} /\ g.made = FALSE
      /\ g.given = value[Root]
  BY DEF Frame, Of
<1> HIDE DEF g
<1>4. DOMAIN value \subseteq Below[Root] /\ value \in [DOMAIN value -> SUBSET Marks]
  BY DEF WellFormed
<1>5. g.val = value
  BY <1>3, <1>4
<1>6. FrameFits(g, {}, value, value, op)
  BY <1>3, <1>4, <1>5 DEF FrameFits, Ahead
<1>7. InnerIn(stack', 1) = {} /\ AroundIn(stack', 1, value) = value
  BY <1>2 DEF InnerIn, AroundIn
<1>8. FramesFit(stack', value', call')
  BY <1>1, <1>2, <1>6, <1>7 DEF FramesFit, g
<1> QED BY <1>1, <1>2, <1>3, <1>5, <1>8 DEF PartsInv, g

LEMMA GoingDownKeepsParts ==
  ASSUME IInv, PartsInv, NEW k \in Parts, Down(k)
  PROVE  PartsInv'
<1> DEFINE n == Len(stack)
           g == [Top EXCEPT !.todo = @ \ {k}]
<1>1. call # "none" /\ Top.inside /\ UNCHANGED <<value, call>>
  BY DEF Down
<1>2. n \in Nat /\ n >= 1
  BY <1>1, TopIsAFrame
<1>3. PICK t : TopsAre(g, Frame(k, t, Top.val))
  BY GoingDownShape
<1>4. k \in Top.todo
  BY GoingDownShape
<1>5. /\ FrameFits(Top, {}, AroundIn(stack, n, value), value, call) /\ IsFrame(Top)
      /\ Top.part \in Parts /\ Top.todo \subseteq In(Kids[Top.part]) /\ WellFormed(value, Root)
  BY <1>1, TopFrameFits
<1>6. /\ g.part = Top.part /\ g.val = Top.val /\ g.inside = Top.inside /\ g.top = Top.top
      /\ g.todo = Top.todo \ {k}
  BY <1>5 DEF IsFrame
<1> HIDE DEF g
<1>7. FrameFits(Frame(k, t, Top.val), {}, Top.val, value, call)
  <2> HIDE DEF n
  <2> QED BY <1>1, <1>4, <1>5, GoingDownFits
<1>8. FrameFits(g, {k}, AroundIn(stack, n, value), value, call)
  <2> DEFINE outer == AroundIn(stack, n, value)
  <2>1. FrameFits(Top, {}, outer, value, call)
    BY <1>5
  <2> HIDE DEF outer
  <2>2. FrameFits(g, {k}, outer, value, call)
    BY <1>1, <1>4, <1>6, <2>1, WaitingLessFits
  <2> QED BY <2>2 DEF outer
<1>9. OuterAlike(n)
  <2> DEFINE inner == Frame(k, t, Top.val)
  <2>1. TopsAre(g, inner) /\ g.part = Top.part
    BY <1>3, <1>6
  <2> HIDE DEF inner
  <2> QED BY <1>1, <2>1, TopsAreAlike
<1>10. /\ Len(stack') = n + 1 /\ DOMAIN stack' = 1 .. n + 1 /\ stack'[n] = g
       /\ stack'[n + 1] = Frame(k, t, Top.val)
  BY <1>3 DEF TopsAre
<1> HIDE DEF n
<1>11. \A i \in 1 .. n - 1 :
         FrameFits(stack'[i], InnerIn(stack', i), AroundIn(stack', i, value), value, call)
  BY <1>9, OuterFramesFit DEF PartsInv
<1>12. AroundIn(stack', n, value) = AroundIn(stack, n, value)
  BY <1>9, OuterFramesAlike
<1>13. /\ InnerIn(stack', n) = {k} /\ InnerIn(stack', n + 1) = {}
       /\ AroundIn(stack', n + 1, value) = Top.val
  <2>1. Frame(k, t, Top.val).part = k
    BY DEF Frame
  <2> QED BY <1>2, <1>6, <1>10, <2>1 DEF InnerIn, AroundIn
<1>14. \A i \in 1 .. n + 1 : i = n + 1 \/ i = n \/ i \in 1 .. n - 1
  BY <1>2
<1>15. FramesFit(stack', value', call')
  BY <1>1, <1>7, <1>8, <1>10, <1>11, <1>12, <1>13, <1>14 DEF FramesFit
<1> QED BY <1>1, <1>5, <1>15 DEF PartsInv

(* The frame around the innermost one is in its place, as g. *)
LEMMA LeavingKeepsParts ==
  ASSUME IInv, PartsInv, call # "none", Len(stack) # 1, UNCHANGED <<value, call>>,
         NEW g, g.part = stack[Len(stack) - 1].part, OuterIs(g),
         FrameFits(g, {}, AroundIn(stack, Len(stack) - 1, value), value, call)
  PROVE  PartsInv'
<1> DEFINE n == Len(stack) - 1
<1>1. n \in Nat /\ n >= 1 /\ Len(stack) = n + 1
  BY TopIsAFrame
<1>2. OuterAlike(n)
  BY OuterIsAlike
<1>3. /\ Len(stack') = n /\ DOMAIN stack' = 1 .. n /\ stack'[n] = g
  BY DEF OuterIs
<1>4. FrameFits(g, {}, AroundIn(stack, n, value), value, call)
  OBVIOUS
<1> HIDE DEF n
<1>5. \A i \in 1 .. n - 1 :
        FrameFits(stack'[i], InnerIn(stack', i), AroundIn(stack', i, value), value, call)
  BY <1>2, OuterFramesFit DEF PartsInv
<1>6. AroundIn(stack', n, value) = AroundIn(stack, n, value)
  BY <1>2, OuterFramesAlike
<1>7. InnerIn(stack', n) = {}
  BY <1>1, <1>3 DEF InnerIn
<1>8. \A i \in 1 .. n : i = n \/ i \in 1 .. n - 1
  BY <1>1
<1>9. FramesFit(stack', value', call')
  BY <1>3, <1>4, <1>5, <1>6, <1>7, <1>8 DEF FramesFit
<1> QED BY <1>9 DEF PartsInv

LEMMA ReturningKeepsParts ==
  ASSUME IInv, PartsInv, call # "none", Len(stack) # 1,
         NEW result, WellFormed(result, Top.part), DOMAIN result = DOMAIN Top.val,
         Return(result)
  PROVE  PartsInv' /\ UNCHANGED <<value, call, calls>>
<1> DEFINE n == Len(stack) - 1
           o == stack[n]
           outer == AroundIn(stack, n, value)
<1>1. OuterIs(Taken(o, result)) /\ UNCHANGED <<value, call, calls>>
  BY ReturningShape
<1>2. /\ IsFrame(o) /\ o.part \in Parts /\ Top.part \in In(Kids[o.part])
      /\ FrameFits(o, {Top.part}, outer, value, call)
      /\ AroundIn(stack, Len(stack), value) = o.val
  BY OuterFrameFits
<1>3. FrameFits(Top, {}, o.val, value, call)
  BY <1>2, TopFrameFits
<1>4. /\ DOMAIN result \subseteq DOMAIN o.val
      /\ call # "Transform" => DOMAIN result = Below[Top.part] \cap DOMAIN value
  BY <1>3 DEF FrameFits
<1>5. Taken(o, result).part = o.part
  BY <1>2, TakenFields
<1> HIDE DEF o, outer
<1>6. FrameFits(Taken(o, result), {}, outer, value, call)
  BY <1>2, <1>4, TakingBackFits
<1> USE DEF o, outer
<1> DEFINE g == Taken(o, result)
<1>7. g.part = stack[Len(stack) - 1].part /\ OuterIs(g)
      /\ FrameFits(g, {}, AroundIn(stack, Len(stack) - 1, value), value, call)
  BY <1>1, <1>5, <1>6
<1> HIDE DEF g
<1> QED BY <1>1, <1>7, LeavingKeepsParts

LEMMA LosingKeepsParts ==
  ASSUME IInv, PartsInv, call # "none", Len(stack) # 1, ReturnUnchanged
  PROVE  /\ PartsInv' /\ UNCHANGED <<value, call, calls>> /\ OuterIs(stack[Len(stack) - 1])
<1>1. stack' = Outer /\ UNCHANGED <<value, call, calls>>
  BY DEF ReturnUnchanged
<1>2. OuterIs(stack[Len(stack) - 1])
  BY <1>1, LosingTopShape
<1>3. FrameFits(stack[Len(stack) - 1], {}, AroundIn(stack, Len(stack) - 1, value), value, call)
  BY OuterFrameFits DEF FrameFits
<1> QED BY <1>1, <1>2, <1>3, LeavingKeepsParts

LEMMA EndingKeepsParts ==
  ASSUME NEW result, NEW ok, WellFormed(result, Root), End(result, ok)
  PROVE  PartsInv'
BY DEF End, PartsInv, FramesFit

(* The value of a frame, assembled and marked. *)
LEMMA AssembledFits ==
  ASSUME NEW f, WellFormed(f.val, f.part)
  PROVE  WellFormed(Assembled(f), f.part) /\ DOMAIN Assembled(f) = DOMAIN f.val
<1>1. f.val \in [DOMAIN f.val -> SUBSET Marks]
  BY DEF WellFormed
<1>2. CASE Kind[f.part] = "set"
  <2> DEFINE all == UNION {f.val[r] : r \in DOMAIN f.val}
  <2>1. all \subseteq Marks
    BY <1>1
  <2> HIDE DEF all
  <2>2. Assembled(f) = [q \in DOMAIN f.val |-> IF q = f.part THEN all ELSE {}]
    BY <1>2 DEF Assembled, all
  <2>3. Assembled(f) \in [DOMAIN f.val -> SUBSET Marks] /\ DOMAIN Assembled(f) = DOMAIN f.val
    BY <2>1, <2>2
  <2> QED BY <2>3 DEF WellFormed
<1>3. CASE Kind[f.part] # "set"
  BY <1>3 DEF Assembled
<1> QED BY <1>2, <1>3

LEMMA WithMarksFits ==
  ASSUME NEW f, NEW p, WellFormed(f, p), NEW marks \in SUBSET Marks
  PROVE  /\ WellFormed(WithMarks(f, p, marks), p) /\ DOMAIN WithMarks(f, p, marks) = DOMAIN f
         /\ WithMarks(f, p, marks)[p] = f[p] \cup marks
         /\ \A q \in DOMAIN f : q # p => WithMarks(f, p, marks)[q] = f[q]
<1> DEFINE g == WithMarks(f, p, marks)
<1>1. f \in [DOMAIN f -> SUBSET Marks] /\ p \in DOMAIN f
  BY DEF WellFormed
<1>2. g = [f EXCEPT ![p] = f[p] \cup marks]
  BY DEF WithMarks
<1>3. /\ g \in [DOMAIN f -> SUBSET Marks] /\ DOMAIN g = DOMAIN f /\ g[p] = f[p] \cup marks
      /\ \A q \in DOMAIN f : q # p => g[q] = f[q]
  BY <1>1, <1>2
<1> HIDE DEF g
<1>4. WellFormed(g, p)
  BY <1>3 DEF WellFormed
<1> QED BY <1>3, <1>4 DEF g

LEMMA NotesAreOfMarks ==
  ASSUME NotesOK, NEW j \in DOMAIN pvm
  PROVE  pvm[j].marks \subseteq Marks
<1> DEFINE S == [path : [array : Nat, len : Nat], marks : SUBSET Marks]
<1>1. pvm \in Seq(S)
  BY DEF NotesOK
<1>2. \A x \in S : x.marks \subseteq Marks
  OBVIOUS
<1> HIDE DEF S
<1>3. pvm[j] \in S
  BY <1>1
<1> QED BY <1>2, <1>3

LEMMA MarksForAreMarks ==
  ASSUME NotesOK, NEW path
  PROVE  MarksFor(path) \subseteq Marks
<1> DEFINE found == {i \in DOMAIN pvm : Contents(heap, pvm[i].path) = path}
<1>1. CASE found = {}
  BY <1>1 DEF MarksFor
<1>2. CASE found # {}
  <2>1. found \in SUBSET Nat
    BY DEF NotesOK
  <2>2. \E n \in found : \A m \in found : n <= m
    <3> HIDE DEF found
    <3> QED BY <1>2, <2>1, LeastNumber
  <2> DEFINE i == CHOOSE n \in found : \A m \in found : n <= m
  <2>3. i \in found
    BY <2>2
  <2>4. MarksFor(path) = pvm[i].marks
    BY <1>2 DEF MarksFor
  <2>5. i \in DOMAIN pvm
    BY <2>3
  <2> HIDE DEF i
  <2> QED BY <2>4, <2>5, NotesAreOfMarks
<1> QED BY <1>1, <1>2

LEMMA TheOutermostFrame ==
  ASSUME IInv, PartsInv, call # "none", Len(stack) = 1
  PROVE  Top.part = Root /\ Top = stack[1] /\ WellFormed(Top.val, Root)
<1>1. Top = stack[1] /\ 1 \in DOMAIN stack
  BY TopIsAFrame
<1>2. Top.part = Root
  BY <1>1 DEF IInv, StackOK
<1> QED BY <1>1, <1>2, TopFrameFits DEF FrameFits

LEMMA ReturningOrEndingKeepsParts ==
  ASSUME IInv, PartsInv, call # "none",
         NEW result, WellFormed(result, Top.part), DOMAIN result = DOMAIN Top.val,
         Return(result)
  PROVE  PartsInv'
<1>1. CASE Len(stack) = 1
  <2>1. End(result, TRUE)
    BY <1>1 DEF Return
  <2>2. WellFormed(result, Root)
    BY <1>1, TheOutermostFrame
  <2> QED BY <2>1, <2>2, EndingKeepsParts
<1>2. CASE Len(stack) # 1
  BY <1>2, ReturningKeepsParts
<1> QED BY <1>1, <1>2

LEMMA ReturningUnchangedKeepsParts ==
  ASSUME IInv, PartsInv, call # "none", ReturnUnchanged
  PROVE  PartsInv'
<1>1. CASE Len(stack) = 1
  <2>1. End(value, TRUE) /\ WellFormed(value, Root)
    BY <1>1 DEF ReturnUnchanged, PartsInv
  <2> QED BY <2>1, EndingKeepsParts
<1>2. CASE Len(stack) # 1
  BY <1>2, LosingKeepsParts
<1> QED BY <1>1, <1>2

(* Into the innermost frame, with some of the parts directly in it to do. *)
LEMMA GoingInKeepsParts ==
  ASSUME IInv, PartsInv, call # "none", ~Top.inside, UNCHANGED <<value, call>>,
         NEW g, stack' = WithTop(g), g.part = Top.part /\ g.inside /\ g.top = Top.top,
         g.val = Top.val \/ (call = "Transform" /\ g.val = [q \in {Top.part} |-> Top.val[q]]),
         g.todo \subseteq In(Kids[Top.part]), g.todo \subseteq DOMAIN g.val
  PROVE  PartsInv' /\ TopIs(g) /\ TopLike(g)
<1>1. /\ FrameFits(Top, {}, AroundIn(stack, Len(stack), value), value, call)
      /\ Top.part \in Parts
  BY TopFrameFits
<1>2. TopIs(g)
  BY ChangingTopShape
<1>3. TopLike(g)
  BY <1>2, SameTopIsAlike
<1> DEFINE outer == AroundIn(stack, Len(stack), value)
<1>4. FrameFits(Top, {}, outer, value, call)
  BY <1>1
<1> HIDE DEF outer
<1>5. FrameFits(g, {}, outer, value, call)
  BY <1>1, <1>4, GoingInFits
<1> USE DEF outer
<1> QED BY <1>2, <1>3, <1>5, ChangingTopKeepsParts

(* The kids that a frame goes into are parts of it. *)
LEMMA KidsInFrame ==
  ASSUME NEW f, NEW inner, NEW outer, NEW v, NEW op, FrameFits(f, inner, outer, v, op),
         f.part \in Parts
  PROVE  /\ KidsIn(f.part, f.val) \subseteq In(Kids[f.part])
         /\ KidsIn(f.part, f.val) \subseteq DOMAIN f.val
         /\ op # "Transform" => KidsIn(f.part, v) = KidsIn(f.part, f.val)
<1>1. In(Kids[f.part]) \subseteq Below[f.part]
  <2>1. ASSUME NEW k \in In(Kids[f.part]) PROVE k \in Below[f.part]
    <3>1. k \in Parts /\ Below[k] \subseteq Below[f.part]
      BY KidsAreParts, BelowAPart
    <3> QED BY <3>1, BelowAPart
  <2> QED BY <2>1
<1>2. op # "Transform" => DOMAIN f.val = Below[f.part] \cap DOMAIN v
  BY DEF FrameFits
<1> QED BY <1>1, <1>2 DEF KidsIn

----------------------------------------------------------------------------
(* The steps of a traversal, and what they do to its innermost frame.      *)

(* Frame g is frame f, entered with the parts in todo to do. *)
Entered(g, f, todo) ==
  /\ g.part = f.part /\ g.inside /\ g.todo = todo /\ g.top = f.top /\ g.made = f.made
  /\ g.given = f.given

LEMMA EnteringAFrame ==
  ASSUME NEW f, IsFrame(f), NEW todo
  PROVE  LET g == [f EXCEPT !.inside = TRUE, !.todo = todo]
             h == Into(Cut(f))
         IN /\ Entered(g, f, todo) /\ g.val = f.val
            /\ Entered(Into(f), f, KidsIn(f.part, f.val)) /\ Into(f).val = f.val
            /\ Entered(h, f, KidsIn(f.part, h.val)) /\ h.val = [q \in {f.part} |-> f.val[q]]
            /\ [f EXCEPT !.inside = TRUE].todo = f.todo
            /\ Entered([f EXCEPT !.inside = TRUE], f, f.todo)
            /\ [f EXCEPT !.inside = TRUE].val = f.val
<1>1. Cut(f).part = f.part /\ Cut(f).val = [q \in {f.part} |-> f.val[q]]
      /\ Cut(f).top = f.top /\ Cut(f).made = f.made /\ Cut(f).given = f.given
  BY DEF IsFrame, Cut
<1>2. Into(Cut(f)) = [Cut(f) EXCEPT !.inside = TRUE, !.todo = KidsIn(Cut(f).part, Cut(f).val)]
  BY DEF Into
<1>3. DOMAIN Cut(f) = {"part", "path", "inside", "val", "made", "given", "top", "todo"}
  BY DEF IsFrame, Cut
<1> DEFINE c == Cut(f)
           h == Into(c)
<1>4. /\ h.part = c.part /\ h.inside /\ h.todo = KidsIn(c.part, c.val) /\ h.top = c.top
      /\ h.made = c.made /\ h.given = c.given /\ h.val = c.val
  <2> HIDE DEF c
  <2> QED BY <1>2, <1>3 DEF c
<1> HIDE DEF h, c
<1>5. Entered(h, f, KidsIn(f.part, h.val)) /\ h.val = [q \in {f.part} |-> f.val[q]]
  BY <1>1, <1>4 DEF Entered, c
<1>6. LET g == [f EXCEPT !.inside = TRUE, !.todo = todo] IN Entered(g, f, todo) /\ g.val = f.val
  BY DEF IsFrame, Entered
<1>7. Entered(Into(f), f, KidsIn(f.part, f.val)) /\ Into(f).val = f.val
  BY DEF IsFrame, Entered, Into
<1>8. /\ Entered([f EXCEPT !.inside = TRUE], f, f.todo)
      /\ [f EXCEPT !.inside = TRUE].todo = f.todo /\ [f EXCEPT !.inside = TRUE].val = f.val
  BY DEF IsFrame, Entered
<1> QED BY <1>5, <1>6, <1>7, <1>8 DEF h, c

(* The part of the innermost frame is visited by Walk. *)
Answering(what, mark, by) ==
  answers' = answers \cup {[part |-> Top.part, what |-> what, mark |-> mark, by |-> by]}

VisitsPart(g) ==
  /\ TopLike(g) /\ g.val = Top.val
  /\ \/ Entered(g, Top, KidsIn(Top.part, Top.val)) /\ UNCHANGED answers
     \/ Entered(g, Top, {}) /\ Answering("stop", Nothing, Nothing)

LEMMA VisitingAPart ==
  ASSUME IInv, PartsInv, WalkVisit
  PROVE  /\ PartsInv' /\ call = "Walk" /\ ~Top.inside /\ UNCHANGED <<value, call, calls>>
         /\ visited' = Append(visited, Top.part) /\ \E g : VisitsPart(g)
<1>1. /\ call = "Walk" /\ call # "none" /\ ~Top.inside /\ UNCHANGED <<value, call, calls>>
      /\ visited' = Append(visited, Top.part)
  BY DEF WalkVisit, Entering, Running, Walks
<1>2. /\ FrameFits(Top, {}, AroundIn(stack, Len(stack), value), value, call)
      /\ Top.part \in Parts /\ IsFrame(Top)
  BY <1>1, TopFrameFits
<1>3. /\ KidsIn(Top.part, Top.val) \subseteq In(Kids[Top.part])
      /\ KidsIn(Top.part, Top.val) \subseteq DOMAIN Top.val
      /\ KidsIn(Top.part, value) = KidsIn(Top.part, Top.val) /\ Top.todo = {}
  <2>1. Top.todo = {}
    BY <1>1, <1>2 DEF FrameFits
  <2> QED BY <1>1, <1>2, <2>1, KidsInFrame
<1>4. CASE /\ stack' = WithTop([Top EXCEPT !.inside = TRUE, !.todo = KidsIn(Top.part, value)])
           /\ UNCHANGED answers
  <2> DEFINE g == [Top EXCEPT !.inside = TRUE, !.todo = KidsIn(Top.part, value)]
  <2>1. Entered(g, Top, KidsIn(Top.part, Top.val)) /\ g.val = Top.val
    BY <1>2, <1>3, EnteringAFrame
  <2>2. stack' = WithTop(g)
    BY <1>4
  <2> HIDE DEF g
  <2>3. g.part = Top.part /\ g.inside /\ g.top = Top.top /\ g.todo = KidsIn(Top.part, Top.val)
    BY <2>1 DEF Entered
  <2>4. PartsInv' /\ TopLike(g)
    BY <1>1, <1>3, <2>1, <2>2, <2>3, GoingInKeepsParts
  <2> QED BY <1>1, <1>4, <2>1, <2>4 DEF VisitsPart
<1>5. CASE /\ stack' = WithTop([Top EXCEPT !.inside = TRUE])
           /\ Answer("stop", Nothing, Nothing)
  <2> DEFINE g == [Top EXCEPT !.inside = TRUE]
  <2>1. Entered(g, Top, {}) /\ g.val = Top.val
    BY <1>2, <1>3, EnteringAFrame
  <2>2. stack' = WithTop(g) /\ Answering("stop", Nothing, Nothing)
    BY <1>5 DEF Answer, Answering
  <2> HIDE DEF g
  <2>3. g.part = Top.part /\ g.inside /\ g.top = Top.top /\ g.todo = {}
    BY <2>1 DEF Entered
  <2>4. PartsInv' /\ TopLike(g)
    BY <1>1, <1>3, <2>1, <2>2, <2>3, GoingInKeepsParts
  <2> QED BY <1>1, <2>1, <2>2, <2>4 DEF VisitsPart
<1> QED BY <1>4, <1>5 DEF WalkVisit

(* The part of the innermost frame is entered by Transform or              *)
(* MarkWithPaths, or replaced.                                             *)
EntersPart(g) ==
  /\ TopLike(g)
  /\ \/ /\ Entered(g, Top, KidsIn(Top.part, Top.val)) /\ g.val = Top.val
        /\ UNCHANGED answers
     \/ /\ call = "Transform" /\ Entered(g, Top, {}) /\ g.val = [q \in {Top.part} |-> Top.val[q]]
        /\ Answering("cut", Nothing, Nothing)

LEMMA EnteringAPart ==
  ASSUME IInv, PartsInv, TransformEnter
  PROVE  /\ PartsInv' /\ ~Top.inside /\ UNCHANGED <<value, call, calls, visited>>
         /\ call # "none" /\ \E g : EntersPart(g)
<1>1. /\ call # "none" /\ ~Top.inside /\ UNCHANGED <<value, call, calls, visited>>
  BY DEF TransformEnter, Entering, Running, Transforms
<1>2. /\ FrameFits(Top, {}, AroundIn(stack, Len(stack), value), value, call)
      /\ Top.part \in Parts /\ IsFrame(Top)
  BY <1>1, TopFrameFits
<1>3. /\ KidsIn(Top.part, Top.val) \subseteq In(Kids[Top.part])
      /\ KidsIn(Top.part, Top.val) \subseteq DOMAIN Top.val
  BY <1>2, KidsInFrame
<1>4. CASE stack' = WithTop(Into(Top)) /\ UNCHANGED answers
  <2> DEFINE g == Into(Top)
  <2>1. Entered(g, Top, KidsIn(Top.part, Top.val)) /\ g.val = Top.val
    BY <1>2, EnteringAFrame
  <2>2. stack' = WithTop(g)
    BY <1>4
  <2> HIDE DEF g
  <2>3. g.part = Top.part /\ g.inside /\ g.top = Top.top /\ g.todo = KidsIn(Top.part, Top.val)
    BY <2>1 DEF Entered
  <2>4. PartsInv' /\ TopLike(g)
    BY <1>1, <1>3, <2>1, <2>2, <2>3, GoingInKeepsParts
  <2> QED BY <1>1, <1>4, <2>1, <2>4 DEF EntersPart
<1>5. CASE /\ call = "Transform" /\ stack' = WithTop(Into(Cut(Top)))
           /\ Answer("cut", Nothing, Nothing)
  <2> DEFINE g == Into(Cut(Top))
  <2>1. Entered(g, Top, KidsIn(Top.part, g.val)) /\ g.val = [q \in {Top.part} |-> Top.val[q]]
    BY <1>2, EnteringAFrame
  <2>2. stack' = WithTop(g) /\ Answering("cut", Nothing, Nothing)
    BY <1>5 DEF Answer, Answering
  <2> HIDE DEF g
  <2>3. KidsIn(Top.part, g.val) = {}
    <3>1. DOMAIN g.val = {Top.part}
      BY <2>1
    <3>2. ASSUME Top.part \in In(Kids[Top.part]) PROVE FALSE
      BY <1>2, <3>2, KidsAreApart, BelowAPart
    <3> QED BY <3>1, <3>2 DEF KidsIn
  <2>4. g.part = Top.part /\ g.inside /\ g.top = Top.top /\ g.todo = {}
    BY <2>1, <2>3 DEF Entered
  <2>5. PartsInv' /\ TopLike(g)
    BY <1>1, <1>5, <2>1, <2>2, <2>4, GoingInKeepsParts
  <2> QED BY <1>1, <1>5, <2>1, <2>2, <2>3, <2>5 DEF EntersPart
<1> QED BY <1>4, <1>5 DEF TransformEnter

(* The parts in the innermost frame are to be wrangled, unless it is a     *)
(* set, and its marks have been.                                           *)
GoesInto(g) ==
  /\ TopLike(g) /\ g.val = Top.val /\ TopIs(g)
  /\ Entered(g, Top, IF Kind[Top.part] = "set" THEN {} ELSE KidsIn(Top.part, Top.val))

LEMMA WranglingIn ==
  ASSUME IInv, PartsInv, WrangleInto
  PROVE  /\ PartsInv' /\ ~Top.inside /\ UNCHANGED <<value, call, calls, answers>>
         /\ call \in Wrangles /\ call # "none" /\ Top.given = {} /\ \E g : GoesInto(g)
<1>1. /\ call \in Wrangles /\ call # "none" /\ call # "Transform" /\ ~Top.inside
      /\ UNCHANGED <<value, call, calls, answers>> /\ Top.given = {}
  BY DEF WrangleInto, Entering, Running, Wrangles
<1>2. /\ FrameFits(Top, {}, AroundIn(stack, Len(stack), value), value, call)
      /\ Top.part \in Parts /\ IsFrame(Top)
  BY <1>1, TopFrameFits
<1>3. /\ KidsIn(Top.part, Top.val) \subseteq In(Kids[Top.part])
      /\ KidsIn(Top.part, Top.val) \subseteq DOMAIN Top.val
      /\ KidsIn(Top.part, value) = KidsIn(Top.part, Top.val)
  BY <1>1, <1>2, KidsInFrame
<1> DEFINE todo == IF Kind[Top.part] = "set" THEN {} ELSE KidsIn(Top.part, Top.val)
           g == [Top EXCEPT !.inside = TRUE, !.todo = todo]
<1>4. Entered(g, Top, todo) /\ g.val = Top.val
  <2> HIDE DEF todo
  <2> QED BY <1>2, EnteringAFrame
<1>5. stack' = WithTop(g)
  BY <1>3 DEF WrangleInto
<1> HIDE DEF g
<1>6. /\ g.part = Top.part /\ g.inside /\ g.top = Top.top
      /\ g.todo \subseteq In(Kids[Top.part]) /\ g.todo \subseteq DOMAIN g.val
  BY <1>3, <1>4 DEF Entered
<1>7. PartsInv' /\ TopLike(g) /\ TopIs(g)
  BY <1>1, <1>4, <1>5, <1>6, GoingInKeepsParts
<1> QED BY <1>1, <1>4, <1>7 DEF GoesInto

(* Frame g is frame f, in which mark m has been visited and the part now   *)
(* has these marks.                                                        *)
Remarked(g, f, m, marks) ==
  /\ g.part = f.part /\ g.inside = f.inside /\ g.todo = f.todo /\ g.top = f.top
  /\ g.given = f.given \ {m} /\ g.val = [f.val EXCEPT ![f.part] = marks]

LEMMA RemarkingAFrame ==
  ASSUME NEW f, IsFrame(f), NEW m, NEW by
  PROVE  LET g == Drop(Visited(f, m), m)
             h == Replace(Visited(f, m), m, by)
             v == Visited(f, m)
         IN /\ Remarked(g, f, m, f.val[f.part] \ {m}) /\ g.made
            /\ Remarked(h, f, m, (f.val[f.part] \ {m}) \cup {by}) /\ h.made
            /\ v.part = f.part /\ v.inside = f.inside /\ v.todo = f.todo /\ v.top = f.top
            /\ v.given = f.given \ {m} /\ v.val = f.val /\ v.made = f.made
<1> DEFINE v == Visited(f, m)
           g == Drop(v, m)
           h == Replace(v, m, by)
<1>1. /\ v.part = f.part /\ v.inside = f.inside /\ v.todo = f.todo /\ v.top = f.top
      /\ v.given = f.given \ {m} /\ v.val = f.val /\ v.made = f.made
      /\ DOMAIN v = {"part", "path", "inside", "val", "made", "given", "top", "todo"}
  BY DEF Visited, IsFrame
<1>2. /\ g.part = v.part /\ g.inside = v.inside /\ g.todo = v.todo /\ g.top = v.top
      /\ g.given = v.given /\ g.val = [v.val EXCEPT ![v.part] = v.val[v.part] \ {m}] /\ g.made
  <2> HIDE DEF v
  <2> QED BY <1>1 DEF Drop
<1>3. /\ h.part = v.part /\ h.inside = v.inside /\ h.todo = v.todo /\ h.top = v.top
      /\ h.given = v.given /\ h.made
      /\ h.val = [v.val EXCEPT ![v.part] = (v.val[v.part] \ {m}) \cup {by}]
  <2> HIDE DEF v
  <2> QED BY <1>1 DEF Replace
<1> HIDE DEF v, g, h
<1>4. Remarked(g, f, m, f.val[f.part] \ {m}) /\ g.made
  BY <1>1, <1>2 DEF Remarked
<1>5. Remarked(h, f, m, (f.val[f.part] \ {m}) \cup {by}) /\ h.made
  BY <1>1, <1>3 DEF Remarked
<1> QED BY <1>1, <1>4, <1>5 DEF v, g, h

LEMMA RemarkingKeepsParts ==
  ASSUME IInv, PartsInv, call # "none", UNCHANGED <<value, call>>, NEW m,
         NEW marks \in SUBSET Marks, NEW g, Remarked(g, Top, m, marks), stack' = WithTop(g)
  PROVE  PartsInv' /\ TopIs(g) /\ TopLike(g)
<1> DEFINE outer == AroundIn(stack, Len(stack), value)
<1>1. FrameFits(Top, {}, outer, value, call) /\ Top.part \in Parts
  BY TopFrameFits
<1>2. TopIs(g)
  BY ChangingTopShape
<1>3. TopLike(g)
  BY <1>2, SameTopIsAlike DEF Remarked
<1> HIDE DEF outer
<1>4. g.val \in [DOMAIN Top.val -> SUBSET Marks]
  BY <1>1 DEF FrameFits, WellFormed, Remarked
<1>5. g.top \subseteq Marks
  BY <1>1 DEF FrameFits, Remarked
<1>6. FrameFits(g, {}, outer, value, call)
  BY <1>1, <1>4, <1>5, MarkingFits DEF Remarked
<1> QED BY <1>2, <1>3, <1>6, ChangingTopKeepsParts DEF outer

(* Mark m of the innermost frame is wrangled. *)
Wrangles1(g, m) ==
  \/ /\ g = Visited(Top, m) /\ TopIs(g) /\ UNCHANGED answers
  \/ /\ Remarked(g, Top, m, Top.val[Top.part] \ {m}) /\ g.made /\ TopIs(g)
     /\ Answering("drop", m, Nothing)
  \/ /\ g = Visited(Top, m) /\ stack'[1].top = stack[1].top \cup {m}
     /\ Answering("expand", m, Nothing)
  \/ \E by \in Marks :
       /\ Remarked(g, Top, m, (Top.val[Top.part] \ {m}) \cup {by}) /\ g.made /\ TopIs(g)
       /\ Answering("replace", m, by)

LEMMA WranglingAMark ==
  ASSUME IInv, PartsInv, NEW m \in Marks, WrangleMark(m)
  PROVE  /\ PartsInv' /\ ~Top.inside /\ UNCHANGED <<value, call, calls>>
         /\ call = "WrangleMarksDeep" /\ m \in Top.given
         /\ \E g : TopLike(g) /\ Wrangles1(g, m)
<1>1. /\ call = "WrangleMarksDeep" /\ call # "none" /\ ~Top.inside /\ m \in Top.given
      /\ UNCHANGED <<value, call, calls>>
  BY DEF WrangleMark, Entering, Running
<1>2. /\ FrameFits(Top, {}, AroundIn(stack, Len(stack), value), value, call)
      /\ Top.part \in Parts /\ IsFrame(Top)
  BY <1>1, TopFrameFits
<1>3. Top.val[Top.part] \subseteq Marks
  BY <1>2 DEF FrameFits, WellFormed
<1> DEFINE v == Visited(Top, m)
           outer == AroundIn(stack, Len(stack), value)
<1>4. FrameFits(v, {}, outer, value, call) /\ v.part = Top.part
  <2>1. /\ v.part = Top.part /\ v.inside = Top.inside /\ v.todo = Top.todo
        /\ v.top = Top.top /\ v.val = Top.val
    BY <1>2, RemarkingAFrame
  <2>2. v.val \in [DOMAIN Top.val -> SUBSET Marks] /\ v.top \subseteq Marks
    BY <1>2, <2>1 DEF FrameFits, WellFormed
  <2>3. FrameFits(Top, {}, outer, value, call)
    BY <1>2
  <2> HIDE DEF v, outer
  <2> QED BY <2>1, <2>2, <2>3, MarkingFits
<1>5. CASE stack' = WithTop(v) /\ UNCHANGED answers
  <2> HIDE DEF v
  <2>1. TopIs(v)
    BY <1>1, <1>5, ChangingTopShape
  <2>2. TopLike(v)
    BY <1>1, <1>4, <2>1, SameTopIsAlike
  <2>3. PartsInv'
    BY <1>1, <1>4, <2>2, ChangingTopKeepsParts
  <2> QED BY <1>1, <1>5, <2>1, <2>2, <2>3 DEF Wrangles1, v
<1>6. CASE stack' = WithTop(Drop(v, m)) /\ Answer("drop", m, Nothing)
  <2> DEFINE g == Drop(v, m)
             marks == Top.val[Top.part] \ {m}
  <2>1. Remarked(g, Top, m, marks) /\ g.made /\ stack' = WithTop(g)
    BY <1>2, <1>6, RemarkingAFrame
  <2>2. marks \in SUBSET Marks
    BY <1>3
  <2>3. Answering("drop", m, Nothing)
    BY <1>6 DEF Answer, Answering
  <2> HIDE DEF g, marks
  <2>4. PartsInv' /\ TopIs(g) /\ TopLike(g)
    BY <1>1, <2>1, <2>2, RemarkingKeepsParts
  <2> QED BY <1>1, <2>1, <2>3, <2>4 DEF Wrangles1, marks
<1>7. CASE stack' = Expand(m) /\ Answer("expand", m, Nothing)
  <2>1. TopLike(v) /\ stack'[1].top = stack[1].top \cup {m}
    BY <1>1, <1>7, ExpandingIsAlike
  <2>2. Answering("expand", m, Nothing)
    BY <1>7 DEF Answer, Answering
  <2> HIDE DEF v
  <2>3. PartsInv'
    BY <1>1, <1>4, <2>1, ChangingTopKeepsParts
  <2> QED BY <1>1, <2>1, <2>2, <2>3 DEF Wrangles1, v
<1>8. CASE \E by \in Marks : stack' = WithTop(Replace(v, m, by)) /\ Answer("replace", m, by)
  <2>1. PICK by \in Marks : stack' = WithTop(Replace(v, m, by)) /\ Answer("replace", m, by)
    BY <1>8
  <2> DEFINE g == Replace(v, m, by)
             marks == (Top.val[Top.part] \ {m}) \cup {by}
  <2>2. Remarked(g, Top, m, marks) /\ g.made /\ stack' = WithTop(g)
    BY <1>2, <2>1, RemarkingAFrame
  <2>3. marks \in SUBSET Marks
    BY <1>3
  <2>4. Answering("replace", m, by)
    BY <2>1 DEF Answer, Answering
  <2> HIDE DEF g, marks
  <2>5. PartsInv' /\ TopIs(g) /\ TopLike(g)
    BY <1>1, <2>2, <2>3, RemarkingKeepsParts
  <2> QED BY <1>1, <2>2, <2>4, <2>5 DEF Wrangles1, marks
<1> QED BY <1>5, <1>6, <1>7, <1>8 DEF WrangleMark

LEMMA UnmarkingKeepsParts ==
  ASSUME IInv, PartsInv, NEW m \in Marks, UnmarkWithPaths(m)
  PROVE  PartsInv'
<1>1. /\ call = "UnmarkDeepWithPaths" /\ call # "none" /\ UNCHANGED <<value, call>>
      /\ stack' = WithTop(Drop(Visited(Top, m), m))
  BY DEF UnmarkWithPaths, Entering, Running
<1>2. FrameFits(Top, {}, AroundIn(stack, Len(stack), value), value, call) /\ IsFrame(Top)
  BY <1>1, TopFrameFits
<1> DEFINE g == Drop(Visited(Top, m), m)
           marks == Top.val[Top.part] \ {m}
<1>3. marks \in SUBSET Marks
  BY <1>2 DEF FrameFits, WellFormed
<1>4. Remarked(g, Top, m, marks) /\ stack' = WithTop(g)
  BY <1>1, <1>2, RemarkingAFrame
<1> HIDE DEF g, marks
<1> QED BY <1>1, <1>3, <1>4, RemarkingKeepsParts

(* A frame that WrangleMarksDeep leaves. *)
LEMMA WranglingOut ==
  ASSUME IInv, PartsInv, WrangleLeave
  PROVE  /\ PartsInv' /\ call \in Wrangles /\ call # "none" /\ Top.inside /\ Top.todo = {}
         /\ UNCHANGED answers
<1>1. /\ call \in Wrangles /\ call # "none" /\ Top.inside /\ Top.todo = {} /\ UNCHANGED answers
  BY DEF WrangleLeave, Leaving, Running, Wrangles
<1>2. FrameFits(Top, {}, AroundIn(stack, Len(stack), value), value, call) /\ WellFormed(value, Root)
  BY <1>1, TopFrameFits
<1>3. WellFormed(Top.val, Top.part) /\ Top.top \in SUBSET Marks
  BY <1>2 DEF FrameFits
<1>4. CASE Len(stack) = 1
  <2> DEFINE f == IF Top.made THEN Top.val ELSE value
             result == WithMarks(f, Root, Top.top)
  <2>1. End(result, TRUE)
    BY <1>4 DEF WrangleLeave
  <2>2. WellFormed(Top.val, Root)
    BY <1>1, <1>4, TheOutermostFrame
  <2>3. WellFormed(f, Root)
    BY <1>2, <2>2
  <2> HIDE DEF f
  <2>4. WellFormed(result, Root)
    BY <1>3, <2>3, WithMarksFits
  <2> HIDE DEF result
  <2> QED BY <1>1, <2>1, <2>4, EndingKeepsParts
<1>5. CASE Len(stack) # 1 /\ Top.made
  <2>1. Return(Top.val)
    BY <1>5 DEF WrangleLeave
  <2> QED BY <1>1, <1>3, <2>1, ReturningOrEndingKeepsParts
<1>6. CASE Len(stack) # 1 /\ ~Top.made
  <2>1. ReturnUnchanged
    BY <1>6 DEF WrangleLeave
  <2> QED BY <1>1, <2>1, ReturningUnchangedKeepsParts
<1> QED BY <1>4, <1>5, <1>6

LEMMA ExitingKeepsParts ==
  ASSUME IInv, NotesOK, PartsInv, TransformExit \/ MarkWithPathsExit
  PROVE  PartsInv'
<1>1. call # "none"
  BY DEF TransformExit, MarkWithPathsExit, Leaving, Running
<1>2. FrameFits(Top, {}, AroundIn(stack, Len(stack), value), value, call)
  BY <1>1, TopFrameFits
<1> DEFINE outer == AroundIn(stack, Len(stack), value)
<1>3. FrameFits(Top, {}, outer, value, call)
  BY <1>2
<1> HIDE DEF outer
<1>4. WellFormed(Assembled(Top), Top.part) /\ DOMAIN Assembled(Top) = DOMAIN Top.val
  BY <1>3, AssembledFits DEF FrameFits
<1>5. ASSUME NEW marks \in SUBSET Marks, Return(WithMarks(Assembled(Top), Top.part, marks))
      PROVE  PartsInv'
  <2> DEFINE result == WithMarks(Assembled(Top), Top.part, marks)
  <2>1. WellFormed(result, Top.part) /\ DOMAIN result = DOMAIN Top.val
    BY <1>4, WithMarksFits
  <2>2. Return(result)
    BY <1>5
  <2> HIDE DEF result
  <2> QED BY <1>1, <2>1, <2>2, ReturningOrEndingKeepsParts
<1>6. CASE Return(Assembled(Top))
  <2> DEFINE result == Assembled(Top)
  <2>1. WellFormed(result, Top.part) /\ DOMAIN result = DOMAIN Top.val /\ Return(result)
    BY <1>4, <1>6
  <2> HIDE DEF result
  <2> QED BY <1>1, <2>1, ReturningOrEndingKeepsParts
<1>7. MarkWithPathsExit =>
        \E marks \in SUBSET Marks : Return(WithMarks(Assembled(Top), Top.part, marks))
  BY MarksForAreMarks DEF MarkWithPathsExit
<1>8. TransformExit =>
        \/ Return(Assembled(Top))
        \/ \E m \in Marks : Return(WithMarks(Assembled(Top), Top.part, {m}))
  BY DEF TransformExit
<1>9. \A m \in Marks : {m} \in SUBSET Marks
  OBVIOUS
<1> QED BY <1>5, <1>6, <1>7, <1>8, <1>9

LEMMA StayingKeepsParts ==
  ASSUME IInv, NotesOK, PartsInv, Stays
  PROVE  PartsInv'
<1>1. CASE WalkHalt \/ TransformFails
  <2>1. End(value, FALSE) /\ WellFormed(value, Root)
    BY <1>1 DEF WalkHalt, TransformFails, PartsInv
  <2> QED BY <2>1, EndingKeepsParts
<1>2. CASE WalkLeave
  <2>1. ReturnUnchanged /\ call # "none"
    BY <1>2 DEF WalkLeave, Leaving, Running, Walks
  <2> QED BY <2>1, ReturningUnchangedKeepsParts
<1>3. CASE \E m \in Marks : WrangleMark(m) \/ UnmarkWithPaths(m)
  BY <1>3, WranglingAMark, UnmarkingKeepsParts
<1> QED BY <1>1, <1>2, <1>3, VisitingAPart, EnteringAPart, WranglingIn, WranglingOut,
           ExitingKeepsParts DEF Stays

LEMMA NextKeepsParts ==
  ASSUME IInv, NotesOK, PartsInv, [Next]_vars
  PROVE  PartsInv'
<1>1. CASE Start
  <2>1. \E op, h, path : Begin(op, h, path)
    BY <1>1 DEF Start, BeginWalk, BeginTransform, BeginMarkWithPaths, BeginWrangle,
                BeginUnmarkWithPaths
  <2> QED BY <2>1, BeginningKeepsParts DEF PartsInv
<1>2. CASE \E k \in Parts : Down(k)
  BY <1>2, GoingDownKeepsParts
<1>3. CASE UNCHANGED vars \/ \E k \in kept, step \in Parts : Extend(k, step)
  <2>1. UNCHANGED <<value, call, stack>>
    BY <1>3, ExtendingIsIdle DEF Idle
  <2> QED BY <2>1 DEF PartsInv, FramesFit
<1>4. CASE Stays
  BY <1>4, StayingKeepsParts
<1> QED BY <1>1, <1>2, <1>3, <1>4 DEF Next, Step, Stays

LEMMA PartsInitially == Init => PartsInv
<1> SUFFICES ASSUME Init PROVE PartsInv
  OBVIOUS
<1>1. value = Given /\ stack = << >> /\ Below[Root] = Parts
  BY ShapeAssumption DEF Init
<1>2. DOMAIN Given = Parts /\ Given \in [Parts -> SUBSET Marks] /\ Root \in Parts
  BY TreeAssumption
<1>3. \A r \in Parts : \A q \in Below[r] : r \in Parts
  OBVIOUS
<1> QED BY <1>1, <1>2, <1>3 DEF PartsInv, FramesFit, WellFormed

----------------------------------------------------------------------------
(* The parts that a traversal has yet to visit.                            *)

AheadIn(s) == UNION {Ahead(s[i]) : i \in DOMAIN s}
OuterAhead == UNION {Ahead(stack[i]) : i \in 1 .. Len(stack) - 1}

LEMMA FramesNest ==
  ASSUME IInv, NEW i \in DOMAIN stack, NEW j \in DOMAIN stack, i <= j
  PROVE  /\ stack[i].part \in Parts /\ stack[j].part \in Below[stack[i].part]
         /\ Below[stack[j].part] \subseteq Below[stack[i].part]
<1> DEFINE w == [l \in 1 .. j - i + 1 |-> stack[i + l - 1].part]
<1>1. /\ Len(stack) \in Nat /\ DOMAIN stack = 1 .. Len(stack)
      /\ \A l \in DOMAIN stack : stack[l].part \in Parts
      /\ \A l \in DOMAIN stack : l > 1 => stack[l].part \in In(Kids[stack[l - 1].part])
  BY DEF IInv, StackOK, IsFrame
<1>2. i \in Nat /\ j \in Nat /\ 1 <= i /\ j <= Len(stack)
  BY <1>1
<1>3. /\ w \in Seq(Parts) /\ Len(w) = j - i + 1
      /\ \A l \in 1 .. j - i + 1 : w[l] = stack[i + l - 1].part
  <2>1. \A l \in 1 .. j - i + 1 : i + l - 1 \in DOMAIN stack
    BY <1>1, <1>2
  <2>2. j - i + 1 \in Nat
    BY <1>2
  <2>3. \A l \in 1 .. j - i + 1 : stack[i + l - 1].part \in Parts
    BY <1>1, <2>1
  <2> QED BY <2>2, <2>3
<1> HIDE DEF w
<1>4. w[1] = stack[i].part /\ w[Len(w)] = stack[j].part /\ Len(w) >= 1
  BY <1>2, <1>3
<1>5. ASSUME NEW l \in 1 .. Len(w) - 1
      PROVE  w[l + 1] \in In(Kids[w[l]])
  <2> DEFINE m == i + l
  <2>1. m \in DOMAIN stack /\ m > 1 /\ m - 1 = i + l - 1 /\ m = i + (l + 1) - 1
        /\ l \in 1 .. j - i + 1 /\ l + 1 \in 1 .. j - i + 1
    BY <1>1, <1>2, <1>3
  <2> HIDE DEF m
  <2>2. w[l + 1] = stack[m].part /\ w[l] = stack[m - 1].part
    BY <1>3, <2>1
  <2> QED BY <1>1, <2>1, <2>2
<1>6. IsWay(w, stack[i].part, stack[j].part)
  BY <1>3, <1>4, <1>5 DEF IsWay
<1>7. stack[j].part \in Below[stack[j].part]
  BY <1>1, BelowAPart
<1> QED BY <1>1, <1>6, <1>7, WaysLeadBelow

(* What is in an inner frame is not ahead in an outer one. *)
LEMMA FramesAreApart ==
  ASSUME IInv, PartsInv, NEW i \in DOMAIN stack, i < Len(stack)
  PROVE  /\ i + 1 \in DOMAIN stack /\ InnerIn(stack, i) = {stack[i + 1].part}
         /\ stack[i].inside /\ Ahead(stack[i]) = Waiting(stack[i])
         /\ stack[i + 1].part \in In(Kids[stack[i].part]) /\ stack[i].part \in Parts
         /\ Below[stack[i + 1].part] \cap Ahead(stack[i]) = {}
         /\ stack[i].part \notin Below[stack[i + 1].part]
         /\ Ahead(stack[i]) \subseteq Below[stack[i].part]
<1>1. /\ Len(stack) \in Nat /\ DOMAIN stack = 1 .. Len(stack) /\ i + 1 \in DOMAIN stack
      /\ i + 1 > 1 /\ (i + 1) - 1 = i
  BY DEF IInv, StackOK
<1> DEFINE f == stack[i]
           k == stack[i + 1].part
<1>2. /\ f.part \in Parts /\ f.todo \subseteq In(Kids[f.part]) /\ k \in In(Kids[f.part])
  <2>1. IsFrame(f) /\ k \in In(Kids[f.part])
    BY <1>1 DEF IInv, StackOK
  <2> QED BY <2>1 DEF IsFrame
<1>3. InnerIn(stack, i) = {k}
  BY DEF InnerIn
<1>4. f.inside /\ k \notin f.todo
  <2>1. FrameFits(f, {k}, AroundIn(stack, i, value), value, call)
    BY <1>3 DEF PartsInv, FramesFit
  <2> QED BY <2>1 DEF FrameFits
<1> HIDE DEF f, k
<1>5. Ahead(f) = Waiting(f) /\ Waiting(f) = UNION {Below[l] : l \in f.todo}
  BY <1>4 DEF Ahead, Waiting
<1>6. f.part \notin Below[k]
  BY <1>2, KidsAreApart
<1>7. ASSUME NEW l \in f.todo PROVE Below[l] \cap Below[k] = {} /\ Below[l] \subseteq Below[f.part]
  <2>1. l \in In(Kids[f.part]) /\ l # k
    BY <1>2, <1>4
  <2> QED BY <1>2, <2>1, KidsAreApart, BelowAPart
<1>8. Below[k] \cap Ahead(f) = {} /\ Ahead(f) \subseteq Below[f.part]
  BY <1>5, <1>7
<1> QED BY <1>1, <1>2, <1>3, <1>4, <1>5, <1>6, <1>8 DEF f, k

LEMMA AheadOfTop ==
  ASSUME IInv, PartsInv, call # "none"
  PROVE  /\ AheadIn(stack) = OuterAhead \cup Ahead(Top)
         /\ OuterAhead \cap Below[Top.part] = {} /\ Ahead(Top) \subseteq Below[Top.part]
         /\ \A i \in 1 .. Len(stack) - 1 : stack[i].part \notin Below[Top.part]
         /\ Top.part \in Parts /\ Top.part \in Below[Top.part]
<1> DEFINE n == Len(stack)
<1>1. /\ n \in Nat /\ n >= 1 /\ DOMAIN stack = 1 .. n /\ Top = stack[n]
      /\ Top.part \in Parts /\ Top.todo \subseteq In(Kids[Top.part])
  BY TopIsAFrame, TopFrameFits
<1>2. Ahead(Top) \subseteq Below[Top.part]
  BY <1>1, BelowAPart DEF Ahead, Waiting
<1>3. ASSUME NEW i \in 1 .. n - 1
      PROVE  Ahead(stack[i]) \cap Below[Top.part] = {} /\ stack[i].part \notin Below[Top.part]
  <2>1. i \in DOMAIN stack /\ i < n /\ i + 1 \in DOMAIN stack /\ n \in DOMAIN stack
        /\ i + 1 <= n
    BY <1>1
  <2>2. Below[Top.part] \subseteq Below[stack[i + 1].part]
    BY <1>1, <2>1, FramesNest
  <2> QED BY <2>1, <2>2, FramesAreApart
<1>4. AheadIn(stack) = OuterAhead \cup Ahead(Top)
  <2>1. n \in DOMAIN stack /\ (\A i \in DOMAIN stack : i = n \/ i \in 1 .. n - 1)
        /\ (\A i \in 1 .. n - 1 : i \in DOMAIN stack)
    BY <1>1
  <2> HIDE DEF n
  <2> QED BY <1>1, <2>1 DEF AheadIn, OuterAhead, n
<1>5. OuterAhead \cap Below[Top.part] = {}
  BY <1>3 DEF OuterAhead
<1> QED BY <1>1, <1>2, <1>3, <1>4, <1>5, BelowAPart

LEMMA AlikeIsAhead ==
  ASSUME NEW f, NEW g, Alike(g, f)
  PROVE  Ahead(g) = Ahead(f)
BY DEF Alike, Ahead, Waiting

LEMMA ChangingTopAhead ==
  ASSUME IInv, call # "none", NEW g, TopLike(g)
  PROVE  AheadIn(stack') = OuterAhead \cup Ahead(g)
<1> DEFINE n == Len(stack)
<1>1. /\ n \in Nat /\ n >= 1 /\ DOMAIN stack' = 1 .. n /\ Alike(stack'[n], g)
      /\ \A i \in 1 .. n - 1 : Alike(stack'[i], stack[i])
  BY TopIsAFrame DEF TopLike, OuterAlike
<1>2. Ahead(stack'[n]) = Ahead(g) /\ \A i \in 1 .. n - 1 : Ahead(stack'[i]) = Ahead(stack[i])
  BY <1>1, AlikeIsAhead
<1>3. n \in DOMAIN stack' /\ (\A i \in DOMAIN stack' : i = n \/ i \in 1 .. n - 1)
      /\ (\A i \in 1 .. n - 1 : i \in DOMAIN stack')
  BY <1>1
<1> HIDE DEF n
<1> QED BY <1>2, <1>3 DEF AheadIn, OuterAhead, n

LEMMA GoingDownAhead ==
  ASSUME IInv, PartsInv, NEW k \in Parts, Down(k)
  PROVE  /\ AheadIn(stack') = AheadIn(stack)
<1> DEFINE n == Len(stack)
           g == [Top EXCEPT !.todo = @ \ {k}]
<1>1. call # "none" /\ Top.inside /\ k \in Top.todo
  BY GoingDownShape DEF Down
<1>2. n \in Nat /\ n >= 1 /\ DOMAIN stack = 1 .. n /\ Top = stack[n] /\ IsFrame(Top)
  BY <1>1, TopIsAFrame
<1>3. PICK t : TopsAre(g, Frame(k, t, Top.val))
  BY GoingDownShape
<1>4. g.todo = Top.todo \ {k} /\ g.inside
  BY <1>1, <1>2 DEF IsFrame
<1>5. Ahead(Top) = UNION {Below[l] : l \in Top.todo} /\ Ahead(g) = UNION {Below[l] : l \in g.todo}
  BY <1>1, <1>4 DEF Ahead, Waiting
<1>6. Ahead(Frame(k, t, Top.val)) = Below[k]
  BY DEF Frame, Ahead
<1>7. Ahead(Top) = Ahead(g) \cup Below[k]
  BY <1>1, <1>4, <1>5
<1>8. /\ DOMAIN stack' = 1 .. n + 1 /\ stack'[n] = g /\ stack'[n + 1] = Frame(k, t, Top.val)
      /\ \A i \in 1 .. n - 1 : stack'[i] = stack[i]
  BY <1>3 DEF TopsAre
<1>9. AheadIn(stack) = OuterAhead \cup Ahead(Top)
  BY <1>1, AheadOfTop
<1>10. /\ n \in DOMAIN stack' /\ n + 1 \in DOMAIN stack'
       /\ (\A i \in DOMAIN stack' : i = n + 1 \/ i = n \/ i \in 1 .. n - 1)
       /\ (\A i \in 1 .. n - 1 : i \in DOMAIN stack')
  BY <1>2, <1>8
<1> HIDE DEF n, g
<1>11. AheadIn(stack') = OuterAhead \cup Ahead(g) \cup Below[k]
  BY <1>6, <1>8, <1>10 DEF AheadIn, OuterAhead, n
<1> QED BY <1>7, <1>9, <1>11

(* A frame that is left had nothing ahead. *)
LEMMA LeavingAhead ==
  ASSUME IInv, PartsInv, call # "none", Top.inside, Top.todo = {},
         NEW g, OuterIs(g), Ahead(g) = Ahead(stack[Len(stack) - 1])
  PROVE  AheadIn(stack') = AheadIn(stack)
<1> DEFINE n == Len(stack)
<1>1. /\ n \in Nat /\ n > 1 /\ DOMAIN stack' = 1 .. n - 1 /\ stack'[n - 1] = g
      /\ \A i \in 1 .. n - 2 : stack'[i] = stack[i]
  BY TopIsAFrame DEF OuterIs
<1>2. Ahead(Top) = {}
  BY DEF Ahead, Waiting
<1>3. AheadIn(stack) = OuterAhead
  BY <1>2, AheadOfTop
<1>4. Ahead(g) = Ahead(stack[n - 1])
  OBVIOUS
<1>5. n - 1 \in 1 .. n - 1 /\ (\A i \in 1 .. n - 1 : i = n - 1 \/ i \in 1 .. n - 2)
  BY <1>1
<1> HIDE DEF n
<1>6. \A i \in 1 .. n - 1 : Ahead(stack'[i]) = Ahead(stack[i])
  BY <1>1, <1>4, <1>5
<1> QED BY <1>1, <1>3, <1>6 DEF AheadIn, OuterAhead, n

(* The parts in the innermost frame that are ahead when it is entered. *)
LEMMA EnteringAhead ==
  ASSUME IInv, PartsInv, call # "none", ~Top.inside, NEW g
  PROVE  /\ Entered(g, Top, KidsIn(Top.part, Top.val)) =>
              /\ Ahead(g) \subseteq Below[Top.part] \ {Top.part}
              /\ \A q \in Below[Top.part] \ {Top.part} : q \in DOMAIN Top.val => q \in Ahead(g)
         /\ Entered(g, Top, {}) => Ahead(g) = {}
         /\ Ahead(Top) = Below[Top.part]
         /\ \A q \in Below[Top.part] : q \in DOMAIN value => q \in DOMAIN Top.val
<1>1. Ahead(Top) = Below[Top.part]
  BY DEF Ahead
<1>2. FrameFits(Top, {}, AroundIn(stack, Len(stack), value), value, call) /\ Top.part \in Parts
  BY TopFrameFits
<1>3. Entered(g, Top, {}) => Ahead(g) = {}
  BY DEF Entered, Ahead, Waiting
<1>4. ASSUME Entered(g, Top, KidsIn(Top.part, Top.val))
      PROVE  /\ Ahead(g) \subseteq Below[Top.part] \ {Top.part}
             /\ \A q \in Below[Top.part] \ {Top.part} : q \in DOMAIN Top.val => q \in Ahead(g)
  <2>1. Ahead(g) = UNION {Below[k] : k \in KidsIn(Top.part, Top.val)}
    BY <1>4 DEF Entered, Ahead, Waiting
  <2>2. \A k \in In(Kids[Top.part]) : Below[k] \subseteq Below[Top.part] \ {Top.part}
    BY <1>2, KidsAreApart, BelowAPart
  <2>3. ASSUME NEW q \in Below[Top.part] \ {Top.part}, q \in DOMAIN Top.val
        PROVE  q \in Ahead(g)
    <3>1. PICK k \in In(Kids[Top.part]) : q \in Below[k]
      BY <1>2, BelowAPart
    <3>2. k \in Below[Top.part]
      BY <1>2, <3>1, KidsAreParts, BelowAPart
    <3>3. k \in DOMAIN Top.val
      BY <1>2, <2>3, <3>1, <3>2 DEF FrameFits, WellFormed
    <3> QED BY <2>1, <3>1, <3>3 DEF KidsIn
  <2> QED BY <2>1, <2>2, <2>3 DEF KidsIn
<1> QED BY <1>1, <1>2, <1>3, <1>4 DEF FrameFits

----------------------------------------------------------------------------
(* Walk.                                                                   *)

AnsweredIn(ans, what) == {a.part : a \in {b \in ans : b.what = what}}
InOrder(op, seq) ==
  \A j \in DOMAIN seq : \A i \in 1 .. j - 1 :
    IF op = "Walk" THEN seq[i] \notin Below[seq[j]] ELSE seq[j] \notin Below[seq[i]]

(* A part has been visited, or is ahead, or is in one that the callback    *)
(* said not to enter.                                                      *)
WalkedTo(seq, s, ans, v) ==
  /\ seq \in Seq(Parts) /\ In(seq) \subseteq DOMAIN v /\ InOrder("Walk", seq)
  /\ \A q \in DOMAIN v :
       /\ q \in In(seq) <=> ~Within(q, AnsweredIn(ans, "stop")) /\ q \notin AheadIn(s)
       /\ q \in AheadIn(s) => ~Within(q, AnsweredIn(ans, "stop"))

WalkInv == call = "Walk" => WalkedTo(visited, stack, answers, value)

LEMMA AnotherAnswer ==
  ASSUME NEW what, NEW mark, NEW by, Answering(what, mark, by), NEW kind
  PROVE  AnsweredIn(answers', kind) =
           AnsweredIn(answers, kind) \cup (IF kind = what THEN {Top.part} ELSE {})
<1> DEFINE a == [part |-> Top.part, what |-> what, mark |-> mark, by |-> by]
<1>1. answers' = answers \cup {a} /\ a.part = Top.part /\ a.what = what
  BY DEF Answering
<1> HIDE DEF a
<1>2. \A x : x \in AnsweredIn(answers', kind) <=>
            \/ x \in AnsweredIn(answers, kind)
            \/ kind = what /\ x = Top.part
  BY <1>1 DEF AnsweredIn
<1> QED BY <1>2

LEMMA AppendingAPart ==
  ASSUME NEW seq \in Seq(Parts), NEW p \in Parts
  PROVE  /\ Append(seq, p) \in Seq(Parts) /\ In(Append(seq, p)) = In(seq) \cup {p}
<1>1. /\ Len(seq) \in Nat /\ DOMAIN seq = 1 .. Len(seq)
      /\ DOMAIN Append(seq, p) = 1 .. Len(seq) + 1 /\ Append(seq, p)[Len(seq) + 1] = p
      /\ \A i \in 1 .. Len(seq) : Append(seq, p)[i] = seq[i]
  OBVIOUS
<1>2. /\ Len(seq) + 1 \in DOMAIN Append(seq, p)
      /\ (\A i \in DOMAIN Append(seq, p) : i = Len(seq) + 1 \/ i \in DOMAIN seq)
      /\ (\A i \in DOMAIN seq : i \in DOMAIN Append(seq, p))
  BY <1>1
<1>3. In(Append(seq, p)) = In(seq) \cup {p}
  BY <1>1, <1>2 DEF In
<1> QED BY <1>3

LEMMA AppendingInOrder ==
  ASSUME NEW op, NEW seq \in Seq(Parts), NEW p \in Parts, InOrder(op, seq),
         \A r \in In(seq) : IF op = "Walk" THEN r \notin Below[p] ELSE p \notin Below[r]
  PROVE  InOrder(op, Append(seq, p))
<1> DEFINE new == Append(seq, p)
           n == Len(seq)
<1>1. /\ n \in Nat /\ DOMAIN seq = 1 .. n
      /\ DOMAIN new = 1 .. n + 1 /\ new[n + 1] = p
      /\ \A i \in 1 .. n : new[i] = seq[i]
  OBVIOUS
<1> HIDE DEF new, n
<1>2. ASSUME NEW j \in DOMAIN new, NEW i \in 1 .. j - 1
      PROVE  IF op = "Walk" THEN new[i] \notin Below[new[j]] ELSE new[j] \notin Below[new[i]]
  <2>1. CASE j = n + 1
    <3>1. i \in 1 .. n /\ i \in DOMAIN seq /\ new[i] = seq[i] /\ new[j] = p
      BY <1>1, <1>2, <2>1
    <3>2. seq[i] \in In(seq)
      BY <3>1 DEF In
    <3> QED BY <3>1, <3>2
  <2>2. CASE j # n + 1
    <3>1. j \in DOMAIN seq /\ i \in 1 .. n /\ j \in 1 .. n /\ new[i] = seq[i] /\ new[j] = seq[j]
      BY <1>1, <1>2, <2>2
    <3> QED BY <1>2, <3>1 DEF InOrder
  <2> QED BY <2>1, <2>2
<1> QED BY <1>2 DEF InOrder, new

LEMMA WalkingStaysAhead ==
  ASSUME NEW s, NEW t, NEW seq, NEW ans, NEW v, AheadIn(t) = AheadIn(s), WalkedTo(seq, s, ans, v)
  PROVE  WalkedTo(seq, t, ans, v)
BY DEF WalkedTo

LEMMA VisitingWalks ==
  ASSUME IInv, PartsInv, WalkInv, WalkVisit
  PROVE  WalkedTo(visited', stack', answers', value)
<1> DEFINE p == Top.part
           B == Below[p]
<1>1. /\ call = "Walk" /\ call # "none" /\ ~Top.inside /\ visited' = Append(visited, p)
  BY VisitingAPart
<1>2. PICK g : VisitsPart(g)
  BY VisitingAPart
<1>3. /\ visited \in Seq(Parts) /\ In(visited) \subseteq DOMAIN value
      /\ InOrder("Walk", visited)
      /\ \A q \in DOMAIN value :
           /\ q \in In(visited) <=>
                ~Within(q, AnsweredIn(answers, "stop")) /\ q \notin AheadIn(stack)
           /\ q \in AheadIn(stack) => ~Within(q, AnsweredIn(answers, "stop"))
  BY <1>1 DEF WalkInv, WalkedTo
<1>4. /\ AheadIn(stack) = OuterAhead \cup B /\ OuterAhead \cap B = {} /\ p \in Parts /\ p \in B
      /\ Ahead(Top) = B
  BY <1>1, AheadOfTop, EnteringAhead
<1>5. p \in DOMAIN value
  <2>1. p \in DOMAIN Top.val /\ DOMAIN Top.val \subseteq DOMAIN value
    BY <1>1, TopFrameFits DEF FrameFits, WellFormed
  <2> QED BY <2>1
<1>6. /\ visited' \in Seq(Parts) /\ In(visited') = In(visited) \cup {p}
      /\ In(visited') \subseteq DOMAIN value
  BY <1>1, <1>3, <1>4, <1>5, AppendingAPart
<1>7. InOrder("Walk", visited')
  <2>1. \A r \in In(visited) : r \notin Below[p]
    BY <1>3, <1>4
  <2> QED BY <1>1, <1>3, <1>4, <2>1, AppendingInOrder
<1>8. AheadIn(stack') = OuterAhead \cup Ahead(g)
  BY <1>1, <1>2, ChangingTopAhead DEF VisitsPart
<1>9. CASE Entered(g, Top, KidsIn(Top.part, Top.val)) /\ UNCHANGED answers
  <2>1. /\ Ahead(g) \subseteq B \ {p}
        /\ \A q \in B \ {p} : q \in DOMAIN value => q \in Ahead(g)
    BY <1>1, <1>9, EnteringAhead
  <2>2. \A q \in DOMAIN value : q \in AheadIn(stack') <=> q \in AheadIn(stack) /\ q # p
    BY <1>4, <1>8, <2>1
  <2> HIDE DEF B
  <2> QED BY <1>3, <1>4, <1>6, <1>7, <1>9, <2>2 DEF WalkedTo
<1>10. CASE Entered(g, Top, {}) /\ Answering("stop", Nothing, Nothing)
  <2>1. Ahead(g) = {}
    BY <1>1, <1>10, EnteringAhead
  <2>2. AheadIn(stack') = AheadIn(stack) \ B
    BY <1>4, <1>8, <2>1
  <2>3. AnsweredIn(answers', "stop") = AnsweredIn(answers, "stop") \cup {p}
    BY <1>10, AnotherAnswer
  <2>4. \A q : Within(q, AnsweredIn(answers', "stop")) <=>
                 Within(q, AnsweredIn(answers, "stop")) \/ q \in B \ {p}
    BY <2>3 DEF Within
  <2> HIDE DEF B
  <2> QED BY <1>3, <1>4, <1>6, <1>7, <2>2, <2>4 DEF WalkedTo
<1> QED BY <1>2, <1>9, <1>10 DEF VisitsPart

LEMMA BeginningWalks ==
  ASSUME PartsInv, NEW op, NEW h, NEW path, Begin(op, h, path)
  PROVE  WalkedTo(visited', stack', answers', value')
<1>1. /\ UNCHANGED value /\ DOMAIN stack' = {1} /\ visited' = << >> /\ answers' = {}
      /\ stack'[1].part = Root /\ ~stack'[1].inside
  BY BeginningKeepsParts DEF PartsInv
<1>2. AheadIn(stack') = Below[Root]
  BY <1>1 DEF AheadIn, Ahead
<1>3. DOMAIN value \subseteq Below[Root]
  BY DEF PartsInv, WellFormed
<1>4. AnsweredIn(answers', "stop") = {} /\ In(visited') = {} /\ InOrder("Walk", visited')
      /\ visited' \in Seq(Parts)
  BY <1>1 DEF AnsweredIn, In, InOrder
<1> QED BY <1>1, <1>2, <1>3, <1>4 DEF WalkedTo, Within

(* A traversal that was not under way before has begun. *)
LEMMA CallsBegin ==
  ASSUME [Next]_vars, call' # call, call' # "none"
  PROVE  \E h, path : Begin(call', h, path)
<1>1. Start
  <2>1. CASE \E k \in Parts : Down(k)
    BY <2>1 DEF Down
  <2>2. CASE Stays
    <3>1. UNCHANGED <<value, calls, call>> \/ \E result, ok : End(result, ok)
      BY <2>2 DEF Stays, WalkVisit, WalkHalt, WalkLeave, TransformEnter, TransformExit,
        TransformFails, MarkWithPathsExit, WrangleMark, UnmarkWithPaths, WrangleInto,
        WrangleLeave, Return, ReturnUnchanged
    <3> QED BY <3>1 DEF End
  <2>3. CASE UNCHANGED vars \/ \E k \in kept, step \in Parts : Extend(k, step)
    BY <2>3 DEF vars, Extend
  <2> QED BY <2>1, <2>2, <2>3 DEF Next, Step, Stays
<1>2. \E op, h, path : Begin(op, h, path)
  BY <1>1 DEF Start, BeginWalk, BeginTransform, BeginMarkWithPaths, BeginWrangle,
              BeginUnmarkWithPaths
<1> QED BY <1>2 DEF Begin

(* A step within a Walk. *)
LEMMA WalksStep ==
  ASSUME [Next]_vars, call = "Walk"
  PROVE  \/ \E k \in Parts : Down(k) /\ UNCHANGED <<visited, answers>>
         \/ WalkVisit \/ WalkHalt \/ WalkLeave
         \/ UNCHANGED <<value, call, stack, calls, visited, answers>>
BY DEF Next, Step, vars, Start, BeginWalk, BeginTransform, BeginMarkWithPaths, BeginWrangle,
       BeginUnmarkWithPaths, Begin, Down, Extend, TransformEnter, TransformExit, TransformFails,
       MarkWithPathsExit, WrangleMark, UnmarkWithPaths, WrangleInto, WrangleLeave, Entering,
       Leaving, Running, Transforms, Wrangles

LEMMA NextKeepsWalkInv ==
  ASSUME IInv, PartsInv, WalkInv, [Next]_vars
  PROVE  WalkInv'
<1> SUFFICES ASSUME call' = "Walk" PROVE WalkedTo(visited', stack', answers', value')
  BY DEF WalkInv
<1>1. CASE call # "Walk"
  <2>1. \E h, path : Begin(call', h, path)
    BY <1>1, CallsBegin
  <2> QED BY <2>1, BeginningWalks
<1>2. CASE call = "Walk"
  <2>1. WalkedTo(visited, stack, answers, value)
    BY <1>2 DEF WalkInv
  <2>2. CASE \E k \in Parts : Down(k) /\ UNCHANGED <<visited, answers>>
    <3>1. AheadIn(stack') = AheadIn(stack) /\ UNCHANGED <<visited, answers, value>>
      BY <2>2, GoingDownAhead DEF Down
    <3> QED BY <2>1, <3>1, WalkingStaysAhead
  <2>3. CASE WalkVisit
    BY <2>3, VisitingWalks, VisitingAPart
  <2>4. CASE WalkHalt
    BY <2>4 DEF WalkHalt, End
  <2>5. CASE WalkLeave
    <3>1. /\ ReturnUnchanged /\ UNCHANGED <<visited, answers>> /\ call # "none"
          /\ Top.inside /\ Top.todo = {}
      BY <2>5 DEF WalkLeave, Leaving, Running, Walks
    <3>2. Len(stack) # 1
      BY <3>1 DEF ReturnUnchanged, End
    <3>3. OuterIs(stack[Len(stack) - 1]) /\ UNCHANGED value
      BY <3>1, <3>2, LosingKeepsParts
    <3>4. AheadIn(stack') = AheadIn(stack)
      BY <3>1, <3>3, LeavingAhead
    <3> QED BY <2>1, <3>1, <3>3, <3>4, WalkingStaysAhead
  <2>6. CASE UNCHANGED <<value, call, stack, calls, visited, answers>>
    BY <2>1, <2>6
  <2> QED BY <1>2, <2>2, <2>3, <2>4, <2>5, <2>6, WalksStep
<1> QED BY <1>1, <1>2

(* A Walk that ends well has visited what it was to visit, in order. *)
LEMMA WalkEndsWell ==
  ASSUME IInv, PartsInv, WalkInv, calls \in Seq(In(calls)), [Next]_vars, EndsWell("Walk")
  PROVE  WalksEverywhere /\ VisitsInOrder("Walk")
<1>1. call = "Walk" /\ call # "none" /\ call' = "none" /\ calls'[Len(calls')].ok
  BY DEF EndsWell
<1>2. ~WalkHalt
  BY <1>1 DEF WalkHalt, End
<1>3. WalkLeave
  BY <1>1, <1>2, WalksStep DEF Down, WalkVisit
<1>4. UNCHANGED <<visited, answers>> /\ Top.inside /\ Top.todo = {} /\ ReturnUnchanged
  BY <1>3 DEF WalkLeave, Leaving
<1>5. Len(stack) = 1
  BY <1>1, <1>4 DEF ReturnUnchanged
<1>6. AheadIn(stack) = {}
  <2>1. Top = stack[1] /\ DOMAIN stack = 1 .. 1
    BY <1>1, <1>5, TopIsAFrame
  <2>2. Ahead(Top) = {}
    BY <1>4 DEF Ahead, Waiting
  <2> QED BY <2>1, <2>2 DEF AheadIn
<1>7. PartsAnswered("stop") = AnsweredIn(answers, "stop")
  BY <1>4 DEF PartsAnswered, Answered, AnsweredIn
<1>8. WalkedTo(visited, stack, answers, value)
  BY <1>1 DEF WalkInv
<1>9. In(visited) = {p \in DOMAIN value : ~Within(p, AnsweredIn(answers, "stop"))}
  BY <1>6, <1>8 DEF WalkedTo
<1> QED BY <1>4, <1>7, <1>8, <1>9 DEF WalksEverywhere, VisitsInOrder, WalkedTo, InOrder

----------------------------------------------------------------------------
(* WrangleMarksDeep.                                                       *)

MarksOf(ans, p, what) == {a.mark : a \in {b \in ans : b.what = what /\ b.part = p}}
BysOf(ans, p) == {a.by : a \in {b \in ans : b.what = "replace" /\ b.part = p}}
Expanded(ans) == {a.mark : a \in {b \in ans : b.what = "expand"}}

(* The marks that part p has after the answers; those that one answer took *)
(* from it and another put there; and that it has them, but for these.     *)
GoneIn(ans, p) == MarksOf(ans, p, "drop") \cup MarksOf(ans, p, "replace")
WrangledIn(ans, v, p) == (v[p] \ GoneIn(ans, p)) \cup BysOf(ans, p)
ContestedIn(ans, p) == GoneIn(ans, p) \cap BysOf(ans, p)
WrangledAs(marks, ans, v, p) ==
  \A x : x \notin ContestedIn(ans, p) => (x \in marks <=> x \in WrangledIn(ans, v, p))

(* A frame's parts, but those in the frame inside it, have the marks that  *)
(* the answers so far give them; and it differs from what is around it     *)
(* only if it says so.                                                     *)
FrameWrangled(f, inner, outer, v, ans) ==
  /\ f.made \/ \A q \in DOMAIN f.val : f.val[q] = outer[q]
  /\ \A q \in DOMAIN f.val :
       (\A k \in inner : q \notin Below[k]) => WrangledAs(f.val[q], ans, v, q)

AnswersBehind(s, ans) ==
  \A a \in ans : \A i \in DOMAIN s : a.part \in Ahead(s[i]) => a.part = s[i].part

FramesWrangled(s, v, ans) ==
  \A i \in DOMAIN s : FrameWrangled(s[i], InnerIn(s, i), AroundIn(s, i, v), v, ans)

WrangleInv ==
  call = "WrangleMarksDeep" =>
    /\ AnswersBehind(stack, answers) /\ FramesWrangled(stack, value, answers)
    /\ stack[1].top = Expanded(answers)

(* Answers about another part leave the marks of a part as they are. *)
LEMMA OtherAnswers ==
  ASSUME NEW what, NEW mark, NEW by, Answering(what, mark, by), NEW q, q # Top.part, NEW v
  PROVE  \A marks : WrangledAs(marks, answers', v, q) <=> WrangledAs(marks, answers, v, q)
<1> DEFINE a == [part |-> Top.part, what |-> what, mark |-> mark, by |-> by]
<1>1. answers' = answers \cup {a} /\ a.part = Top.part
  BY DEF Answering
<1> HIDE DEF a
<1>2. \A kind : MarksOf(answers', q, kind) = MarksOf(answers, q, kind)
  BY <1>1 DEF MarksOf
<1>3. BysOf(answers', q) = BysOf(answers, q)
  BY <1>1 DEF BysOf
<1> QED BY <1>2, <1>3 DEF WrangledAs, WrangledIn, ContestedIn, GoneIn

(* An answer about a mark of the part: what it says of the marks that are  *)
(* not contested.                                                          *)
LEMMA ThisAnswer ==
  ASSUME NEW what, NEW m, NEW by, Answering(what, m, by), NEW v,
         NEW x, x \notin ContestedIn(answers', Top.part)
  PROVE  LET old == WrangledIn(answers, v, Top.part)
             new == WrangledIn(answers', v, Top.part)
         IN /\ x \notin ContestedIn(answers, Top.part)
            /\ what = "drop" => (x \in new <=> x \in old \ {m})
            /\ what = "replace" => (x \in new <=> x \in (old \ {m}) \cup {by})
            /\ what = "expand" => (x \in new <=> x \in old)
<1> DEFINE a == [part |-> Top.part, what |-> what, mark |-> m, by |-> by]
           p == Top.part
<1>1. answers' = answers \cup {a} /\ a.part = p /\ a.what = what /\ a.by = by /\ a.mark = m
  BY DEF Answering
<1> HIDE DEF a, p
<1>2. x \in MarksOf(answers', p, "drop") <=>
        x \in MarksOf(answers, p, "drop") \/ (what = "drop" /\ x = m)
  BY <1>1 DEF MarksOf
<1>3. x \in MarksOf(answers', p, "replace") <=>
        x \in MarksOf(answers, p, "replace") \/ (what = "replace" /\ x = m)
  BY <1>1 DEF MarksOf
<1>4. x \in BysOf(answers', p) <=>
        x \in BysOf(answers, p) \/ (what = "replace" /\ x = by)
  BY <1>1 DEF BysOf
<1>5. x \notin ContestedIn(answers', p)
  BY DEF p
<1> QED BY <1>2, <1>3, <1>4, <1>5 DEF WrangledIn, ContestedIn, GoneIn, p

LEMMA ExpandedMarks ==
  ASSUME NEW what, NEW m, NEW by, Answering(what, m, by)
  PROVE  Expanded(answers') = Expanded(answers) \cup (IF what = "expand" THEN {m} ELSE {})
<1> DEFINE a == [part |-> Top.part, what |-> what, mark |-> m, by |-> by]
<1>1. answers' = answers \cup {a} /\ a.what = what /\ a.mark = m
  BY DEF Answering
<1> HIDE DEF a
<1>2. \A x : x \in Expanded(answers') <=>
            x \in Expanded(answers) \/ (what = "expand" /\ x = m)
  BY <1>1 DEF Expanded
<1> QED BY <1>2

LEMMA AlikeWrangled ==
  ASSUME NEW f, NEW g, Alike(g, f), NEW inner, NEW outer, NEW v, NEW ans,
         FrameWrangled(f, inner, outer, v, ans)
  PROVE  FrameWrangled(g, inner, outer, v, ans)
BY DEF Alike, FrameWrangled

(* The outer frames stay wrangled, also when there is an answer about the  *)
(* innermost part.                                                         *)
LEMMA OuterFramesWrangled ==
  ASSUME IInv, PartsInv, call # "none", FramesWrangled(stack, value, answers),
         NEW m, OuterAlike(m),
         UNCHANGED answers \/ (m = Len(stack) /\ \E what, mark, by : Answering(what, mark, by))
  PROVE  \A i \in 1 .. m - 1 :
           FrameWrangled(stack'[i], InnerIn(stack', i), AroundIn(stack', i, value), value, answers')
<1> TAKE i \in 1 .. m - 1
<1> DEFINE f == stack[i]
           inner == InnerIn(stack, i)
           outer == AroundIn(stack, i, value)
<1>1. /\ i \in DOMAIN stack /\ Alike(stack'[i], f)
      /\ InnerIn(stack', i) = inner /\ AroundIn(stack', i, value) = outer
  BY OuterFramesAlike
<1>2. FrameWrangled(f, inner, outer, value, answers)
  BY <1>1 DEF FramesWrangled
<1>3. CASE UNCHANGED answers
  <2> HIDE DEF f, inner, outer
  <2> QED BY <1>1, <1>2, <1>3, AlikeWrangled
<1>4. CASE m = Len(stack) /\ \E what, mark, by : Answering(what, mark, by)
  <2>1. PICK what, mark, by : Answering(what, mark, by)
    BY <1>4
  <2>2. i < Len(stack) /\ Len(stack) \in DOMAIN stack /\ i + 1 \in DOMAIN stack
        /\ i + 1 <= Len(stack) /\ Top = stack[Len(stack)] /\ Len(stack) \in Nat
    BY <1>1, <1>4, TopIsAFrame
  <2>3. inner = {stack[i + 1].part} /\ Top.part \in Below[stack[i + 1].part]
    BY <1>1, <2>2, FramesAreApart, FramesNest
  <2>4. \A q : (\A k \in inner : q \notin Below[k]) => q # Top.part
    BY <2>3
  <2>5. \A q : q # Top.part =>
          \A marks : WrangledAs(marks, answers', value, q) <=> WrangledAs(marks, answers, value, q)
    BY <2>1, OtherAnswers
  <2> HIDE DEF f, inner, outer
  <2>6. FrameWrangled(f, inner, outer, value, answers')
    BY <1>2, <2>4, <2>5 DEF FrameWrangled
  <2> QED BY <1>1, <2>6, AlikeWrangled
<1> QED BY <1>3, <1>4

(* The frames are wrangled when the outer ones and the innermost are. *)
LEMMA ChangingTopWrangles ==
  ASSUME IInv, PartsInv, call # "none", FramesWrangled(stack, value, answers),
         NEW g, TopLike(g),
         UNCHANGED answers \/ \E what, mark, by : Answering(what, mark, by),
         FrameWrangled(g, {}, AroundIn(stack, Len(stack), value), value, answers')
  PROVE  FramesWrangled(stack', value, answers')
<1> DEFINE n == Len(stack)
           outer == AroundIn(stack, n, value)
<1>1. n \in Nat /\ n >= 1
  BY TopIsAFrame
<1>2. /\ OuterAlike(n) /\ Len(stack') = n /\ Alike(stack'[n], g) /\ DOMAIN stack' = 1 .. n
  BY DEF TopLike, OuterAlike
<1>3. InnerIn(stack', n) = {} /\ AroundIn(stack', n, value) = outer
  <2>1. InnerIn(stack', n) = {}
    BY <1>1, <1>2 DEF InnerIn
  <2> HIDE DEF n
  <2> QED BY <1>2, <2>1, OuterFramesAlike
<1>4. FrameWrangled(g, {}, outer, value, answers')
  OBVIOUS
<1>5. \A i \in 1 .. n - 1 :
        FrameWrangled(stack'[i], InnerIn(stack', i), AroundIn(stack', i, value), value, answers')
  <2>1. UNCHANGED answers \/ (n = Len(stack) /\ \E what, mark, by : Answering(what, mark, by))
    OBVIOUS
  <2> HIDE DEF n, outer
  <2> QED BY <1>2, <2>1, OuterFramesWrangled
<1> HIDE DEF n, outer
<1>6. FrameWrangled(stack'[n], InnerIn(stack', n), AroundIn(stack', n, value), value, answers')
  BY <1>2, <1>3, <1>4, AlikeWrangled
<1>7. \A i \in 1 .. n : i = n \/ i \in 1 .. n - 1
  BY <1>1
<1> QED BY <1>2, <1>5, <1>6, <1>7 DEF FramesWrangled

LEMMA TopWrangled ==
  ASSUME IInv, PartsInv, WrangleInv, call = "WrangleMarksDeep"
  PROVE  /\ FrameWrangled(Top, {}, AroundIn(stack, Len(stack), value), value, answers)
         /\ FramesWrangled(stack, value, answers) /\ AnswersBehind(stack, answers)
         /\ stack[1].top = Expanded(answers)
<1>1. /\ FramesWrangled(stack, value, answers) /\ AnswersBehind(stack, answers)
      /\ stack[1].top = Expanded(answers)
  BY DEF WrangleInv
<1>2. Len(stack) \in DOMAIN stack /\ Top = stack[Len(stack)] /\ InnerIn(stack, Len(stack)) = {}
  BY TopIsAFrame, TopFrameFits
<1>3. FrameWrangled(Top, {}, AroundIn(stack, Len(stack), value), value, answers)
  BY <1>1, <1>2 DEF FramesWrangled
<1> QED BY <1>1, <1>3

(* What is ahead has no answers. *)
LEMMA ChangingTopAnswers ==
  ASSUME IInv, call # "none", AnswersBehind(stack, answers), NEW g, TopLike(g),
         \/ g.part = Top.part /\ Ahead(g) \subseteq Ahead(Top) /\ UNCHANGED answers
         \/ /\ g.part = Top.part /\ Ahead(g) \subseteq Ahead(Top)
            /\ PartsInv /\ \E what, mark, by : Answering(what, mark, by)
  PROVE  AnswersBehind(stack', answers')
<1> DEFINE n == Len(stack)
<1>1. /\ n \in Nat /\ n >= 1 /\ DOMAIN stack' = 1 .. n /\ DOMAIN stack = 1 .. n
      /\ Alike(stack'[n], g) /\ Top = stack[n]
      /\ \A i \in 1 .. n - 1 : Alike(stack'[i], stack[i])
  BY TopIsAFrame DEF TopLike, OuterAlike
<1>2. \A i \in 1 .. n - 1 : Ahead(stack'[i]) = Ahead(stack[i]) /\ stack'[i].part = stack[i].part
  BY <1>1, AlikeIsAhead DEF Alike
<1>3. Ahead(stack'[n]) = Ahead(g) /\ stack'[n].part = Top.part
  BY <1>1, AlikeIsAhead DEF Alike
<1>4. ASSUME NEW i \in 1 .. n
      PROVE  Ahead(stack'[i]) \subseteq Ahead(stack[i]) /\ stack'[i].part = stack[i].part
  <2>1. i = n \/ i \in 1 .. n - 1
    <3> HIDE DEF n
    <3> QED BY <1>1
  <2> QED BY <1>1, <1>2, <1>3, <2>1
<1>5. CASE UNCHANGED answers
  BY <1>1, <1>4, <1>5 DEF AnswersBehind
<1>6. CASE PartsInv /\ \E what, mark, by : Answering(what, mark, by)
  <2>1. \A a \in answers' : a \in answers \/ a.part = Top.part
    BY <1>6 DEF Answering
  <2>2. OuterAhead \cap Below[Top.part] = {} /\ Top.part \in Below[Top.part]
    BY <1>6, AheadOfTop
  <2>3. \A i \in 1 .. n : Top.part \in Ahead(stack'[i]) => Top.part = stack'[i].part
    <3>1. \A i \in 1 .. n - 1 : Top.part \notin Ahead(stack[i])
      BY <2>2 DEF OuterAhead
    <3> HIDE DEF n
    <3>2. \A i \in 1 .. n : i = n \/ i \in 1 .. n - 1
      BY <1>1
    <3> QED BY <1>2, <1>3, <3>1, <3>2
  <2> HIDE DEF n
  <2> QED BY <1>1, <1>4, <2>1, <2>3 DEF AnswersBehind
<1> QED BY <1>5, <1>6

LEMMA WranglingAMarkWrangles ==
  ASSUME IInv, PartsInv, WrangleInv, NEW m \in Marks, WrangleMark(m)
  PROVE  /\ AnswersBehind(stack', answers') /\ FramesWrangled(stack', value, answers')
         /\ stack'[1].top = Expanded(answers')
<1> DEFINE outer == AroundIn(stack, Len(stack), value)
           p == Top.part
<1>1. /\ call = "WrangleMarksDeep" /\ call # "none" /\ m \in Top.given /\ ~Top.inside
  BY WranglingAMark
<1>2. PICK g : TopLike(g) /\ Wrangles1(g, m)
  BY WranglingAMark
<1>3. /\ FrameWrangled(Top, {}, outer, value, answers)
      /\ FramesWrangled(stack, value, answers) /\ AnswersBehind(stack, answers)
      /\ stack[1].top = Expanded(answers)
  BY <1>1, TopWrangled
<1>4. /\ FrameFits(Top, {}, outer, value, call) /\ IsFrame(Top) /\ p \in Parts
      /\ p \in DOMAIN Top.val
  BY <1>1, TopFrameFits DEF FrameFits, WellFormed
<1>5. LET v == Visited(Top, m)
      IN /\ v.part = p /\ v.inside = Top.inside /\ v.todo = Top.todo /\ v.top = Top.top
         /\ v.given = Top.given \ {m} /\ v.val = Top.val /\ v.made = Top.made
  BY <1>4, RemarkingAFrame
<1>6. UNCHANGED answers \/ \E what, mark, by : Answering(what, mark, by)
  BY <1>2 DEF Wrangles1
<1>7. g.part = p /\ g.inside = Top.inside /\ g.todo = Top.todo /\ g.top = Top.top
      /\ g.given = Top.given \ {m}
  BY <1>2, <1>5 DEF Wrangles1, Remarked
<1>8. Ahead(g) = Ahead(Top)
  BY <1>7 DEF Ahead, Waiting
<1>9. AnswersBehind(stack', answers')
  <2> HIDE DEF outer
  <2> QED BY <1>1, <1>2, <1>3, <1>6, <1>7, <1>8, ChangingTopAnswers DEF p
<1>10. WrangledAs(Top.val[p], answers, value, p)
  BY <1>3, <1>4 DEF FrameWrangled
<1>11. \A q : q # p =>
         \A marks : WrangledAs(marks, answers', value, q) <=> WrangledAs(marks, answers, value, q)
  BY <1>6, OtherAnswers
<1>13. /\ g.made \/ (g.val = Top.val /\ g.made = Top.made)
       /\ DOMAIN g.val = DOMAIN Top.val /\ \A q \in DOMAIN Top.val : q # p => g.val[q] = Top.val[q]
  <2>1. CASE g = Visited(Top, m)
    BY <1>5, <2>1
  <2>2. CASE g # Visited(Top, m)
    <3>1. g.made /\ \E marks : Remarked(g, Top, m, marks)
      BY <1>2, <2>2 DEF Wrangles1
    <3> QED BY <3>1 DEF Remarked
  <2> QED BY <2>1, <2>2
<1>14. WrangledAs(g.val[p], answers', value, p)
  <2> SUFFICES ASSUME NEW x, x \notin ContestedIn(answers', p)
               PROVE  x \in g.val[p] <=> x \in WrangledIn(answers', value, p)
    BY DEF WrangledAs
  <2> DEFINE old == WrangledIn(answers, value, p)
             new == WrangledIn(answers', value, p)
  <2>1. ASSUME NEW what, NEW by, Answering(what, m, by)
        PROVE  /\ x \in Top.val[p] <=> x \in old
               /\ what = "drop" => (x \in new <=> x \in old \ {m})
               /\ what = "replace" => (x \in new <=> x \in (old \ {m}) \cup {by})
               /\ what = "expand" => (x \in new <=> x \in old)
    BY <1>10, <2>1, ThisAnswer DEF WrangledAs
  <2>2. CASE g = Visited(Top, m) /\ UNCHANGED answers
    BY <1>5, <1>10, <2>2 DEF WrangledAs
  <2>3. CASE g = Visited(Top, m) /\ Answering("expand", m, Nothing)
    <3>1. (x \in new <=> x \in old) /\ (x \in Top.val[p] <=> x \in old)
      BY <2>1, <2>3
    <3> QED BY <1>5, <2>3, <3>1
  <2>4. CASE Remarked(g, Top, m, Top.val[p] \ {m}) /\ Answering("drop", m, Nothing)
    <3>1. (x \in new <=> x \in old \ {m}) /\ (x \in Top.val[p] <=> x \in old)
      BY <2>1, <2>4
    <3>2. g.val[p] = Top.val[p] \ {m}
      BY <1>4, <2>4 DEF Remarked
    <3> QED BY <3>1, <3>2
  <2>5. CASE \E by : /\ Remarked(g, Top, m, (Top.val[p] \ {m}) \cup {by})
                     /\ Answering("replace", m, by)
    <3>1. PICK by : /\ Remarked(g, Top, m, (Top.val[p] \ {m}) \cup {by})
                    /\ Answering("replace", m, by)
      BY <2>5
    <3>2. (x \in new <=> x \in (old \ {m}) \cup {by}) /\ (x \in Top.val[p] <=> x \in old)
      BY <2>1, <3>1
    <3>3. g.val[p] = (Top.val[p] \ {m}) \cup {by}
      BY <1>4, <3>1 DEF Remarked
    <3> QED BY <3>2, <3>3
  <2> QED BY <1>2, <2>2, <2>3, <2>4, <2>5 DEF Wrangles1
<1>15. FrameWrangled(g, {}, outer, value, answers')
  <2>1. g.made \/ \A q \in DOMAIN g.val : g.val[q] = outer[q]
    BY <1>3, <1>13 DEF FrameWrangled
  <2>2. \A q \in DOMAIN g.val : WrangledAs(g.val[q], answers', value, q)
    <3>1. \A q \in DOMAIN Top.val : WrangledAs(Top.val[q], answers, value, q)
      BY <1>3 DEF FrameWrangled
    <3> HIDE DEF p
    <3> QED BY <1>11, <1>13, <1>14, <3>1
  <2> QED BY <2>1, <2>2 DEF FrameWrangled
<1>16. FramesWrangled(stack', value, answers')
  BY <1>1, <1>2, <1>3, <1>6, <1>15, ChangingTopWrangles
<1>17. stack'[1].top = Expanded(answers')
  <2>1. CASE TopIs(g)
    <3>1. stack'[1].top = stack[1].top
      <4>1. /\ Len(stack) \in Nat /\ Len(stack) >= 1 /\ Top = stack[Len(stack)]
        BY <1>1, TopIsAFrame
      <4>2. CASE Len(stack) = 1
        BY <1>7, <2>1, <4>1, <4>2 DEF TopIs
      <4>3. CASE Len(stack) # 1
        BY <2>1, <4>1, <4>3 DEF TopIs
      <4> QED BY <4>2, <4>3
    <3>2. \/ UNCHANGED answers \/ Answering("drop", m, Nothing)
          \/ \E by : Answering("replace", m, by)
          \/ stack'[1].top = stack[1].top \cup {m} /\ Answering("expand", m, Nothing)
      BY <1>2 DEF Wrangles1
    <3>3. CASE UNCHANGED answers
      BY <1>3, <3>1, <3>3
    <3>4. ASSUME NEW what, NEW by, what # "expand", Answering(what, m, by)
          PROVE  stack'[1].top = Expanded(answers')
      <4>1. Expanded(answers') = Expanded(answers)
        BY <3>4, ExpandedMarks
      <4> QED BY <1>3, <3>1, <4>1
    <3>5. CASE Answering("drop", m, Nothing)
      BY <3>4, <3>5
    <3>6. CASE \E by : Answering("replace", m, by)
      BY <3>4, <3>6
    <3>7. CASE stack'[1].top = stack[1].top \cup {m} /\ Answering("expand", m, Nothing)
      BY <1>3, <3>7, ExpandedMarks
    <3> QED BY <3>2, <3>3, <3>5, <3>6, <3>7
  <2>2. CASE ~TopIs(g)
    <3>1. stack'[1].top = stack[1].top \cup {m} /\ Answering("expand", m, Nothing)
      BY <1>2, <2>2 DEF Wrangles1
    <3> QED BY <1>3, <3>1, ExpandedMarks
  <2> QED BY <2>1, <2>2
<1> QED BY <1>9, <1>16, <1>17

LEMMA GoingInWrangles ==
  ASSUME IInv, PartsInv, WrangleInv, WrangleInto, call = "WrangleMarksDeep"
  PROVE  /\ AnswersBehind(stack', answers') /\ FramesWrangled(stack', value, answers')
         /\ stack'[1].top = Expanded(answers')
<1> DEFINE outer == AroundIn(stack, Len(stack), value)
<1>1. call # "none" /\ ~Top.inside /\ UNCHANGED answers
  BY WranglingIn
<1>2. PICK g : GoesInto(g)
  BY WranglingIn
<1>3. /\ FrameWrangled(Top, {}, outer, value, answers)
      /\ FramesWrangled(stack, value, answers) /\ AnswersBehind(stack, answers)
      /\ stack[1].top = Expanded(answers)
  BY TopWrangled
<1>4. /\ TopLike(g) /\ TopIs(g) /\ g.val = Top.val /\ g.part = Top.part /\ g.inside
      /\ g.top = Top.top /\ g.made = Top.made
  BY <1>2 DEF GoesInto, Entered
<1>5. Ahead(g) \subseteq Ahead(Top)
  <2>1. CASE Kind[Top.part] = "set"
    BY <1>1, <1>2, <2>1, EnteringAhead DEF GoesInto
  <2>2. CASE Kind[Top.part] # "set"
    BY <1>1, <1>2, <2>2, EnteringAhead DEF GoesInto
  <2> QED BY <2>1, <2>2
<1>6. AnswersBehind(stack', answers')
  <2> HIDE DEF outer
  <2> QED BY <1>1, <1>3, <1>4, <1>5, ChangingTopAnswers
<1>7. FrameWrangled(g, {}, outer, value, answers')
  BY <1>1, <1>3, <1>4 DEF FrameWrangled
<1>8. FramesWrangled(stack', value, answers')
  BY <1>1, <1>3, <1>4, <1>7, ChangingTopWrangles
<1>9. stack'[1].top = stack[1].top
  <2>1. Len(stack) \in Nat /\ Len(stack) >= 1 /\ Top = stack[Len(stack)]
    BY <1>1, TopIsAFrame
  <2>2. CASE Len(stack) = 1
    BY <1>4, <2>1, <2>2 DEF TopIs
  <2>3. CASE Len(stack) # 1
    BY <1>4, <2>1, <2>3 DEF TopIs
  <2> QED BY <2>2, <2>3
<1> QED BY <1>1, <1>3, <1>6, <1>8, <1>9

LEMMA GoingDownWrangles ==
  ASSUME IInv, PartsInv, WrangleInv, call = "WrangleMarksDeep", NEW k \in Parts, Down(k),
         UNCHANGED answers
  PROVE  /\ AnswersBehind(stack', answers') /\ FramesWrangled(stack', value, answers')
         /\ stack'[1].top = Expanded(answers')
<1> DEFINE n == Len(stack)
           g == [Top EXCEPT !.todo = @ \ {k}]
           outer == AroundIn(stack, n, value)
<1>1. call # "none" /\ Top.inside /\ k \in Top.todo /\ k \in In(Kids[Top.part])
  BY GoingDownShape DEF Down
<1>2. n \in Nat /\ n >= 1 /\ Top = stack[n] /\ IsFrame(Top) /\ DOMAIN stack = 1 .. n
  BY <1>1, TopIsAFrame
<1>3. PICK t : TopsAre(g, Frame(k, t, Top.val))
  BY GoingDownShape
<1> DEFINE inner == Frame(k, t, Top.val)
<1>4. /\ g.part = Top.part /\ g.val = Top.val /\ g.inside = Top.inside /\ g.top = Top.top
      /\ g.todo = Top.todo \ {k} /\ g.made = Top.made
  BY <1>2 DEF IsFrame
<1>5. /\ inner.part = k /\ inner.inside = FALSE
      /\ inner.val = [q \in Below[k] \cap DOMAIN Top.val |-> Top.val[q]]
      /\ inner.given = Top.val[k]
  BY DEF Frame, Of
<1>6. /\ FrameWrangled(Top, {}, outer, value, answers)
      /\ FramesWrangled(stack, value, answers) /\ AnswersBehind(stack, answers)
      /\ stack[1].top = Expanded(answers)
  BY TopWrangled
<1>7. k \in DOMAIN Top.val /\ Top.part \in Parts
  BY <1>1, TopFrameFits DEF FrameFits
<1>8. /\ DOMAIN stack' = 1 .. n + 1 /\ Len(stack') = n + 1 /\ stack'[n] = g
      /\ stack'[n + 1] = inner /\ \A i \in 1 .. n - 1 : stack'[i] = stack[i]
  BY <1>3 DEF TopsAre
<1>9. OuterAlike(n)
  <2>1. TopsAre(g, inner) /\ g.part = Top.part
    BY <1>3, <1>4
  <2> HIDE DEF inner, g
  <2> QED BY <1>1, <2>1, TopsAreAlike
<1> HIDE DEF g
<1>10. FrameWrangled(g, {k}, outer, value, answers')
  BY <1>4, <1>6, <1>1 DEF FrameWrangled
<1>11. Ahead(g) \subseteq Ahead(Top) /\ Ahead(inner) = Below[k] /\ Below[k] \subseteq Ahead(Top)
  BY <1>1, <1>4, <1>5 DEF Ahead, Waiting
<1>12. Top.part \notin Below[k] /\ k \in Below[k]
  BY <1>1, <1>7, KidsAreApart, BelowAPart
<1>13. \A a \in answers : a.part \notin Below[k]
  <2>1. \A a \in answers : a.part \in Ahead(Top) => a.part = Top.part
    BY <1>2, <1>6 DEF AnswersBehind
  <2> QED BY <1>11, <1>12, <2>1
<1>14. FrameWrangled(inner, {}, Top.val, value, answers')
  <2>1. \A q \in DOMAIN inner.val : q \in DOMAIN Top.val /\ inner.val[q] = Top.val[q]
    BY <1>5
  <2>2. \A q \in DOMAIN Top.val : WrangledAs(Top.val[q], answers, value, q)
    BY <1>6 DEF FrameWrangled
  <2> HIDE DEF inner
  <2> QED BY <1>5, <2>1, <2>2 DEF FrameWrangled
<1>15. /\ InnerIn(stack', n) = {k} /\ InnerIn(stack', n + 1) = {}
       /\ AroundIn(stack', n + 1, value) = Top.val /\ AroundIn(stack', n, value) = outer
  <2>1. /\ InnerIn(stack', n) = {k} /\ InnerIn(stack', n + 1) = {}
        /\ AroundIn(stack', n + 1, value) = Top.val
    <3> HIDE DEF inner, n
    <3> QED BY <1>2, <1>4, <1>5, <1>8 DEF InnerIn, AroundIn
  <2> HIDE DEF n, inner
  <2> QED BY <1>9, <2>1, OuterFramesAlike
<1>16. \A i \in 1 .. n - 1 :
         FrameWrangled(stack'[i], InnerIn(stack', i), AroundIn(stack', i, value), value, answers')
  <2> HIDE DEF n, inner, outer
  <2> QED BY <1>1, <1>6, <1>9, OuterFramesWrangled
<1> HIDE DEF n, inner, outer
<1>17. \A i \in 1 .. n + 1 : i = n + 1 \/ i = n \/ i \in 1 .. n - 1
  BY <1>2
<1>18. FramesWrangled(stack', value, answers')
  BY <1>8, <1>10, <1>14, <1>15, <1>16, <1>17 DEF FramesWrangled
<1>19. AnswersBehind(stack', answers')
  <2>1. \A i \in 1 .. n : i \in DOMAIN stack
    BY <1>2
  <2>2. \A i \in 1 .. n - 1 : i \in 1 .. n
    BY <1>2
  <2>3. n \in DOMAIN stack
    BY <1>2
  <2> QED BY <1>2, <1>4, <1>6, <1>8, <1>11, <1>13, <1>17, <2>1, <2>2, <2>3 DEF AnswersBehind
<1>20. stack'[1].top = stack[1].top
  <2>1. CASE n = 1
    BY <1>2, <1>4, <1>8, <2>1
  <2>2. CASE n # 1
    BY <1>2, <1>8, <2>2
  <2> QED BY <2>1, <2>2
<1> QED BY <1>6, <1>18, <1>19, <1>20

(* A frame that is left: the one around it takes its marks, or has them.   *)
LEMMA LeavingWrangles ==
  ASSUME IInv, PartsInv, WrangleInv, call = "WrangleMarksDeep", WrangleLeave, Len(stack) # 1
  PROVE  /\ AnswersBehind(stack', answers') /\ FramesWrangled(stack', value, answers')
         /\ stack'[1].top = Expanded(answers') /\ UNCHANGED value
<1> DEFINE n == Len(stack) - 1
           o == stack[n]
           p == Top.part
           around == AroundIn(stack, n, value)
           g == IF Top.made THEN Taken(o, Top.val) ELSE o
<1>1. call # "none" /\ Top.inside /\ Top.todo = {} /\ UNCHANGED answers
  BY WranglingOut
<1>2. n \in Nat /\ n >= 1 /\ Len(stack) = n + 1 /\ DOMAIN stack = 1 .. n + 1 /\ Top = stack[n + 1]
  BY <1>1, TopIsAFrame
<1>3. /\ n \in DOMAIN stack /\ IsFrame(o) /\ InnerIn(stack, n) = {p}
      /\ FrameFits(o, {p}, around, value, call)
      /\ AroundIn(stack, Len(stack), value) = o.val
  BY <1>1, OuterFrameFits
<1>4. /\ FrameWrangled(Top, {}, o.val, value, answers)
      /\ FramesWrangled(stack, value, answers) /\ AnswersBehind(stack, answers)
      /\ stack[1].top = Expanded(answers)
  BY <1>3, TopWrangled
<1>5. FrameWrangled(o, {p}, around, value, answers)
  <2> HIDE DEF n
  <2> QED BY <1>3, <1>4 DEF FramesWrangled
<1>6. FrameFits(Top, {}, o.val, value, call)
  BY <1>1, <1>3, TopFrameFits
<1>7. DOMAIN Top.val = Below[p] \cap DOMAIN value /\ DOMAIN o.val \subseteq DOMAIN value
      /\ DOMAIN Top.val \subseteq DOMAIN o.val
  BY <1>3, <1>6 DEF FrameFits
<1>8. /\ OuterIs(g) /\ UNCHANGED value
  <2>1. CASE Top.made
    <3>1. Return(Top.val)
      BY <2>1 DEF WrangleLeave
    <3> QED BY <1>1, <2>1, <3>1, ReturningShape
  <2>2. CASE ~Top.made
    <3>1. ReturnUnchanged
      BY <2>2 DEF WrangleLeave
    <3> QED BY <1>1, <2>2, <3>1, LosingKeepsParts
  <2> QED BY <2>1, <2>2
<1>9. /\ g.part = o.part /\ g.inside = o.inside /\ g.todo = o.todo /\ g.top = o.top
      /\ g.given = o.given /\ DOMAIN g.val = DOMAIN o.val
      /\ Top.made => g.made
      /\ ~Top.made => g = o
      /\ \A q \in DOMAIN o.val :
           g.val[q] = IF q \in Below[p] THEN Top.val[q] ELSE o.val[q]
  <2>1. CASE Top.made
    <3> DEFINE h == Taken(o, Top.val)
    <3>1. /\ h.part = o.part /\ h.inside = o.inside /\ h.todo = o.todo /\ h.top = o.top
          /\ h.made /\ h.given = o.given
          /\ DOMAIN h.val = DOMAIN o.val \ (Below[Top.part] \ DOMAIN Top.val)
          /\ \A q \in DOMAIN h.val :
               h.val[q] = IF q \in DOMAIN Top.val THEN Top.val[q] ELSE o.val[q]
      <4> HIDE DEF n
      <4> QED BY <1>3, TakenFields
    <3>2. g = h
      BY <2>1
    <3> HIDE DEF g, h, o, n, around
    <3>3. DOMAIN h.val = DOMAIN o.val
      BY <1>7, <3>1
    <3>4. \A q \in DOMAIN o.val : q \in DOMAIN Top.val <=> q \in Below[p]
      BY <1>7
    <3> QED BY <2>1, <3>1, <3>2, <3>3, <3>4
  <2>2. CASE ~Top.made
    <3>1. g = o
      BY <2>2
    <3>2. \A q \in DOMAIN Top.val : Top.val[q] = o.val[q]
      BY <1>4, <2>2 DEF FrameWrangled
    <3>3. \A q \in DOMAIN o.val : q \in Below[p] => Top.val[q] = o.val[q]
      <4> HIDE DEF o
      <4> QED BY <1>7, <3>2
    <3> QED BY <2>2, <3>1, <3>3
  <2> QED BY <2>1, <2>2
<1>10. OuterAlike(n)
  <2>1. OuterIs(g) /\ g.part = stack[Len(stack) - 1].part
    BY <1>8, <1>9
  <2> HIDE DEF g
  <2> QED BY <1>1, <2>1, OuterIsAlike
<1> HIDE DEF g
<1>11. Len(stack') = n /\ DOMAIN stack' = 1 .. n /\ stack'[n] = g
  BY <1>8 DEF OuterIs
<1>12. \A i \in 1 .. n - 1 : stack'[i] = stack[i]
  <2>1. n - 1 = Len(stack) - 2
    BY <1>2
  <2> QED BY <1>8, <2>1 DEF OuterIs
<1>13. AroundIn(stack', n, value) = around /\ InnerIn(stack', n) = {}
  <2>1. InnerIn(stack', n) = {}
    BY <1>2, <1>11 DEF InnerIn
  <2> HIDE DEF n
  <2> QED BY <1>10, <2>1, OuterFramesAlike
<1>14. FrameWrangled(g, {}, around, value, answers')
  <2> HIDE DEF o, n, around
  <2>1. g.made \/ \A q \in DOMAIN g.val : g.val[q] = around[q]
    BY <1>5, <1>9 DEF FrameWrangled
  <2>2. \A q \in DOMAIN g.val : WrangledAs(g.val[q], answers, value, q)
    <3>1. \A q \in DOMAIN Top.val : WrangledAs(Top.val[q], answers, value, q)
      BY <1>4 DEF FrameWrangled
    <3>2. \A q \in DOMAIN o.val : q \notin Below[p] => WrangledAs(o.val[q], answers, value, q)
      BY <1>5 DEF FrameWrangled
    <3> QED BY <1>7, <1>9, <3>1, <3>2
  <2> QED BY <1>1, <2>1, <2>2 DEF FrameWrangled
<1>15. \A i \in 1 .. n - 1 :
         FrameWrangled(stack'[i], InnerIn(stack', i), AroundIn(stack', i, value), value, answers')
  <2> HIDE DEF n, o, around
  <2> QED BY <1>1, <1>4, <1>10, OuterFramesWrangled
<1>16. Ahead(g) = Ahead(o)
  BY <1>9 DEF Ahead, Waiting
<1> HIDE DEF n, around
<1>17. \A i \in 1 .. n : i = n \/ i \in 1 .. n - 1
  BY <1>2
<1>18. FramesWrangled(stack', value, answers')
  BY <1>11, <1>13, <1>14, <1>15, <1>17 DEF FramesWrangled
<1>19. AnswersBehind(stack', answers')
  <2>1. \A i \in 1 .. n : i \in DOMAIN stack
    BY <1>2
  <2> QED BY <1>1, <1>4, <1>9, <1>11, <1>12, <1>16, <1>17, <2>1 DEF AnswersBehind
<1>20. stack'[1].top = stack[1].top
  <2>1. CASE n = 1
    BY <1>9, <1>11, <2>1
  <2>2. CASE n # 1
    BY <1>2, <1>12, <2>2
  <2> QED BY <2>1, <2>2
<1> QED BY <1>1, <1>4, <1>8, <1>18, <1>19, <1>20

LEMMA BeginningWrangles ==
  ASSUME PartsInv, NEW op, NEW h, NEW path, Begin(op, h, path)
  PROVE  /\ AnswersBehind(stack', answers') /\ FramesWrangled(stack', value', answers')
         /\ stack'[1].top = Expanded(answers')
<1>1. /\ UNCHANGED value /\ DOMAIN stack' = {1} /\ Len(stack') = 1 /\ answers' = {}
      /\ stack'[1].part = Root /\ stack'[1].val = value /\ stack'[1].top = {}
      /\ stack'[1].given = value[Root]
  BY BeginningKeepsParts DEF PartsInv
<1>2. /\ \A p, what : MarksOf({}, p, what) = {}
      /\ \A p : BysOf({}, p) = {}
  BY DEF MarksOf, BysOf
<1>3. \A q : WrangledAs(value[q], {}, value, q)
  BY <1>2 DEF WrangledAs, WrangledIn, GoneIn
<1>4. InnerIn(stack', 1) = {} /\ AroundIn(stack', 1, value) = value
  BY <1>1 DEF InnerIn, AroundIn
<1>5. FrameWrangled(stack'[1], {}, value, value, answers')
  BY <1>1, <1>3 DEF FrameWrangled
<1>6. FramesWrangled(stack', value', answers')
  BY <1>1, <1>4, <1>5 DEF FramesWrangled
<1>7. Expanded(answers') = {} /\ AnswersBehind(stack', answers')
  BY <1>1 DEF Expanded, AnswersBehind
<1> QED BY <1>1, <1>6, <1>7

LEMMA WranglesStep ==
  ASSUME [Next]_vars, call = "WrangleMarksDeep"
  PROVE  \/ \E k \in Parts : Down(k) /\ UNCHANGED answers
         \/ \E m \in Marks : WrangleMark(m)
         \/ WrangleInto \/ WrangleLeave
         \/ UNCHANGED <<value, call, stack, calls, visited, answers>>
BY DEF Next, Step, vars, Start, BeginWalk, BeginTransform, BeginMarkWithPaths, BeginWrangle,
       BeginUnmarkWithPaths, Begin, Down, Extend, TransformEnter, TransformExit, TransformFails,
       MarkWithPathsExit, UnmarkWithPaths, WalkVisit, WalkHalt, WalkLeave, Entering,
       Leaving, Running, Transforms, Walks

LEMMA NextKeepsWrangleInv ==
  ASSUME IInv, PartsInv, WrangleInv, [Next]_vars
  PROVE  WrangleInv'
<1> SUFFICES ASSUME call' = "WrangleMarksDeep"
             PROVE  /\ AnswersBehind(stack', answers') /\ FramesWrangled(stack', value', answers')
                    /\ stack'[1].top = Expanded(answers')
  BY DEF WrangleInv
<1>1. CASE call # "WrangleMarksDeep"
  <2>1. \E h, path : Begin(call', h, path)
    BY <1>1, CallsBegin
  <2> QED BY <2>1, BeginningWrangles
<1>2. CASE call = "WrangleMarksDeep"
  <2>1. CASE \E k \in Parts : Down(k) /\ UNCHANGED answers
    <3>1. PICK k \in Parts : Down(k) /\ UNCHANGED answers
      BY <2>1
    <3>2. UNCHANGED value
      BY <3>1 DEF Down
    <3> QED BY <1>2, <3>1, <3>2, GoingDownWrangles
  <2>2. CASE \E m \in Marks : WrangleMark(m)
    BY <2>2, WranglingAMarkWrangles, WranglingAMark
  <2>3. CASE WrangleInto
    BY <1>2, <2>3, GoingInWrangles, WranglingIn
  <2>4. CASE WrangleLeave
    <3>1. Len(stack) # 1
      BY <2>4 DEF WrangleLeave, End
    <3> QED BY <1>2, <2>4, <3>1, LeavingWrangles
  <2>5. CASE UNCHANGED <<value, call, stack, calls, visited, answers>>
    BY <1>2, <2>5 DEF WrangleInv
  <2> QED BY <1>2, <2>1, <2>2, <2>3, <2>4, <2>5, WranglesStep
<1> QED BY <1>1, <1>2

(* A WrangleMarksDeep ends with the marks that the wranglers asked for. *)
LEMMA WrangleEndsWell ==
  ASSUME IInv, PartsInv, WrangleInv, [Next]_vars, EndsWell("WrangleMarksDeep")
  PROVE  WranglesAsAnswered
<1>1. call = "WrangleMarksDeep" /\ call # "none" /\ call' = "none"
  BY DEF EndsWell
<1>2. WrangleLeave
  BY <1>1, WranglesStep DEF Down, WrangleMark, WrangleInto
<1>3. UNCHANGED answers /\ Top.inside /\ Top.todo = {}
  BY <1>2, WranglingOut
<1>4. Len(stack) = 1
  BY <1>1, <1>2, ReturningShape, LosingKeepsParts DEF WrangleLeave
<1> DEFINE f == IF Top.made THEN Top.val ELSE value
<1>5. value' = WithMarks(f, Root, Top.top)
  BY <1>2, <1>4 DEF WrangleLeave, End
<1>6. /\ Top.part = Root /\ Top = stack[1] /\ WellFormed(Top.val, Root) /\ WellFormed(value, Root)
  BY <1>1, <1>4, TheOutermostFrame DEF PartsInv
<1>7. /\ AroundIn(stack, Len(stack), value) = value
      /\ FrameWrangled(Top, {}, value, value, answers) /\ Top.top = Expanded(answers)
  BY <1>1, <1>4, <1>6, TopWrangled DEF AroundIn
<1>8. DOMAIN Top.val = DOMAIN value /\ Top.top \in SUBSET Marks
  BY <1>1, <1>6, <1>7, TopFrameFits DEF FrameFits, WellFormed
<1>9. /\ DOMAIN f = DOMAIN value /\ WellFormed(f, Root)
      /\ \A q \in DOMAIN value : f[q] = Top.val[q]
  BY <1>6, <1>7, <1>8 DEF FrameWrangled
<1> HIDE DEF f
<1>10. /\ DOMAIN value' = DOMAIN value /\ value'[Root] = f[Root] \cup Top.top
       /\ \A q \in DOMAIN value : q # Root => value'[q] = f[q]
       /\ value' \in [DOMAIN value' -> SUBSET Marks] /\ Root \in DOMAIN value
  BY <1>5, <1>6, <1>8, <1>9, WithMarksFits DEF WellFormed
<1>11. \A q \in DOMAIN value : WrangledAs(Top.val[q], answers, value, q)
  BY <1>7, <1>8 DEF FrameWrangled
<1>12. ASSUME NEW q \in DOMAIN value
       PROVE  /\ Contested(q) = ContestedIn(answers, q)
              /\ Wrangled(q) = WrangledIn(answers, value, q)
                                \cup (IF q = Root THEN Expanded(answers) ELSE {})
  <2>1. TakenFrom(q) = GoneIn(answers, q)
    BY <1>3 DEF TakenFrom, GoneIn, MarksAnswered, Answered, MarksOf
  <2>2. PutAt(q) = BysOf(answers, q)
    BY <1>3 DEF PutAt, Answered, BysOf
  <2>3. {a.mark : a \in Answered("expand")} = Expanded(answers)
    BY <1>3 DEF Answered, Expanded
  <2> QED BY <2>1, <2>2, <2>3 DEF Wrangled, WrangledIn, Contested, ContestedIn
<1>13. ASSUME NEW q \in DOMAIN value
       PROVE  value'[q] \ Contested(q) = Wrangled(q) \ Contested(q)
  <2> SUFFICES ASSUME NEW x, x \notin Contested(q) PROVE x \in value'[q] <=> x \in Wrangled(q)
    OBVIOUS
  <2>1. x \in f[q] <=> x \in WrangledIn(answers, value, q)
    BY <1>9, <1>11, <1>12 DEF WrangledAs
  <2>2. CASE q = Root
    <3>1. value'[q] = f[q] \cup Expanded(answers)
      BY <1>7, <1>10, <2>2
    <3>2. Wrangled(q) = WrangledIn(answers, value, q) \cup Expanded(answers)
      BY <1>12, <2>2
    <3> QED BY <2>1, <3>1, <3>2
  <2>3. CASE q # Root
    <3>1. value'[q] = f[q]
      BY <1>10, <2>3
    <3>2. Wrangled(q) = WrangledIn(answers, value, q)
      BY <1>12, <2>3
    <3> QED BY <2>1, <3>1, <3>2
  <2> QED BY <2>2, <2>3
<1> QED BY <1>10, <1>13 DEF WranglesAsAnswered

----------------------------------------------------------------------------
(* Transform.                                                              *)

(* The parts that the answers leave, the marks that they give a part, and  *)
(* what a part has when the parts in S have been left.                     *)
LeftIn(ans, v) == {p \in DOMAIN v : ~Within(p, AnsweredIn(ans, "cut"))}
OwnIn(ans, v, p) == v[p] \cup MarksOf(ans, p, "mark")
OwnsIn(ans, v, S) == UNION {OwnIn(ans, v, r) : r \in S \cap LeftIn(ans, v)}
MadeIn(ans, v, S, q) ==
  IF Within(q, {s \in S : Kind[s] = "set"}) THEN {}
  ELSE IF Kind[q] = "set" THEN OwnsIn(ans, v, Below[q]) ELSE OwnIn(ans, v, q)

(* The marks in f of the parts in S. *)
Together(f, S) == UNION {f[q] : q \in S}

(* The parts in a frame's part that have been left. *)
DoneIn(f, inner) ==
  Below[f.part] \ ({f.part} \cup Ahead(f) \cup UNION {Below[k] : k \in inner})

(* The parts in a frame that have been left are as they were to be made,   *)
(* and together have the marks that they were given; the others have what  *)
(* they had.                                                               *)
FrameMade(f, inner, v, ans) ==
  /\ f.val[f.part] = v[f.part] /\ ~Within(f.part, AnsweredIn(ans, "cut"))
  /\ \A q \in Ahead(f) : q \in DOMAIN v =>
       f.val[q] = v[q] /\ ~Within(q, AnsweredIn(ans, "cut"))
  /\ \A q \in DoneIn(f, inner) : q \in DOMAIN f.val <=> q \in LeftIn(ans, v)
  /\ \A q \in DoneIn(f, inner) : q \in LeftIn(ans, v) =>
       f.val[q] = MadeIn(ans, v, Below[f.part] \ {f.part}, q)
  /\ Together(f.val, DoneIn(f, inner) \cap DOMAIN f.val)
       = OwnsIn(ans, v, DoneIn(f, inner))

FramesMade(s, v, ans) == \A i \in DOMAIN s : FrameMade(s[i], InnerIn(s, i), v, ans)

(* The value that is returned for part p. *)
ResultMade(result, p, v, ans) ==
  /\ DOMAIN result \subseteq Below[p]
  /\ \A q \in Below[p] : q \in DOMAIN result <=> q \in LeftIn(ans, v)
  /\ \A q \in Below[p] : q \in LeftIn(ans, v) => result[q] = MadeIn(ans, v, Below[p], q)
  /\ Together(result, DOMAIN result) = OwnsIn(ans, v, Below[p])

(* The parts that have yet to be left. *)
PendingIn(s) == UNION {Ahead(s[i]) \cup {s[i].part} : i \in DOMAIN s}
VisitedBehind(s, seq) ==
  /\ seq \in Seq(Parts) /\ InOrder("Transform", seq)
  /\ \A p \in In(seq) : Below[p] \cap PendingIn(s) = {}
MarksBehind(s, ans) == \A a \in ans : a.what = "mark" => a.part \notin PendingIn(s)

TransformInv ==
  call = "Transform" =>
    /\ VisitedBehind(stack, visited) /\ MarksBehind(stack, answers)
    /\ FramesMade(stack, value, answers)

LEMMA TogetherHas ==
  ASSUME NEW f, NEW S, NEW x
  PROVE  x \in Together(f, S) <=> \E q \in S : x \in f[q]
BY DEF Together

LEMMA OneMore ==
  ASSUME NEW f, NEW S, NEW p
  PROVE  Together(f, S \cup {p}) = Together(f, S) \cup f[p]
<1>1. \A x : x \in Together(f, S \cup {p}) <=> x \in Together(f, S) \cup f[p]
  BY TogetherHas
<1> QED BY <1>1

LEMMA NoneTogether ==
  ASSUME NEW f, NEW S, S = {}
  PROVE  Together(f, S) = {}
BY DEF Together

(* The marks that an answer gives, and to which part. *)
LEMMA MarksAdded ==
  ASSUME NEW what, NEW mark, NEW by, Answering(what, mark, by), NEW q
  PROVE  MarksOf(answers', q, "mark") =
           MarksOf(answers, q, "mark")
             \cup (IF what = "mark" /\ q = Top.part THEN {mark} ELSE {})
<1> DEFINE a == [part |-> Top.part, what |-> what, mark |-> mark, by |-> by]
<1>1. answers' = answers \cup {a} /\ a.part = Top.part /\ a.what = what /\ a.mark = mark
  BY DEF Answering
<1> HIDE DEF a
<1>2. \A x : x \in MarksOf(answers', q, "mark") <=>
            x \in MarksOf(answers, q, "mark") \/ (what = "mark" /\ q = Top.part /\ x = mark)
  BY <1>1 DEF MarksOf
<1> QED BY <1>2

(* An answer changes nothing for the parts that are not in its own.        *)
LEMMA AnswersElsewhere ==
  ASSUME NEW what, NEW mark, NEW by, Answering(what, mark, by), NEW v,
         NEW q, q \notin Below[Top.part], Top.part \in Below[Top.part]
  PROVE  /\ Within(q, AnsweredIn(answers', "cut")) <=> Within(q, AnsweredIn(answers, "cut"))
         /\ q \in LeftIn(answers', v) <=> q \in LeftIn(answers, v)
         /\ OwnIn(answers', v, q) = OwnIn(answers, v, q)
<1>1. AnsweredIn(answers', "cut") \subseteq AnsweredIn(answers, "cut") \cup {Top.part}
      /\ AnsweredIn(answers, "cut") \subseteq AnsweredIn(answers', "cut")
  BY AnotherAnswer
<1>2. Within(q, AnsweredIn(answers', "cut")) <=> Within(q, AnsweredIn(answers, "cut"))
  BY <1>1 DEF Within
<1>3. q # Top.part
  OBVIOUS
<1>4. MarksOf(answers', q, "mark") = MarksOf(answers, q, "mark")
  BY <1>3, MarksAdded
<1> QED BY <1>2, <1>4 DEF LeftIn, OwnIn

LEMMA AnswersOutside ==
  ASSUME NEW what, NEW mark, NEW by, Answering(what, mark, by), NEW v,
         NEW S, S \cap Below[Top.part] = {}, Top.part \in Below[Top.part]
  PROVE  OwnsIn(answers', v, S) = OwnsIn(answers, v, S)
<1>1. \A q \in S : /\ q \in LeftIn(answers', v) <=> q \in LeftIn(answers, v)
                   /\ OwnIn(answers', v, q) = OwnIn(answers, v, q)
  BY AnswersElsewhere
<1>2. S \cap LeftIn(answers', v) = S \cap LeftIn(answers, v)
  BY <1>1
<1> DEFINE T == S \cap LeftIn(answers, v)
<1>3. \A q \in T : OwnIn(answers', v, q) = OwnIn(answers, v, q)
  BY <1>1
<1> HIDE DEF T
<1>4. UNION {OwnIn(answers', v, r) : r \in T} = UNION {OwnIn(answers, v, r) : r \in T}
  BY <1>3
<1> QED BY <1>2, <1>4 DEF OwnsIn, T

(* A frame further out, and an answer about the innermost part. *)
LEMMA AnsweringKeepsMade ==
  ASSUME NEW f, NEW k \in In(Kids[f.part]), f.part \in Parts, NEW v,
         FrameMade(f, {k}, v, answers), Below[Top.part] \subseteq Below[k],
         Ahead(f) \cap Below[k] = {}, f.part \notin Below[k],
         Top.part \in Below[Top.part],
         NEW what, NEW mark, NEW by, Answering(what, mark, by)
  PROVE  FrameMade(f, {k}, v, answers')
<1> DEFINE B == Below[Top.part]
           D == DoneIn(f, {k})
           S == Below[f.part] \ {f.part}
<1>1. \A q : q \notin B =>
        /\ Within(q, AnsweredIn(answers', "cut")) <=> Within(q, AnsweredIn(answers, "cut"))
        /\ q \in LeftIn(answers', v) <=> q \in LeftIn(answers, v)
        /\ OwnIn(answers', v, q) = OwnIn(answers, v, q)
  BY AnswersElsewhere
<1>2. f.part \notin B /\ \A q \in Ahead(f) : q \notin B
  OBVIOUS
<1>3. \A q \in D : q \in S /\ q \notin Below[k]
  BY DEF DoneIn
<1>4. \A q \in D : q \notin B
  BY <1>3
<1>5. ASSUME NEW q \in D
      PROVE  MadeIn(answers', v, S, q) = MadeIn(answers, v, S, q)
  <2>1. Below[q] \cap Below[k] = {}
    BY <1>3, Elsewhere
  <2>2. OwnsIn(answers', v, Below[q]) = OwnsIn(answers, v, Below[q])
    BY <2>1, AnswersOutside
  <2>3. OwnIn(answers', v, q) = OwnIn(answers, v, q)
    BY <1>1, <1>4
  <2> QED BY <2>2, <2>3 DEF MadeIn
<1>6. OwnsIn(answers', v, D) = OwnsIn(answers, v, D)
  BY <1>4, AnswersOutside
<1> HIDE DEF B, D, S
<1>7. /\ f.val[f.part] = v[f.part] /\ ~Within(f.part, AnsweredIn(answers, "cut"))
      /\ \A q \in Ahead(f) : q \in DOMAIN v =>
           f.val[q] = v[q] /\ ~Within(q, AnsweredIn(answers, "cut"))
      /\ \A q \in D : q \in DOMAIN f.val <=> q \in LeftIn(answers, v)
      /\ \A q \in D : q \in LeftIn(answers, v) => f.val[q] = MadeIn(answers, v, S, q)
      /\ Together(f.val, D \cap DOMAIN f.val) = OwnsIn(answers, v, D)
  BY DEF FrameMade, D, S
<1>8. /\ f.val[f.part] = v[f.part] /\ ~Within(f.part, AnsweredIn(answers', "cut"))
      /\ \A q \in Ahead(f) : q \in DOMAIN v =>
           f.val[q] = v[q] /\ ~Within(q, AnsweredIn(answers', "cut"))
  BY <1>1, <1>2, <1>7
<1>9. /\ \A q \in D : q \in DOMAIN f.val <=> q \in LeftIn(answers', v)
      /\ \A q \in D : q \in LeftIn(answers', v) => f.val[q] = MadeIn(answers', v, S, q)
  BY <1>1, <1>4, <1>5, <1>7
<1>10. Together(f.val, D \cap DOMAIN f.val) = OwnsIn(answers', v, D)
  BY <1>6, <1>7
<1> QED BY <1>8, <1>9, <1>10 DEF FrameMade, D, S

LEMMA AlikeMade ==
  ASSUME NEW f, NEW g, Alike(g, f), NEW inner, NEW v, NEW ans, FrameMade(f, inner, v, ans)
  PROVE  FrameMade(g, inner, v, ans)
<1>1. /\ g.part = f.part /\ g.val = f.val /\ Ahead(g) = Ahead(f)
  BY AlikeIsAhead DEF Alike
<1>2. DoneIn(g, inner) = DoneIn(f, inner)
  BY <1>1 DEF DoneIn
<1> QED BY <1>1, <1>2 DEF FrameMade

LEMMA OuterFramesMade ==
  ASSUME IInv, PartsInv, call # "none", FramesMade(stack, value, answers),
         NEW m, OuterAlike(m),
         UNCHANGED answers \/ \E what, mark, by : Answering(what, mark, by)
  PROVE  \A i \in 1 .. m - 1 : FrameMade(stack'[i], InnerIn(stack', i), value, answers')
<1> TAKE i \in 1 .. m - 1
<1> DEFINE f == stack[i]
<1>1. /\ i \in DOMAIN stack /\ Alike(stack'[i], f) /\ InnerIn(stack', i) = InnerIn(stack, i)
  BY OuterFramesAlike
<1>2. FrameMade(f, InnerIn(stack, i), value, answers)
  BY <1>1 DEF FramesMade
<1>3. CASE UNCHANGED answers
  <2> HIDE DEF f
  <2> QED BY <1>1, <1>2, <1>3, AlikeMade
<1>4. CASE \E what, mark, by : Answering(what, mark, by)
  <2>1. PICK what, mark, by : Answering(what, mark, by)
    BY <1>4
  <2>2. i < Len(stack) /\ Len(stack) \in DOMAIN stack /\ i + 1 \in DOMAIN stack
        /\ i + 1 <= Len(stack) /\ Top = stack[Len(stack)] /\ Len(stack) \in Nat
    <3>1. /\ Len(stack) \in Nat /\ DOMAIN stack = 1 .. Len(stack) /\ Top = stack[Len(stack)]
          /\ Len(stack) >= 1
      BY TopIsAFrame
    <3>2. m \in 1 .. Len(stack)
      BY <3>1 DEF OuterAlike
    <3> QED BY <3>1, <3>2
  <2> DEFINE k == stack[i + 1].part
  <2>3. /\ InnerIn(stack, i) = {k} /\ k \in In(Kids[f.part]) /\ f.part \in Parts
        /\ Below[k] \cap Ahead(f) = {} /\ f.part \notin Below[k]
    BY <1>1, <2>2, FramesAreApart
  <2>4. Below[Top.part] \subseteq Below[k] /\ Top.part \in Below[Top.part]
    BY <2>2, FramesNest, BelowAPart
  <2> HIDE DEF f, k
  <2>5. FrameMade(f, {k}, value, answers')
    BY <1>2, <2>1, <2>3, <2>4, AnsweringKeepsMade
  <2> QED BY <1>1, <2>3, <2>5, AlikeMade
<1> QED BY <1>3, <1>4

LEMMA PendingParts ==
  ASSUME NEW s
  PROVE  PendingIn(s) = AheadIn(s) \cup {s[i].part : i \in DOMAIN s}
BY DEF PendingIn, AheadIn

LEMMA GoingDownPending ==
  ASSUME IInv, PartsInv, NEW k \in Parts, Down(k)
  PROVE  PendingIn(stack') \subseteq PendingIn(stack)
<1> DEFINE n == Len(stack)
           g == [Top EXCEPT !.todo = @ \ {k}]
<1>1. call # "none" /\ Top.inside /\ k \in Top.todo
  BY GoingDownShape DEF Down
<1>2. n \in Nat /\ n >= 1 /\ DOMAIN stack = 1 .. n /\ Top = stack[n] /\ IsFrame(Top)
  BY <1>1, TopIsAFrame
<1>3. PICK t : TopsAre(g, Frame(k, t, Top.val))
  BY GoingDownShape
<1>4. g.part = Top.part
  BY <1>2 DEF IsFrame
<1>5. Frame(k, t, Top.val).part = k
  BY DEF Frame
<1>6. k \in AheadIn(stack)
  <2>1. k \in Below[k]
    BY BelowAPart
  <2>2. k \in Ahead(Top)
    BY <1>1, <2>1 DEF Ahead, Waiting
  <2> QED BY <1>1, <2>2, AheadOfTop
<1>7. /\ DOMAIN stack' = 1 .. n + 1 /\ stack'[n].part = Top.part /\ stack'[n + 1].part = k
      /\ \A i \in 1 .. n - 1 : stack'[i] = stack[i]
  BY <1>3, <1>4, <1>5 DEF TopsAre
<1> HIDE DEF n, g
<1>8. \A i \in DOMAIN stack' : i = n + 1 \/ (i \in DOMAIN stack /\ stack'[i].part = stack[i].part)
  BY <1>2, <1>7
<1>9. \A i \in DOMAIN stack' :
        stack'[i].part \in AheadIn(stack) \cup {stack[j].part : j \in DOMAIN stack}
  BY <1>6, <1>7, <1>8
<1>10. AheadIn(stack') = AheadIn(stack)
  BY GoingDownAhead
<1> QED BY <1>9, <1>10, PendingParts

LEMMA ChangingTopPending ==
  ASSUME IInv, PartsInv, call # "none", NEW g, TopLike(g), g.part = Top.part,
         Ahead(g) \subseteq Ahead(Top)
  PROVE  PendingIn(stack') \subseteq PendingIn(stack)
<1> DEFINE n == Len(stack)
<1>1. /\ n \in Nat /\ n >= 1 /\ DOMAIN stack' = 1 .. n /\ DOMAIN stack = 1 .. n
      /\ stack'[n].part = stack[n].part /\ \A i \in 1 .. n - 1 : stack'[i].part = stack[i].part
  BY TopIsAFrame DEF TopLike, OuterAlike, Alike
<1>2. AheadIn(stack') \subseteq AheadIn(stack)
  BY ChangingTopAhead, AheadOfTop
<1> HIDE DEF n
<1>3. \A i \in DOMAIN stack' : i \in DOMAIN stack /\ stack'[i].part = stack[i].part
  BY <1>1
<1> QED BY <1>2, <1>3, PendingParts

(* Nothing in a part that has been left is pending. *)
LEMMA LeavingPending ==
  ASSUME IInv, PartsInv, call # "none", Top.inside, Top.todo = {},
         NEW g, OuterIs(g), g.part = stack[Len(stack) - 1].part,
         Ahead(g) = Ahead(stack[Len(stack) - 1])
  PROVE  /\ PendingIn(stack') \subseteq PendingIn(stack)
         /\ PendingIn(stack') \cap Below[Top.part] = {}
<1> DEFINE n == Len(stack)
<1>1. /\ n \in Nat /\ n > 1 /\ DOMAIN stack = 1 .. n /\ DOMAIN stack' = 1 .. n - 1
      /\ stack'[n - 1] = g /\ \A i \in 1 .. n - 2 : stack'[i] = stack[i]
  BY TopIsAFrame DEF OuterIs
<1>2. AheadIn(stack') = AheadIn(stack)
  BY LeavingAhead
<1>3. Ahead(Top) = {}
  BY DEF Ahead, Waiting
<1>4. AheadIn(stack) \cap Below[Top.part] = {}
      /\ \A i \in 1 .. n - 1 : stack[i].part \notin Below[Top.part]
  BY <1>3, AheadOfTop
<1>5. g.part = stack[n - 1].part
  OBVIOUS
<1> HIDE DEF n
<1>6. \A i \in DOMAIN stack' : i = n - 1 \/ i \in 1 .. n - 2
  BY <1>1
<1>7. \A i \in DOMAIN stack' :
        i \in DOMAIN stack /\ stack'[i].part = stack[i].part /\ i \in 1 .. n - 1
  BY <1>1, <1>5, <1>6
<1> QED BY <1>2, <1>4, <1>7, PendingParts

(* The innermost part is visited after all that is in it. *)
LEMMA VisitedAfterItsParts ==
  ASSUME IInv, PartsInv, call = "Transform", TransformInv, visited' = Append(visited, Top.part)
  PROVE  /\ visited' \in Seq(Parts) /\ InOrder("Transform", visited')
         /\ In(visited') = In(visited) \cup {Top.part}
<1>1. call # "none" /\ VisitedBehind(stack, visited)
  BY DEF TransformInv
<1>2. Top.part \in Parts /\ Len(stack) \in DOMAIN stack /\ Top = stack[Len(stack)]
  BY <1>1, TopFrameFits, TopIsAFrame
<1>3. Top.part \in PendingIn(stack)
  BY <1>2, PendingParts
<1>4. visited \in Seq(Parts) /\ InOrder("Transform", visited)
      /\ \A r \in In(visited) : Top.part \notin Below[r]
  BY <1>1, <1>3 DEF VisitedBehind
<1> QED BY <1>2, <1>4, AppendingInOrder, AppendingAPart

LEMMA TopMade ==
  ASSUME IInv, PartsInv, TransformInv, call = "Transform"
  PROVE  /\ VisitedBehind(stack, visited) /\ MarksBehind(stack, answers)
         /\ FramesMade(stack, value, answers) /\ FrameMade(Top, {}, value, answers)
<1>1. /\ VisitedBehind(stack, visited) /\ MarksBehind(stack, answers)
      /\ FramesMade(stack, value, answers)
  BY DEF TransformInv
<1>2. Len(stack) \in DOMAIN stack /\ Top = stack[Len(stack)] /\ InnerIn(stack, Len(stack)) = {}
  BY TopIsAFrame, TopFrameFits
<1>3. FrameMade(Top, {}, value, answers)
  BY <1>1, <1>2 DEF FramesMade
<1> QED BY <1>1, <1>3

LEMMA ChangingTopMakes ==
  ASSUME IInv, PartsInv, call # "none", FramesMade(stack, value, answers),
         NEW g, TopLike(g), FrameMade(g, {}, value, answers'),
         UNCHANGED answers \/ \E what, mark, by : Answering(what, mark, by)
  PROVE  FramesMade(stack', value, answers')
<1> DEFINE n == Len(stack)
<1>1. /\ n \in Nat /\ n >= 1 /\ DOMAIN stack' = 1 .. n /\ Len(stack') = n
      /\ Alike(stack'[n], g) /\ OuterAlike(n)
  BY TopIsAFrame DEF TopLike, OuterAlike
<1>2. FrameMade(stack'[n], {}, value, answers')
  BY <1>1, AlikeMade
<1>3. InnerIn(stack', n) = {}
  BY <1>1 DEF InnerIn
<1>4. \A i \in 1 .. n - 1 : FrameMade(stack'[i], InnerIn(stack', i), value, answers')
  <2> HIDE DEF n
  <2> QED BY <1>1, OuterFramesMade
<1> HIDE DEF n
<1>5. \A i \in 1 .. n : i = n \/ i \in 1 .. n - 1
  BY <1>1
<1> QED BY <1>1, <1>2, <1>3, <1>4, <1>5 DEF FramesMade

LEMMA NothingOwned ==
  ASSUME NEW ans, NEW v, NEW S, S \cap LeftIn(ans, v) = {}
  PROVE  OwnsIn(ans, v, S) = {}
BY DEF OwnsIn

LEMMA SameMade ==
  ASSUME NEW f, NEW a, NEW v, NEW ans, FrameMade(f, a, v, ans), NEW g, NEW b,
         g.part = f.part, g.val = f.val, \A q \in Ahead(g) : q \in Ahead(f),
         DoneIn(g, b) = DoneIn(f, a)
  PROVE  FrameMade(g, b, v, ans)
<1>1. /\ g.val[g.part] = v[g.part] /\ ~Within(g.part, AnsweredIn(ans, "cut"))
      /\ \A q \in Ahead(g) : q \in DOMAIN v =>
           g.val[q] = v[q] /\ ~Within(q, AnsweredIn(ans, "cut"))
  BY DEF FrameMade
<1>2. /\ \A q \in DoneIn(g, b) : q \in DOMAIN g.val <=> q \in LeftIn(ans, v)
      /\ \A q \in DoneIn(g, b) : q \in LeftIn(ans, v) =>
           g.val[q] = MadeIn(ans, v, Below[g.part] \ {g.part}, q)
  BY DEF FrameMade
<1>3. Together(g.val, DoneIn(g, b) \cap DOMAIN g.val) = OwnsIn(ans, v, DoneIn(g, b))
  BY DEF FrameMade
<1> QED BY <1>1, <1>2, <1>3 DEF FrameMade

(* The part that is gone into has what it had. *)
LEMMA GoingDownMakes ==
  ASSUME IInv, PartsInv, TransformInv, call = "Transform", NEW k \in Parts, Down(k),
         UNCHANGED answers
  PROVE  FramesMade(stack', value, answers')
<1> DEFINE n == Len(stack)
           g == [Top EXCEPT !.todo = @ \ {k}]
<1>1. call # "none" /\ Top.inside /\ k \in Top.todo /\ k \in In(Kids[Top.part])
  BY GoingDownShape DEF Down
<1>2. n \in Nat /\ n >= 1 /\ Top = stack[n] /\ IsFrame(Top) /\ DOMAIN stack = 1 .. n
  BY <1>1, TopIsAFrame
<1>3. PICK t : TopsAre(g, Frame(k, t, Top.val))
  BY GoingDownShape
<1> DEFINE inner == Frame(k, t, Top.val)
<1>4. /\ g.part = Top.part /\ g.val = Top.val /\ g.inside = Top.inside
      /\ g.todo = Top.todo \ {k}
  BY <1>2 DEF IsFrame
<1>5. /\ inner.part = k /\ inner.inside = FALSE
      /\ inner.val = [q \in Below[k] \cap DOMAIN Top.val |-> Top.val[q]]
  BY DEF Frame, Of
<1>6. FrameMade(Top, {}, value, answers) /\ FramesMade(stack, value, answers)
  BY TopMade
<1>7. /\ k \in DOMAIN Top.val /\ DOMAIN Top.val \subseteq DOMAIN value
      /\ \A q \in Ahead(Top) : q \in DOMAIN value => q \in DOMAIN Top.val
  BY <1>1, TopFrameFits DEF FrameFits
<1>8. /\ DOMAIN stack' = 1 .. n + 1 /\ Len(stack') = n + 1 /\ stack'[n] = g
      /\ stack'[n + 1] = inner /\ \A i \in 1 .. n - 1 : stack'[i] = stack[i]
  BY <1>3 DEF TopsAre
<1>9. OuterAlike(n)
  <2>1. TopsAre(g, inner) /\ g.part = Top.part
    BY <1>3, <1>4
  <2> HIDE DEF inner, g
  <2> QED BY <1>1, <2>1, TopsAreAlike
<1> HIDE DEF g, inner
<1>10. Ahead(Top) = Ahead(g) \cup Below[k] /\ Ahead(inner) = Below[k]
  <2>1. Ahead(Top) = UNION {Below[l] : l \in Top.todo} /\ Ahead(g) = UNION {Below[l] : l \in g.todo}
    BY <1>1, <1>4 DEF Ahead, Waiting
  <2>2. Ahead(inner) = Below[k]
    BY <1>5 DEF Ahead
  <2> QED BY <1>1, <1>4, <2>1, <2>2
<1>11. DoneIn(g, {k}) = DoneIn(Top, {})
  BY <1>4, <1>10 DEF DoneIn
<1>12. FrameMade(g, {k}, value, answers')
  <2>1. \A q \in Ahead(g) : q \in Ahead(Top)
    BY <1>10
  <2> HIDE DEF n
  <2> QED BY <1>4, <1>6, <1>11, <2>1, SameMade
<1>13. k \in Below[k]
  BY BelowAPart
<1>14. DoneIn(inner, {}) = {}
  BY <1>5, <1>10 DEF DoneIn
<1>15. /\ inner.val[k] = value[k] /\ ~Within(k, AnsweredIn(answers, "cut"))
       /\ \A q \in Below[k] : q \in DOMAIN value =>
            inner.val[q] = value[q] /\ ~Within(q, AnsweredIn(answers, "cut"))
  <2>1. \A q \in Below[k] : q \in DOMAIN value =>
          /\ q \in DOMAIN Top.val /\ Top.val[q] = value[q]
          /\ ~Within(q, AnsweredIn(answers, "cut"))
    BY <1>6, <1>7, <1>10 DEF FrameMade
  <2>2. \A q \in Below[k] : q \in DOMAIN value => inner.val[q] = value[q]
    BY <1>5, <2>1
  <2>3. k \in DOMAIN value
    BY <1>7
  <2> QED BY <1>13, <2>1, <2>2, <2>3
<1>16. FrameMade(inner, {}, value, answers')
  <2>1. OwnsIn(answers', value, {}) = {}
    BY NothingOwned
  <2>2. Together(inner.val, DoneIn(inner, {}) \cap DOMAIN inner.val) = {}
    BY <1>14, NoneTogether
  <2> QED BY <1>5, <1>10, <1>14, <1>15, <2>1, <2>2 DEF FrameMade
<1>17. InnerIn(stack', n) = {k} /\ InnerIn(stack', n + 1) = {}
  <2> HIDE DEF n
  <2> QED BY <1>2, <1>5, <1>8 DEF InnerIn
<1>18. \A i \in 1 .. n - 1 : FrameMade(stack'[i], InnerIn(stack', i), value, answers')
  <2> HIDE DEF n
  <2> QED BY <1>1, <1>6, <1>9, OuterFramesMade
<1> HIDE DEF n
<1>19. \A i \in 1 .. n + 1 : i = n + 1 \/ i = n \/ i \in 1 .. n - 1
  BY <1>2
<1> QED BY <1>8, <1>12, <1>16, <1>17, <1>18, <1>19 DEF FramesMade

(* A part that is entered, or in whose place Enter put another. *)
LEMMA EnteringMakes ==
  ASSUME IInv, PartsInv, TransformInv, call = "Transform", TransformEnter
  PROVE  /\ FramesMade(stack', value, answers') /\ PendingIn(stack') \subseteq PendingIn(stack)
         /\ MarksBehind(stack', answers')
<1> DEFINE p == Top.part
           B == Below[p]
<1>1. ~Top.inside /\ call # "none" /\ UNCHANGED <<value, visited>>
  BY EnteringAPart
<1>2. PICK g : EntersPart(g)
  BY EnteringAPart
<1>3. TopLike(g) /\ g.part = p
  BY <1>2 DEF EntersPart, Entered
<1>4. /\ FrameMade(Top, {}, value, answers) /\ FramesMade(stack, value, answers)
      /\ MarksBehind(stack, answers)
  BY TopMade
<1>5. Ahead(Top) = B /\ \A q \in B : q \in DOMAIN value => q \in DOMAIN Top.val
  BY <1>1, EnteringAhead
<1>6. p \in B /\ p \in Parts /\ DOMAIN Top.val \subseteq DOMAIN value
  BY <1>1, TopFrameFits, BelowAPart DEF FrameFits
<1>7. /\ Top.val[p] = value[p] /\ ~Within(p, AnsweredIn(answers, "cut"))
      /\ \A q \in B : q \in DOMAIN value =>
           Top.val[q] = value[q] /\ ~Within(q, AnsweredIn(answers, "cut"))
  BY <1>4, <1>5 DEF FrameMade
<1>8. CASE /\ Entered(g, Top, KidsIn(Top.part, Top.val)) /\ g.val = Top.val
           /\ UNCHANGED answers
  <2>1. Ahead(g) \subseteq B \ {p} /\ \A q \in B \ {p} : q \in DOMAIN Top.val => q \in Ahead(g)
    BY <1>1, <1>8, EnteringAhead
  <2>2. \A q \in DoneIn(g, {}) : q \notin DOMAIN Top.val /\ q \notin DOMAIN value
    BY <1>3, <1>5, <2>1 DEF DoneIn
  <2>3. \A q \in DoneIn(g, {}) : q \notin LeftIn(answers', value)
    BY <2>2 DEF LeftIn
  <2>4. OwnsIn(answers', value, DoneIn(g, {})) = {}
    BY <2>3, NothingOwned
  <2>5. Together(g.val, DoneIn(g, {}) \cap DOMAIN g.val) = {}
    <3>1. DoneIn(g, {}) \cap DOMAIN g.val = {}
      BY <1>8, <2>2
    <3> QED BY <3>1, NoneTogether
  <2>6. FrameMade(g, {}, value, answers')
    <3> HIDE DEF B, p
    <3> QED BY <1>3, <1>7, <1>8, <2>1, <2>2, <2>3, <2>4, <2>5 DEF FrameMade
  <2>7. FramesMade(stack', value, answers')
    BY <1>1, <1>3, <1>4, <1>8, <2>6, ChangingTopMakes
  <2>8. PendingIn(stack') \subseteq PendingIn(stack)
    BY <1>1, <1>3, <1>5, <2>1, ChangingTopPending
  <2> QED BY <1>4, <1>8, <2>7, <2>8 DEF MarksBehind
<1>9. CASE /\ Entered(g, Top, {}) /\ g.val = [q \in {Top.part} |-> Top.val[q]]
           /\ Answering("cut", Nothing, Nothing)
  <2>1. Ahead(g) = {}
    BY <1>1, <1>9, EnteringAhead
  <2>2. DoneIn(g, {}) = B \ {p}
    BY <1>3, <2>1 DEF DoneIn
  <2>3. AnsweredIn(answers', "cut") = AnsweredIn(answers, "cut") \cup {p}
    BY <1>9, AnotherAnswer
  <2>4. \A q \in B \ {p} : Within(q, AnsweredIn(answers', "cut"))
    BY <2>3 DEF Within
  <2>5. ~Within(p, AnsweredIn(answers', "cut"))
    BY <1>7, <2>3 DEF Within
  <2>6. \A q \in B \ {p} : q \notin DOMAIN g.val /\ q \notin LeftIn(answers', value)
    BY <1>9, <2>4 DEF LeftIn
  <2>7. g.val[p] = value[p]
    BY <1>7, <1>9
  <2>8. OwnsIn(answers', value, B \ {p}) = {}
    BY <2>6, NothingOwned
  <2>9. Together(g.val, (B \ {p}) \cap DOMAIN g.val) = {}
    <3>1. (B \ {p}) \cap DOMAIN g.val = {}
      BY <2>6
    <3> QED BY <3>1, NoneTogether
  <2>10. FrameMade(g, {}, value, answers')
    <3> HIDE DEF B, p
    <3> QED BY <1>3, <2>1, <2>2, <2>5, <2>6, <2>7, <2>8, <2>9 DEF FrameMade
  <2>11. FramesMade(stack', value, answers')
    BY <1>1, <1>3, <1>4, <1>9, <2>10, ChangingTopMakes
  <2>12. PendingIn(stack') \subseteq PendingIn(stack)
    BY <1>1, <1>3, <2>1, ChangingTopPending
  <2>13. \A a \in answers' : a.what = "mark" => a \in answers
    BY <1>9 DEF Answering
  <2> QED BY <1>4, <2>11, <2>12, <2>13 DEF MarksBehind
<1> QED BY <1>2, <1>8, <1>9 DEF EntersPart

LEMMA OwnsOfTwo ==
  ASSUME NEW ans, NEW v, NEW S, NEW T
  PROVE  OwnsIn(ans, v, S \cup T) = OwnsIn(ans, v, S) \cup OwnsIn(ans, v, T)
<1>1. \A U, x : x \in OwnsIn(ans, v, U) <=> \E r \in U \cap LeftIn(ans, v) : x \in OwnIn(ans, v, r)
  BY DEF OwnsIn
<1>2. \A x : x \in OwnsIn(ans, v, S \cup T) <=> x \in OwnsIn(ans, v, S) \/ x \in OwnsIn(ans, v, T)
  BY <1>1
<1> QED BY <1>2

LEMMA OwnsAlike ==
  ASSUME NEW ans, NEW new, NEW v, NEW S, LeftIn(new, v) = LeftIn(ans, v),
         \A q \in S : OwnIn(new, v, q) = OwnIn(ans, v, q)
  PROVE  OwnsIn(new, v, S) = OwnsIn(ans, v, S)
<1> DEFINE T == S \cap LeftIn(ans, v)
<1>1. \A q \in T : OwnIn(new, v, q) = OwnIn(ans, v, q)
  OBVIOUS
<1> HIDE DEF T
<1>2. UNION {OwnIn(new, v, r) : r \in T} = UNION {OwnIn(ans, v, r) : r \in T}
  BY <1>1
<1> QED BY <1>2 DEF OwnsIn, T

(* The value that Transform returns for a part, whose own marks are those  *)
(* that it had and those that Exit gave it.                                *)
LEMMA ReturnedAsMade ==
  ASSUME NEW f, f.part \in Parts, WellFormed(f.val, f.part), NEW v, f.part \in DOMAIN v,
         NEW ans, FrameMade(f, {}, v, ans), Ahead(f) = {},
         NEW new, NEW extra, NEW result,
         AnsweredIn(new, "cut") = AnsweredIn(ans, "cut"),
         MarksOf(ans, f.part, "mark") = {}, MarksOf(new, f.part, "mark") = extra,
         \A q : q # f.part => MarksOf(new, q, "mark") = MarksOf(ans, q, "mark"),
         DOMAIN result = DOMAIN f.val,
         result[f.part] = Assembled(f)[f.part] \cup extra,
         \A q \in DOMAIN f.val : q # f.part => result[q] = Assembled(f)[q]
  PROVE  ResultMade(result, f.part, v, new)
<1> DEFINE p == f.part
           B == Below[p]
           D == B \ {p}
           L == LeftIn(ans, v)
           A == Assembled(f)
<1>1. DoneIn(f, {}) = D
  BY DEF DoneIn
<1>2. /\ f.val[p] = v[p] /\ ~Within(p, AnsweredIn(ans, "cut"))
      /\ \A q \in D : q \in DOMAIN f.val <=> q \in L
      /\ \A q \in D : q \in L => f.val[q] = MadeIn(ans, v, D, q)
      /\ Together(f.val, D \cap DOMAIN f.val) = OwnsIn(ans, v, D)
  BY <1>1 DEF FrameMade
<1>3. DOMAIN f.val \subseteq B /\ p \in DOMAIN f.val /\ p \in B /\ B = D \cup {p}
  BY BelowAPart DEF WellFormed
<1>4. LeftIn(new, v) = L /\ p \in L
  BY <1>2 DEF LeftIn
<1>5. \A q : q # p => OwnIn(new, v, q) = OwnIn(ans, v, q)
  BY DEF OwnIn
<1>6. OwnIn(new, v, p) = v[p] \cup extra
  BY DEF OwnIn
<1>7. /\ DOMAIN result = DOMAIN f.val /\ result[p] = A[p] \cup extra
      /\ \A q \in DOMAIN f.val : q # p => result[q] = A[q]
  OBVIOUS
<1>8. /\ Kind[p] = "set" => /\ A[p] = Together(f.val, DOMAIN f.val)
                            /\ \A q \in DOMAIN f.val : q # p => A[q] = {}
      /\ Kind[p] # "set" => A = f.val
  BY <1>3 DEF Assembled, Together
<1>9. \A s \in B : p \in Below[s] => s = p
  BY BelowIsAnOrder
<1> HIDE DEF L, A
<1>10. OwnsIn(new, v, B) = OwnsIn(ans, v, D) \cup v[p] \cup extra
  <2>1. OwnsIn(new, v, D) = OwnsIn(ans, v, D)
    <3>1. \A q \in D : OwnIn(new, v, q) = OwnIn(ans, v, q)
      BY <1>5
    <3> HIDE DEF D
    <3> QED BY <1>4, <3>1, OwnsAlike DEF L
  <2>2. OwnsIn(new, v, {p}) = v[p] \cup extra
    <3>1. {p} \cap LeftIn(new, v) = {p}
      BY <1>4
    <3>2. UNION {OwnIn(new, v, r) : r \in {p}} = OwnIn(new, v, p)
      OBVIOUS
    <3> QED BY <1>6, <3>1, <3>2 DEF OwnsIn
  <2>3. OwnsIn(new, v, D \cup {p}) = OwnsIn(new, v, D) \cup OwnsIn(new, v, {p})
    BY OwnsOfTwo
  <2> HIDE DEF D, B
  <2> QED BY <1>3, <2>1, <2>2, <2>3
<1>11. Together(f.val, DOMAIN f.val) = v[p] \cup OwnsIn(ans, v, D)
  <2>1. DOMAIN f.val = (D \cap DOMAIN f.val) \cup {p}
    BY <1>3
  <2>2. Together(f.val, (D \cap DOMAIN f.val) \cup {p})
          = Together(f.val, D \cap DOMAIN f.val) \cup f.val[p]
    BY OneMore
  <2> HIDE DEF D, p
  <2> QED BY <1>2, <2>1, <2>2
<1>12. \A q \in D : p \notin Below[q]
  BY <1>9
<1>13. ~Within(p, {s \in B : Kind[s] = "set"})
  BY <1>9 DEF Within
<1>14. \A q \in B : q \in DOMAIN result <=> q \in LeftIn(new, v)
  BY <1>2, <1>3, <1>4, <1>7
<1>15. CASE Kind[p] = "set"
  <2>1. result[p] = OwnsIn(new, v, B)
    <3> HIDE DEF p, B, D
    <3> QED BY <1>7, <1>8, <1>10, <1>11, <1>15
  <2>2. MadeIn(new, v, B, p) = OwnsIn(new, v, B)
    BY <1>13, <1>15 DEF MadeIn
  <2>3. ASSUME NEW q \in D, q \in LeftIn(new, v)
        PROVE  result[q] = {} /\ MadeIn(new, v, B, q) = {}
    <3>1. Within(q, {s \in B : Kind[s] = "set"})
      BY <1>3, <1>15 DEF Within
    <3>2. result[q] = {}
      BY <1>7, <1>8, <1>14, <1>15, <2>3
    <3> QED BY <3>1, <3>2 DEF MadeIn
  <2>4. Together(result, DOMAIN result) = result[p]
    <3>1. \A q \in DOMAIN result : q = p \/ result[q] = {}
      BY <1>7, <1>8, <1>15
    <3>2. p \in DOMAIN result
      BY <1>3, <1>7
    <3> HIDE DEF p
    <3>3. \A x : x \in Together(result, DOMAIN result) <=> x \in result[p]
      BY <3>1, <3>2, TogetherHas
    <3> QED BY <3>3
  <2>5. \A q \in B : q \in LeftIn(new, v) => result[q] = MadeIn(new, v, B, q)
    BY <1>3, <2>1, <2>2, <2>3
  <2> QED BY <1>3, <1>7, <1>14, <2>1, <2>4, <2>5 DEF ResultMade
<1>16. CASE Kind[p] # "set"
  <2>1. result[p] = OwnIn(new, v, p)
    BY <1>2, <1>6, <1>7, <1>8, <1>16
  <2>2. MadeIn(new, v, B, p) = OwnIn(new, v, p)
    BY <1>13, <1>16 DEF MadeIn
  <2>3. ASSUME NEW q \in D, q \in LeftIn(new, v)
        PROVE  result[q] = MadeIn(new, v, B, q)
    <3>1. result[q] = MadeIn(ans, v, D, q)
      <4>1. q \in DOMAIN f.val /\ q # p
        BY <1>2, <1>4, <2>3
      <4>2. result[q] = f.val[q]
        BY <1>7, <1>8, <1>16, <4>1
      <4> QED BY <1>2, <1>4, <2>3, <4>2
    <3>2. {s \in B : Kind[s] = "set"} = {s \in D : Kind[s] = "set"}
      BY <1>16
    <3>3. OwnIn(new, v, q) = OwnIn(ans, v, q)
      BY <1>5
    <3>4. OwnsIn(new, v, Below[q]) = OwnsIn(ans, v, Below[q])
      <4>1. \A r \in Below[q] : OwnIn(new, v, r) = OwnIn(ans, v, r)
        BY <1>5, <1>12
      <4> QED BY <1>4, <4>1, OwnsAlike DEF L
    <3> HIDE DEF B, D
    <3> QED BY <3>1, <3>2, <3>3, <3>4 DEF MadeIn
  <2>4. Together(result, DOMAIN result) = Together(f.val, DOMAIN f.val) \cup extra
    <3>1. \A q \in DOMAIN f.val : result[q] = IF q = p THEN f.val[q] \cup extra ELSE f.val[q]
      BY <1>7, <1>8, <1>16
    <3>2. p \in DOMAIN f.val /\ DOMAIN result = DOMAIN f.val
      BY <1>3, <1>7
    <3> HIDE DEF p
    <3> DEFINE h == f.val
    <3>3. /\ \A q \in DOMAIN h : q # p => result[q] = h[q]
          /\ result[p] = h[p] \cup extra /\ p \in DOMAIN h
      BY <3>1, <3>2
    <3> HIDE DEF h
    <3>4. \A x : (\E q \in DOMAIN h : x \in result[q])
                  <=> x \in extra \/ \E q \in DOMAIN h : x \in h[q]
      BY <3>3
    <3>5. DOMAIN result = DOMAIN h
      BY <3>2 DEF h
    <3>6. \A x : x \in Together(result, DOMAIN h) <=> x \in Together(h, DOMAIN h) \cup extra
      BY <3>4, TogetherHas
    <3>7. Together(result, DOMAIN h) = Together(h, DOMAIN h) \cup extra
      BY <3>6
    <3> QED BY <3>5, <3>7 DEF h
  <2>5. Together(result, DOMAIN result) = OwnsIn(new, v, B)
    <3> HIDE DEF p, B, D
    <3> QED BY <1>10, <1>11, <2>4
  <2>6. \A q \in B : q \in LeftIn(new, v) => result[q] = MadeIn(new, v, B, q)
    BY <1>3, <2>1, <2>2, <2>3
  <2> QED BY <1>3, <1>7, <1>14, <2>5, <2>6 DEF ResultMade
<1> QED BY <1>15, <1>16

(* The frame around has taken the value that was returned for part k.      *)
LEMMA TakenMade ==
  ASSUME NEW o, o.part \in Parts, NEW k \in In(Kids[o.part]), NEW v, NEW ans,
         FrameMade(o, {k}, v, ans), WellFormed(o.val, o.part),
         \A q \in Ahead(o) : q \in DOMAIN v => q \in DOMAIN o.val,
         Below[k] \cap Ahead(o) = {},
         NEW result, ResultMade(result, k, v, ans), DOMAIN result \subseteq DOMAIN o.val,
         NEW g, g.part = o.part, Ahead(g) = Ahead(o),
         DOMAIN g.val = DOMAIN o.val \ (Below[k] \ DOMAIN result),
         \A q \in DOMAIN g.val : g.val[q] = IF q \in DOMAIN result THEN result[q] ELSE o.val[q]
  PROVE  FrameMade(g, {}, v, ans)
<1> DEFINE p == o.part
           B == Below[k]
           S == Below[p] \ {p}
           D == DoneIn(o, {k})
           E == DoneIn(g, {})
           L == LeftIn(ans, v)
<1>1. /\ o.val[p] = v[p] /\ ~Within(p, AnsweredIn(ans, "cut"))
      /\ \A q \in Ahead(o) : q \in DOMAIN v =>
           o.val[q] = v[q] /\ ~Within(q, AnsweredIn(ans, "cut"))
      /\ \A q \in D : q \in DOMAIN o.val <=> q \in L
      /\ \A q \in D : q \in L => o.val[q] = MadeIn(ans, v, S, q)
      /\ Together(o.val, D \cap DOMAIN o.val) = OwnsIn(ans, v, D)
  BY DEF FrameMade
<1>2. /\ DOMAIN result \subseteq B
      /\ \A q \in B : q \in DOMAIN result <=> q \in L
      /\ \A q \in B : q \in L => result[q] = MadeIn(ans, v, B, q)
      /\ Together(result, DOMAIN result) = OwnsIn(ans, v, B)
  BY DEF ResultMade
<1>3. /\ B \subseteq Below[p] /\ p \notin B /\ p \in DOMAIN o.val
  BY KidsAreApart, BelowAPart DEF WellFormed
<1>4. D = S \ (Ahead(o) \cup B) /\ E = S \ Ahead(o)
  BY DEF DoneIn
<1>5. E = D \cup B /\ D \cap B = {} /\ B \subseteq S
  BY <1>3, <1>4
<1>6. \A q \in B :
        Within(q, {s \in B : Kind[s] = "set"}) <=> Within(q, {s \in S : Kind[s] = "set"})
  <2>1. \A q \in B : \A s \in S : q \in Below[s] => s \in B
    BY Elsewhere
  <2> HIDE DEF B, S
  <2> QED BY <1>5, <2>1 DEF Within
<1>7. \A q \in B : MadeIn(ans, v, B, q) = MadeIn(ans, v, S, q)
  BY <1>6 DEF MadeIn
<1>8. /\ \A q \in B : q \in DOMAIN g.val <=> q \in DOMAIN result
      /\ \A q \in DOMAIN result : g.val[q] = result[q]
      /\ \A q : q \notin B => (q \in DOMAIN g.val <=> q \in DOMAIN o.val)
      /\ \A q \in DOMAIN o.val : q \notin B => g.val[q] = o.val[q]
  BY <1>2
<1> HIDE DEF B, S, D, E, L, p
<1>9. g.val[p] = v[p]
  BY <1>1, <1>3, <1>8
<1>10. \A q \in Ahead(g) : q \in DOMAIN v =>
         g.val[q] = v[q] /\ ~Within(q, AnsweredIn(ans, "cut"))
  <2>1. \A q \in Ahead(o) : q \notin B
    BY DEF B
  <2> QED BY <1>1, <1>8, <2>1
<1>11. \A q \in E : q \in DOMAIN g.val <=> q \in L
  <2>1. ASSUME NEW q \in D PROVE q \in DOMAIN g.val <=> q \in L
    BY <1>1, <1>5, <1>8
  <2>2. ASSUME NEW q \in B PROVE q \in DOMAIN g.val <=> q \in L
    BY <1>2, <1>8
  <2> QED BY <1>5, <2>1, <2>2
<1>12. \A q \in E : q \in L => g.val[q] = MadeIn(ans, v, S, q)
  <2>1. ASSUME NEW q \in D, q \in L PROVE g.val[q] = MadeIn(ans, v, S, q)
    <3>1. q \notin B /\ q \in DOMAIN o.val
      BY <1>1, <1>5, <2>1
    <3> QED BY <1>1, <1>8, <2>1, <3>1
  <2>2. ASSUME NEW q \in B, q \in L PROVE g.val[q] = MadeIn(ans, v, S, q)
    BY <1>2, <1>7, <1>8, <2>2
  <2> QED BY <1>5, <2>1, <2>2
<1>13. Together(g.val, E \cap DOMAIN g.val) = OwnsIn(ans, v, E)
  <2> DEFINE h == g.val
             w == o.val
  <2>1. /\ \A q \in E \cap DOMAIN h : (q \in D \cap DOMAIN w /\ h[q] = w[q])
                                     \/ (q \in DOMAIN result /\ h[q] = result[q])
        /\ \A q \in D \cap DOMAIN w : q \in E \cap DOMAIN h /\ h[q] = w[q]
        /\ \A q \in DOMAIN result : q \in E \cap DOMAIN h /\ h[q] = result[q]
    BY <1>2, <1>5, <1>8
  <2> HIDE DEF h, w
  <2>2. \A x : (\E q \in E \cap DOMAIN h : x \in h[q])
                <=> \/ \E q \in D \cap DOMAIN w : x \in w[q]
                    \/ \E q \in DOMAIN result : x \in result[q]
    BY <2>1
  <2>3. \A x : x \in Together(h, E \cap DOMAIN h)
                <=> x \in Together(w, D \cap DOMAIN w) \cup Together(result, DOMAIN result)
    BY <2>2, TogetherHas
  <2>4. Together(h, E \cap DOMAIN h)
          = Together(w, D \cap DOMAIN w) \cup Together(result, DOMAIN result)
    BY <2>3
  <2>5. OwnsIn(ans, v, D \cup B) = OwnsIn(ans, v, D) \cup OwnsIn(ans, v, B)
    BY OwnsOfTwo
  <2>6. Together(w, D \cap DOMAIN w) = OwnsIn(ans, v, D)
    BY <1>1 DEF w
  <2>7. Together(h, E \cap DOMAIN h) = OwnsIn(ans, v, E)
    BY <1>2, <1>5, <2>4, <2>5, <2>6
  <2> QED BY <2>7 DEF h
<1>14. g.part = p
  BY DEF p
<1> QED BY <1>1, <1>9, <1>10, <1>11, <1>12, <1>13, <1>14 DEF FrameMade, E, S, L

(* Exit is given what has become of a part.                                *)
ExitsWith(result) ==
  /\ Return(result) /\ ResultMade(result, Top.part, value, answers')
  /\ WellFormed(result, Top.part) /\ DOMAIN result = DOMAIN Top.val

LEMMA ExitingReturns ==
  ASSUME IInv, PartsInv, TransformInv, TransformExit
  PROVE  /\ call = "Transform" /\ Top.inside /\ Top.todo = {}
         /\ visited' = Append(visited, Top.part)
         /\ UNCHANGED answers \/ \E m : Answering("mark", m, Nothing)
         /\ \E result : ExitsWith(result)
<1> DEFINE p == Top.part
           f == Top
           A == Assembled(Top)
<1>1. /\ call = "Transform" /\ Top.inside /\ Top.todo = {}
      /\ visited' = Append(visited, Top.part)
  BY DEF TransformExit, Leaving, Running
<1>2. /\ FrameMade(Top, {}, value, answers) /\ MarksBehind(stack, answers)
  BY <1>1, TopMade
<1>3. /\ Top.part \in Parts /\ Len(stack) \in DOMAIN stack /\ Top = stack[Len(stack)]
      /\ WellFormed(Top.val, Top.part) /\ p \in DOMAIN value
  BY <1>1, TopFrameFits, TopIsAFrame DEF FrameFits, WellFormed
<1>4. Ahead(Top) = {}
  BY <1>1 DEF Ahead, Waiting
<1>5. p \in PendingIn(stack)
  BY <1>3, PendingParts
<1>6. MarksOf(answers, p, "mark") = {}
  BY <1>2, <1>5 DEF MarksBehind, MarksOf
<1>7. WellFormed(A, p) /\ DOMAIN A = DOMAIN Top.val
  BY <1>3, AssembledFits
<1>8. CASE Return(A) /\ UNCHANGED answers
  <2>1. A[p] = A[p] \cup {}
    OBVIOUS
  <2>2. \A q \in DOMAIN f.val : q # p => A[q] = A[q]
    OBVIOUS
  <2>3. ResultMade(A, p, value, answers')
    <3>1. ResultMade(A, p, value, answers)
      BY <1>2, <1>3, <1>4, <1>6, <1>7, <2>1, <2>2, ReturnedAsMade
    <3> QED BY <1>8, <3>1
  <2> QED BY <1>1, <1>7, <1>8, <2>3 DEF ExitsWith
<1>9. CASE \E m \in Marks : Return(WithMarks(A, p, {m})) /\ Answer("mark", m, Nothing)
  <2>1. PICK m \in Marks : Return(WithMarks(A, p, {m})) /\ Answer("mark", m, Nothing)
    BY <1>9
  <2> DEFINE R == WithMarks(A, p, {m})
  <2>2. Answering("mark", m, Nothing)
    BY <2>1 DEF Answer, Answering
  <2>3. AnsweredIn(answers', "cut") = AnsweredIn(answers, "cut")
    BY <2>2, AnotherAnswer
  <2>4. /\ MarksOf(answers', p, "mark") = {m}
        /\ \A q : q # p => MarksOf(answers', q, "mark") = MarksOf(answers, q, "mark")
    BY <1>6, <2>2, MarksAdded
  <2>5. /\ WellFormed(R, p) /\ DOMAIN R = DOMAIN A /\ R[p] = A[p] \cup {m}
        /\ \A q \in DOMAIN A : q # p => R[q] = A[q]
    <3>1. {m} \in SUBSET Marks
      OBVIOUS
    <3> HIDE DEF A
    <3> QED BY <1>7, <3>1, WithMarksFits
  <2> HIDE DEF R
  <2>6. ResultMade(R, p, value, answers')
    BY <1>2, <1>3, <1>4, <1>6, <1>7, <2>3, <2>4, <2>5, ReturnedAsMade
  <2> QED BY <1>1, <1>7, <2>1, <2>2, <2>5, <2>6 DEF ExitsWith, R
<1> QED BY <1>8, <1>9 DEF TransformExit

(* A part is left, within another. *)
LEMMA LeavingMakes ==
  ASSUME IInv, PartsInv, TransformInv, TransformExit, Len(stack) # 1
  PROVE  /\ VisitedBehind(stack', visited') /\ MarksBehind(stack', answers')
         /\ FramesMade(stack', value, answers') /\ UNCHANGED <<value, call>>
<1> DEFINE n == Len(stack) - 1
           o == stack[n]
           p == Top.part
           around == AroundIn(stack, n, value)
<1>1. /\ call = "Transform" /\ call # "none" /\ Top.inside /\ Top.todo = {}
      /\ visited' = Append(visited, p)
      /\ UNCHANGED answers \/ \E m : Answering("mark", m, Nothing)
  BY ExitingReturns
<1>2. PICK R : ExitsWith(R)
  BY ExitingReturns
<1> DEFINE g == Taken(o, R)
<1>3. n \in Nat /\ n >= 1 /\ Len(stack) = n + 1 /\ DOMAIN stack = 1 .. n + 1 /\ Top = stack[n + 1]
  BY <1>1, TopIsAFrame
<1>4. /\ n \in DOMAIN stack /\ IsFrame(o) /\ o.part \in Parts /\ p \in In(Kids[o.part])
      /\ InnerIn(stack, n) = {p} /\ AroundIn(stack, Len(stack), value) = o.val
      /\ FrameFits(o, {p}, around, value, call)
  BY <1>1, OuterFrameFits
<1>5. /\ VisitedBehind(stack, visited) /\ MarksBehind(stack, answers)
      /\ FramesMade(stack, value, answers)
  BY <1>1, TopMade
<1>6. FrameMade(o, {p}, value, answers)
  <2> HIDE DEF n
  <2> QED BY <1>4, <1>5 DEF FramesMade
<1>7. OuterIs(g) /\ UNCHANGED <<value, call>>
  BY <1>1, <1>2, ReturningShape DEF ExitsWith
<1>8. /\ g.part = o.part /\ g.inside = o.inside /\ g.todo = o.todo
      /\ DOMAIN g.val = DOMAIN o.val \ (Below[p] \ DOMAIN R)
      /\ \A q \in DOMAIN g.val : g.val[q] = IF q \in DOMAIN R THEN R[q] ELSE o.val[q]
  <2> HIDE DEF n
  <2> QED BY <1>4, TakenFields
<1> HIDE DEF g
<1>9. Ahead(g) = Ahead(o)
  BY <1>8 DEF Ahead, Waiting
<1>10. /\ Below[p] \cap Ahead(o) = {} /\ o.part \notin Below[p]
  <2>1. n < Len(stack) /\ stack[n + 1].part = p
    BY <1>3
  <2> HIDE DEF n
  <2> QED BY <1>4, <2>1, FramesAreApart
<1>11. Below[p] \subseteq Below[p] /\ p \in Below[p]
  BY <1>1, AheadOfTop
<1>12. FrameMade(o, {p}, value, answers')
  <2>1. CASE UNCHANGED answers
    BY <1>6, <2>1
  <2>2. CASE \E m : Answering("mark", m, Nothing)
    <3>1. PICK m : Answering("mark", m, Nothing)
      BY <2>2
    <3> HIDE DEF o
    <3> QED BY <1>4, <1>6, <1>10, <1>11, <3>1, AnsweringKeepsMade
  <2> QED BY <1>1, <2>1, <2>2
<1>13. /\ WellFormed(o.val, o.part) /\ \A q \in Ahead(o) : q \in DOMAIN value => q \in DOMAIN o.val
  BY <1>4 DEF FrameFits
<1>14. DOMAIN R \subseteq DOMAIN o.val /\ ResultMade(R, p, value, answers')
  <2>1. DOMAIN Top.val \subseteq DOMAIN o.val
    BY <1>1, <1>4, TopFrameFits DEF FrameFits
  <2> QED BY <1>2, <2>1 DEF ExitsWith
<1>15. FrameMade(g, {}, value, answers')
  <2> HIDE DEF o, p
  <2> QED BY <1>4, <1>8, <1>9, <1>10, <1>12, <1>13, <1>14, TakenMade
<1>16. OuterAlike(n)
  <2>1. OuterIs(g) /\ g.part = stack[Len(stack) - 1].part
    BY <1>7, <1>8
  <2> QED BY <1>1, <2>1, OuterIsAlike
<1>17. Len(stack') = n /\ DOMAIN stack' = 1 .. n /\ stack'[n] = g
  BY <1>7 DEF OuterIs
<1>18. InnerIn(stack', n) = {}
  BY <1>3, <1>17 DEF InnerIn
<1>19. \A i \in 1 .. n - 1 : FrameMade(stack'[i], InnerIn(stack', i), value, answers')
  <2>1. UNCHANGED answers \/ \E what, mark, by : Answering(what, mark, by)
    BY <1>1
  <2> HIDE DEF n
  <2> QED BY <1>1, <1>5, <1>16, <2>1, OuterFramesMade
<1>20. /\ PendingIn(stack') \subseteq PendingIn(stack) /\ PendingIn(stack') \cap Below[p] = {}
  BY <1>1, <1>7, <1>8, <1>9, LeavingPending
<1> HIDE DEF n
<1>21. FramesMade(stack', value, answers')
  <2>1. \A i \in 1 .. n : i = n \/ i \in 1 .. n - 1
    BY <1>3
  <2> QED BY <1>15, <1>17, <1>18, <1>19, <2>1 DEF FramesMade
<1>22. VisitedBehind(stack', visited')
  <2>1. /\ visited' \in Seq(Parts) /\ InOrder("Transform", visited')
        /\ In(visited') = In(visited) \cup {p}
    BY <1>1, VisitedAfterItsParts
  <2> QED BY <1>5, <1>20, <2>1 DEF VisitedBehind
<1>23. MarksBehind(stack', answers')
  <2>1. \A a \in answers' : a \in answers \/ a.part = p
    BY <1>1 DEF Answering
  <2> QED BY <1>5, <1>11, <1>20, <2>1 DEF MarksBehind
<1> QED BY <1>7, <1>21, <1>22, <1>23

LEMMA BeginningMakes ==
  ASSUME PartsInv, NEW op, NEW h, NEW path, Begin(op, h, path)
  PROVE  /\ VisitedBehind(stack', visited') /\ MarksBehind(stack', answers')
         /\ FramesMade(stack', value', answers')
<1> DEFINE f == stack'[1]
<1>1. /\ UNCHANGED value /\ DOMAIN stack' = {1} /\ Len(stack') = 1 /\ answers' = {}
      /\ f.part = Root /\ f.val = value /\ ~f.inside /\ visited' = << >>
  BY BeginningKeepsParts DEF PartsInv
<1>2. AnsweredIn({}, "cut") = {} /\ \A q : ~Within(q, {})
  BY DEF AnsweredIn, Within
<1>3. InnerIn(stack', 1) = {}
  BY <1>1 DEF InnerIn
<1> HIDE DEF f
<1>4. Ahead(f) = Below[Root] /\ DoneIn(f, {}) = {}
  BY <1>1 DEF Ahead, DoneIn
<1>5. FrameMade(f, {}, value, {})
  <2>1. OwnsIn({}, value, {}) = {}
    BY NothingOwned
  <2>2. Together(f.val, DoneIn(f, {}) \cap DOMAIN f.val) = {}
    BY <1>4, NoneTogether
  <2> QED BY <1>1, <1>2, <1>4, <2>1, <2>2 DEF FrameMade
<1>6. FramesMade(stack', value', answers')
  BY <1>1, <1>3, <1>5 DEF FramesMade, f
<1>7. VisitedBehind(stack', visited')
  BY <1>1 DEF VisitedBehind, In, InOrder
<1> QED BY <1>1, <1>6, <1>7 DEF MarksBehind

LEMMA TransformsStep ==
  ASSUME [Next]_vars, call = "Transform"
  PROVE  \/ \E k \in Parts : Down(k) /\ UNCHANGED <<visited, answers>>
         \/ TransformEnter \/ TransformExit \/ TransformFails
         \/ UNCHANGED <<value, call, stack, calls, visited, answers>>
BY DEF Next, Step, vars, Start, BeginWalk, BeginTransform, BeginMarkWithPaths, BeginWrangle,
       BeginUnmarkWithPaths, Begin, Down, Extend, WalkVisit, WalkHalt, WalkLeave,
       MarkWithPathsExit, WrangleMark, UnmarkWithPaths, WrangleInto, WrangleLeave, Entering,
       Leaving, Running, Walks, Wrangles

LEMMA NextKeepsTransformInv ==
  ASSUME IInv, PartsInv, TransformInv, [Next]_vars
  PROVE  TransformInv'
<1> SUFFICES ASSUME call' = "Transform"
             PROVE  /\ VisitedBehind(stack', visited') /\ MarksBehind(stack', answers')
                    /\ FramesMade(stack', value', answers')
  BY DEF TransformInv
<1>1. CASE call # "Transform"
  <2>1. \E h, path : Begin(call', h, path)
    BY <1>1, CallsBegin
  <2> QED BY <2>1, BeginningMakes
<1>2. CASE call = "Transform"
  <2>1. /\ VisitedBehind(stack, visited) /\ MarksBehind(stack, answers)
        /\ FramesMade(stack, value, answers)
    BY <1>2 DEF TransformInv
  <2>2. ASSUME PendingIn(stack') \subseteq PendingIn(stack), UNCHANGED visited
        PROVE  VisitedBehind(stack', visited')
    BY <2>1, <2>2 DEF VisitedBehind
  <2>3. CASE \E k \in Parts : Down(k) /\ UNCHANGED <<visited, answers>>
    <3>1. PICK k \in Parts : Down(k) /\ UNCHANGED <<visited, answers>>
      BY <2>3
    <3>2. UNCHANGED value /\ PendingIn(stack') \subseteq PendingIn(stack)
      BY <3>1, GoingDownPending DEF Down
    <3>3. FramesMade(stack', value, answers')
      BY <1>2, <3>1, GoingDownMakes
    <3> QED BY <2>1, <2>2, <3>1, <3>2, <3>3 DEF MarksBehind
  <2>4. CASE TransformEnter
    <3>1. UNCHANGED <<value, visited>>
      BY <2>4, EnteringAPart
    <3> QED BY <1>2, <2>2, <2>4, <3>1, EnteringMakes
  <2>5. CASE TransformExit
    <3>1. Len(stack) # 1
      BY <2>5 DEF TransformExit, Return, End
    <3> QED BY <2>5, <3>1, LeavingMakes
  <2>6. CASE TransformFails
    BY <2>6 DEF TransformFails, End
  <2>7. CASE UNCHANGED <<value, call, stack, calls, visited, answers>>
    BY <2>1, <2>7
  <2> QED BY <1>2, <2>3, <2>4, <2>5, <2>6, <2>7, TransformsStep
<1> QED BY <1>1, <1>2

(* A Transform that ends well has made the value that the answers describe. *)
LEMMA TransformEndsWell ==
  ASSUME IInv, PartsInv, TransformInv, calls \in Seq(In(calls)), [Next]_vars, EndsWell("Transform")
  PROVE  TransformsAsAnswered /\ VisitsInOrder("Transform")
<1>1. call = "Transform" /\ call # "none" /\ call' = "none" /\ calls'[Len(calls')].ok
  BY DEF EndsWell
<1>2. ~TransformFails
  BY <1>1 DEF TransformFails, End
<1>3. TransformExit
  BY <1>1, <1>2, TransformsStep, EnteringAPart DEF Down
<1>4. Len(stack) = 1
  BY <1>1, <1>3, LeavingMakes
<1>5. visited' = Append(visited, Top.part)
  BY <1>3, ExitingReturns
<1>6. PICK R : ExitsWith(R)
  BY <1>3, ExitingReturns
<1>7. value' = R
  BY <1>4, <1>6 DEF ExitsWith, Return, End
<1>8. Top.part = Root
  BY <1>1, <1>4, TheOutermostFrame
<1>9. /\ DOMAIN R \subseteq Parts
      /\ \A q \in Parts : q \in DOMAIN R <=> q \in LeftIn(answers', value)
      /\ \A q \in Parts : q \in LeftIn(answers', value) => R[q] = MadeIn(answers', value, Parts, q)
  BY <1>6, <1>8, ShapeAssumption DEF ExitsWith, ResultMade
<1>10. DOMAIN value \subseteq Parts
  BY ShapeAssumption DEF PartsInv, WellFormed
<1>11. PartsAnswered("cut") = AnsweredIn(answers', "cut")
       /\ \A q : MarksAnswered(q, "mark") = MarksOf(answers', q, "mark")
  BY DEF PartsAnswered, Answered, AnsweredIn, MarksAnswered, MarksOf
<1>12. Left = LeftIn(answers', value) /\ \A q : Own(q) = OwnIn(answers', value, q)
  BY <1>11 DEF Left, LeftIn, Own, OwnIn
<1> DEFINE Made(q) == IF Within(q, {r \in Parts : Kind[r] = "set"}) THEN {}
                      ELSE IF Kind[q] = "set" THEN UNION {Own(r) : r \in Below[q] \cap Left}
                      ELSE Own(q)
<1>13. DOMAIN R = Left
  BY <1>9, <1>10, <1>12 DEF LeftIn
<1>14. ASSUME NEW q \in Left PROVE R[q] = Made(q)
  <2>1. R[q] = MadeIn(answers', value, Parts, q)
    BY <1>9, <1>12, <1>13
  <2>2. UNION {Own(r) : r \in Below[q] \cap Left} = OwnsIn(answers', value, Below[q])
    BY <1>12 DEF OwnsIn
  <2> QED BY <1>12, <2>1, <2>2 DEF MadeIn
<1>15. R = [q \in DOMAIN R |-> R[q]]
  BY <1>6 DEF ExitsWith, WellFormed
<1>16. R = [q \in Left |-> Made(q)]
  <2> HIDE DEF Made
  <2> QED BY <1>13, <1>14, <1>15
<1>17. VisitsInOrder("Transform")
  BY <1>1, <1>5, VisitedAfterItsParts DEF VisitsInOrder, InOrder
<1> QED BY <1>7, <1>16, <1>17 DEF TransformsAsAnswered

----------------------------------------------------------------------------
(* What the callbacks' answers have been made of, in any traversal.        *)

ObeyInv == PartsInv /\ WalkInv /\ TransformInv /\ WrangleInv

LEMMA ObeyHolds == Spec => []ObeyInv
<1>1. Init => ObeyInv
  <2>1. Init => call = "none"
    BY DEF Init
  <2> QED BY <2>1, PartsInitially DEF ObeyInv, WalkInv, TransformInv, WrangleInv
<1>2. ASSUME IInv, RestoreInv, ObeyInv, [Next]_vars PROVE ObeyInv'
  <2>1. NotesOK /\ PartsInv /\ WalkInv /\ TransformInv /\ WrangleInv
    BY <1>2 DEF RestoreInv, ObeyInv
  <2>2. PartsInv'
    BY <1>2, <2>1, NextKeepsParts
  <2>3. WalkInv'
    BY <1>2, <2>1, NextKeepsWalkInv
  <2>4. TransformInv'
    BY <1>2, <2>1, NextKeepsTransformInv
  <2>5. WrangleInv'
    BY <1>2, <2>1, NextKeepsWrangleInv
  <2> QED BY <2>2, <2>3, <2>4, <2>5 DEF ObeyInv
<1> QED BY <1>1, <1>2, IInvHolds, RestoreHolds, PTL DEF Spec

(* When a Walk, a Transform or a WrangleMarksDeep ends without an error,   *)
(* the callbacks have been given exactly the parts that their answers left *)
(* to be visited, in order, and the value is what the answers describe,    *)
(* part by part, whatever the order of attributes and marks (walk.go:50,   *)
(* walk.go:161, marks_wrangle.go:66).                                      *)
THEOREM AnswersAlwaysObeyed == Spec => AnswersAreObeyed
<1> DEFINE Obeyed ==
      /\ EndsWell("Walk") => WalksEverywhere /\ VisitsInOrder("Walk")
      /\ EndsWell("Transform") => TransformsAsAnswered /\ VisitsInOrder("Transform")
      /\ EndsWell("WrangleMarksDeep") => WranglesAsAnswered
<1>1. ASSUME IInv, RestoreInv, ObeyInv, [Next]_vars PROVE [Obeyed]_vars
  <2>1. PartsInv /\ WalkInv /\ TransformInv /\ WrangleInv /\ calls \in Seq(In(calls))
    BY <1>1 DEF RestoreInv, ObeyInv
  <2>2. EndsWell("Walk") => WalksEverywhere /\ VisitsInOrder("Walk")
    BY <1>1, <2>1, WalkEndsWell
  <2>3. EndsWell("Transform") => TransformsAsAnswered /\ VisitsInOrder("Transform")
    BY <1>1, <2>1, TransformEndsWell
  <2>4. EndsWell("WrangleMarksDeep") => WranglesAsAnswered
    BY <1>1, <2>1, WrangleEndsWell
  <2> QED BY <2>2, <2>3, <2>4
<1> QED BY <1>1, IInvHolds, RestoreHolds, ObeyHolds, PTL DEF Spec, AnswersAreObeyed

----------------------------------------------------------------------------
(* What a traversal has yet to do.  It goes down to a part, has the marks  *)
(* of the part visited, goes in and comes out, each of these at most once. *)

Turns(kinds, marks) == (kinds \X {Nothing}) \cup ({"mark"} \X marks)
AllTurns == Turns({"down", "in", "out"}, Marks)

Beyond(f) == IF f.inside THEN Waiting(f) ELSE Below[f.part] \ {f.part}
OwnTurns(f) ==
  IF f.inside THEN Turns({"out"}, {}) ELSE Turns({"in", "out"}, f.given \cap Marks)
ToDo(f) == ({f.part} \X OwnTurns(f)) \cup (Beyond(f) \X AllTurns)
ToCome(s) == UNION {ToDo(s[i]) : i \in DOMAIN s}
OuterToCome == UNION {ToDo(stack[i]) : i \in 1 .. Len(stack) - 1}

(* How many steps the traversal under way can take at most. *)
StepsLeft == Cardinality(ToCome(stack))

LEMMA TurnsOfFrames ==
  ASSUME NEW f
  PROVE  /\ OwnTurns(f) \subseteq AllTurns
         /\ <<"out", Nothing>> \in OwnTurns(f)
         /\ ~f.inside => <<"in", Nothing>> \in OwnTurns(f)
         /\ f.inside => <<"in", Nothing>> \notin OwnTurns(f)
         /\ \A m \in Marks : ~f.inside => (<<"mark", m>> \in OwnTurns(f) <=> m \in f.given)
BY DEF OwnTurns, Turns, AllTurns

LEMMA ToDoOfFrames ==
  ASSUME NEW f, NEW p, NEW turn, <<p, turn>> \in ToDo(f), f.part \in Parts
  PROVE  turn \in AllTurns /\ (p = f.part \/ p \in Ahead(f))
<1>1. Beyond(f) \subseteq Ahead(f)
  BY DEF Beyond, Ahead
<1> QED BY <1>1, TurnsOfFrames DEF ToDo

(* The parts and the marks bound what a traversal has yet to do. *)
LEMMA ToDoIsFinite ==
  ASSUME IInv
  PROVE  /\ ToCome(stack) \subseteq Parts \X AllTurns
         /\ IsFiniteSet(ToCome(stack)) /\ StepsLeft \in Nat
         /\ StepsLeft <= Cardinality(Parts) * (3 + Cardinality(Marks))
<1>1. ASSUME NEW i \in DOMAIN stack PROVE ToDo(stack[i]) \subseteq Parts \X AllTurns
  <2> DEFINE f == stack[i]
  <2>1. f.part \in Parts /\ f.todo \subseteq In(Kids[f.part])
    BY DEF IInv, StackOK, IsFrame
  <2> HIDE DEF f
  <2>2. Ahead(f) \subseteq Parts
    <3>1. Below[f.part] \subseteq Parts
      BY <2>1, BelowByWays
    <3>2. \A k \in f.todo : Below[k] \subseteq Parts
      BY <2>1, KidsAreParts, BelowByWays
    <3> QED BY <3>1, <3>2 DEF Ahead, Waiting
  <2>3. Beyond(f) \subseteq Parts
    BY <2>2 DEF Beyond, Ahead
  <2> QED BY <2>1, <2>3, TurnsOfFrames DEF ToDo, f
<1>2. ToCome(stack) \subseteq Parts \X AllTurns
  BY <1>1 DEF ToCome
<1> DEFINE kinds == {"down", "in", "out"} \X {Nothing}
           marks == {"mark"} \X Marks
<1>3. IsFiniteSet(Marks) /\ IsFiniteSet(Parts)
  BY PartsAssumption, MarksAssumption
<1>4. IsFiniteSet(kinds) /\ Cardinality(kinds) = 3
  <2>1. IsFiniteSet({"down"}) /\ Cardinality({"down"}) = 1
        /\ IsFiniteSet({Nothing}) /\ Cardinality({Nothing}) = 1
    BY FS_Singleton
  <2>2. IsFiniteSet({"down"} \cup {"in"}) /\ Cardinality({"down"} \cup {"in"}) = 2
    BY <2>1, FS_AddElement
  <2>3. /\ IsFiniteSet(({"down"} \cup {"in"}) \cup {"out"})
        /\ Cardinality(({"down"} \cup {"in"}) \cup {"out"}) = 3
    BY <2>2, FS_AddElement
  <2>4. {"down", "in", "out"} = ({"down"} \cup {"in"}) \cup {"out"}
    OBVIOUS
  <2>5. IsFiniteSet(kinds) /\ Cardinality(kinds) = 3 * 1
    BY <2>1, <2>3, <2>4, FS_Product
  <2> QED BY <2>5
<1>5. IsFiniteSet(marks) /\ Cardinality(marks) = Cardinality(Marks)
  <2>1. IsFiniteSet({"mark"}) /\ Cardinality({"mark"}) = 1
    BY FS_Singleton
  <2>2. IsFiniteSet(marks) /\ Cardinality(marks) = 1 * Cardinality(Marks)
    BY <1>3, <2>1, FS_Product
  <2> QED BY <1>3, <2>2, FS_CardinalityType
<1>6. IsFiniteSet(AllTurns) /\ Cardinality(AllTurns) = 3 + Cardinality(Marks)
  <2>1. kinds \cap marks = {} /\ AllTurns = kinds \cup marks
    BY DEF AllTurns, Turns
  <2> HIDE DEF kinds, marks
  <2>2. IsFiniteSet(kinds \cup marks)
        /\ Cardinality(kinds \cup marks) =
             Cardinality(kinds) + Cardinality(marks) - Cardinality(kinds \cap marks)
    BY <1>4, <1>5, FS_Union
  <2>3. Cardinality(kinds \cap marks) = 0 /\ Cardinality(Marks) \in Nat
    BY <1>3, <2>1, FS_EmptySet, FS_CardinalityType
  <2> QED BY <1>4, <1>5, <2>1, <2>2, <2>3
<1>7. /\ IsFiniteSet(Parts \X AllTurns)
      /\ Cardinality(Parts \X AllTurns) = Cardinality(Parts) * (3 + Cardinality(Marks))
  BY <1>3, <1>6, FS_Product
<1>8. /\ IsFiniteSet(ToCome(stack))
      /\ Cardinality(ToCome(stack)) <= Cardinality(Parts \X AllTurns)
  BY <1>2, <1>7, FS_Subset
<1> QED BY <1>2, <1>7, <1>8, FS_CardinalityType DEF StepsLeft

(* Nothing in the innermost part is left to do in the frames around it.    *)
LEMMA ToDoAroundTop ==
  ASSUME IInv, PartsInv, call # "none"
  PROVE  /\ ToCome(stack) = OuterToCome \cup ToDo(Top)
         /\ \A p \in Below[Top.part] : \A turn : <<p, turn>> \notin OuterToCome
<1> DEFINE n == Len(stack)
<1>1. n \in Nat /\ n >= 1 /\ DOMAIN stack = 1 .. n /\ Top = stack[n]
  BY TopIsAFrame
<1>2. /\ n \in DOMAIN stack /\ (\A i \in DOMAIN stack : i = n \/ i \in 1 .. n - 1)
      /\ (\A i \in 1 .. n - 1 : i \in DOMAIN stack)
  BY <1>1
<1>3. ASSUME NEW i \in 1 .. n - 1, NEW p \in Below[Top.part], NEW turn
      PROVE  <<p, turn>> \notin ToDo(stack[i])
  <2>1. stack[i].part \in Parts
    BY <1>2 DEF IInv, StackOK, IsFrame
  <2>2. p # stack[i].part /\ p \notin Ahead(stack[i])
    BY AheadOfTop DEF OuterAhead
  <2> QED BY <2>1, <2>2, ToDoOfFrames
<1> HIDE DEF n
<1>4. ToCome(stack) = OuterToCome \cup ToDo(Top)
  BY <1>1, <1>2 DEF ToCome, OuterToCome, n
<1> QED BY <1>3, <1>4 DEF OuterToCome, n

LEMMA ChangingTopToDo ==
  ASSUME IInv, call # "none", NEW g, TopLike(g)
  PROVE  ToCome(stack') = OuterToCome \cup ToDo(g)
<1> DEFINE n == Len(stack)
<1>1. /\ n \in Nat /\ n >= 1 /\ DOMAIN stack' = 1 .. n /\ Alike(stack'[n], g)
      /\ \A i \in 1 .. n - 1 : Alike(stack'[i], stack[i])
  BY TopIsAFrame DEF TopLike, OuterAlike
<1>2. ASSUME NEW f, NEW h, Alike(h, f) PROVE ToDo(h) = ToDo(f)
  BY <1>2 DEF Alike, ToDo, Beyond, Waiting, OwnTurns
<1>3. n \in DOMAIN stack' /\ (\A i \in DOMAIN stack' : i = n \/ i \in 1 .. n - 1)
      /\ (\A i \in 1 .. n - 1 : i \in DOMAIN stack')
  BY <1>1
<1>4. ToDo(stack'[n]) = ToDo(g) /\ \A i \in 1 .. n - 1 : ToDo(stack'[i]) = ToDo(stack[i])
  BY <1>1, <1>2
<1> HIDE DEF n
<1> QED BY <1>3, <1>4 DEF ToCome, OuterToCome, n

(* Less is to come than before. *)
LessToCome ==
  /\ ToCome(stack') \subseteq ToCome(stack)
  /\ \E e \in ToCome(stack) : e \notin ToCome(stack')

LEMMA GoingDownLeavesLess ==
  ASSUME IInv, PartsInv, NEW k \in Parts, Down(k)
  PROVE  LessToCome
<1> DEFINE n == Len(stack)
           g == [Top EXCEPT !.todo = @ \ {k}]
           down == <<k, <<"down", Nothing>>>>
<1>1. call # "none" /\ Top.inside /\ k \in Top.todo /\ k \in In(Kids[Top.part])
  BY GoingDownShape DEF Down
<1>2. /\ n \in Nat /\ n >= 1 /\ DOMAIN stack = 1 .. n /\ Top = stack[n] /\ IsFrame(Top)
      /\ Top.part \in Parts /\ Top.todo \subseteq In(Kids[Top.part])
  BY <1>1, TopIsAFrame DEF IsFrame
<1>3. PICK t : TopsAre(g, Frame(k, t, Top.val))
  BY GoingDownShape
<1> DEFINE inner == Frame(k, t, Top.val)
<1>4. g.part = Top.part /\ g.inside /\ g.todo = Top.todo \ {k}
  BY <1>1, <1>2 DEF IsFrame
<1>5. inner.part = k /\ ~inner.inside
  BY DEF Frame
<1>6. /\ DOMAIN stack' = 1 .. n + 1 /\ stack'[n] = g /\ stack'[n + 1] = inner
      /\ \A i \in 1 .. n - 1 : stack'[i] = stack[i]
  BY <1>3 DEF TopsAre
<1>7. /\ n \in DOMAIN stack' /\ n + 1 \in DOMAIN stack'
      /\ (\A i \in DOMAIN stack' : i = n + 1 \/ i = n \/ i \in 1 .. n - 1)
      /\ (\A i \in 1 .. n - 1 : i \in DOMAIN stack')
  BY <1>2, <1>6
<1> HIDE DEF n, g, inner
<1>8. ToCome(stack') = OuterToCome \cup ToDo(g) \cup ToDo(inner)
  BY <1>6, <1>7 DEF ToCome, OuterToCome, n
<1>9. /\ ToCome(stack) = OuterToCome \cup ToDo(Top)
      /\ \A p \in Below[Top.part] : \A turn : <<p, turn>> \notin OuterToCome
  BY <1>1, ToDoAroundTop
<1>10. /\ Beyond(Top) = UNION {Below[l] : l \in Top.todo}
       /\ Beyond(g) = UNION {Below[l] : l \in Top.todo \ {k}}
       /\ Beyond(inner) = Below[k] \ {k}
  BY <1>1, <1>4, <1>5 DEF Beyond, Waiting
<1>11. k \in Below[k] /\ Below[k] \subseteq Beyond(Top) /\ k # Top.part
       /\ k \in Below[Top.part]
  <2>1. k \in Below[k] /\ Below[k] \subseteq Below[Top.part]
    BY <1>1, <1>2, BelowAPart
  <2>2. Top.part \notin Below[k]
    BY <1>1, <1>2, KidsAreApart
  <2> QED BY <1>1, <1>10, <2>1, <2>2
<1>12. OwnTurns(g) = OwnTurns(Top)
  BY <1>1, <1>4 DEF OwnTurns
<1>13. ToDo(g) \subseteq ToDo(Top)
  <2>1. Beyond(g) \subseteq Beyond(Top)
    BY <1>10
  <2> QED BY <1>4, <1>12, <2>1 DEF ToDo
<1>14. ToDo(inner) \subseteq ToDo(Top)
  BY <1>5, <1>10, <1>11, TurnsOfFrames DEF ToDo
<1>15. <<"down", Nothing>> \in AllTurns /\ <<"down", Nothing>> \notin OwnTurns(inner)
  BY DEF AllTurns, OwnTurns, Turns
<1>16. down \in ToDo(Top)
  BY <1>11, <1>15 DEF ToDo
<1>17. down \notin ToDo(g)
  <2>1. \A l \in Top.todo \ {k} : k \notin Below[l]
    BY <1>1, <1>2, <1>11, KidsAreApart
  <2>2. k \notin Beyond(g)
    BY <1>10, <2>1
  <2> QED BY <1>4, <1>11, <2>2 DEF ToDo
<1>18. down \notin ToDo(inner)
  BY <1>5, <1>10, <1>15 DEF ToDo
<1>19. down \notin OuterToCome
  BY <1>9, <1>11
<1> HIDE DEF down
<1> QED BY <1>8, <1>9, <1>13, <1>14, <1>16, <1>17, <1>18, <1>19 DEF LessToCome

(* The innermost frame is entered, or one of its marks has been visited.   *)
LEMMA ChangingTopLeavesLess ==
  ASSUME IInv, PartsInv, call # "none", NEW g, TopLike(g), g.part = Top.part,
         ToDo(g) \subseteq ToDo(Top),
         NEW turn, <<Top.part, turn>> \in ToDo(Top), <<Top.part, turn>> \notin ToDo(g)
  PROVE  LessToCome
<1>1. /\ ToCome(stack) = OuterToCome \cup ToDo(Top)
      /\ <<Top.part, turn>> \notin OuterToCome
  BY ToDoAroundTop, AheadOfTop
<1>2. ToCome(stack') = OuterToCome \cup ToDo(g)
  BY ChangingTopToDo
<1> QED BY <1>1, <1>2 DEF LessToCome

LEMMA EnteringLeavesLess ==
  ASSUME IInv, PartsInv, call # "none", ~Top.inside, NEW g, TopLike(g), NEW todo,
         Entered(g, Top, todo), todo = {} \/ todo = KidsIn(Top.part, Top.val)
  PROVE  LessToCome
<1>1. g.part = Top.part /\ g.inside
  BY DEF Entered
<1>2. Ahead(g) \subseteq Below[Top.part] \ {Top.part}
  BY EnteringAhead
<1>3. /\ Beyond(g) = Ahead(g) /\ Beyond(Top) = Below[Top.part] \ {Top.part}
  BY <1>1 DEF Beyond, Ahead
<1>4. OwnTurns(g) \subseteq OwnTurns(Top)
  BY <1>1 DEF OwnTurns, Turns
<1>5. ToDo(g) \subseteq ToDo(Top)
  BY <1>1, <1>2, <1>3, <1>4 DEF ToDo
<1>6. <<"in", Nothing>> \in OwnTurns(Top) /\ <<"in", Nothing>> \notin OwnTurns(g)
  BY <1>1, TurnsOfFrames
<1>7. <<Top.part, <<"in", Nothing>>>> \in ToDo(Top)
  BY <1>6 DEF ToDo
<1>8. <<Top.part, <<"in", Nothing>>>> \notin ToDo(g)
  BY <1>1, <1>2, <1>3, <1>6 DEF ToDo
<1> QED BY <1>1, <1>5, <1>7, <1>8, ChangingTopLeavesLess

LEMMA VisitingLeavesLess ==
  ASSUME IInv, PartsInv, call # "none", ~Top.inside, NEW m \in Marks, m \in Top.given,
         NEW g, TopLike(g), g.part = Top.part, ~g.inside, g.given = Top.given \ {m}
  PROVE  LessToCome
<1>1. OwnTurns(g) \subseteq OwnTurns(Top)
  BY DEF OwnTurns, Turns
<1>2. Beyond(g) = Beyond(Top) /\ Top.part \notin Beyond(g)
  BY DEF Beyond
<1>3. <<"mark", m>> \in OwnTurns(Top) /\ <<"mark", m>> \notin OwnTurns(g)
  BY TurnsOfFrames
<1>4. ToDo(g) \subseteq ToDo(Top)
  BY <1>1, <1>2 DEF ToDo
<1>5. <<Top.part, <<"mark", m>>>> \in ToDo(Top) /\ <<Top.part, <<"mark", m>>>> \notin ToDo(g)
  BY <1>2, <1>3 DEF ToDo
<1> QED BY <1>4, <1>5, ChangingTopLeavesLess

LEMMA EndingLeavesNothing ==
  ASSUME IInv, PartsInv, call # "none", stack' = << >>
  PROVE  LessToCome
<1>1. ToCome(stack') = {}
  BY DEF ToCome
<1>2. <<Top.part, <<"out", Nothing>>>> \in ToDo(Top)
  BY TurnsOfFrames DEF ToDo
<1>3. <<Top.part, <<"out", Nothing>>>> \in ToCome(stack)
  BY <1>2, ToDoAroundTop
<1> QED BY <1>1, <1>3 DEF LessToCome

LEMMA LeavingLeavesLess ==
  ASSUME IInv, PartsInv, call # "none",
         \/ ReturnUnchanged
         \/ \E result : Return(result)
         \/ \E result, ok : End(result, ok)
  PROVE  LessToCome
<1> DEFINE n == Len(stack)
           o == stack[n - 1]
<1>1. CASE stack' = << >>
  BY <1>1, EndingLeavesNothing
<1>2. CASE \E g : OuterIs(g) /\ g.part = o.part /\ g.inside = o.inside /\ g.todo = o.todo
                  /\ g.given = o.given
  <2>1. PICK g : OuterIs(g) /\ g.part = o.part /\ g.inside = o.inside /\ g.todo = o.todo
                 /\ g.given = o.given
    BY <1>2
  <2>2. /\ n \in Nat /\ n > 1 /\ DOMAIN stack' = 1 .. n - 1 /\ stack'[n - 1] = g
        /\ \A i \in 1 .. n - 2 : stack'[i] = stack[i]
    BY <2>1, TopIsAFrame DEF OuterIs
  <2>3. ToDo(g) = ToDo(o)
    BY <2>1 DEF ToDo, Beyond, Waiting, OwnTurns
  <2>4. n - 1 \in 1 .. n - 1 /\ (\A i \in 1 .. n - 1 : i = n - 1 \/ i \in 1 .. n - 2)
    BY <2>2
  <2>5. \A i \in 1 .. n - 1 : ToDo(stack'[i]) = ToDo(stack[i])
    BY <2>2, <2>3, <2>4
  <2> HIDE DEF n, o
  <2>6. ToCome(stack') = OuterToCome
    BY <2>2, <2>5 DEF ToCome, OuterToCome, n
  <2>7. <<Top.part, <<"out", Nothing>>>> \in ToDo(Top)
    BY TurnsOfFrames DEF ToDo
  <2>8. /\ ToCome(stack) = OuterToCome \cup ToDo(Top)
        /\ <<Top.part, <<"out", Nothing>>>> \notin OuterToCome
    BY ToDoAroundTop, AheadOfTop
  <2> QED BY <2>6, <2>7, <2>8 DEF LessToCome
<1>3. CASE Len(stack) = 1 \/ \E result, ok : End(result, ok)
  BY <1>1, <1>3 DEF End, Return, ReturnUnchanged
<1>4. CASE Len(stack) # 1 /\ ReturnUnchanged
  <2>1. stack' = Outer
    BY <1>4 DEF ReturnUnchanged
  <2>2. OuterIs(o)
    BY <1>4, <2>1, LosingTopShape
  <2> QED BY <1>2, <2>2
<1>5. CASE Len(stack) # 1 /\ \E result : Return(result)
  <2>1. PICK result : Return(result)
    BY <1>5
  <2>2. OuterIs(Taken(o, result))
    BY <1>5, <2>1, ReturningShape
  <2>3. IsFrame(o)
    BY <1>5, OuterFrameFits
  <2> HIDE DEF o
  <2>4. /\ Taken(o, result).part = o.part /\ Taken(o, result).inside = o.inside
        /\ Taken(o, result).todo = o.todo /\ Taken(o, result).given = o.given
    BY <2>3, TakenFields
  <2> QED BY <1>2, <2>2, <2>4
<1> QED BY <1>3, <1>4, <1>5

LEMMA StepsLeaveLess ==
  ASSUME IInv, PartsInv, Step
  PROVE  LessToCome
<1>1. CASE \E k \in Parts : Down(k)
  BY <1>1, GoingDownLeavesLess
<1>2. CASE WalkVisit
  <2>1. call # "none" /\ ~Top.inside /\ \E g : VisitsPart(g)
    BY <1>2, VisitingAPart
  <2> QED BY <2>1, EnteringLeavesLess DEF VisitsPart
<1>3. CASE TransformEnter
  <2>1. call # "none" /\ ~Top.inside /\ \E g : EntersPart(g)
    BY <1>3, EnteringAPart
  <2> QED BY <2>1, EnteringLeavesLess DEF EntersPart
<1>4. CASE WrangleInto
  <2>1. call # "none" /\ ~Top.inside /\ \E g : GoesInto(g)
    BY <1>4, WranglingIn
  <2> QED BY <2>1, EnteringLeavesLess DEF GoesInto
<1>5. CASE \E m \in Marks : WrangleMark(m)
  <2>1. PICK m \in Marks : WrangleMark(m)
    BY <1>5
  <2>2. call # "none" /\ ~Top.inside /\ m \in Top.given /\ IsFrame(Top)
    BY <2>1, WranglingAMark, TopIsAFrame
  <2>3. PICK g : TopLike(g) /\ Wrangles1(g, m)
    BY <2>1, WranglingAMark
  <2>4. /\ Visited(Top, m).part = Top.part /\ Visited(Top, m).inside = Top.inside
        /\ Visited(Top, m).given = Top.given \ {m}
    BY <2>2 DEF Visited, IsFrame
  <2>5. g.part = Top.part /\ ~g.inside /\ g.given = Top.given \ {m}
    BY <2>2, <2>3, <2>4 DEF Wrangles1, Remarked
  <2> QED BY <2>2, <2>3, <2>5, VisitingLeavesLess
<1>6. CASE \E m \in Marks : UnmarkWithPaths(m)
  <2>1. PICK m \in Marks : UnmarkWithPaths(m)
    BY <1>6
  <2> DEFINE g == Drop(Visited(Top, m), m)
  <2>2. call # "none" /\ ~Top.inside /\ m \in Top.given /\ stack' = WithTop(g)
    BY <2>1 DEF UnmarkWithPaths, Entering, Running
  <2>3. Remarked(g, Top, m, Top.val[Top.part] \ {m})
    BY <2>2, TopIsAFrame, RemarkingAFrame
  <2> HIDE DEF g
  <2>4. g.part = Top.part /\ ~g.inside /\ g.given = Top.given \ {m}
    BY <2>2, <2>3 DEF Remarked
  <2>5. TopLike(g)
    BY <2>2, <2>4, ChangingTopShape, SameTopIsAlike
  <2> QED BY <2>2, <2>4, <2>5, VisitingLeavesLess
<1>7. CASE WalkHalt \/ WalkLeave \/ TransformFails
  BY <1>7, LeavingLeavesLess
     DEF WalkHalt, WalkLeave, TransformFails, Entering, Leaving, Running, Walks
<1>8. CASE TransformExit \/ MarkWithPathsExit
  <2>1. call # "none" /\ \E result : Return(result)
    BY <1>8 DEF TransformExit, MarkWithPathsExit, Leaving, Running
  <2> QED BY <2>1, LeavingLeavesLess
<1>9. CASE WrangleLeave
  <2>1. call # "none"
    BY <1>9 DEF WrangleLeave, Leaving, Running, Wrangles
  <2>2. \/ ReturnUnchanged
        \/ \E result : Return(result)
        \/ \E result, ok : End(result, ok)
    BY <1>9 DEF WrangleLeave
  <2> QED BY <2>1, <2>2, LeavingLeavesLess
<1> QED BY <1>1, <1>2, <1>3, <1>4, <1>5, <1>6, <1>7, <1>8, <1>9 DEF Step

(* Every step of a traversal leaves fewer steps to take, whatever the      *)
(* callbacks answer, and nothing else that the program does meanwhile adds *)
(* to them: each part is gone down to, entered and left once, and each of  *)
(* its marks visited once (walk.go:50, walk.go:161, marks_wrangle.go:66).  *)
FewerStepsLeft ==
  [][/\ Step => StepsLeft' < StepsLeft
     /\ call # "none" => StepsLeft' <= StepsLeft]_vars

(* The steps that are left are no more than the parts and the marks make.  *)
StepsAreBounded ==
  StepsLeft \in 0 .. Cardinality(Parts) * (3 + Cardinality(Marks))

(* So no traversal goes on without end, in any tree and with any answers   *)
(* of the callbacks: after at most that many steps, it has returned.       *)
THEOREM TraversalsTakeBoundedlyManySteps == Spec => FewerStepsLeft /\ []StepsAreBounded
<1> DEFINE Fewer == /\ Step => StepsLeft' < StepsLeft
                    /\ call # "none" => StepsLeft' <= StepsLeft
<1>1. ASSUME IInv PROVE StepsAreBounded
  <2> DEFINE most == Cardinality(Parts) * (3 + Cardinality(Marks))
  <2> SUFFICES StepsLeft \in 0 .. most
    BY DEF StepsAreBounded
  <2>1. StepsLeft \in Nat /\ StepsLeft <= most
    BY <1>1, ToDoIsFinite
  <2>2. Cardinality(Parts) \in Nat /\ Cardinality(Marks) \in Nat
    BY PartsAssumption, MarksAssumption, FS_CardinalityType
  <2>3. most \in Nat
    BY <2>2
  <2> HIDE DEF most
  <2> QED BY <2>1, <2>3
<1>2. ASSUME IInv, ObeyInv, [Next]_vars PROVE [Fewer]_vars
  <2>1. StepsLeft \in Nat /\ IsFiniteSet(ToCome(stack))
    BY <1>2, ToDoIsFinite
  <2>2. CASE Step
    <3>1. LessToCome
      BY <1>2, <2>2, StepsLeaveLess DEF ObeyInv
    <3>2. /\ IsFiniteSet(ToCome(stack'))
          /\ Cardinality(ToCome(stack')) <= Cardinality(ToCome(stack))
          /\ Cardinality(ToCome(stack')) # Cardinality(ToCome(stack))
      BY <2>1, <3>1, FS_Subset DEF LessToCome
    <3>3. StepsLeft' \in Nat /\ StepsLeft' <= StepsLeft /\ StepsLeft' # StepsLeft
      BY <3>2, FS_CardinalityType DEF StepsLeft
    <3> QED BY <2>1, <3>3
  <2>3. CASE ~Step /\ call # "none" /\ ~UNCHANGED vars
    <3>1. UNCHANGED stack
      BY <1>2, <2>3 DEF Next, Start, BeginWalk, BeginTransform, BeginMarkWithPaths,
         BeginWrangle, BeginUnmarkWithPaths, Begin, Extend
    <3>2. StepsLeft' = StepsLeft
      BY <3>1 DEF StepsLeft, ToCome
    <3> QED BY <2>1, <2>3, <3>2
  <2> QED BY <2>2, <2>3
<1> QED BY <1>1, <1>2, IInvHolds, ObeyHolds, PTL DEF Spec, FewerStepsLeft
=============================================================================
