# A TLA+ model of go-cty

`cty` is a dynamic type system in Go: immutable values, some of them *unknown*
placeholders that carry partial information (refinements), some of them marked,
with operations, conversions, functions and serialisations over them.  The
library is sequential and does no I/O of its own.  What makes it hard is state
behind an immutable surface (builders, set buckets and path slices that are
shared or copied), Go's random map order reaching results, callbacks that may
fail or panic half way, and the promise that whatever is said of an unknown
value stays true once it is known.

## Inventory

| Part | State it keeps | Operations | Works with | What makes it correct |
|---|---|---|---|---|
| Refinements (`cty/unknown_refinement.go`, `unknown.go`) | a refinement object on the heap for each builder, shared with the value it returns | `Refine`, the builder methods, `NewValue` | values, ranges | ranges only narrow, by what was asked and no more; contradictions panic; values do not change |
| Ranges (`cty/value_range.go`) | none: a view of a refinement | `Range`, the bounds, `Includes`, `numericRangeArithmetic` | `Equals`, comparison, arithmetic | a definite answer is never wrong |
| Operations (`cty/value_ops.go`, `helper.go`) | none | arithmetic, comparison, logic, `Length` | refinements, sets, marks | what is said of placeholders holds of the values they become |
| Sets (`cty/set`, `set_internals.go`, `set_helper.go`) | buckets of Go slices over shared arrays | `Add`, `Remove`, `Copy`, the combinations, wrapping in a value | `Equals` (membership), hashing | no two members alike; a wrapped set does not change |
| Functions (`cty/function`) | the arguments, marks and outcome of a call under way | `Call`, `ReturnTypeForValues`, `Unpredictable` | callbacks of the function's author, refinements, marks | callbacks get what they allow; errors, marks and types survive every way out |
| Marks (`cty/marks.go`, `marks_wrangle.go`, `ctymarks`) | sets of marks on values at any depth, the frames of a traversal, the paths it collects | `Mark`, `Unmark`, `WrangleMarksDeep`, `UnmarkDeepWithPaths`, `MarkWithPaths` | every operation | no mark is lost or moved; the result does not depend on map order |
| Walking and paths (`cty/walk.go`, `path.go`, `path_set.go`) | a path whose array successive callbacks share | `Walk`, `Transform`, `Path.Copy`, `Path.Apply`, `PathSet` | marks, sets | each part visited once, with its own path; a kept path stays |
| Collections and structures (`cty/value_ops.go`, `unknown_as_null.go`) | none | `Equals`, `RawEquals`, `Index`, `GetAttr`, `HasElement`, iteration | sets, refinements | as for operations |
| Types (`cty/type*.go`, `*_type.go`, `capsule*.go`) | none | equality, conformance | everything | an equivalence, a preorder |
| Conversion and unification (`cty/convert`) | none: a conversion assigns to the output type it captured, but to the same effect every time | `Convert`, `GetConversion`, `Unify` | types, paths, marks | the result has the type asked for and keeps its marks; safe conversions succeed; what is said of an unknown value holds; map order does not matter |
| Standard functions (`cty/function/stdlib`) | none | some eighty functions, each a `Type` and an `Impl` callback | functions, collections, conversion | `Impl` gives what `Type` promised; early results hold late; each obeys its own laws |
| Encodings (`cty/json`, `cty/msgpack`) | reader and writer positions | marshal, unmarshal, implied types | refinements, types, conversion | what is written can be read; a round trip invents nothing |
| Go bridge (`cty/gocty`) | the Go variables of the program and what they point to | `FromCtyValue`, `ToCtyValue`, `ImpliedType` | types, conversion | what was decoded is what is encoded; slices and maps handed out stay |
| Strings (`cty/ctystrings`) | none | normalisation, safe prefixes | refinements, encodings | a safe prefix survives any continuation |

`PROJECT.json` lists the same parts with what is modelled of each, and the
hazards, each at its line.

## Plan

Done, in this order, because refinement and the operations on unknown values
are what every application of cty relies on:

1. `Refinement`, `RefinementBuilder`, with `RangeNarrowing` above them and
   `RefinementBuilder_proofs` beside them;
2. `ValueOps`, `PartialEvaluation`;
3. `SetStore`, with `SetContents` above it;
4. `FunctionCall`;
5. `CtyValues`, `Conversion`, `ConversionProgram`;
6. `Traversal`: walking, transforming, marks and paths;
7. `Structures`, `StdlibLists`, `StdlibMaps`, `StdlibCall`, `StdlibProgram`;
8. `JsonCodec`, `MsgpackCodec`, `CodecProgram`;
9. `GoBridge`, `BridgeProgram`.

Then the proofs, in modules of their own beside what they are about:
`RefinementBuilder_proofs` and, on top of it, `RefinementMeaning_proofs`;
`SetStore_proofs` and, on top of it, `SetMembership_proofs`;
`FunctionCall_proofs`; `Traversal_proofs`; `PartialEvaluation_proofs` and, on top of
it, `Learning_proofs`.

## Modules

**Refinement** is the data of a refinement object: one record per
`unknownValRefinement` type, with the effect of each builder method on it
(`WithMin`, `WithMaxLen`, `WithPrefix`, ...), the consistency assertions, and
the values it allows (`Range`).  **RefinementBuilder** is the state machine:
`value` and `builder` are what the program's variables hold and `heap` the
refinement objects they point to.  Each builder method is an action that, as
the code does, first returns if there is nothing to refine, then checks the
original value, assigns, and asserts consistency, in that order, so that a
panic leaves the assignment behind.  `Refine` copies the object; `NewValue`
puts the builder's own pointer in the value.  **RangeNarrowing** is the
promise: a value denotes a set of concrete values that never changes, and
refinement only shrinks a copy of it.

**ValueOps** holds the operations as operators on values that are known or
unknown with a refinement: `mustTypeCheck` and its early returns, arithmetic on
bounds by four corners with the recovered panic, comparison of bounds,
`Includes`, and `Equals`.  Numbers are integers in a finite interval
whose ends stand for the infinities.  `lit` tells the package's own objects
(`cty.Zero`, the infinities), which some operations compare by identity.
**PartialEvaluation** runs one program twice in step, `early` on placeholders
and `late` on values that agree with them; each action applies one operation to
operands the program already has and appends the result.

**SetStore** is `set.Set` as Go runs it: `sets` maps a name to its buckets, each
bucket being a slice (an array and a length) over `heap`, the arrays, with their
capacity and contents.  `append` writes in place while there is room and
otherwise moves to an array of twice the capacity; `Remove` copies; `Copy`
shares.  A set is `sealed` once a cty value wraps it.  Membership follows
`setRules`: the hash text, equality known to be true, and the order of
iteration.  **SetContents** is the promise: a bag per set that only its own
operations change.

**FunctionCall** is `Function.Call`, in the stages that its callbacks and
deferred functions separate: check the arguments, ask `Type`, gather marks and
decide whether the result is unknown, ask `Impl`, check what it returned,
refine.  Every callback may answer anything its contract allows, fail or panic.
A program calls the function twice, early and late, the early call perhaps
through `Unpredictable`; the callbacks are pure and learn as the operations do.

**CtyValues** holds types and values as trees: a type is a sequence of its kind
and its parts, a value a record of its type, of what it `is` (null, unknown in a
range of nullness and length, or known with its parts) and of its marks.  The
constructors do what those of the code do: they give elements of unknown type
the type of the others, and a set collects its elements' marks.
**Conversion** is `cty/convert` over them: the preference between types
(`CompareTypes`) and the topological sort by it (`SortTypes`), `Unify` with the
conversions it returns, whether there is a conversion between two types
(`Convertible`) and what it does (`Apply`, with `PrepareUnknownResult` and
`DynamicReplace` for values that are unknown or null).  The elements of a set
are visited in the order they were added instead of that of `setRules.Less`, and
attributes in the order of `Names` instead of a random one; that the type found
does not depend on the latter is the property `UnifyIgnoresOrder`.
**ConversionProgram** converts or unifies one value twice, early and late, as
`PartialEvaluation` does with operations.

**Traversal** is the recursion of `Walk`, `Transform`, `WrangleMarksDeep` and of
the two operations made of them, one frame of the Go call stack to an element of
`stack` and one call of a callback to an action.  The value is a tree of `Parts`
with marks; the structure of a value does not change but for the parts that a
callback prunes.  A path is a slice over `heap`, like a bucket in `SetStore`:
`append` in a frame writes to the array of the frame above while there is room,
so that siblings overwrite each other's last step, and only a callback that copies
its path (`Path.Copy`, or `Index` and `GetAttr` on a path it kept) may keep it.
`pvm` is what `UnmarkDeepWithPaths` returns, and `answers` remembers what
callbacks answered, for the properties only.  Attributes of an object, and the
marks of a value, come in any order, as from a Go map.

**Structures** adds to `CtyValues` the operations on values with parts: `Equals`
with its early returns for unknown and dynamic operands, `RawEquals`, `Index`,
`GetAttr`, `HasElement`, `Length`, iteration and `UnknownAsNull`.  **StdlibLists**
and **StdlibMaps** hold, for each collection, sequence, set and general function
of the standard library, what its `Type` and its `Impl` callback answer;
**StdlibCall** their parameters and `Function.Call` around them.  (`FunctionCall`
leaves the callbacks open and looks at the order of events in one call;
`StdlibCall` takes that order as one step and looks at what the callbacks of these
functions say of their arguments.)  **StdlibProgram** calls a function, learns
more of an argument and calls again, any number of times, and passes the result
on to another function.

**JsonCodec** and **MsgpackCodec** write and read values.  A document is the tree
that `encoding/json` and the msgpack library write and read, with the
descriptions of types where the type asked for is left open and, in msgpack, the
extension for unknown values, its refinements and the cut of a long prefix.
**CodecProgram** writes a value for a type and reads it for the same type, for
another one or for the type the document implies.

**GoBridge** is `gocty`.  A Go type is a sequence of its kind and its parts, and
what a variable holds is one too: scalars, arrays and structs are in the
variable, while pointers, slices and maps refer to cells of a heap.  `FromCty`
follows `fromCtyValue`: it goes through pointers that are there and makes those
that are not, writes arrays and structs in place, part by part up to the first
that fails, and makes each slice and map anew.  `ToCty` and `ImpliedType` go the
other way; a `cty.Value` among Go values passes through `Convert`.
**BridgeProgram** decodes values into one variable, whatever became of the last,
and encodes what it holds for one type or another.

The modules over `CtyValues` build on each other in this order: `CtyValues`,
`Conversion`, then, beside each other, `Structures` and the `Stdlib` modules, the two
codecs, and `GoBridge`: collection functions, `Marshal`, `Unmarshal` and
`ToCtyValue` all convert.

Modules named `MC...` give the constants their values for TLC.  Definitions
marked as faulty variants are what plausible mistakes would make of the one
they precede; no specification uses them.

## Runs

A program that uses the library may stop, and the bounded ones here have to, so
`CHECK_DEADLOCK` is off and there is no fairness about what a program does.  The
one exception is `WF_vars(Step)` in `Traversal`: a call of `Walk` or one of its
kin that is under way is a Go function that runs on by itself, and its callbacks
return.  `TraversalsEnd` rests on that, and says that no order of elements, and no
answer of a callback, makes a traversal go on for ever.

| Run | What it shows | Bounds |
|---|---|---|
| `refinement_builder` | builder calls in every order narrow exactly, panic exactly on contradiction, and implement `RangeNarrowing` | three values and two builders, so that a value is refined twice and a builder and a value share an object; bounds at 0 and 2 with a number between and on each side; lengths 0 to 2; strings of up to two letters |
| `partial_evaluation` | one operation on every pair of inputs, and two operations in a row: early answers hold late, early panics are real, results are not null, operand order does not matter, `Includes` is never wrong | a pool with touching, crossing and open ranges, an infinity, nulls, sets with unknown elements, and values of unknown type; for chains, three ranges, zero, and the infinity that one of the ranges holds, so that a corner may panic |
| `set_sharing` | in programs that do not copy sets, no write reaches a wrapped set | three sets, four members in a bucket: the fourth is the first that is appended in place to an array of capacity four |
| `set_membership` | sets behave as separate bags without duplicates; each combination is what it is named for | three sets (two operands and a result), two members in a bucket, one unknown and one number in two forms |
| `function_call` | flags, marks, early results, errors and panics of a call and a later one | up to one fixed parameter and two arguments, so that a variadic argument follows a fixed one |
| `conversion` | one conversion or unification: results are well-built values of the type asked for; safe conversions succeed and no missing conversion is called; converting again changes nothing; early results and errors hold late; marks survive; the order of types does not matter | every kind of value in every state of knowledge, each with all it may become; 35 targets to a depth of three; two attribute names, two digits |
| `traversal` | every callback gets the path of its part; kept paths stay; what callbacks answer is what is done, and nothing else; unmarking and marking again restores; traversals end | an object of five levels, where arrays of paths grow three times and siblings share them; two marks; two kept paths; two answers that are not the usual one |
| `stdlib` | `Impl` gives a value of the type `Type` promised and not a null that was ruled out; results and errors found with little knowledge hold with more; marks survive; results obey the laws of their functions | for each function, arguments that meet each of its branches; everything in the pool that an argument may become; one call with a result |
| `codec` | what is written is read back, as it was or, where the type leaves parts open, as no more than it was; reading for another type is converting; an implied type fits | some seventy values; 35 types to write for and to read for; a limit of four bytes on prefixes, in a text with a character of two bytes across it; one number too long for the limit on refinements |
| `gobridge` | what a variable took is what it gives back, whatever it held before; encoding for another type is converting, or an error; slices and maps that were decoded are never written again | 29 Go types, with pointers, slices, maps and arrays in and around each other; two decodings, so that the second finds what the first left, half way or not; integers of two bits, with numbers beyond both ends (three decodings hold as well, and take three minutes) |

Copies are allowed in `set_membership`, where buckets hold at most two members:
arrays then grow to exactly their contents and copying is safe.  The run
`set_copy` shows what happens from three members on.

Several properties are conjunctions of parts that have a name and a comment of
their own: `ValuesMeetAssertions` and `CallsNarrowExactly` of refinements,
`AnswersAreObeyed` of traversals (which part each operation visits and what it
makes of the answers), `ResultsObeyLaws` of the standard library (among them
`VisitsInAnyOrder`: the order in which Go visits attributes decides nothing), and
`ReadBackIsFaithful` and `ReadAsAsked` of the encodings, and `BothWaysAgree` of the
Go bridge.

Two runs end in a counterexample, because the code disagrees with what its
comments or documents say:

* `set_copy`: two copies of a set with three members in a bucket overwrite each
  other's fourth, even after one was wrapped in a value.
* `unify_chain`: a safe conversion returned by `Unify` for a tuple among lists
  applies its second half to the tuple instead of the list made of it, and fails.

### Others met on the way

The models do what the code does.  Where that would break a property, the inputs
leave the case out, or the property does, with a comment beside it.

*Refinements and operations.*  `Includes` and `Equals` deny an
infinity that an unbounded refined number does not exclude, because an absent
bound is reported as exclusive (`value_range.go:149`, against
`docs/refinements.md:154`), the one question that `IncludesDecidesNonNull` does not
put (`Unbounded`); an exclusive infinite bound is dropped
(`unknown_refinement.go:282`); the range of a null denies unknown values that
may become null (`value_range.go:267`); `Includes` answers
False of a value of unknown type, against its comment; a known
string shorter than an asserted prefix passes when the prefix begins with it
(`unknown_refinement.go:478`, against the comment at line 15), which
`ValuesMeetAssertions` allows and the run's shorter strings do; a builder called after
`NewValue` changes the value it returned (`ImmutableWithoutReuse` is proved of programs that
do not).  `Modulo` by zero returns its receiver
(`value_ops.go:792`, against the comment at 762); `Multiply` recognises only
`cty.Zero` itself as zero (`value_ops.go:697`), and returns it for `cty.Zero` times an
unknown but another zero for `cty.Zero` times a known number, so that learning the
factor makes a second product, with an unknown, unknown where it was zero
(`NoZeroItself`); arithmetic on a null of the
dynamic pseudo-type gives an unknown number (`helper.go:29`).  An operation on a null
and an unknown promises a result and is bound to panic once the unknown is known;
`LearningNeverWidens` says nothing of results while such a pair is among the
operands (`NullPending`).

*Sets.*  Zero and negative zero are equal but hash differently, so that a set
holds both (`set_internals.go:193`, against `set/rules.go:21`); the runs have no
negative zero.

*Functions.*  An error about the type of a variadic argument names another
argument (`function.go:216`, against `error.go:9`); a value from `Impl`
of the wrong type becomes an error although `Spec.Impl` says the call will
panic, since the recover is deferred first (`function.go:60` and `346`); the
`Type` callback gets unmarked arguments although `Parameter.AllowMarked` says
that only `Impl` does (`argument.go:67`, `function.go:154`); the marks of an
argument whose parameter allows marks are lost where `Call` answers for `Impl`.

*Conversions.*  A set of unknown length converted to a list of another element
type becomes an unknown list of the set's element type
(`conversion_collection.go:21`; the program does not convert such sets);
a marked null element loses its marks
(`conversion_collection.go:44`, against `docs/marks.md:67`); unification of
collections or structures with the dynamic pseudo-type gives `DynamicVal` and
drops what the value was, marks included (`unify.go:492`); an attribute missing
from a map becomes a null whose type may hold nested optional attributes
(`conversion_collection.go:552`, against `conversion.go:36`), and one of dynamic
type a null where an unknown map had promised the map's element type; the safe
conversion of a tuple to a set of dynamic type fails if its parts differ once
converted, since only lists and maps unify them again; `Unify` of no types at
all gives `NilType` although its comment promises the dynamic pseudo-type
(`public.go:72`).  `LearningNeverWidens` does
not speak of conversions from a type with open parts to a type with open parts,
nor of errors for values whose early type has open parts: unification
then picks another type when the parts are known.

*Equality and membership.*  `Equals` says unequal of a known tuple with a
`DynamicVal` in it and an unknown tuple it may equal (`value_ops.go:173`,
`value_range.go:282`), and of two types of which neither conforms to the other
although both have open parts; it stops at the first unknown element and misses
a later difference (`value_ops.go:334`); of sets with elements that are unknown
in part it gives a definite answer (`value_ops.go:342`), and so does
`HasElement` of an element that is (`value_ops.go:1092`), which panics on
marks inside its argument.  The inputs have no such elements.

*Standard functions.*  The product of a set of unknown length promises an
element although a factor may be empty (`collection.go:1070`; factors of the
inputs that have a greatest length are not empty, or are known to be); products, and
`Equals`, say less of a set with unknown elements than of an unknown set with the
same bounds (`value_range.go:66`, the condition `Sharp`); `coalesce` and `setproduct` unify
types of which one is dynamic and predict a type too early (`general.go:61`,
`collection.go:963`); `merge` of an object that is unknown and then null changes
its type (`collection.go:795`) and drops the marks of nulls; `reverse` of a set
with unknown elements gives a list in a definite order (`collection.go:882`);
`slice` of an unknown list that may be null refuses indices its length rules out
(`collection.go:1222`); a set operation refuses a `DynamicVal` beside sets whose
elements do not unify (`set.go:176`); `flatten` drops the marks of a marked
`DynamicVal` (`collection.go:562`); `contains` of a null without a type is never
answered; marks on the default of `lookup` and on values that a later key of
`zipmap` replaces are lost; `range` refuses a step of zero at once only if it is
`cty.Zero` itself, and runs into its limit with another (`sequence.go:172`).

*Traversals.*  A comment says `WrangleExpand` transfers a mark, but one inside
the value stays where it was too; replacing a mark by another that the value also
has gives what the random order of marks gives (`marks_wrangle.go:150`), so that
`AnswersAreObeyed` leaves out a mark that one answer takes away and another puts in
place of its own (`Contested`), and that mark alone.

*Encodings.*  A list of lists of strings of which one is empty, written for
`list(list(dynamic))`, makes the reader panic: elements carry their types in the
document, the empty list has none, and `cty.ListVal` is given lists of two types
(`json/unmarshal.go:144`, `msgpack/unmarshal.go:160`); no input mixes them.
A document for a tuple with too few elements at its top makes the JSON reader slice an empty path and panic (`json/unmarshal.go:281`); msgpack reads
an empty array or object as the empty tuple or object whatever type it was
asked for (the run reads for other types only documents that fit, the condition `Fits`);
the bounds of a number are written with all their digits, and the reader refuses a
refinement of more than 1024 bytes (`msgpack/unknown.go:181`).

*The Go bridge.*  A field that can be nil may lack its attribute, and then keeps what
an earlier decoding left in it (`gocty/out.go:458`), although missing attributes
are documented as errors (`docs/gocty.md:95`).  A pointer to a `cty.Value` is taken
for a struct: encoded for an object type it gives nulls for all attributes, and
for other types an error (`gocty/in.go:36`), so that the program gives the dynamic
pseudo-type there (`TypeFor`).  A nil slice encodes as a null set, which does not
decode into a slice (`gocty/out.go:66`).  `cty.Value`s of different types in one slice make
`ToCtyValue` panic in `cty.ListVal`, where `in.go:11` promises an error.

## Proofs

What TLC shows on small instances, the proof modules show for every value of the
constants that meets the named assumptions.  No property of a run is restated in
them: each theorem is about the very definition that the run checks.

### Refinements

`RefinementBuilder_proofs` takes any sets of values, builders, numbers, strings and
arguments:

* `TypeCorrect`: every reachable state is type correct.
* `RangesNarrow`: no step, calls after `NewValue` included, widens a refinement
  object that is in use.
* `ImmutableWithoutReuse`: if no builder is called after `NewValue`, what a value
  denotes never changes.

`TypeOK` alone is not inductive: that a method leaves other builders' objects
alone needs to know who points where.  `IInv` adds that a builder refines the
object made for it and that this object has the kind of its type, and that an
unknown value points to an object of a builder of the same type.  The proof
goes action by action (`RefineKeepsIInv`, `NarrowingKeepsIInv`,
`NewValueKeepsIInv`); all builder methods share one lemma, because each comes down
to `Narrowing`: the object keeps its kind and its range shrinks.  The lemmas
`WithMinNarrows` to `WithPrefixNarrows` say so of the operators, for every
refinement.  For immutability, `OwnersAreDone` says that the builder whose
object a value points to is closed.

`RefinementMeaning_proofs` goes on to what a refinement means, for programs that do
not call a builder after `NewValue` (`ReuseBuilder = FALSE`, as in the run; of
programs that do, only `TypeCorrect` and `RangesNarrow` are proved, and no run has any):

* `CallsAreExact`: a call on an unknown value cuts off exactly what it was asked to,
  and panics just when nothing would be left.
* `AssertionsHold`: no builder goes on with a bound, a length or a nullness that a
  known value does not meet, nor with a prefix that a known string does not match as
  far as both go, and no value returned unknown is left with nothing but null to be.
* `ImplementsNarrowing`: the builders, with the objects that they and the values share,
  implement `RangeNarrowing`.  `Refine` maps to `Begin`, `NewValue` to `Return`, and
  a builder method to `Narrow`, to `Decide`, to `Refuse` or to no step.

`JInv` strengthens `IInv` with what values keep from builders that are done
(`AllSettled`), with the fact that every recorded bound was asked for
(`HeapAsked`), and with two facts that exactness rests on: a builder that has not
panicked leaves something (`Inhabited`), and nothing that the value it refines does
not allow (`Inherits`).  The second is needed because the methods compare an argument with
the bounds of the original value, not with those of the object.  For assertions about
known values, `KnownValueMeetsAssertions` is inductive beside it.  It says no more of
strings than the code compares (`Agrees`): that the value begins with the prefix or the
prefix with the value, for the prefix recorded, which is the longest asserted.

One hypothesis is about the universe and not about the code.  `UniverseIsRich`: there
is a number between any two bounds that a program asks for (integers have gaps, the
numbers of the library do not), and an infinity is only ever asked for as an inclusive bound, because the code drops an
exclusive one (`unknown_refinement.go:282`).
It, and the assumption that the markers of
the abstract specification are no sets of values, are evaluated by TLC for
the run (`MCHypotheses`).

### Operations

`PartialEvaluation_proofs` takes any universe of integers between two infinities, any
inputs that are values, and programs of any length:

* `OperandsAreValues`: `TypeOK`.  The bounds that interval arithmetic computes
  never cross, so `NumberRangeInclusive` does not panic in it; an unknown that allows
  one value has become that value; and no operation ever produces null.
* `OrderNeverMatters`: on all operands a program can reach, `Add`, `Multiply`, `And`,
  `Or` and `Equals` commute and `LessThan` mirrors `GreaterThan`, with unknown,
  refined, null and dynamically typed operands and those that are `cty.Zero` itself.

`OperandsInv` adds to `TypeOK` only that the operands form sequences.  The work is in
the lemmas about operators: `Good` says what an operation may return, and there
is a lemma to each operation (`AddIsGood` to `LengthIsGood`), resting on the shape of
`mustTypeCheck` (`TwoOperands`), on what `NumberBetween` builds (`NumberBetweenIs`) and on
the least and greatest of four corners (`LeastAndGreatest`).  A step is taken only if its
result is in the universe, since a `big.Float` has no largest number and `Numbers` does.

`Learning_proofs` compares the two evaluations:

* `LearningIsSafe`: no late result lies outside what was said of it early, and an
  operation that panics on placeholders panics on every value they may become.
* `IncludesIsSafe`: `ValueRange.Includes` decides only what is decided for all values
  that its argument may become, infinities on a bounded side included.

There is a lemma to each operation: its late result is `Sound` for its early one, if the
late operands are `Within` the early ones (`PlusIsSound` to `LengthIsSound`).  `LearnTwo` reduces them, by the shape of
`mustTypeCheck`, to four cases: operands become known, come closer to it, are of
unknown type, or were known all along.  For arithmetic the question is whether the
four corners bound what lies between them, infinities included: `PlusCovers`,
`MinusCovers`, `TimesCovers`.  A product that panics, of zero and an infinity, is
among corners that are both infinities, so nothing is promised of it
(`TimesPanics`).  For order it is that bounds compared as if exclusive stay apart
(`CertainlyLessStays`).  For equality it is that `Includes` denies, of
known values, just those that the refinement does not allow (`IncludesFalse`), so
that a disproof survives narrower bounds (`ContradictsStays`).

`LearnInv` says that operands agree: always for the inputs, and for results while no
null is pending.  In programs of several operations it needs the identity of the
package variables too, because `Multiply` and `Modulo` test it: no early operand is
`cty.Zero` itself, and a late one is a package variable only if it was early, or is
zero.  The hypothesis `NoZeroItself` says so of the inputs of such programs, and
TLC evaluates it for the run (`MCHypotheses`); a single operation may have `cty.Zero`
among its operands.  The proof assumes nothing of `Numbers` but that it is a set of integers
between the two infinities, so it holds of universes of any size.

### Sets

`SetStore_proofs`, for any elements, hash and number of sets:

* `MemoryIsSafe`: `TypeOK`, copies included.  Every slice lies within what is written of its
  array, and there is an array left for every bucket.
* `WritersStayApart`, `WrappedSetsStay`: in programs that do not call
  `ValueSet.Copy` (`~Copying`), the room behind a slice belongs to one writer, and no step
  changes what a wrapped set holds.  The run `set_copy` shows why copies are excluded.

`IInv` is `TypeOK` with `Apart`: two slices share an array only if at most one of them can
be written, and then the other, which is sealed, is no longer.  Each operation is a
`SoundStep`: it changes one set, and the slices it leaves there are old ones or
lie in new arrays.  `Apart` is an implication from `~Copying` in those steps, so that one
proof serves copying programs (for types) and the others (for sharing).  Arrays are
numbered by rank in an order (`RanksAreDistinct`, `EveryRankOccurs`), a counting
argument over finite sets.  `LeastNumber` gets the induction that these proofs need
from the well-foundedness of the naturals.

`SetMembership_proofs` says what the sets hold:

* `MembersAreDistinct`: no set has two members that are equal.
* `SetsAreBags`: buckets of slices implement `SetContents`, a bag to each set.
* `CombinationsAreRight`: union, intersection and the two differences have the members
  they are named for.

Their hypothesis beside `~Copying` is `HashAgrees`: equal elements have equal hashes, what
`set.Rules` demands.  Numbers break it: zero and negative zero, and two numbers whose
difference is lost in the text of one precision and not in that of the other; so it is a
hypothesis of the theorems and no assumption of the module.  TLC evaluates it for the
elements of the run.  `Tidy` says that each bucket has only members of its hash, none
twice; it is inductive because `Add` looks in the bucket of the hash.  The bag of a set
counts places in its buckets, so that an addition or a removal changes one count
(`CountAppend`, `CountWithout`); the members of a combination are added one by one, a run
of additions that `RunsExist` shows to exist for any number of them.

### Function calls

`FunctionCall_proofs`, for any list of parameters, arguments and answers of
callbacks:

* `ArgumentsAreAllowed`: `Impl` never gets a null, an unknown value, a mark or a type that its
  parameter does not allow.
* `NoMarkIsLost`: a value returned has the marks of all arguments whose parameter
  does not handle marks.
* `EarlyResultsStand`: a late call answers within what the early call
  answered, and refuses what was refused.
* `CallsEndWell`: a call ends in a value or an error about an argument there is,
  and panics only when a result said not to be null is null.

`IInv` says, stage by stage, what the checks before it have established (`ChecksOK`); where
a result comes from: from nobody, from `Type` alone or from `Impl` (`ResultOK`); and what
the late call still has to honour of the early one (`EarlyOK`).  The last is the part that
is not obvious: between the calls the arguments change, so that it has to say of an early
value which of the callbacks' answers and which arguments can still bear it out.

### Traversals

`Traversal_proofs`, for any finite tree of parts, any sequence of traversals and any
answers:

* `PathsAlwaysLead`: the path shown to a callback spells the way to its part.
* `KeptPathsAlwaysStay`: no path that a program keeps is written to again.
* `MarksAreRestored`: `UnmarkDeepWithPaths` leaves no mark in the value, and the
  `MarkWithPaths` after it restores every one, whatever the order of visits.
* `AnswersAlwaysObeyed`: a `Walk`, `Transform` or `WrangleMarksDeep` that ends well has
  visited, in order, the parts it was to visit, and the value is what the
  callbacks' answers describe, a contested mark excepted.
* `TraversalsTakeBoundedlyManySteps`: each step of any traversal leaves fewer to take
  (`FewerStepsLeft`), of no more than `|Parts| * (3 + |Marks|)` (`StepsAreBounded`).

`append` overwrites what a sibling wrote, so the first two are not true of arrays by
themselves.
`Spelled` says that the path of a frame spells the parts of the frames up to it and that
its length is its depth: a frame below may overwrite the array only beyond that length.
`KeptOK` says that what the program keeps is in arrays that no frame has.

`RestoreInv` says what `UnmarkDeepWithPaths` has done so far.  In each frame, a part still
has its marks and will be visited, or has lost them to a note (`UnmarkFrame`); the part
on top may have lost some of them to the last note, which is the only one that may
be unfinished (`TopUnmarked`, `NotesFit`).  Frames above do not see what is dropped below
until it returns, so `Deeper` excepts the parts in the frame inside.  Afterwards
`AllNoted` stays, since notes are in arrays of their own (`NotesStay`), and in
`MarkWithPaths` a part has its marks again or is still to be left (`MarkFrame`).
`MarkWithPaths` looks for the part by its path; that it finds no other part rests on
`OneWay`: in a tree, two ways from the root to one part are the same way.  Two ways that
agree from their ends on are compared at the least place where they differ, or one
would go on above the root (`WaysAgreeFromTheEnd`, `NoLongerWay`).

`ObeyInv` says, for the last of these, what has been made of the answers so far.
`PartsInv` is about the frames alone: what a frame holds is a value (`WellFormed`: with a
part, all that it is in), and what is ahead of it is all there.  `WalkInv` sorts the parts
into three: visited, ahead (`AheadIn`), or in a part that was not to be entered.
`WrangleInv` says that a frame holds the marks that the answers give its parts, the parts
in the frame inside excepted, and that a frame not noted as changed holds what the one
around it holds: it returns nothing, and nothing is lost.  `TransformInv` has the most to say,
because a set takes the marks of all that is in it, and takes them when it is left, long
after they were given: so a frame does not hold what its parts are to become at the end,
but what they are to become seen from within the frame (`MadeIn`), and what is behind in it has
together the marks that the answers gave (`OwnsIn`), whichever set holds them by now.
That a part gets no more answers once it was left is `MarksBehind`.  All of them need that the
frames' parts are apart (`FramesAreApart`, `AheadOfTop`), which comes from the tree:
`Below` is an order, and two parts in one have nothing in common (`BelowIsAnOrder`,
`KidsAreApart`).  These rest on `BelowByWays`, for which no way may be longer than there are
parts: a value has finitely many (`PartsAssumption`).

The last theorem needs nothing more than `IInv` and `PartsInv`.  `ToCome` is what the frames
have yet to do, as a set of turns: to go down to a part, to go in, to have a mark of it
visited, to come out.  No turn is in two frames, since the frames' parts are apart
(`ToDoAroundTop`), so the turn that a step takes is not there afterwards, and what a
step puts on the stack comes out of what was there.  It is the measure behind
`TraversalsEnd`: with it, only that a traversal can go on, and does, is left to TLC.  It rests on
`MarksAssumption`: the marks of a program are finitely many.

### Only model-checked

Of the components above: liveness (`TraversalsEnd`), which is out of the prover's reach,
although what bounds a traversal is proved.  Of conversions, the standard
library, encodings and the Go bridge: everything. The definitions of `CtyValues`,
and of the modules over it, recur over types and values; what a recursive definition
computes would need an induction over data that the installed provers cannot do (a
least counterexample among the naturals, as in `LeastNumber`, is as far as they go),
and `tlapm` has no SMT backend in a module with a RECURSIVE operator.

## What is left out

Of operations: marks on the operands of arithmetic and comparison; strings in
`PartialEvaluation` (comparisons of prefixes); fractions, since division is taken
only where it is exact.  Of sets: sets of collections, whose hash text is built
from their parts; outside `SetStore` and sets of numbers, elements have the order
in which they were added instead of that of `setRules.Less`.  Of function calls:
argument types with parts.  Of conversions: capsules, which are callbacks of the
application, and bounds of numbers and prefixes of strings, which a conversion
drops.  Of traversals: the operations of `PathSet` other than `AddAllSteps` (they
are those of `set.Set`), queries by mark, and errors of wranglers, which are only
collected.  Of the standard library: functions on one number, string, date or
format, which compute with known text and leave the rest to `Call`; the limits of
`range` (1024) and `setproduct` (2048) on the number of elements, for which `Inf`
stands.  Of encodings: text, capsules, infinities, optional attributes, members
that occur twice, and documents that no `Marshal` writes.  Of the Go bridge: marked
values, capsules, interfaces, floats that round, `set.Set`, map keys of a named type
and two fields with one tag.  Panics and errors are
events without a message.

### Not modelled

The generated format scanner is a table.  The type system has no
behaviour of its own beyond the constructors and tests in `CtyValues`.
