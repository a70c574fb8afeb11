# Verification of the B-tree index

This directory holds a TLA+ model of the B-tree index in `src/btree_index/`, of the programs
that use it and of the part of the formatting library they use; the TLC configurations that
check it on small instances; and theorems about it with proofs that TLAPS checks for every
value of the constants.

Paths below are relative to the repository root.

## Inventory

| Component | Where | State | Operations |
|---|---|---|---|
| Page memory, slot arithmetic | `common.h`, `btree_page.h`, `btree_page.cpp` | header of a page: type, size, maximum, id | `GetMinSize`, `ChangeSizeBy`, slot moves (`std::copy`, `std::copy_backward`), `std::lower_bound` |
| `LeafPage` | `leaf_page.h` | `pairs[]`, sorted | `Init`, `Get`, `Insert`, `Update`, `Remove`, `PushBack/Front`, `PopBack/Front`, `GetFirstElem` |
| `InternalPage` | `inner_page.h` | `pairs[]` (slot 0 unused), `pids[]` | `Init`, `SetInitialState`, `Insert`, `GetChildPidOrValue`, `DoUpdateOrGetChild`, `DowncastRemoveOrGetChildPid`, `CheckOrBorrowOrMerge`, pushes, pops, `RemoveElemAndPidAt` |
| `Index` | `index.h` | `root` | `create`, `Insert`, `Update`, `Get`, `Remove`, `DumpGraphviz` |
| `rw_lock` | `index.h` | who holds it | exclusive in `Insert`, `Update`, `Remove`; shared in `Get`, `DumpGraphviz` |
| `RawPageMgr` | `btree_page.h`, `btree_page.cpp` | static `pages_map`, `next_page_id` | `create`, `get_page` |
| `Status`, `StatusOr` | `status/` | an exception or a value | `Ok`, `Unwrap` |
| `IndexOpFactory` | `factories/op_factory.h` | references to its arguments | `make_op`, running what it made |
| Graphviz output | `graphviz/`, `DumpNodeGraphviz` | none | drawing a page, `GenerateDot` |
| Programs | `unittest.cpp`, `engine.cpp` | one index each | fill, update, read, draw, remove in ascending order |
| fmt: arguments | `format/fmt/core.h` | the argument store of a call | `make_format_args`, `get` by number and name |
| fmt: format strings | `format/fmt/format.h`, `custom_struct.h` | parse context of each call | `parse_format_string`, `parse_format_specs`, `format_string_checker` |
| fmt: writers | `format/fmt/format.h` | none | integers, bool, char, strings, pointers, padding |
| fmt: buffers | `format/fmt/core.h`, `format.h` | memory, inline and on the heap | `resize`, `grow` of `memory_buffer` and `container_buffer` |
| fmt: floating point, errors, files | `format-inl.h`, `format.cc` | | nothing here calls them |

**How they interact.** `Index` is recursive: a frame of `InsertFromInternal`,
`RemoveFromInternal`, `GetFromInternal` or `UpdateFromInternal` looks at one page, fetches a
child by id from `RawPageMgr` and calls itself. Inserts return a `SplitInfo` to the frame
below, removals an `IndexCase` (done, merged, key not found). `LeafPage::Remove` and
`InternalPage::CheckOrBorrowOrMerge` change three pages at once: the page, a sibling and the
parent. Values live in internal pages as well as in leaves: it is a B-tree, so removing a
separator moves an entry up from a child. Keys, values and pages become text by
`fmt::format`; the formatter of `TestStructA` calls `format_to` for the output of the call it
is part of, so that two calls write to one buffer.

**What is hard.** Nothing ever clears a slot, so sizes decide what exists, and a size
corrected on the wrong page loses or revives entries. Page pointers are taken before a
recursive call and used after it. A level of the recursion must handle every outcome of the
level below it, and an allocation may throw between any two writes. All pages of all indexes
are in one static map without a lock, while each index has a lock of its own. `make_op` keeps
references that may outlive what they refer to. In fmt, the parser looks at characters between
checks for the end of the string, two ways of numbering share a counter, and buffers on top of
each other move when they grow. `PROJECT.json` lists each hazard with its line and the
properties that would notice it.

**What makes each component correct.** Pages: no write outside the arrays, halves of a split
and halves of a merge account for every entry. Index: it is a tree of even height, at least
half full, whose search finds every entry; to its callers it is a map, also when memory runs
out. Lock: calls look atomic and every one is answered. Manager: an id names one page, of
one index. Factory: an operation does what it was made for. fmt: what is written is what the
format string means, or an exception says that it means nothing.

## Modules

- **`BTreePage`**: the parameters (`Keys`, `Vals`, slot counts, `LowerBound`), the minimum size,
  and the three slot moves. A slot array is a function on `0..max-1` that keeps its dead slots.
  **`StdSearch`** is the `std::lower_bound` of libstdc++, given to `LowerBound` by the
  configurations.
- **`LeafPage`**, **`InnerPage`**: each method of the two classes as an operator from a page
  to a page. `LeafAbsorb` and `InnerAbsorb` copy a merged page's entries without counting
  them, as the code does; the `ChangeSizeBy` that follows is `LeafGrow` or `InnerGrow`, applied
  by the actions to the page the code applies it to.
- **`BTreeIndex`**: the index over its pages. `heap`, `nextPid` and `root` are
  `pages_map`, `next_page_id` and `Index::root`; `path` is the stack of recursive frames,
  `pc` says whether the recursion is going `down` or coming back `up`, `split` and `child` are
  what a frame returns to the one below. Each action is what one frame does to the pages it
  has in hand: `GoDown`, `LeafInsertSplits`, `LeafMergeLeft`, `InnerBorrowRight`,
  `RootShrinks`, ... One call runs at a time, as `rw_lock` has it; `ConcurrentIndex` shows
  that this is what the lock gives.
- **`KVMap`**: the abstract specification. A map from keys to values shared by clients; each
  call takes effect at one point between its invocation and its return. `SpecOrFail` adds what
  a call may do to the map when memory runs out.
- **`BTreeMap`**: the set of entries a tree stands for (`Contents`), the properties, the
  `Faulty` steps, and `Map`, the instance of `KVMap` with the refinement mapping. An insert
  takes effect when its leaf is written (the entry a split moves up counts while it is in
  `split`), a remove when its entry leaves the leaf or is overwritten in the internal page.
- **`BTreeFailure`**: `std::bad_alloc` out of `RawPageMgr::create` and `make_shared`, one action
  per place: the frames unwind and what they wrote stays. `FullPageInserts` is the step that a page
  left full by such an exception leads to: the next entry goes past its arrays.
- **`MCBTree`**: a client for TLC. It inserts odd keys in ascending or descending
  order, then makes `MaxCalls` calls with the keys and operations a configuration gives it, or
  `MaxRemovals` removals of `RemovedKeys`.
- **`Graphviz`**: a page as a node of the graph, the drawing of a tree, and `GenerateDot`, whose
  file may not open. **`OpFactory`**: `make_op` and the closure it returns, on `BTreeIndex`. `cells`
  are the objects the closures refer to; one that is a temporary is `Dead` after its statement,
  and reading it gives any value. **`Programs`** composes them: the loops of `engine.cpp`
  and `unittest.cpp` round by round, with the asserts and `Unwrap` as outcomes, and a
  priority queue as a third client.
- **`ConcurrentIndex`**: threads over `BTreeIndex`. The registers of the recursion are those of
  the thread that runs, `active`; `Switch` stores them in `parked` and takes another thread's, between
  any two pages a call visits. `writer` and `readers` are `rw_lock`. `DumpPage` draws one page, in
  the order of `DumpGraphviz`. `Shared` maps the threads' calls to `KVMap` with one client per
  thread. **`MCConcurrent`** bounds the calls.
- **`PageMgr`**: `RawPageMgr` step by step, for threads on several indexes: `next_page_id++` as a
  read and a write, `insert` and `find` with a begin and an end.
- **`FmtArgs`**: `arg_mapper` and the argument store, packed into `desc_` or not, with names.
  **`FmtWrite`**: what is written of one argument, as the room reserved and the text put
  there, so that a wrong count shows. **`FmtBuffer`**: the two kinds of buffer, with blocks
  that are freed when a buffer moves. **`FmtFormat`**: the parser of format strings with
  its two handlers, as a stack of calls; `at` is where the parser is in the string.
  **`MCFmt`**: the calls TLC tries, made from parts, and what the parts mean.
- The theorems. **`PageProofs`**: the page operators, what they do to child slots, and what that
  does to a forest; **`BTreeIndexProofs`**: types and room, and the tree of the index;
  **`OrderProofs`**: the search order of its pages and spans; **`MapProofs`**: the map its callers see;
  **`ProgramProofs`**: what the programs find in it; **`ConcurrentProofs`**: threads under the lock;
  **`PageMgrProofs`**: the page ids of one index; **`FmtProofs`**: the parser of format strings and the
  buffers.

**Outcomes that end the program.** `pc = "aborted"` is `exit(-1)`. `pc = "undefined"` is a failed
`assert`, an index outside an array, a page cast to the wrong class, or a borrow or merge in
which page, sibling and parent are not three different pages; what the program does from
there is not described, and nothing is claimed of it. A `Remove` at a leaf below the root looks its
sibling up before it looks for the key, so an only child is `undefined` on a miss too. A copy past
the end of an array is not cut off: it leaves slots no page has, and `TypeOK` fails.

**Comparison with the compiled code.** The page code was instrumented and 199 random call
sequences, on pages of five slots, were replayed through `BTreeIndex`: sizes, all slots with
the dead ones, page ids, the root, results and aborts agreed after every call.

## Bounds

- **Slots.** `LeafMax = InnerMax = 5`, what `TestStructA`, the value type of both programs,
  gives for a 4096-byte page. Five is also the least for which `GetMinSize` is 2, so that an
  internal page can borrow, merge and be left with one child. With 3 or 4 internal slots
  the minimum is 1 and internal pages never merge; with fewer than 3 a split leaves a side without a
  child, and `ParameterAssumption` leaves those out. `concurrent` has leaves of 3 and internal pages
  of 4 slots, where a few inserts and removals split and merge; pages that small add a
  case of their own, up to which it is checked: a split leaves an internal page of one child, and
  any `Remove` that comes to that leaf looks up a sibling it has not (`Alone`, `index.h:491-499`).
- **Tree.** Preloads of 5 keys give height 2 and those of 10 to 17 give height 2 and 3: the root
  over leaves and the root over internal pages are the two cases the code tells apart
  (`Len(path)` 1, 2 and more). The odd keys leave a gap between any two for later inserts.
  Ascending and descending preloads leave different halves of the pages full.
- **Calls.** Two arbitrary calls (`any_calls`, `until_fault`), in `until_fault` with any
  allocation failing in them; up to five removals from 10 to 17 keys (`any_calls`), which reach
  every borrow and merge of internal pages on both sides and the damaged trees after them; four of a
  queue; `TEST_NUM` 10 for the programs, where 10 ascending inserts split the root and the removals
  bring it down to a leaf again.
- **Threads.** Two, with three calls between them, on two trees. In the one of 3 keys leaves merge and
  the root is replaced by a leaf; in the one of 8 keys, of height 3, pages of both classes split and
  leaves borrow. Internal pages of 4 slots never merge. A third thread would be
  another reader or another writer, and the lock treats all of one kind alike (`Exclusion` is
  proved for any number).
- **Keys** 0..40, **values** 0 and 1: the code compares keys and copies values.
- **`LowerBound`** is the binary search of libstdc++. On damaged pages the entries are not sorted and the
  standard promises only a position in the range; the proofs assume only that.
- **fmt, scaled down.** `DescBits` 12 for 64: two arguments are packed instead of 15, and calls with 1, 2 and 3
  arguments are on both sides. `IntBits` 8 for 32: numbers in format strings pass `MaxInt` = 127 by
  their last digit, or are past it before their last digit is read (`Overflowing`, the branch
  `value > big`). `InlineSize` 4 for 500: texts of a few characters make
  the buffer leave its inline store and then move on the heap.
- **fmt, calls.** Every combination of specifications for integers; every type with every presentation
  type; widths and precisions given as numbers, by `{}`, `{1}` and by name, at the limits; all strings of up to
  three parts; all strings of up to four of the characters `{ } : 0 a`, and of up to three
  specification characters behind `{:`.
- **`two_indexes`**: ids below `MaxPid` 3. Its deadlock check is off because threads stop at that bound.

## Runs

Runs that pass:

| Run | Client | Shows |
|---|---|---|
| `any_calls` | any 2 calls, or up to 5 removals | `TypeOK`: no copy leaves its array, even in the merges that miscount; `SlotsFit`: no page stays full; `Balanced`: every page has one parent slot and the height is even, damaged trees included; `HalfFull`: no borrow or merge is forgotten; `EveryCallEnds`: no call goes round for ever |
| `until_fault` | any 2 calls and failing allocations, up to the first faulty step | `MapSpec`: the index implements `KVMap`, and a call that an exception ends left its entry, or lost the entries of an interval (those of a page not yet linked), and nothing else; `EveryEntryIsFound`, `OneEntryPerKey`, `NeverStops`, `DroppedStaysDropped` |
| `programs` | `engine.cpp`, `unittest.cpp`, and a queue that inserts absent keys, removes the least one, reads and updates any | `NotFaulty`: they never meet a faulty step; `AssertsHold`: the asserts hold and nothing is thrown out of `main`; `FairMapSpec`: they see a map that answers every call |
| `concurrent` | 2 threads that insert, remove, get and dump | `WritersAlone`; `Linearizable`: the calls of both threads are those of one atomic map; `DrawnIsATree`: a dump is the tree of one moment; `EveryThreadIsAnswered`: no thread waits for the lock for ever, also after an exception |
| `fmt` | calls of `fmt::format` with and without `FMT_STRING` | `WritesWhatIsMeant`; `NeverReadsPastTheEnd`; `ReservesWhatItWrites`: the digits and bytes counted first are those written; `BuffersInStep` and `OnlyAppends`: nothing written is lost when buffers move; `CheckAndCallAgree`: the compile-time check accepts what the call can format; `EveryFormatEnds` |

`SoundSpec` of `until_fault` stops (stutters) where the next step is `Broken`: one of six named
`Faulty` steps, or `FullPageInserts` after an allocation failed. It is the statement that
those steps are the only ones that break the map: with them excluded the refinement holds for
every other sequence of calls of the bound. So it says nothing of what comes after such a step: the second copy of
a key (`insert_twice`), a removed key that the new root shows again (`removed_key_returns`), and, without
a run of their own, an insert tried again after it failed with its entry placed (a second copy too)
and an insert into the full page that a failed split leaves. `KVMap` lets the insert of a key that
is there succeed or throw, as the code does either.

`WritesWhatIsMeant` compares the code with a definition that does not parse: a call is made from
parts, `Rendered` writes them as a string, and `Meaning` says what they stand for. It covers the
argument lookup, the parser, the checks of combinations, digits, padding, and the copy into
the caller's buffer at once. `CheckAndCallAgree` names the ways the two handlers may differ: a value
the check cannot see, and named arguments, which it rejects.

**Fairness.**

- `CallEnds`, `InCall`, `FNext` (weak): a thread inside a call keeps running, as the code waits for
  nothing there. Nothing is assumed of the client, so no property depends on a call being made.
- `concurrent`: the scheduler gives each thread its turn again and again (`Switch`, weak), and
  a thread that can go on in its turns does, also when it can only in some of them (`RunOf`,
  strong): it takes the lock if it finds it free often enough. `std::shared_mutex` does not promise
  that to a thread among an endless stream of others; the calls here end, and what is
  shown is that nobody leaves the lock taken.

**Deadlock** is checked in all runs but `two_indexes`. `Finished` and `Ended` let a program stop
after its last call or after the program has.

### Findings

Each run that ends in a violation shows a disagreement between the code and what the repository
says of it.

| Run | What the code does |
|---|---|
| `merge_loses_entries` | `leaf_page.h:298` adds the mergee's size to `this`. When the last leaf merges into its left sibling `this` *is* the mergee: the entries copied into the sibling are not counted and are lost. `inner_page.h:550` does the same for children; with one child left (five slots) the count happens to be right. |
| `removed_key_returns` | `index.h:467` makes the page the recursive call was made on the new root, even when it is the page merged away. Its size was doubled by the previous defect, so the key just removed is found again. |
| `remove_absent_key` | An absent key in a tree of height 3 or more: `RemoveFromInternal` has no case for `KeyNotFound` on an internal page and reaches `exit(-1)` (`index.h:554`). |
| `remove_separator` | `inner_page.h:439` replaces a separator between internal pages by the first separator of the right one, which is not the least key on the right. Keys below it can no longer be found. |
| `insert_twice` | `leaf_page.h:95` does not compare: inserting a key that a leaf holds stores it twice. A key in the root page is ignored (`index.h:110-127`) and one in a deeper internal page makes `Unwrap` throw (`index.h:188`). |
| `factory_temporary` | `engine.cpp:17` makes an INSERT with a temporary `TestStructA{}`, the closure keeps a reference to it (`op_factory.h:28`), and line 18 runs it when the temporary is gone: what is inserted is whatever is in its place. |
| `two_indexes` | `next_page_id` and `pages_map` (`btree_page.cpp:6-13`) are shared by all indexes and guarded by the lock of none: two threads that insert into two indexes can take the same id, and one index then follows it to a page of the other. |

`Faulty` names the steps of the first five (and the internal form of the first). The programs of the
repository do not meet them: they remove in ascending order, which always merges to the right and
removes separators only through leaves (`programs`).

## Proofs

What is said of the index holds for every set of keys and values, every `LeafMax >= 1` and
`InnerMax >= 3` unless said otherwise, every lower bound with the promise of the standard, and any
sequence of calls; what is said of fmt, for every format string, all arguments and every width of the
types.

| theorem | of | says |
|---|---|---|
| `TypeCorrect` | `Spec` | `[]TypeOK`: every page stays a page of its class; every child slot (dead ones too), frame and returned id names a page, so `get_page` never misses; no copy leaves its array |
| `NoOverflow` | `Spec` | `[]SlotsFit`: between steps no page is full and every internal page has a child; with `TypeCorrect`, no array is overrun within a step |
| `KeepsHalfFull` | `TreeSpec` | `[]HalfFull`: between calls every page but the root is half full |
| `KeepsBalanced` | `TreeSpec` | `[]Balanced`: one parent slot for each page, all leaves equally deep, siblings of one class |
| `DroppedForGood` | `TreeSpec` | `DroppedStaysDropped`: a page that left the tree never comes back |
| `KeepsRunning` | `SoundCalls`, `InnerMax >= 5` | `[]NeverStops`: no `exit(-1)`, no failed assert, no slot or page that is not there |
| `KeepsOneEntryPerKey` | `SoundCalls`, `LeafMax >= 3` | `[]OneEntryPerKey`: no two live slots of the tree hold one key |
| `KeepsEntriesFound` | `SoundCalls`, `LeafMax >= 3` | `[]EveryEntryIsFound`: `Get` finds every entry, with its value |
| `ImplementsMap` | `SoundCalls`, `LeafMax >= 3`, `InnerMax >= 5` | `Map!Spec`, and so `MapSpec`: the index implements `KVMap` |
| `RemovesForGood` | as `ImplementsMap` | `RemovedIsGone`: no entry has a key whose `Remove` has returned |
| `MergesLoseNothing` | as `ImplementsMap` | `MergeKeepsEntries`: what a page held when it left the tree is in the tree after it |
| `ProgramsAreSound` | `PSpec`, `LeafMax >= 3`, `InnerMax >= 5` | `[]NotFaulty`: no call of `engine.cpp`, `unittest.cpp` or the queue reaches a `Faulty` step |
| `ProgramsSucceed` | as `ProgramsAreSound` | `[]AssertsHold`: no assert fails and no exception leaves `main`, for every `TEST_NUM` |
| `ProgramsSeeAMap` | as `ProgramsAreSound` | `Map!Spec`: to these programs the index is a map, with no step of it left out |
| `Exclusion` | `CSpec` | `[]WritersAlone`, any number of threads |
| `DrawsATree` | `CSpec`, `LeafMax >= 3` | `[]DrawnIsATree`: a dump made page by page shows each page of one tree once |
| `IsLinearizable` | `CSpec`, `LeafMax >= 3` | `Linearizable`: the calls of all threads are those of one atomic `KVMap` |
| `OneIndexIsSafe` | `PmSpec` | one index: no race in `RawPageMgr`, an id for each page |
| `ParserStaysInside` | any call of `Format` | `[]NeverReadsPastTheEnd`: no character behind the end of a format string is read |
| `BuffersStayInStep` | `Format`, `[]ReservesWhatItWrites` | `[]BuffersInStep`: buffers on top of each other agree on their size and on where the data is |
| `OutputOnlyGrows` | as `BuffersStayInStep` | `OnlyAppends`: what was written is never changed |

`Spec` is any behaviour of the index. `TreeSpec` leaves out one step, `ShrinksToDeadPage`, in which
the root is replaced by a page that was merged away (finding `merge_loses_entries`): there the
tree is lost, and no statement about it can hold. `SoundCalls` leaves out all `Faulty` steps, each a
finding; `until_fault` is the run of the same properties, `removed_key_returns` and `merge_loses_entries`
those of the last two without that condition. `CSpec` stops at the same steps (`Down`). The slot counts are those a caller can
choose by the size of a page, and the two bounds are needed: with three or four slots a split leaves
internal pages of one child, whose leaf has no sibling although every `Remove` there looks it up; and below three entries a
leaf may be empty, and `Remove` then reads the first entry of a leaf that has none.

**`BTreeIndexProofs`.** Neither of its invariants is inductive alone, and `IndInv` proves them
together with two facts about the recursion. `FramesInner`: only the frame being visited can be on a
leaf. `FrameInputs`: a frame that is resumed has the page id it needs from the frame above. The room
in a merge comes from `MinSizeBound`: `2 * MinSize(max) <= max - 1`, so a page below the minimum, a
sibling at or below it and the separator fit in one, and so does twice the size of the page merged
away. The parent keeps a child because a page with a sibling has a parent of size two or more
(`SiblingIdxRange`, which needs the least-number principle for `GetIdxByPid`). `PageProofs` has one
lemma per page operator; `BTreeIndexProofs` one per action or pair of mirrored actions.

**The tree of the index** (`PageProofs`, the second part of `BTreeIndexProofs`). `TreeInv` says that *some* set of pages `live`, with a level for
each, is the tree: a forest over `Roots` (each page in one child slot, a child one level below its
page, leaves at level 0), with `path` a way down from the root, every page half full but the one in
`Hole`, and a root that is a leaf or has two children. Each action is shown to leave such a set
(`StillTree`), in terms of the ids a page operator leaves in its live slots (`Kids`): a split adds a
root to the forest, the parent's insert joins it, a merge takes a page out, a borrow moves a
child. The set `TreePages` itself is a recursive function, and induction on it is out of reach; but
that it *is* a function, and its value, follow from a function given outright: the least set
that holds its argument and the children of its pages satisfies the recursive equation
(`ReachableDef`), so whatever is closed under children contains the tree (`ReachableLeast`), and a
forest's pages are exactly it. `Layers` is treated alike (`LayersAreFlat`), and `Lookup` as the
answer of the last page on the way of the search (`LookupDef`).

**`OrderProofs`, `MapProofs`.** `OrderInv` gives each page of the tree a span, the keys a search may
look for in it: all integers for the root, and for a child those of its page's span between the
entries around its slot; and the page's entries are in order and in its span. In two
places this is said of the pages as they will be after what the call has still to do (`View`):
a page made by a split is not linked yet, and an entry that `Remove` moved up is still in its
leaf. Splits, merges and borrows are all one idea, two pages and the entry between them against
the page they would be together (`Glued`), which is in order exactly when the two are. Between calls, on
each level a key is in the span of one page at most (`OneSpanPerLevel`), an entry's key is in no
span below its page (`HeldAbove`), so two entries of a key are one; and the search for a key passes
through every page whose span it is in (`WayPasses`), so it comes to its entry.

The refinement takes one lemma per action or pair of actions (`GetMaps` ... `RootShrinksMaps`), each
of which shows the step to be a `MapStep`: it starts a call, takes effect and answers, takes effect,
returns, or leaves `Contents` and the answer alone. `Contents` is `Stock`, the union of the entries of the
tree's pages, and five lemmas say what becomes of it when one entry is replaced (`ReplacedStock`) or
added (`AddedStock`), a page splits (`SharedStock`), two pages exchange entries with the one between
them (`ExchangedStock`) or become one (`JoinedStock`). Which pages the tree has after a step comes from
`Rooted`, before and after it: `TreePages` is closed under children, and no smaller set with the roots
is. `TookEffect` needs that an entry moved up is of another key, which is `OneSpanPerLevel` again; and
while the entry is in both places, erasing one of them changes nothing (`MovedStock`).

**`ProgramProofs`.** Here nothing is assumed of the steps: that no `Faulty` one is taken is what is shown. The
programs insert keys that are not there and remove the least key there is (`Ready`), and then a `Remove`
stays on the left edge of the tree (`Leftmost`): an entry of an internal page has smaller ones below its
left child, which is not empty because every page but the root is half full (`LeastIsLeft`), so the key
is in the leftmost leaf and no entry is moved up; a page in slot 0 has its sibling on its right
(`TurnsRight`), so every merge is the one that counts well and leaves the merger where the parent's first
child was (`MergeStaysLeft`). The invariants of the map proof are then kept with no condition on the steps
(`QueueKeeps`). `StageInv` follows the programs: the keys of the rounds that are past are the keys of the
index, or those still to come while it is emptied (`Stocked`), with the values `unittest.cpp` wrote; the call
in progress is the one of its round (`Called`); and the answer, which `KVMap` fixes once the entries
are known (`OutcomeIs`), is the one asserted (`Told`). `calls`, the queue's second loop, is any sequence of
calls in that order.

**`ConcurrentProofs`.** The invariant `LockInv` says that a thread inside a call holds the lock in
the way its request asks for (`InCall`), and that the lock is shared by readers or held by one writer
(`LockKinds`); `StepKeepsCall` is the fact about the index it rests on, that a step ends the call
or leaves it what it was. `Exclusion` follows.

The other two theorems use those of the sequential index for the thread that has the lock for itself. `Own`
takes the invariants of `MapProofs` on that thread's registers, whether it runs or is parked; when no
thread does, the tree is one at rest. `CInv` adds to `LockInv` what the readers know: where a `Get` is, its
key is in the span of its page (`Searching`), which stays true because no page changes under a shared lock;
and what a dump has drawn and has still to draw are, level by level, the whole tree and no page twice
(`Dumping`, from which `WholeTree` at its end). `Switch` moves registers in and out of `parked`
and must be shown to change none of this (`SwitchKeeps`).

For `IsLinearizable`, `SharedContents`, with the entries of everybody's unlinked splits, is shown to be
`Contents` of the one thread that may have a split, or those of the tree at rest (`SharedIs`). Each action then has a lemma
(`WriterShares`, `LookShares`, ... `SwitchShares`) that it is a step of `KVMap` with a client per thread, or none: a writer's from
`MapStep` of the sequential refinement, a reader's answer from `Lookup`, a dump's from `WholeTree`.

**`PageMgrProofs`.** With one index its lock is a lock of `RawPageMgr` (`OneWriter`), and `Counted`
says that `next_page_id` is above every id in use or just taken. It is the counterpart of
`two_indexes`: the defect needs a second index.

**`FmtProofs`.** A call is a frame of the stack, the frame of a formatter's call above that of its
caller's, and `FrameOK` says where in its own string each frame is: at most one behind the last
character, and on one where the next part is read, which depends on `at`. That makes it inductive,
because each part of the specifications looks for the end before it goes on (`ThenKeeps`). An id or a
number ends at the first character that does not belong to it, and there is one because the end
does not (`ScanEnds`, by the least-number principle). `ByWhom` adds that the check of a string runs
alone.

The buffers are described by `MemOK`: the memory buffer owns its block, and each buffer above it
has the size of what was written, no room to spare, and the pointer of that block or none. `Resize`
goes down through all of them and comes back up, a recursive function; `ResizeAll` shows that it is
the function one would write down at once (`UpTo`), by stating that one and checking it against
the recursive equation, and `PutKeeps` that a text put into the room then made overwrites nothing of what
was written before (`Keeps`). It needs no more of the room than that it is a number, and not that
the text fits. That it is one, for the typed values an argument store gives back, is in
`ReservesWhatItWrites`, which says that and that the room is the length of the text; it is
the hypothesis of two of the theorems and a property of the run `fmt`, as it comes
down to powers of two and ten (`CountDigits`, the descriptor's `HasBit`) that the provers know nothing of.

**Assumptions.** `ParameterAssumption`, `LowerBoundAssumption`, `NobodyAssumption` and
`ProgramAssumption` (`TEST_NUM` is not 0, the keys of the rounds are keys, and there is a value that is not
`TestStructA{}`) and `InlineAssumption` (there is an inline store), which TLC evaluates in its runs;
`OneIndexIsSafe` has its own, and two theorems of fmt the hypothesis above. The theorems of the index say nothing of the
`undefined` outcome beyond the step that reaches it, and nothing of allocations that fail: after
one a page may be full.

**Model-checked only.** That every call is answered and every format ends (`EveryThreadIsAnswered`, `FairMapSpec`, `EveryCallEnds`, `EveryFormatEnds`): liveness
under fairness is out of the prover's reach altogether. The properties under failing allocations, `MapSpec` among them: the theorem is about
the steps of `BTreeIndex`, and `BTreeFailure` adds others. Of fmt, what is written: `WritesWhatIsMeant`
and `CheckAndCallAgree` are about the value of a numeral, the digits of a number and the types in a
descriptor, which are defined by recursion or folds over data, and `ReservesWhatItWrites` about the count of those digits.

## Not modelled

- **fmt**: floating point (`format-inl.h`: bigint, Grisu), error text, printing to `FILE`, explicit
  instantiations, wide characters and UTF-8 widths, grouping of digits for a locale other
  than `"C"`, `dynamic_format_arg_store`. Nothing in this repository outside fmt reaches them.
- **Output**: `dump_struct` and the text of prints and of exceptions. No state depends on them.
- **`Status`**: its moves and the variant inside; only its outcomes are.
- **`std::shared_mutex`** itself: it is modelled as what it promises.
- **Data races within one index**: `Exclusion` shows there are none under the lock.

## Plan

Done: the pages, the index and the map it implements, failing allocations, the programs with their
factory and output, threads on one index and on several, formatting; proved, the tree, its balance,
its order, what a search finds and that the index implements `KVMap`, for one client and for threads under the
lock, what they draw, the page ids of one index, that the programs succeed, and of fmt that the parser
stays in its string and that the buffers lose nothing.

1. **fmt**: `ReservesWhatItWrites` for the arguments of a store, which needs the powers of two as a
   recursive function, and lemmas about `Get` on both kinds of store.
2. **Other slot counts** in the sequential runs: 6 and 7 slots, where the minimum is 2 and 3. From
   7 on the miscounted internal merge makes stale child slots live.
