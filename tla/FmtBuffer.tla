------------------------------ MODULE FmtBuffer -------------------------------
(***************************************************************************)
(* The buffers fmt writes to: the basic_memory_buffer of fmt::format, with  *)
(* its first InlineSize characters inside the object, and above it one      *)
(* container_buffer for each format_to that is running inside another, which*)
(* grows by resizing the buffer below (src/format/fmt/core.h, format.h).    *)
(* A memory is [blocks, bufs]: the blocks of characters that are allocated, *)
(* and the buffers, the last one that of the innermost call.                *)
(***************************************************************************)
EXTENDS Integers, Sequences, SequencesExt

CONSTANTS
  InlineSize,  \* inline_buffer_size, 500 in the program
  Garbage      \* a character that was never written

ASSUME InlineAssumption == InlineSize \in Nat \ {0}

Store == 0    \* store_, the block inside the memory buffer

NullPtr == -1

\* basic_memory_buffer().
EmptyMemory ==
  [blocks |-> [b \in {Store} |-> [i \in 1..InlineSize |-> Garbage]],
   bufs   |-> <<[ptr |-> Store, size |-> 0, cap |-> InlineSize]>>]

\* container_buffer(c): as large as what it stands on, and no data yet.
Above(mem) ==
  LET size == Last(mem.bufs).size
  IN  [mem EXCEPT !.bufs = Append(@, [ptr |-> NullPtr, size |-> size, cap |-> size])]

Below(mem) == [mem EXCEPT !.bufs = Front(@)]

\* Mutant: what was in store_ is not copied.
MemoryGrowFromHeap(mem, n) ==
  LET old  == mem.bufs[1]
      half == old.cap + old.cap \div 2
      cap  == IF n > half THEN n ELSE half
      new  == old.ptr + 1
      Copy == [i \in 1..cap |-> IF i <= old.size /\ old.ptr # Store THEN mem.blocks[old.ptr][i] ELSE Garbage]
      kept == DOMAIN mem.blocks \ (IF old.ptr # Store THEN {old.ptr} ELSE {})
  IN  [blocks |-> [b \in kept \cup {new} |-> IF b = new THEN Copy ELSE mem.blocks[b]],
       bufs   |-> [mem.bufs EXCEPT ![1].ptr = new, ![1].cap = cap]]

\* basic_memory_buffer::grow, by half of what there was; the old block is freed
\* unless it is store_, which stays where it is.
MemoryGrow(mem, n) ==
  LET old  == mem.bufs[1]
      half == old.cap + old.cap \div 2
      cap  == IF n > half THEN n ELSE half
      new  == old.ptr + 1
      Copy == [i \in 1..cap |-> IF i <= old.size THEN mem.blocks[old.ptr][i] ELSE Garbage]
      kept == DOMAIN mem.blocks \ (IF old.ptr # Store THEN {old.ptr} ELSE {})
  IN  [blocks |-> [b \in kept \cup {new} |-> IF b = new THEN Copy ELSE mem.blocks[b]],
       bufs   |-> [mem.bufs EXCEPT ![1].ptr = new, ![1].cap = cap]]

\* Mutant: set is called only for the first growth, when there is no data yet.
ContainerGrowOnce(resized, i, n) ==
  IF resized.bufs[i].ptr # NullPtr THEN [resized EXCEPT !.bufs[i].cap = n]
  ELSE [resized EXCEPT !.bufs[i].ptr = resized.bufs[i - 1].ptr, !.bufs[i].cap = n]

\* container_buffer::grow, after its container was resized: the data may have moved.
ContainerGrow(resized, i, n) ==
  [resized EXCEPT !.bufs[i].ptr = resized.bufs[i - 1].ptr, !.bufs[i].cap = n]

\* buffer::resize with its buffer::reserve, where below is the memory after a
\* container_buffer::grow has resized the buffer below in the same way.
ResizeOne(mem, below, i, n) ==
  LET grown == IF n <= mem.bufs[i].cap THEN mem
               ELSE IF i = 1 THEN MemoryGrow(mem, n) ELSE ContainerGrow(below, i, n)
  IN  [grown EXCEPT !.bufs[i].size = n]

Resize(mem, i, n) ==
  LET Resized[j \in 1..i] == ResizeOne(mem, Resized[j - 1], j, n)
  IN  Resized[i]

\* reserve(back_insert_iterator, n): the room is made in the innermost buffer, and
\* the text is then written through its pointer, wherever that leads.
Put(mem, written) ==
  LET top   == Len(mem.bufs)
      start == mem.bufs[top].size
      made  == Resize(mem, top, start + written.room)
      ptr   == made.bufs[top].ptr
      Cell(i) == IF i \in (start + 1)..(start + Len(written.text))
                 THEN written.text[i - start] ELSE made.blocks[ptr][i]
  IN  IF ptr \notin DOMAIN made.blocks THEN made
      ELSE [made EXCEPT !.blocks[ptr] = [i \in DOMAIN @ |-> Cell(i)]]

\* What was written so far: begin() to end() of the memory buffer.
Contents(mem) == SubSeq(mem.blocks[mem.bufs[1].ptr], 1, mem.bufs[1].size)

=============================================================================
