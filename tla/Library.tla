------------------------------- MODULE Library --------------------------------
(***************************************************************************)
(* The heap and the streams of stdlib.c.  A block is cut off at the break  *)
(* of the process, behind a word with its size, and never given back; a    *)
(* stream is a block with the handle the system gave and at_eof.  Beside   *)
(* them what C has: the bytes of every block that is in use, and for every *)
(* stream its file, its position and whether the end was met.              *)
(***************************************************************************)
EXTENDS Sequences, FiniteSetsExt

CONSTANTS
  WordSize, \* bytes of a size_t
  Sizes,    \* that are asked for
  Bytes,    \* that are written
  Disks,    \* what is in the files at first, by their names
  Modes,    \* of fopen: "r" or "w", and whether there is a + behind it
  MaxBreak, \* bound: of the heap
  MaxSize,  \* bound: of a file
  Handles   \* handles the system has for files

VARIABLES
  heap,     \* the bytes of the heap, those not asked for yet included
  brk,      \* SYS_MALLOC, the first of these
  disk,     \* what is in every file, NoFile if it is not there
  opened,   \* the system: the file and the offset of every handle in use
  blocks,   \* C: the bytes of every block in use, by its address
  streams,  \* C: of every open stream, the same way
  answer    \* how what the last call did and returned is to what C has for it

\* What the proofs are about: words of one byte or more, a largest size, bytes and
\* handles that are numbers.
LibraryFits ==
  /\ WordSize \in Nat \ {0} /\ MaxBreak \in Nat
  /\ Sizes \subseteq Nat /\ \E n \in Sizes : \A m \in Sizes : n >= m
  /\ Bytes \subseteq Int /\ Handles \subseteq Nat
  /\ \A d \in Disks : \A path \in DOMAIN d : d[path] \in Seq(Int)
  /\ \A mode \in Modes : mode[2] \in BOOLEAN
ASSUME LibraryAssumption == LibraryFits

vars == <<heap, brk, disk, opened, blocks, streams, answer>>
c_memory == <<heap, brk, blocks>>

NULL == 0
NL == 10
EOF == -1
NoFile == <<-1>>
\* A byte of which C says nothing.
Unspecified == -1

Extended(f, k, v) == [x \in DOMAIN f \cup {k} |-> IF x = k THEN v ELSE f[x]]
Without(f, k) == Restrict(f, DOMAIN f \ {k})

\* "as C", or what else the code may be known to return, by a name of its own.
Returns(r, c) == answer' = IF r = c THEN "as C" ELSE "another"
------------------------------------------------------------------------------
(* The heap.                                                               *)

WordAt(h, a) == h[a]
\* A number that fits in a byte, as a word.
Stored(h, a, n) == [x \in DOMAIN h |-> IF x = a THEN n ELSE IF x \in (a + 1)..(a + WordSize - 1) THEN 0 ELSE h[x]]
Rounded(size) == WordSize * ((size + WordSize - 1) \div WordSize)

\* The block and the heap with its size; the break is behind the block.
Fits(size) == brk + WordSize + Rounded(size) <= MaxBreak + 1
NewBlock == brk + WordSize
WithSize(size) == Stored(heap, brk, Rounded(size))
sys_malloc(size) == brk' = brk + size

malloc(size) ==
  /\ Fits(size) /\ sys_malloc(Rounded(size) + WordSize)
  /\ heap' = WithSize(size)
  /\ blocks' = Extended(blocks, NewBlock, [i \in 1..size |-> Unspecified])
  /\ Returns(NewBlock, NewBlock)

calloc(N, S) ==
  /\ Fits(N * S) /\ sys_malloc(Rounded(N * S) + WordSize)
  /\ heap' = [a \in DOMAIN heap |->
                IF a \in NewBlock..(NewBlock + N * S - 1) THEN 0 ELSE WithSize(N * S)[a]]
  /\ blocks' = Extended(blocks, NewBlock, [i \in 1..(N * S) |-> 0])
  /\ Returns(NewBlock, NewBlock)

\* Wrong: the size word is taken for a number of words, not of bytes.
OldSize_halved(ptr) == WordSize * (WordAt(heap, ptr - WordSize) \div (WordSize * WordSize))

\* All words of the old block are moved, be the new one shorter.
OldSize(ptr) == WordSize * (WordAt(heap, ptr - WordSize) \div WordSize)
realloc(ptr, size) ==
  /\ Fits(size) /\ sys_malloc(Rounded(size) + WordSize)
  /\ heap' = [a \in DOMAIN heap |->
                IF ptr # NULL /\ a \in NewBlock..(NewBlock + OldSize(ptr) - 1)
                THEN heap[a - NewBlock + ptr] ELSE WithSize(size)[a]]
  /\ LET old == IF ptr = NULL THEN <<>> ELSE blocks[ptr] IN
     blocks' = Extended(Without(blocks, ptr), NewBlock,
                   [i \in 1..size |-> IF i \in DOMAIN old THEN old[i] ELSE Unspecified])
  /\ Returns(NewBlock, NewBlock)

free(ptr) ==
  /\ blocks' = Without(blocks, ptr) /\ Returns("none", "none")
  /\ UNCHANGED <<heap, brk>>

\* The program writes into a block.
Write(ptr, i, v) ==
  /\ heap' = [heap EXCEPT ![ptr + i - 1] = v]
  /\ blocks' = [blocks EXCEPT ![ptr][i] = v]
  /\ Returns("none", "none") /\ UNCHANGED brk

OnHeap ==
  /\ \/ \E size \in Sizes : malloc(size) \/ calloc(1, size) \/ realloc(NULL, size)
     \/ \E ptr \in DOMAIN blocks, size \in Sizes : realloc(ptr, size)
     \/ \E ptr \in DOMAIN blocks : free(ptr)
     \/ \E ptr \in DOMAIN blocks, v \in Bytes : \E i \in DOMAIN blocks[ptr] : Write(ptr, i, v)
  /\ UNCHANGED <<disk, opened, streams>>

------------------------------------------------------------------------------
(* The system.                                                             *)

FreeHandles == Handles \ DOMAIN opened
\* What a read gives, at most n bytes, and where it leaves the handle.
ReadBytes(fh, n) ==
  LET at == opened[fh].offset  text == disk[opened[fh].path] IN
  SubSeq(text, at + 1, Min({at + n, Len(text)}))
Past(fh, n) == [opened EXCEPT ![fh].offset = @ + n]
\* What a write leaves in the file; a gap before it is filled with 0.
Written(text, at, bytes) ==
  [k \in 1..Max({Len(text), at + Len(bytes)}) |->
     CASE k \in (at + 1)..(at + Len(bytes)) -> bytes[k - at] [] k <= at /\ k > Len(text) -> 0 [] OTHER -> text[k]]

------------------------------------------------------------------------------
(* Streams.                                                                *)

fh(f) == WordAt(heap, f)
at_eof(f) == WordAt(heap, f + WordSize) # 0
\* Wrong: the end is not noted.
AtEnd_unmarked(f) == heap
AtEnd(f) == Stored(heap, f + WordSize, 1)
feof(f) == at_eof(f)
ftell(f) == opened[fh(f)].offset

\* C: a stream as it is opened, and the rest of its file.  For C the end was met
\* when eof is "yes" or "missed", and at_eof is set when it is "yes" or "stale".
Stream(path, rw, plus) == [path |-> path, reads |-> rw = "r" \/ plus, writes |-> rw = "w" \/ plus, pos |-> 0, eof |-> "no"]
Rest(f) == SubSeq(disk[streams[f].path], streams[f].pos + 1, Len(disk[streams[f].path]))
Moved(f, n, end) == [streams EXCEPT ![f].pos = @ + n, ![f].eof = IF end THEN "yes" ELSE @]

Refused == Returns(NULL, NULL) /\ UNCHANGED <<c_memory, disk, opened, streams>>
NewStream(path, rw, plus, handle) ==
  /\ Fits(2 * WordSize) /\ sys_malloc(3 * WordSize)
  /\ heap' = Stored(Stored(WithSize(2 * WordSize), NewBlock, handle), NewBlock + WordSize, 0)
  /\ opened' = Extended(opened, handle, [path |-> path, offset |-> 0])
  /\ disk' = IF rw = "w" THEN [disk EXCEPT ![path] = <<>>] ELSE disk
  /\ streams' = Extended(streams, NewBlock, Stream(path, rw, plus))
  /\ Returns(NewBlock, NewBlock) /\ UNCHANGED blocks
fopen(path, rw, plus) ==
  \/ rw = "r" /\ disk[path] = NoFile /\ Refused
  \/ /\ ~(rw = "r" /\ disk[path] = NoFile) /\ FreeHandles # {}
     /\ NewStream(path, rw, plus, Min(FreeHandles))

fclose(f) ==
  /\ opened' = Without(opened, fh(f)) /\ streams' = Without(streams, f)
  /\ Returns(0, 0) /\ UNCHANGED <<c_memory, disk>>

\* The character read, and the heap: at the end the stream is marked.
GotC(f, bytes) == IF at_eof(f) \/ bytes = <<>> THEN EOF ELSE bytes[1]
fgetc(f) ==
  LET bytes == IF at_eof(f) THEN <<>> ELSE ReadBytes(fh(f), 1)
      c_end == streams[f].eof \in {"yes", "missed"} \/ Rest(f) = <<>>
  IN  /\ heap' = IF bytes = <<>> THEN AtEnd(f) ELSE heap
      /\ opened' = Past(fh(f), Len(bytes))
      /\ streams' = Moved(f, IF c_end THEN 0 ELSE 1, c_end)
      /\ Returns(GotC(f, bytes), IF c_end THEN EOF ELSE Rest(f)[1])
      /\ UNCHANGED <<brk, disk, blocks>>

\* The bytes of a line: up to the end of the line, and at most n.
LineOf(text, n) ==
  LET ends == {k \in DOMAIN text : text[k] = NL} IN
  SubSeq(text, 1, Min({n, Len(text)} \cup ends))
Complete(line) == line # <<>> /\ line[Len(line)] = NL
\* Into memory from a place on.
Into(h, a, bytes) == [x \in DOMAIN h |-> IF x \in a..(a + Len(bytes) - 1) THEN bytes[x - a + 1] ELSE h[x]]
\* There is a 0 behind a line that ends, and behind the end of the file.
fgets(str, len, f) ==
  LET line == LineOf(ReadBytes(fh(f), len - 1), len - 1)
      end == Len(line) < len - 1 /\ ~Complete(line)
  IN  /\ heap' = Into(IF end THEN AtEnd(f) ELSE heap, str,
                      IF end \/ Complete(line) THEN Append(line, 0) ELSE line)
      /\ opened' = Past(fh(f), Len(line))
      \* C: at least one character and room for the 0 behind the last.
      /\ LET c_line == LineOf(Rest(f), len) IN
         /\ Len(c_line) \in 1..(IF Complete(c_line) THEN len - 1 ELSE len - 2)
         /\ blocks' = [blocks EXCEPT ![str] = Into(blocks[str], 1, Append(c_line, 0))]
         /\ streams' = Moved(f, Len(c_line), ~Complete(c_line))
      /\ Returns(str, str) /\ UNCHANGED <<brk, disk>>

\* Element after element, until one is not read in whole.
fread(ptr, size, nmemb, f) ==
  LET bytes == ReadBytes(fh(f), size * nmemb)
      c_bytes == SubSeq(Rest(f), 1, Min({size * nmemb, Len(Rest(f))}))
  IN  /\ heap' = Into(heap, ptr, bytes)
      /\ opened' = Past(fh(f), Len(bytes))
      /\ blocks' = [blocks EXCEPT ![ptr] = Into(blocks[ptr], 1, c_bytes)]
      \* After less than was asked for C has met the end, and at_eof is not set.
      /\ streams' = [Moved(f, Len(c_bytes), FALSE) EXCEPT
                       ![f].eof = IF Len(c_bytes) < size * nmemb THEN "missed" ELSE @]
      /\ Returns(Len(bytes) \div size, Len(c_bytes) \div size)
      /\ UNCHANGED <<brk, disk>>

\* SYSCALL_WRITE, which returns the number of bytes.
write(bytes) == Len(bytes)
Puts(bytes, c_bytes, f) ==
  LET handle == opened[fh(f)] IN
  /\ Max({handle.offset + Len(bytes), streams[f].pos + Len(c_bytes)}) <= MaxSize
  /\ disk' = [disk EXCEPT ![handle.path] = Written(@, handle.offset, bytes)]
  /\ opened' = Past(fh(f), Len(bytes))
  /\ streams' = [streams EXCEPT ![f].pos = @ + Len(c_bytes)]
  /\ UNCHANGED c_memory
\* In the file is what C has there; C returns c, and the code may return n, which
\* is not the same, and is known by this name.
Writes(c_bytes, f, r, c, n, name) ==
  LET stream == streams[f]
      same == disk'[stream.path] = Written(disk[stream.path], stream.pos, c_bytes)
  IN  answer' = CASE same /\ r = c -> "as C" [] same /\ r # c /\ r = n -> name [] OTHER -> "another"

\* C counts the elements, the code returns the bytes.
fwrite(ptr, size, nmemb, f) ==
  LET bytes == [i \in 1..(size * nmemb) |-> heap[ptr + i - 1]]
      c_bytes == [i \in 1..(size * nmemb) |-> blocks[ptr][i]]
  IN  /\ \A i \in DOMAIN c_bytes : c_bytes[i] # Unspecified
      /\ Puts(bytes, c_bytes, f)
      /\ Writes(c_bytes, f, write(bytes), nmemb, size * nmemb, "bytes")
\* C returns the character, the code that it wrote one.
fputc(c, f) == Puts(<<c>>, <<c>>, f) /\ Writes(<<c>>, f, write(<<c>>), c, 1, "one")
\* C returns any number but a negative one.
fputs(s, f) == Puts(s, s, f) /\ Writes(s, f, IF write(s) < 0 THEN EOF ELSE 0, 0, 0, "as C")

\* For C the end is met no more; at_eof stays.
fseek(f, offset) ==
  /\ opened' = [opened EXCEPT ![fh(f)].offset = offset]
  /\ streams' = [streams EXCEPT ![f].pos = offset, ![f].eof = IF @ \in {"yes", "stale"} THEN "stale" ELSE "no"]
  /\ Returns(opened'[fh(f)].offset, offset) /\ UNCHANGED <<c_memory, disk>>

\* What the code reads of a stream with another mark than C's is not what C
\* reads, but where there is nothing to read; and neither is what fread and
\* fgets read when the end was met.
Reading(f) ==
  /\ streams[f].reads
  /\ \/ /\ streams[f].eof # "stale" /\ (streams[f].eof = "missed" => Rest(f) = <<>>)
        /\ fgetc(f)
     \/ streams[f].eof = "no" /\ \E ptr \in DOMAIN blocks :
          \/ fgets(ptr, Len(blocks[ptr]), f)
          \/ \E size \in {1, 2} : size <= Len(blocks[ptr]) /\ fread(ptr, size, Len(blocks[ptr]) \div size, f)
Putting(f) ==
  /\ streams[f].writes
  /\ \/ \E v \in Bytes : fputc(v, f) \/ fputs(<<v>>, f)
     \/ \E ptr \in DOMAIN blocks, size \in {1, 2} :
          size <= Len(blocks[ptr]) /\ fwrite(ptr, size, Len(blocks[ptr]) \div size, f)
OnStream(f) == fclose(f) \/ Reading(f) \/ Putting(f) \/ fseek(f, 0)

Opening == \E path \in DOMAIN disk, mode \in Modes : fopen(path, mode[1], mode[2])

------------------------------------------------------------------------------
Init ==
  /\ heap = [a \in 1..(MaxBreak + Max(Sizes)) |-> 0] /\ brk = 1
  /\ disk \in Disks /\ opened = <<>>
  /\ blocks = <<>> /\ streams = <<>> /\ answer = "as C"

Next == OnHeap \/ Opening \/ \E f \in DOMAIN streams : OnStream(f)

Spec == Init /\ [][Next]_vars

------------------------------------------------------------------------------
\* Whatever is asked for, given back, moved or opened in between: the bytes
\* of a block are those the program put there, or had in the block it was made
\* of, and no block shares a byte with another or with a stream.
HeapOfC ==
  LET Bounds == {<<p, Len(blocks[p])>> : p \in DOMAIN blocks} \cup {<<f, 2 * WordSize>> : f \in DOMAIN streams} IN
  /\ \A p \in DOMAIN blocks : \A i \in DOMAIN blocks[p] : blocks[p][i] \in {Unspecified, heap[p + i - 1]}
  /\ \A b, c \in Bounds : b[1] < c[1] => b[1] + b[2] <= c[1]
  /\ \A b \in Bounds : (b[1] - 1) % WordSize = 0 /\ b[1] + b[2] <= brk

\* However the calls on several streams, of one file or of two, come between
\* one another and between those on the heap: every call leaves in memory and
\* in the files what C says and returns what C says, but that fwrite returns the
\* bytes for the elements and fputc 1 for the character.  ftell would return what
\* C says, and feof too, but after an fread that got less than it asked for and
\* after a seek away from the end.
StreamsOfC ==
  /\ answer \in {"as C", "bytes", "one"}
  /\ \A f \in DOMAIN streams : ftell(f) = streams[f].pos /\ feof(f) = (streams[f].eof \in {"yes", "stale"})
==============================================================================
