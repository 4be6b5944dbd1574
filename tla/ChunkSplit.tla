----------------------------- MODULE ChunkSplit -----------------------------
(***************************************************************************)
(* chunk.Split of the chunker: cuts the words of a text into windows of    *)
(* size words, each of which repeats the last overlap words of the one     *)
(* before it.  Size and overlap come from the environment (CHUNK_SIZE,     *)
(* CHUNK_OVERLAP), which may hold any integer.  A window stands for the    *)
(* words it joins: those from index from up to, not including, index to.   *)
(***************************************************************************)
EXTENDS Integers, Sequences

CONSTANTS
    WordCounts,   \* lengths of the texts to split, in words
    Sizes,        \* values of CHUNK_SIZE
    Overlaps,     \* values of CHUNK_OVERLAP
    DefaultSize   \* what replaces a size that is not positive (800)

ASSUME SplitAssumption ==
    /\ WordCounts \subseteq Nat
    /\ Sizes \subseteq Int
    /\ Overlaps \subseteq Int
    /\ DefaultSize \in Nat \ {0}

VARIABLES
    words,     \* len(words)
    size,      \* the parameters, first as given, then as normalised
    overlap,
    start,     \* the loop variable
    windows,   \* the chunks so far
    phase      \* "entry", "loop" or "done"

vars == <<words, size, overlap, start, windows, phase>>

Init ==
    /\ words \in WordCounts
    /\ size \in Sizes
    /\ overlap \in Overlaps
    /\ start = 0
    /\ windows = <<>>
    /\ phase = "entry"

\* Mutant of NormalSize: zero passes for a size.
NormalSizeZero(s) == IF s < 0 THEN DefaultSize ELSE s

NormalSize(s) == IF s <= 0 THEN DefaultSize ELSE s

\* Mutant of NormalOverlap: a negative overlap is not caught.
NormalOverlapNegative(o, s) == IF o >= s THEN s \div 8 ELSE o

\* Mutant of NormalOverlap: an overlap of the whole window is not caught.
NormalOverlapWhole(o, s) == IF o < 0 \/ o > s THEN s \div 8 ELSE o

NormalOverlap(o, s) == IF o < 0 \/ o >= s THEN s \div 8 ELSE o

Step == IF size - overlap <= 0 THEN size ELSE size - overlap

\* A text without words has no chunks.
NoWords ==
    /\ phase = "entry"
    /\ words = 0
    /\ phase' = "done"
    /\ UNCHANGED <<words, size, overlap, start, windows>>

Normalise ==
    /\ phase = "entry"
    /\ words > 0
    /\ size' = NormalSize(size)
    /\ overlap' = NormalOverlap(overlap, NormalSize(size))
    /\ phase' = "loop"
    /\ UNCHANGED <<words, start, windows>>

\* Mutant of Finished: only the loop condition ends the loop.
FinishedByCondition(end) == start + Step >= words

\* Mutant of Finished: only the loop condition, one off.
FinishedLate(end) == start + Step > words

\* The window reaches the last word, or the loop condition fails.
Finished(end) == end = words \/ start + Step >= words

\* One iteration of the loop.
Cut ==
    LET end == IF start + size > words THEN words ELSE start + size IN
    /\ phase = "loop"
    /\ windows' = Append(windows, [from |-> start, to |-> end])
    /\ start' = start + Step
    /\ phase' = IF Finished(end) THEN "done" ELSE "loop"
    /\ UNCHANGED <<words, size, overlap>>

Next == NoWords \/ Normalise \/ Cut

Spec == Init /\ [][Next]_vars

\* The rows the chunker inserts; a token is a word.
ChunkRows == [i \in DOMAIN windows |->
    [position |-> i - 1, token_count |-> windows[i].to - windows[i].from]]

-----------------------------------------------------------------------------

\* No word of the text is lost: when Split returns, every word is in some
\* window, so a text that has words has a chunk.
\* (a step larger than the window, or a loop that ends early, drops words.)
EveryWordIsKept ==
    phase = "done" =>
        \A k \in 0..(words - 1) :
            \E i \in DOMAIN windows : windows[i].from <= k /\ k < windows[i].to

\* Each window repeats exactly overlap words of the window before it, and has
\* words of its own: the break keeps a last window out that the one before
\* contains.
\* (chunk.Split advances by size - overlap, whatever the environment says.)
WindowsOverlap ==
    \A i \in 2..Len(windows) :
        /\ windows[i].from = windows[i - 1].to - overlap
        /\ windows[i].to > windows[i - 1].to

\* No row is empty and none has more words than a window holds, so that every
\* row has something to embed.
\* (process of worker.go stores every piece chunk.Split returns.)
RowsAreFilled ==
    \A i \in DOMAIN ChunkRows : ChunkRows[i].token_count \in 1..size

\* The result in closed form: as few windows as reach the end of the text.
\* (the loop of chunk.Split against what it is meant to compute.)
MatchesReference ==
    LET step == size - overlap
        count == IF words <= size THEN 1
                 ELSE 1 + ((words - size) + (step - 1)) \div step
    IN  phase = "done" /\ words > 0 =>
            windows = [i \in 1..count |->
                [from |-> (i - 1) * step,
                 to |-> IF i = count THEN words ELSE (i - 1) * step + size]]

\* The loop always advances, and never past the text: with a step of 0 it
\* would fill the memory with the same window for ever.
\* (CHUNK_SIZE 0, and CHUNK_OVERLAP not below CHUNK_SIZE.)
LoopAdvances ==
    [][phase = "loop" /\ phase' = "loop" => start < start' /\ start' < words]_vars

-----------------------------------------------------------------------------

\* The type of every variable.
SplitTypeOK ==
    /\ words \in Nat
    /\ size \in Int
    /\ overlap \in Int
    /\ start \in Nat
    /\ windows \in Seq([from : Nat, to : Nat])
    /\ phase \in {"entry", "loop", "done"}

LastWindow == windows[Len(windows)]

\* Before the loop nothing is cut; in it the parameters are sane, and a window
\* whose start is not 0 is smaller than the text, so start + size is in range.
LoopParameters ==
    /\ phase = "entry" => windows = <<>> /\ start = 0
    /\ phase = "loop" =>
        /\ size > 0
        /\ overlap \in 0..(size - 1)
        /\ start < words
        /\ start = 0 \/ size < words

\* The last window ends overlap words behind the start of the next one, and
\* short of the end of the text until the loop is done.
LoopProgress ==
    /\ phase = "loop" /\ windows = <<>> => start = 0
    /\ phase = "loop" /\ windows # <<>> =>
        LastWindow.to = start + overlap /\ LastWindow.to < words
    /\ phase = "done" /\ words > 0 =>
        windows # <<>> /\ LastWindow.to = words

\* Everything before the end of the last window is in some window.
LoopCovers ==
    windows # <<>> =>
        \A k \in 0..(LastWindow.to - 1) :
            \E i \in DOMAIN windows : windows[i].from <= k /\ k < windows[i].to

\* The inductive invariant of the loop, with the properties it is there for.
\* (the for statement of chunk.Split.)
LoopInv ==
    /\ SplitTypeOK
    /\ LoopParameters /\ LoopProgress /\ LoopCovers
    /\ WindowsOverlap /\ RowsAreFilled

\* Window i starts (i - 1) * step words into the text and is as long as a
\* window can be; only the last one of a finished loop is cut off at the end of
\* the text, and the one before it did not reach that end.
\* (what the loop variable of chunk.Split is after so many iterations.)
ClosedForm ==
    LET step == size - overlap
        n == Len(windows)
        \* Windows known to have their full length.
        full == IF phase = "done" THEN n - 1 ELSE n
    IN  /\ \A i \in 1..n : windows[i].from = (i - 1) * step
        /\ \A i \in 1..full : windows[i].to = (i - 1) * step + size
        /\ phase = "loop" => start = n * step
        /\ phase = "done" /\ words > 0 =>
            /\ size > 0 /\ overlap \in 0..(size - 1)
            /\ words <= (n - 1) * step + size
            /\ n > 1 => (n - 2) * step + size < words

=============================================================================
