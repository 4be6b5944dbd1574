-------------------------- MODULE ChunkSplitProofs --------------------------
(***************************************************************************)
(* Proofs about chunk.Split, for texts of any length and for whatever the  *)
(* environment holds for CHUNK_SIZE and CHUNK_OVERLAP.                     *)
(***************************************************************************)
EXTENDS ChunkSplit, SequenceTheorems, TLAPS

\* The parameters the loop runs with are sane whatever the environment says.
LEMMA NormalisedParameters ==
    ASSUME NEW s \in Int, NEW o \in Int
    PROVE  /\ NormalSize(s) \in Nat \ {0}
           /\ NormalOverlap(o, NormalSize(s)) \in 0..(NormalSize(s) - 1)
  BY SplitAssumption DEF NormalSize, NormalOverlap

\* With sane parameters the step is size - overlap, and positive.
LEMMA StepIsPositive ==
    ASSUME SplitTypeOK, LoopParameters, phase = "loop"
    PROVE  Step = size - overlap /\ Step \in 1..size
  BY DEF SplitTypeOK, LoopParameters, Step

\* Where the next window lies: it starts in or at the end of what is covered,
\* and reaches beyond it.
LEMMA NextWindow ==
    ASSUME LoopInv, phase = "loop",
           NEW end, end = IF start + size > words THEN words ELSE start + size
    PROVE  /\ end \in Nat
           /\ start < end /\ end <= words /\ end - start \in 1..size
           /\ windows = <<>> => start = 0
           /\ windows # <<>> =>
                /\ start = LastWindow.to - overlap
                /\ LastWindow.to < end
           /\ end # words => end = start + size
  <1>1. /\ words \in Nat /\ size \in Int /\ overlap \in Int /\ start \in Nat
        /\ size > 0 /\ overlap \in 0..(size - 1) /\ start < words
        BY DEF LoopInv, SplitTypeOK, LoopParameters
  <1>2. windows = <<>> => start = 0
        BY DEF LoopInv, LoopProgress
  <1>3. windows # <<>> => LastWindow.to = start + overlap /\ LastWindow.to < words
        BY DEF LoopInv, LoopProgress
  <1>4. QED
        BY <1>1, <1>2, <1>3

\* Appending a window leaves the others where they are.
LEMMA Appended ==
    ASSUME SplitTypeOK, NEW w \in [from : Nat, to : Nat],
           windows' = Append(windows, w)
    PROVE  /\ windows' \in Seq([from : Nat, to : Nat])
           /\ windows' # <<>>
           /\ Len(windows') = Len(windows) + 1
           /\ Len(windows) \in Nat
           /\ LastWindow' = w
           /\ windows'[Len(windows')] = w
           /\ \A i \in DOMAIN windows : windows'[i] = windows[i]
           /\ \A i \in 1..Len(windows) : windows'[i] = windows[i]
           /\ DOMAIN windows' = 1..(Len(windows) + 1)
           /\ DOMAIN windows = 1..Len(windows)
           /\ windows # <<>> => Len(windows) \in 1..Len(windows)
  BY DEF SplitTypeOK, LastWindow

\* The loop starts with nothing cut.
LEMMA SplitInit == Init => LoopInv
  <1> SUFFICES ASSUME Init PROVE LoopInv
      OBVIOUS
  <1> USE SplitAssumption DEF Init
  <1>1. SplitTypeOK
        BY DEF SplitTypeOK
  <1>2. LoopParameters /\ LoopProgress /\ LoopCovers
        BY DEF LoopParameters, LoopProgress, LoopCovers
  <1>3. WindowsOverlap /\ RowsAreFilled
        BY DEF WindowsOverlap, RowsAreFilled, ChunkRows
  <1>4. QED
        BY <1>1, <1>2, <1>3 DEF LoopInv

\* Entering the loop, or leaving without it.
LEMMA EnterPreserves ==
    ASSUME LoopInv, NoWords \/ Normalise
    PROVE  LoopInv'
  <1>1. windows = <<>> /\ start = 0 /\ windows' = windows /\ start' = start
        BY DEF LoopInv, LoopParameters, NoWords, Normalise
  <1>2. words \in Nat /\ words' = words /\ size \in Int /\ overlap \in Int
        BY DEF LoopInv, SplitTypeOK, NoWords, Normalise
  <1>3. CASE NoWords
    <2>1. SplitTypeOK'
          BY <1>3 DEF LoopInv, SplitTypeOK, NoWords
    <2>2. LoopParameters' /\ LoopProgress'
          BY <1>1, <1>2, <1>3 DEF NoWords, LoopParameters, LoopProgress
    <2>3. QED
          BY <1>1, <2>1, <2>2
          DEF LoopInv, LoopCovers, WindowsOverlap, RowsAreFilled, ChunkRows
  <1>4. CASE Normalise
    <2>1. /\ size' \in Nat \ {0} /\ overlap' \in 0..(size' - 1)
          /\ words > 0 /\ phase' = "loop"
          BY <1>2, <1>4, NormalisedParameters DEF Normalise
    <2>2. SplitTypeOK'
          BY <1>1, <1>2, <2>1 DEF LoopInv, SplitTypeOK
    <2>3. LoopParameters'
      <3>1. size' > 0 /\ start' = 0 /\ words' > 0
            BY <1>1, <1>2, <2>1
      <3>2. QED BY <2>1, <3>1 DEF LoopParameters
    <2>4. LoopProgress'
          BY <1>1, <2>1 DEF LoopProgress
    <2>5. QED
          BY <1>1, <2>2, <2>3, <2>4
          DEF LoopInv, LoopCovers, WindowsOverlap, RowsAreFilled, ChunkRows
  <1>5. QED
        BY <1>3, <1>4

\* One iteration of the loop.
LEMMA CutPreserves ==
    ASSUME LoopInv, Cut
    PROVE  LoopInv'
  <1> DEFINE end == IF start + size > words THEN words ELSE start + size
             w == [from |-> start, to |-> end]
  <1>1. /\ phase = "loop" /\ windows' = Append(windows, w)
        /\ start' = start + Step
        /\ phase' = IF Finished(end) THEN "done" ELSE "loop"
        /\ words' = words /\ size' = size /\ overlap' = overlap
        BY DEF Cut
  <1>2. /\ words \in Nat /\ size \in Int /\ overlap \in Int /\ start \in Nat
        /\ size > 0 /\ overlap \in 0..(size - 1) /\ start < words
        BY <1>1 DEF LoopInv, SplitTypeOK, LoopParameters
  <1>3. Step = size - overlap /\ Step \in 1..size
        BY <1>1, StepIsPositive DEF LoopInv
  <1>4. /\ end \in Nat
        /\ start < end /\ end <= words /\ end - start \in 1..size
        /\ windows = <<>> => start = 0
        /\ windows # <<>> => start = LastWindow.to - overlap /\ LastWindow.to < end
        /\ end # words => end = start + size
    <2> HIDE DEF end
    <2> QED BY <1>1, NextWindow DEF end
  <1> HIDE DEF end
  <1>5. w \in [from : Nat, to : Nat]
        BY <1>2, <1>4
  <1>6. /\ windows' \in Seq([from : Nat, to : Nat])
        /\ windows' # <<>>
        /\ Len(windows') = Len(windows) + 1
        /\ Len(windows) \in Nat
        /\ LastWindow' = w
        /\ windows'[Len(windows')] = w
        /\ \A i \in 1..Len(windows) : windows'[i] = windows[i]
        /\ DOMAIN windows' = 1..(Len(windows) + 1)
        /\ DOMAIN windows = 1..Len(windows)
    <2> HIDE DEF w
    <2> QED BY <1>1, <1>5, Appended DEF LoopInv
  <1>7. w.from = start /\ w.to = end
        OBVIOUS
  <1>8. windows # <<>> => Len(windows) \in 1..Len(windows)
        BY <1>1, <1>5, Appended DEF LoopInv
  <1> HIDE DEF w
  <1>9. SplitTypeOK'
        BY <1>1, <1>2, <1>3, <1>6 DEF SplitTypeOK
  <1>10. phase' = "loop" => /\ end = start + size /\ end < words
                            /\ start + Step < words /\ size < words
        BY <1>1, <1>2, <1>3, <1>4 DEF Finished
  <1>11. LoopParameters'
        BY <1>1, <1>2, <1>3, <1>10 DEF LoopParameters
  <1>12. phase' = "done" => end = words
        BY <1>1, <1>2, <1>3, <1>4 DEF Finished
  <1>13. LoopProgress'
    <2>1. windows' # <<>> /\ LastWindow'.to = end
          BY <1>6, <1>7
    <2>2. phase' = "loop" => end = start' + overlap' /\ end < words'
          BY <1>1, <1>2, <1>3, <1>4, <1>10, <1>12
    <2>3. phase' = "done" => end = words'
          BY <1>1, <1>12
    <2>4. phase' \in {"loop", "done"}
          BY <1>1
    <2>5. QED BY <2>1, <2>2, <2>3, <2>4 DEF LoopProgress
  <1>14. LoopCovers'
    <2> SUFFICES ASSUME NEW k \in 0..(end - 1)
                 PROVE  \E i \in 1..(Len(windows) + 1) :
                            windows'[i].from <= k /\ k < windows'[i].to
        BY <1>6, <1>7 DEF LoopCovers
    <2>1. CASE start <= k
          <3>1. windows'[Len(windows) + 1] = w
                BY <1>6
          <3>2. QED BY <1>2, <1>4, <1>6, <1>7, <2>1, <3>1
    <2>2. CASE k < start
          <3>1. windows # <<>>
                BY <1>2, <1>4, <2>2
          <3>2. windows \in Seq([from : Nat, to : Nat])
                BY DEF LoopInv, SplitTypeOK
          <3>3. windows[Len(windows)] \in [from : Nat, to : Nat]
                BY <1>8, <3>1, <3>2, ElementOfSeq
          <3>4. LastWindow.to \in Nat
                BY <3>3 DEF LastWindow
          <3>5. k \in 0..(LastWindow.to - 1)
                BY <1>2, <1>4, <2>2, <3>1, <3>4
          <3>6. PICK i \in 1..Len(windows) : windows[i].from <= k /\ k < windows[i].to
                BY <1>6, <3>1, <3>5 DEF LoopInv, LoopCovers
          <3>7. windows'[i] = windows[i] /\ i \in 1..(Len(windows) + 1)
                BY <1>6, <3>6
          <3>8. QED BY <3>6, <3>7
    <2>3. QED BY <1>2, <2>1, <2>2
  <1>15. WindowsOverlap'
    <2> SUFFICES ASSUME NEW i \in 2..(Len(windows) + 1)
                 PROVE  /\ windows'[i].from = windows'[i - 1].to - overlap
                        /\ windows'[i].to > windows'[i - 1].to
        BY <1>1, <1>6 DEF WindowsOverlap
    <2>1. CASE i \in 2..Len(windows)
          <3>1. i \in 1..Len(windows) /\ i - 1 \in 1..Len(windows)
                BY <1>6, <2>1
          <3>2. windows'[i] = windows[i] /\ windows'[i - 1] = windows[i - 1]
                BY <1>6, <3>1
          <3>3. QED BY <2>1, <3>2 DEF LoopInv, WindowsOverlap
    <2>2. CASE i = Len(windows) + 1
          <3>1. windows # <<>> /\ i - 1 = Len(windows) /\ i - 1 \in 1..Len(windows)
                BY <1>6, <2>2
          <3>2. windows'[i] = w /\ windows'[i - 1] = LastWindow
                BY <1>6, <2>2, <3>1 DEF LastWindow
          <3>3. QED BY <1>4, <1>7, <3>1, <3>2
    <2>3. QED BY <1>6, <2>1, <2>2
  <1>16. RowsAreFilled'
    <2> SUFFICES ASSUME NEW i \in 1..(Len(windows) + 1)
                 PROVE  windows'[i].to - windows'[i].from \in 1..size
        BY <1>1, <1>6 DEF RowsAreFilled, ChunkRows
    <2>1. CASE i \in 1..Len(windows)
          <3>1. windows'[i] = windows[i]
                BY <1>6, <2>1
          <3>2. i \in DOMAIN ChunkRows
                /\ ChunkRows[i].token_count = windows[i].to - windows[i].from
                BY <1>6, <2>1 DEF ChunkRows
          <3>3. QED BY <3>1, <3>2 DEF LoopInv, RowsAreFilled
    <2>2. CASE i = Len(windows) + 1
          BY <1>4, <1>6, <1>7, <2>2
    <2>3. QED BY <1>6, <2>1, <2>2
  <1>17. QED
        BY <1>9, <1>11, <1>13, <1>14, <1>15, <1>16 DEF LoopInv

\* Every step keeps the loop invariant.
LEMMA SplitNext == LoopInv /\ [Next]_vars => LoopInv'
  <1> SUFFICES ASSUME LoopInv, [Next]_vars PROVE LoopInv'
      OBVIOUS
  <1>1. CASE NoWords \/ Normalise
        BY <1>1, EnterPreserves
  <1>2. CASE Cut
        BY <1>2, CutPreserves
  <1>3. CASE UNCHANGED vars
        BY <1>3 DEF vars, LoopInv, SplitTypeOK, LoopParameters, LoopProgress,
                    LoopCovers, LastWindow, WindowsOverlap, RowsAreFilled, ChunkRows
  <1>4. QED
        BY <1>1, <1>2, <1>3 DEF Next

\* The loop invariant of chunk.Split, with the overlap of the windows and the
\* sizes of the rows, holds for every text and every configuration.
THEOREM LoopInvariant == Spec => []LoopInv
  BY SplitInit, SplitNext, PTL DEF Spec

\* Consecutive windows overlap by exactly overlap words, and none is contained
\* in the one before it.
THEOREM OverlapIsExact == Spec => []WindowsOverlap
  <1>1. LoopInv => WindowsOverlap
        BY DEF LoopInv
  <1>2. QED BY <1>1, LoopInvariant, PTL

\* Every row the chunker inserts has between 1 and size tokens.
THEOREM RowsHaveWords == Spec => []RowsAreFilled
  <1>1. LoopInv => RowsAreFilled
        BY DEF LoopInv
  <1>2. QED BY <1>1, LoopInvariant, PTL

\* When Split returns, no word of the text is missing.
THEOREM SplitKeepsWords == Spec => []EveryWordIsKept
  <1>1. LoopInv => EveryWordIsKept
    <2> SUFFICES ASSUME LoopInv, phase = "done", NEW k \in 0..(words - 1)
                 PROVE  \E i \in DOMAIN windows :
                            windows[i].from <= k /\ k < windows[i].to
        BY DEF EveryWordIsKept
    <2>1. words > 0
          BY DEF LoopInv, SplitTypeOK
    <2>2. windows # <<>> /\ LastWindow.to = words
          BY <2>1 DEF LoopInv, LoopProgress
    <2>3. QED
          BY <2>2 DEF LoopInv, LoopCovers
  <1>2. QED BY <1>1, LoopInvariant, PTL

\* The loop advances at every iteration and stays inside the text, so it ends:
\* no value of CHUNK_SIZE and CHUNK_OVERLAP makes it run for ever.
THEOREM SplitAdvances == Spec => LoopAdvances
  <1>1. LoopInv /\ LoopInv' /\ [Next]_vars
          => [phase = "loop" /\ phase' = "loop" => start < start' /\ start' < words]_vars
    <2> SUFFICES ASSUME LoopInv, LoopInv', [Next]_vars,
                        phase = "loop", phase' = "loop", vars' # vars
                 PROVE  start < start' /\ start' < words
        OBVIOUS
    <2>1. Cut
          BY DEF Next, NoWords, Normalise
    <2>2. start \in Nat /\ start' = start + Step /\ words' = words
          BY <2>1 DEF Cut, LoopInv, SplitTypeOK
    <2>3. Step \in Nat \ {0}
          BY StepIsPositive DEF LoopInv, SplitTypeOK
    <2>4. start' < words'
          BY DEF LoopInv, LoopParameters
    <2>5. QED
          BY <2>2, <2>3, <2>4
  <1>2. QED
        BY <1>1, LoopInvariant, PTL DEF Spec, LoopAdvances

-----------------------------------------------------------------------------
(***************************************************************************)
(* The result in closed form.  The number of windows is a quotient, so the *)
(* proof needs what a quotient is, and that it is the only such number.    *)
(***************************************************************************)

\* One more time s.
LEMMA NextMultiple ==
    ASSUME NEW n \in Int, NEW s \in Int
    PROVE  (n + 1) * s = n * s + s
  BY SMT

\* Multiplying by a positive number keeps the order.
LEMMA MultiplesOrdered ==
    ASSUME NEW a \in Int, NEW b \in Int, NEW s \in Nat \ {0}, a * s < b * s
    PROVE  a < b
  BY SMT

\* The quotient leaves a remainder smaller than the divisor.
LEMMA QuotientBounds ==
    ASSUME NEW a \in Int, NEW s \in Nat \ {0}
    PROVE  a \div s \in Int /\ (a \div s) * s <= a /\ a < (a \div s) * s + s
  BY SMT

\* No other number does.
LEMMA QuotientIsUnique ==
    ASSUME NEW a \in Int, NEW s \in Nat \ {0}, NEW q \in Int,
           q * s <= a, a < q * s + s
    PROVE  a \div s = q
  <1> DEFINE d == a \div s
  <1>1. d \in Int /\ d * s <= a /\ a < d * s + s
        BY QuotientBounds
  <1> HIDE DEF d
  <1>2. /\ q * s \in Int /\ d * s \in Int
        /\ (q + 1) * s = q * s + s /\ (d + 1) * s = d * s + s
        BY <1>1, NextMultiple
  <1>3. q * s < (d + 1) * s /\ d * s < (q + 1) * s
        BY <1>1, <1>2
  <1>4. q < d + 1 /\ d < q + 1
        BY <1>1, <1>3, MultiplesOrdered
  <1>5. QED
        BY <1>1, <1>4 DEF d

\* No window, nothing to say.
LEMMA ClosedFormAtEntry ==
    ASSUME windows = <<>>, start = 0, phase = "entry" \/ phase = "loop",
           size \in Int, overlap \in Int
    PROVE  ClosedForm
  <1>1. Len(windows) = 0 /\ phase # "done" /\ size - overlap \in Int
        OBVIOUS
  <1>2. 0 * (size - overlap) = 0
        BY <1>1
  <1>3. QED
        BY <1>1, <1>2 DEF ClosedForm

\* One iteration of the loop adds the next multiple of the step.
LEMMA ClosedFormCut ==
    ASSUME LoopInv, ClosedForm, Cut
    PROVE  ClosedForm'
  <1> DEFINE end == IF start + size > words THEN words ELSE start + size
             w == [from |-> start, to |-> end]
             n == Len(windows)
             step == size - overlap
  <1>1. /\ phase = "loop" /\ windows' = Append(windows, w)
        /\ start' = start + Step
        /\ phase' = IF Finished(end) THEN "done" ELSE "loop"
        /\ words' = words /\ size' = size /\ overlap' = overlap
        BY DEF Cut
  <1>2. /\ words \in Nat /\ size \in Int /\ overlap \in Int /\ start \in Nat
        /\ size > 0 /\ overlap \in 0..(size - 1) /\ start < words
        BY <1>1 DEF LoopInv, SplitTypeOK, LoopParameters
  <1>3. Step = step /\ step \in 1..size
        BY <1>1, StepIsPositive DEF LoopInv
  <1> HIDE DEF end
  <1>4. /\ end \in Nat /\ end = IF start + size > words THEN words ELSE start + size
        BY <1>2 DEF end
  <1>5. w \in [from : Nat, to : Nat] /\ w.from = start /\ w.to = end
        BY <1>2, <1>4
  <1> HIDE DEF w
  <1>6. /\ Len(windows') = n + 1 /\ n \in Nat
        /\ windows'[n + 1] = w
        /\ \A i \in 1..n : windows'[i] = windows[i]
        BY <1>1, <1>5, Appended DEF LoopInv
  <1>7. /\ \A i \in 1..n : windows[i].from = (i - 1) * step
        /\ \A i \in 1..n : windows[i].to = (i - 1) * step + size
        /\ start = n * step
        BY <1>1 DEF ClosedForm
  <1> HIDE DEF n, step
  <1>8. phase' = "loop" => end = start + size
        BY <1>1, <1>2, <1>3, <1>4 DEF Finished
  <1>9. phase' = "done" => end = words
        BY <1>1, <1>2, <1>3, <1>4 DEF Finished
  <1>10. \A i \in 1..(n + 1) : windows'[i].from = (i - 1) * step
    <2> TAKE i \in 1..(n + 1)
    <2>1. CASE i \in 1..n
          BY <1>6, <1>7, <2>1
    <2>2. CASE i = n + 1
          <3>1. i - 1 = n /\ windows'[i].from = start
                BY <1>5, <1>6, <2>2
          <3>2. QED BY <1>7, <3>1
    <2>3. QED BY <1>6, <2>1, <2>2
  <1>11. \A i \in 1..n : windows'[i].to = (i - 1) * step + size
        BY <1>6, <1>7
  <1>12. phase' = "loop" => windows'[n + 1].to = n * step + size
        BY <1>5, <1>6, <1>7, <1>8
  <1>13. n + 1 > 1 => (n - 1) * step + size < words
    <2> SUFFICES ASSUME n \in Nat \ {0} PROVE (n - 1) * step + size < words
        BY <1>6
    <2>1. windows # <<>>
          BY DEF n
    <2>2. windows[n].to < words
          BY <1>1, <2>1 DEF LoopInv, LoopProgress, LastWindow, n
    <2>3. windows[n].to = (n - 1) * step + size
          BY <1>7
    <2>4. QED BY <2>2, <2>3
  <1>14. phase' \in {"loop", "done"}
        BY <1>1
  <1>15. CASE phase' = "loop"
    <2>1. start' = (n + 1) * step
          BY <1>1, <1>2, <1>3, <1>6, <1>7, NextMultiple
    <2>2. \A i \in 1..(n + 1) : windows'[i].to = (i - 1) * step + size
      <3> TAKE i \in 1..(n + 1)
      <3>1. CASE i \in 1..n
            BY <1>11, <3>1
      <3>2. CASE i = n + 1
            <4>1. i - 1 = n
                  BY <1>6, <3>2
            <4>2. QED BY <1>12, <1>15, <3>2, <4>1
      <3>3. QED BY <1>6, <3>1, <3>2
    <2>3. QED
          BY <1>1, <1>6, <1>10, <1>15, <2>1, <2>2 DEF ClosedForm, step
  <1>16. CASE phase' = "done"
    <2>1. words <= n * step + size
          BY <1>2, <1>3, <1>4, <1>7, <1>9, <1>16
    <2>2. (n + 1) - 1 = n /\ (n + 1) - 2 = n - 1
          BY <1>6
    <2>3. QED
          BY <1>1, <1>2, <1>6, <1>10, <1>11, <1>13, <1>16, <2>1, <2>2
          DEF ClosedForm, step
  <1>17. QED
        BY <1>14, <1>15, <1>16

\* The closed form holds initially and is kept by every step.
THEOREM WindowsAreClosedForm == Spec => []ClosedForm
  <1>1. Init => ClosedForm
        BY SplitAssumption, ClosedFormAtEntry DEF Init
  <1>2. LoopInv /\ LoopInv' /\ ClosedForm /\ [Next]_vars => ClosedForm'
    <2> SUFFICES ASSUME LoopInv, LoopInv', ClosedForm, [Next]_vars
                 PROVE  ClosedForm'
        OBVIOUS
    <2>1. CASE NoWords
          <3>1. windows' = <<>> /\ words' = 0 /\ phase' = "done"
                BY <2>1 DEF NoWords, LoopInv, LoopParameters
          <3>2. Len(windows') = 0
                BY <3>1
          <3>3. QED BY <3>1, <3>2 DEF ClosedForm
    <2>2. CASE Normalise
          <3>1. /\ windows' = <<>> /\ start' = 0 /\ phase' = "loop"
                /\ size' \in Int /\ overlap' \in Int
                BY <2>2 DEF Normalise, LoopInv, LoopParameters, SplitTypeOK
          <3>2. Len(windows') = 0 /\ phase' # "done" /\ size' - overlap' \in Int
                BY <3>1
          <3>3. 0 * (size' - overlap') = 0
                BY <3>2
          <3>4. start' = Len(windows') * (size' - overlap')
                BY <3>1, <3>2, <3>3
          <3>5. 1..Len(windows') = {}
                BY <3>2
          <3>6. QED BY <3>2, <3>4, <3>5 DEF ClosedForm
    <2>3. CASE Cut
          BY <2>3, ClosedFormCut
    <2>4. CASE UNCHANGED vars
          BY <2>4 DEF vars, ClosedForm
    <2>5. QED
          BY <2>1, <2>2, <2>3, <2>4 DEF Next
  <1>3. QED
        BY <1>1, <1>2, LoopInvariant, PTL DEF Spec

\* chunk.Split computes the reference: as few windows as reach the end of the
\* text, each a step further than the one before.
THEOREM SplitMatchesReference == Spec => []MatchesReference
  <1>1. LoopInv /\ ClosedForm => MatchesReference
    <2> DEFINE n == Len(windows)
               step == size - overlap
               count == IF words <= size THEN 1
                        ELSE 1 + ((words - size) + (step - 1)) \div step
    <2> SUFFICES ASSUME LoopInv, ClosedForm, phase = "done", words > 0
                 PROVE  windows = [i \in 1..count |->
                            [from |-> (i - 1) * step,
                             to |-> IF i = count THEN words
                                                 ELSE (i - 1) * step + size]]
        BY DEF MatchesReference
    <2>1. /\ words \in Nat /\ size \in Int /\ overlap \in Int
          /\ windows \in Seq([from : Nat, to : Nat])
          BY DEF LoopInv, SplitTypeOK
    <2>2. windows # <<>> /\ windows[n].to = words
          BY DEF LoopInv, LoopProgress, LastWindow
    <2>3. /\ size > 0 /\ overlap \in 0..(size - 1)
          /\ words <= (n - 1) * step + size
          /\ n > 1 => (n - 2) * step + size < words
          /\ \A i \in 1..n : windows[i].from = (i - 1) * step
          /\ \A i \in 1..(n - 1) : windows[i].to = (i - 1) * step + size
          BY DEF ClosedForm
    <2>4. n \in Nat \ {0} /\ DOMAIN windows = 1..n
          BY <2>1, <2>2
    <2>5. step \in Nat \ {0} /\ step <= size
          BY <2>1, <2>3
    <2> HIDE DEF n, step
    <2>6. count = n
      <3>1. CASE n = 1
            <4>1. (n - 1) * step = 0
                  BY <2>5, <3>1
            <4>2. words <= size
                  BY <2>1, <2>3, <4>1
            <4>3. QED BY <3>1, <4>2
      <3>2. CASE n > 1
            <4> DEFINE a == (words - size) + (step - 1)
                       q == n - 1
            <4>1. q \in Nat \ {0} /\ (q - 1) * step \in Nat /\ q * step \in Nat
                  BY <2>4, <2>5, <3>2
            <4>2. ((q - 1) + 1) * step = (q - 1) * step + step
                  BY <2>5, <4>1, NextMultiple
            <4>3. (q - 1) + 1 = q /\ n - 2 = q - 1
                  BY <2>4
            <4>4. words <= q * step + size /\ (q - 1) * step + size < words
                  BY <2>3, <3>2, <4>3
            <4> HIDE DEF q
            <4>5. q * step = (q - 1) * step + step
                  BY <4>2, <4>3
            <4>6. a \in Int /\ q * step <= a /\ a < q * step + step /\ size < words
                  BY <2>1, <2>5, <4>1, <4>4, <4>5
            <4> HIDE DEF a
            <4>7. a \div step = q
                  BY <2>5, <4>1, <4>6, QuotientIsUnique
            <4>8. count = 1 + q
                  BY <2>1, <4>6, <4>7 DEF a
            <4>9. QED BY <2>4, <4>8 DEF q
      <3>3. QED BY <2>4, <3>1, <3>2
    <2> HIDE DEF count
    <2>7. ASSUME NEW i \in 1..n
          PROVE  windows[i] = [from |-> (i - 1) * step,
                               to |-> IF i = n THEN words
                                               ELSE (i - 1) * step + size]
      <3>1. windows[i] \in [from : Nat, to : Nat]
            BY <2>1, <2>4, ElementOfSeq DEF n
      <3>2. windows[i].from = (i - 1) * step
            BY <2>3
      <3>3. windows[i].to = IF i = n THEN words ELSE (i - 1) * step + size
            BY <2>2, <2>3, <2>4
      <3>4. windows[i] = [from |-> windows[i].from, to |-> windows[i].to]
            BY <3>1
      <3>5. QED BY <3>2, <3>3, <3>4
    <2>8. windows = [i \in 1..n |-> windows[i]]
          BY <2>1, <2>4
    <2>9. QED
          BY <2>6, <2>7, <2>8
  <1>2. QED
        BY <1>1, LoopInvariant, WindowsAreClosedForm, PTL

=============================================================================
