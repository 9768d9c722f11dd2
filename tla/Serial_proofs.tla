---------------------------- MODULE Serial_proofs ----------------------------
(***************************************************************************)
(* A print from a host: for every length of the print, every size of the   *)
(* queues, and every number of faults and interruptions.  Its bytes: for   *)
(* every size of the receive ring.  Its commands: for every size of the    *)
(* ring of commands and every length of a line.                            *)
(***************************************************************************)
EXTENDS HostPrint, SerialRx, CmdBuffer, Induction, SequenceTheorems

-----------------------------------------------------------------------------
(* HostPrint.                                                              *)

\* What HostShape says of the elements of the queues.
LEMMA HostElements ==
    ASSUME HostShape
    PROVE  /\ Len(hostQueue) \in Nat /\ DOMAIN hostQueue = 1 .. Len(hostQueue)
           /\ \A i \in 1 .. Len(hostQueue) : hostQueue[i] \in Nat
           /\ (hostQueue = <<>> <=> Len(hostQueue) = 0)
           /\ Len(hostBlocks) \in Nat /\ DOMAIN hostBlocks = 1 .. Len(hostBlocks)
           /\ \A i \in 1 .. Len(hostBlocks) :
                hostBlocks[i].line \in Nat /\ hostBlocks[i].len \in Nat
           /\ (hostBlocks = <<>> <=> Len(hostBlocks) = 0)
           /\ Len(moved) \in Nat /\ DOMAIN moved = 1 .. Len(moved)
           /\ \A i \in 1 .. Len(moved) : moved[i] \in Nat
           /\ gcode_LastN \in Nat /\ HostProcessed \in Nat
  <1>1. hostQueue \in Seq(Nat) /\ hostBlocks \in Seq([line : Nat, len : Nat]) /\ moved \in Seq(Nat)
    BY DEF HostShape
  <1>2. /\ Len(hostQueue) \in Nat /\ DOMAIN hostQueue = 1 .. Len(hostQueue)
        /\ \A i \in 1 .. Len(hostQueue) : hostQueue[i] \in Nat
        /\ (hostQueue = <<>> <=> Len(hostQueue) = 0)
    BY <1>1
  <1>3. /\ Len(hostBlocks) \in Nat /\ DOMAIN hostBlocks = 1 .. Len(hostBlocks)
        /\ \A i \in 1 .. Len(hostBlocks) : hostBlocks[i] \in [line : Nat, len : Nat]
        /\ (hostBlocks = <<>> <=> Len(hostBlocks) = 0)
    <2> DEFINE R == [line : Nat, len : Nat]
    <2>1. hostBlocks \in Seq(R)
      BY <1>1
    <2> HIDE DEF R
    <2>2. Len(hostBlocks) \in Nat /\ DOMAIN hostBlocks = 1 .. Len(hostBlocks)
      BY <2>1
    <2>3. \A i \in 1 .. Len(hostBlocks) : hostBlocks[i] \in R
      BY <2>1
    <2>4. hostBlocks = <<>> <=> Len(hostBlocks) = 0
      BY <2>1
    <2> QED
      BY <2>2, <2>3, <2>4 DEF R
  <1>4. /\ Len(moved) \in Nat /\ DOMAIN moved = 1 .. Len(moved)
        /\ \A i \in 1 .. Len(moved) : moved[i] \in Nat
    BY <1>1
  <1> QED
    <2>1. \A r \in [line : Nat, len : Nat] : r.line \in Nat /\ r.len \in Nat
      OBVIOUS
    <2>2. \A i \in 1 .. Len(hostBlocks) : hostBlocks[i].line \in Nat /\ hostBlocks[i].len \in Nat
      BY <1>3, <2>1
    <2> QED
      BY <1>2, <1>3, <1>4, <2>2 DEF HostShape

\* The blocks stand for the lines from the first that is not done to the last
\* that has been processed.
LEMMA HostPlanned ==
    ASSUME HostShape, BlocksFollow
    PROVE  PlannedLines = HostProcessed + 1 - HostResume
  <1> DEFINE n == Len(hostBlocks)
             Body(f, i) == IF i = 0 THEN 0 ELSE f[i - 1] + hostBlocks[i].len
             sum == CHOOSE f : f = [i \in 0 .. n |-> Body(f, i)]
             V(i) == IF i = 0 THEN 0 ELSE BlockEnd(i) - hostBlocks[1].line
             w == [i \in 0 .. n |-> V(i)]
  <1>0. n \in Nat /\ (n = 0 <=> hostBlocks = <<>>)
    BY HostElements
  <1>1. PlannedLines = sum[n]
    BY DEF PlannedLines
  <1>2. \A i \in 1 .. n : V(i) = V(i - 1) + hostBlocks[i].len
    <2> SUFFICES ASSUME NEW i \in 1 .. n PROVE V(i) = V(i - 1) + hostBlocks[i].len
      OBVIOUS
    <2>1. /\ hostBlocks[i].line \in Nat /\ hostBlocks[i].len \in Nat /\ hostBlocks[1].line \in Nat
          /\ hostBlocks[i].line + hostBlocks[i].len = BlockEnd(i)
      BY HostElements DEF BlocksFollow
    <2>2. V(i - 1) = hostBlocks[i].line - hostBlocks[1].line
      <3>1. CASE i = 1
        BY <2>1, <3>1
      <3>2. CASE i > 1
        <4>1. i - 1 # 0 /\ i - 1 < n /\ (i - 1) + 1 = i
          BY <1>0, <3>2
        <4> QED
          BY <4>1 DEF BlockEnd
      <3> QED
        BY <3>1, <3>2, <1>0
    <2>3. V(i) = BlockEnd(i) - hostBlocks[1].line
      OBVIOUS
    <2> HIDE DEF V
    <2> QED
      BY <2>1, <2>2, <2>3
  <1>3. w = [i \in 0 .. n |-> Body(w, i)]
    <2> SUFFICES ASSUME NEW i \in 0 .. n PROVE V(i) = Body(w, i)
      OBVIOUS
    <2>1. CASE i = 0
      BY <2>1
    <2>2. CASE i > 0
      <3>1. w[i - 1] = V(i - 1) /\ i \in 1 .. n
        BY <1>0, <2>2
      <3> HIDE DEF w, V, n
      <3> QED
        BY <1>2, <2>2, <3>1
    <2> QED
      BY <1>0, <2>1, <2>2
  <1>4. sum = [i \in 0 .. n |-> Body(sum, i)]
    <2> HIDE DEF w, V, n
    <2> QED
      BY <1>3
  <1> HIDE DEF sum, w, V, n
  <1>5. \A i \in 0 .. n : sum[i] = V(i)
    <2> DEFINE S == {i \in Nat : i <= n => sum[i] = V(i)}
    <2>1. S \in SUBSET Nat /\ 0 \in S
      BY <1>0, <1>4 DEF V
    <2>2. ASSUME NEW i \in S PROVE i + 1 \in S
      <3>1. CASE i + 1 <= n
        <4>1. i \in Nat /\ i <= n /\ i + 1 \in 0 .. n /\ i + 1 # 0 /\ (i + 1) - 1 = i /\ i + 1 \in 1 .. n
          BY <1>0, <3>1
        <4>2. sum[i] = V(i)
          BY <4>1
        <4>3. sum[i + 1] = sum[i] + hostBlocks[i + 1].len
          BY <1>4, <4>1
        <4>4. V(i + 1) = V(i) + hostBlocks[i + 1].len
          BY <1>2, <4>1
        <4> QED
          BY <4>1, <4>2, <4>3, <4>4
      <3>2. CASE ~(i + 1 <= n)
        BY <3>2
      <3> QED
        BY <3>1, <3>2
    <2>3. S = Nat
      <3> HIDE DEF S
      <3> QED
        BY <2>1, <2>2, SetInduction
    <2> QED
      BY <1>0, <2>3
  <1>6. PlannedLines = V(n)
    BY <1>0, <1>1, <1>5
  <1>7. CASE n = 0
    BY <1>0, <1>6, <1>7, HostElements DEF V, HostResume
  <1>8. CASE n > 0
    <2>1. BlockEnd(n) = HostProcessed + 1 /\ HostResume = hostBlocks[1].line
      BY <1>0, <1>8 DEF BlockEnd, HostResume, n
    <2>2. n # 0
      BY <1>0, <1>8
    <2>3. V(n) = BlockEnd(n) - hostBlocks[1].line
      BY <2>2 DEF V
    <2>4. PlannedLines = BlockEnd(n) - hostBlocks[1].line
      BY <1>6, <2>3
    <2> QED
      <3>1. HostProcessed \in Nat /\ hostBlocks[1].line \in Nat /\ BlockEnd(n) \in Int
        BY <1>0, <1>8, <2>1, HostElements DEF n
      <3> QED
        BY <3>1, <2>1, <2>4
  <1> QED
    BY <1>0, <1>7, <1>8

\* The first line that is not done is a line behind the last processed one, or
\* a planned move before it.
LEMMA HostResumes ==
    ASSUME HostShape, BlocksFollow
    PROVE  HostResume \in Nat \ {0} /\ HostResume <= HostProcessed + 1
  <1>1. CASE hostBlocks = <<>>
    BY <1>1, HostElements DEF HostResume
  <1>2. CASE hostBlocks # <<>>
    <2>1. /\ 1 \in DOMAIN hostBlocks /\ HostResume = hostBlocks[1].line
      BY <1>2, HostElements DEF HostResume
    <2>2. hostBlocks[1].line \in HostMoves
      BY <2>1 DEF BlocksFollow
    <2>3. hostBlocks[1].line <= HostProcessed /\ hostBlocks[1].line \in 1 .. HostLines
      BY <2>1, <2>2, HostAssumption DEF BlocksFollow
    <2> QED
      BY <2>1, <2>3, HostElements
  <1> QED
    BY <1>1, <1>2

LEMMA HostInitInv == HostInit => HostInv
  <1> SUFFICES ASSUME HostInit PROVE HostInv
    OBVIOUS
  <1> USE DEF HostInit
  <1>1. HostProcessed = 0 /\ HostResume = 1
    <2>1. hostSaved = "no" /\ gcode_LastN = 0 /\ Len(hostQueue) = 0 /\ hostBlocks = <<>>
      OBVIOUS
    <2>2. HostProcessed = 0 - 0
      BY <2>1, Zenon DEF HostProcessed
    <2>3. HostResume = HostProcessed + 1
      BY <2>1, Zenon DEF HostResume
    <2> QED
      BY <2>2, <2>3
  <1>2. HostShape
    BY <1>1 DEF HostShape
  <1>3. QueueFollows /\ BlocksFollow /\ SavedIsEmpty
    BY DEF QueueFollows, BlocksFollow, SavedIsEmpty
  <1>4. ToSet(moved) = {}
    BY DEF ToSet
  <1>5. {n \in HostMoves : n < 1} = {}
    <2>1. \A n \in 1 .. HostLines : ~(n < 1)
      BY HostAssumption
    <2> QED
      BY <2>1, HostAssumption
  <1>6. DoneBefore
    BY <1>1, <1>4, <1>5 DEF DoneBefore
  <1>7. ExactlyOnceInOrder
    BY <1>4 DEF ExactlyOnceInOrder
  <1> QED
    BY <1>2, <1>3, <1>6, <1>7 DEF HostInv

\* The host and the serial line change nothing of it.
LEMMA HostFrame ==
    HostInv /\ UNCHANGED <<hostRx, hostBlocks, hostStop, hostDone>> => HostInv'
  <1> SUFFICES ASSUME HostInv, UNCHANGED <<hostRx, hostBlocks, hostStop, hostDone>> PROVE HostInv'
    OBVIOUS
  <1>1. UNCHANGED <<gcode_LastN, hostQueue, hostBlocks, hostSaved, Stopped, saved_sdpos, moved, commanded>>
    BY DEF hostRx, hostStop, hostDone
  <1>2. HostProcessed' = HostProcessed /\ HostResume' = HostResume /\ \A i : BlockEnd(i)' = BlockEnd(i)
    BY <1>1 DEF HostProcessed, HostResume, BlockEnd
  <1> QED
    BY <1>1, <1>2 DEF HostInv, HostShape, QueueFollows, BlocksFollow, SavedIsEmpty, DoneBefore, ExactlyOnceInOrder

\* A line goes to the end of the queue: what is processed and what is done
\* stay.
LEMMA HostGetStep == HostInv /\ GetLine => HostInv'
  <1> SUFFICES ASSUME HostInv, GetLine PROVE HostInv'
    OBVIOUS
  <1>1. CASE UNCHANGED hostRx
    <2>1. UNCHANGED <<hostRx, hostBlocks, hostStop, hostDone>>
      BY <1>1 DEF GetLine
    <2> QED
      BY <2>1, HostFrame
  <1>2. CASE ~UNCHANGED hostRx
    <2>1. /\ hostSaved = "no" /\ gcode_LastN' = gcode_LastN + 1
          /\ hostQueue' = Append(hostQueue, gcode_LastN + 1)
          /\ UNCHANGED <<hostBlocks, hostSaved, Stopped, saved_sdpos, moved, commanded>>
      <3>1. /\ hostSaved # "crash" /\ ~Stopped /\ Head(wire).n = gcode_LastN + 1
            /\ gcode_LastN' = Head(wire).n /\ hostQueue' = Append(hostQueue, Head(wire).n)
            /\ UNCHANGED <<hostBlocks, hostStop, hostDone>>
        BY <1>2 DEF GetLine
      <3>2. hostSaved # "thermal"
        BY <3>1 DEF HostInv, SavedIsEmpty
      <3>3. hostSaved = "no"
        BY <3>1, <3>2 DEF HostInv, HostShape
      <3> QED
        BY <3>1, <3>3 DEF hostStop, hostDone
    <2>2. /\ gcode_LastN \in Nat /\ hostQueue \in Seq(Nat) /\ Len(hostQueue) \in Nat
          /\ HostProcessed = gcode_LastN - Len(hostQueue) /\ HostProcessed \in Nat
      BY <2>1, HostElements DEF HostInv, HostShape, HostProcessed
    <2>3. /\ hostQueue' \in Seq(Nat) /\ Len(hostQueue') = Len(hostQueue) + 1
          /\ DOMAIN hostQueue' = 1 .. Len(hostQueue) + 1
          /\ \A i \in 1 .. Len(hostQueue) : hostQueue'[i] = hostQueue[i]
          /\ hostQueue'[Len(hostQueue) + 1] = gcode_LastN + 1
      BY <2>1, <2>2
    <2>4. HostProcessed' = HostProcessed
      BY <2>1, <2>2, <2>3 DEF HostProcessed
    <2>5. HostResume' = HostResume /\ \A i : BlockEnd(i)' = BlockEnd(i)
      BY <2>1, <2>4 DEF HostResume, BlockEnd
    <2>6. HostShape'
      BY <2>1, <2>2, <2>3, <2>4 DEF HostInv, HostShape
    <2>7. QueueFollows'
      <3> SUFFICES ASSUME NEW i \in DOMAIN hostQueue'
                   PROVE  hostQueue'[i] = gcode_LastN' - Len(hostQueue') + i
        BY DEF QueueFollows
      <3>0. /\ i \in 1 .. Len(hostQueue) + 1
            /\ gcode_LastN' - Len(hostQueue') + i = gcode_LastN - Len(hostQueue) + i
        BY <2>1, <2>2, <2>3
      <3>1. CASE i = Len(hostQueue) + 1
        BY <2>2, <2>3, <3>0, <3>1
      <3>2. CASE i \in 1 .. Len(hostQueue)
        <4>1. hostQueue[i] = gcode_LastN - Len(hostQueue) + i
          BY <3>2, HostElements DEF HostInv, QueueFollows
        <4> QED
          BY <2>2, <2>3, <3>0, <3>2, <4>1
      <3> QED
        BY <2>2, <3>0, <3>1, <3>2
    <2>8. BlocksFollow'
      BY <2>1, <2>4, <2>5 DEF HostInv, BlocksFollow
    <2>9. SavedIsEmpty'
      BY <2>1 DEF SavedIsEmpty
    <2>10. DoneBefore' /\ ExactlyOnceInOrder'
      BY <2>1, <2>4, <2>5 DEF HostInv, DoneBefore, ExactlyOnceInOrder
    <2> QED
      BY <2>6, <2>7, <2>8, <2>9, <2>10 DEF HostInv
  <1> QED
    BY <1>1, <1>2

\* The line is added to the last block.
LEMMA AddLengthFacts ==
    ASSUME NEW s \in Seq([line : Nat, len : Nat]), s # <<>>
    PROVE  /\ AddLength(s) \in Seq([line : Nat, len : Nat])
           /\ Len(AddLength(s)) = Len(s) /\ Len(s) \in Nat \ {0}
           /\ \A i \in 1 .. Len(s) - 1 : AddLength(s)[i] = s[i]
           /\ AddLength(s)[Len(s)].line = s[Len(s)].line
           /\ AddLength(s)[Len(s)].len = s[Len(s)].len + 1
  <1> DEFINE R == [line : Nat, len : Nat]
             n == Len(s)
             e == [s[n] EXCEPT !.len = @ + 1]
             t == [s EXCEPT ![n] = e]
  <1>1. AddLength(s) = t
    BY DEF AddLength
  <1>2. \A r \in R : /\ [r EXCEPT !.len = @ + 1] \in R
                     /\ [r EXCEPT !.len = @ + 1].line = r.line
                     /\ [r EXCEPT !.len = @ + 1].len = r.len + 1
    OBVIOUS
  <1>3. s \in Seq(R)
    OBVIOUS
  <1> HIDE DEF R
  <1>4. n \in Nat \ {0} /\ s[n] \in R /\ DOMAIN s = 1 .. n /\ \A i \in 1 .. n : s[i] \in R
    BY <1>3
  <1>5. e \in R /\ e.line = s[n].line /\ e.len = s[n].len + 1
    BY <1>2, <1>4
  <1> HIDE DEF e
  <1>6. t \in Seq(R) /\ Len(t) = n
    BY <1>3, <1>4, <1>5
  <1>7. t[n] = e /\ \A i \in 1 .. n - 1 : t[i] = s[i]
    <2>1. n \in DOMAIN s /\ \A i \in 1 .. n - 1 : i \in DOMAIN s /\ i # n
      <3>1. n \in Nat \ {0} /\ DOMAIN s = 1 .. n
        BY <1>4
      <3> HIDE DEF n
      <3> QED
        BY <3>1
    <2> QED
      BY <2>1
  <1> QED
    BY <1>1, <1>4, <1>5, <1>6, <1>7 DEF R

\* A move begins a block of its own; any other command is done, and its line
\* belongs to the last block.
LEMMA HostProcessStep == HostInv /\ ProcessLine => HostInv'
  <1> SUFFICES ASSUME HostInv, ProcessLine PROVE HostInv'
    OBVIOUS
  <1> DEFINE n == HostProcessed + 1
             b == Len(hostBlocks)
  <1>1. /\ hostQueue # <<>> /\ hostQueue' = Tail(hostQueue) /\ hostSaved = "no"
        /\ UNCHANGED <<gcode_LastN, hostSaved, Stopped, saved_sdpos, moved>>
    BY DEF ProcessLine, hostStop, HostInv, SavedIsEmpty, HostShape
  <1>2. /\ Len(hostQueue) \in Nat \ {0} /\ gcode_LastN \in Nat /\ HostProcessed \in Nat
        /\ HostProcessed = gcode_LastN - Len(hostQueue) /\ b \in Nat /\ hostQueue \in Seq(Nat)
    BY <1>1, HostElements DEF HostInv, HostShape, HostProcessed
  <1>3. Head(hostQueue) = n
    <2>1. 1 \in DOMAIN hostQueue /\ Head(hostQueue) = hostQueue[1]
      BY <1>1, <1>2, HostElements DEF HostInv
    <2>2. hostQueue[1] = gcode_LastN - Len(hostQueue) + 1
      BY <2>1 DEF HostInv, QueueFollows
    <2> QED
      BY <1>2, <2>1, <2>2
  <1>4. /\ hostQueue' \in Seq(Nat) /\ Len(hostQueue') = Len(hostQueue) - 1
        /\ DOMAIN hostQueue' = 1 .. Len(hostQueue) - 1
        /\ \A i \in 1 .. Len(hostQueue) - 1 : hostQueue'[i] = hostQueue[i + 1]
    BY <1>1, <1>2
  <1>5. HostProcessed' = n /\ n \in Nat /\ n > 0
    BY <1>1, <1>2, <1>4 DEF HostProcessed
  <1>6. QueueFollows'
    <2> SUFFICES ASSUME NEW i \in DOMAIN hostQueue'
                 PROVE  hostQueue'[i] = gcode_LastN' - Len(hostQueue') + i
      BY DEF QueueFollows
    <2>1. i \in 1 .. Len(hostQueue) - 1 /\ i + 1 \in 1 .. Len(hostQueue)
      BY <1>2, <1>4
    <2>2. hostQueue[i + 1] = gcode_LastN - Len(hostQueue) + (i + 1)
      BY <2>1, HostElements DEF HostInv, QueueFollows
    <2> QED
      BY <1>1, <1>2, <1>4, <2>1, <2>2
  <1>7. SavedIsEmpty'
    BY <1>1 DEF SavedIsEmpty
  <1>8. HostResume \in Nat \ {0} /\ HostResume <= n
    BY HostResumes DEF HostInv
  <1>b. /\ hostBlocks \in Seq([line : Nat, len : Nat]) /\ commanded \subseteq Nat
        /\ \A i \in 1 .. b : hostBlocks[i].line \in Nat /\ hostBlocks[i].len \in Nat
        /\ (hostBlocks = <<>> <=> b = 0) /\ DOMAIN hostBlocks = 1 .. b
    BY HostElements DEF HostInv, HostShape
  <1>c. \A i \in 1 .. b :
          /\ hostBlocks[i].line \in HostMoves /\ hostBlocks[i].line <= HostProcessed
          /\ hostBlocks[i].len > 0 /\ hostBlocks[i].line + hostBlocks[i].len = BlockEnd(i)
          /\ \A m \in HostMoves : ~(hostBlocks[i].line < m /\ m < BlockEnd(i))
    BY <1>b DEF HostInv, BlocksFollow
  <1>d. \A i \in 1 .. b : hostBlocks[i].line <= n
    <2>1. ASSUME NEW i \in 1 .. b PROVE hostBlocks[i].line <= n
      <3>1. hostBlocks[i].line \in Nat /\ hostBlocks[i].line <= HostProcessed
        BY <1>b, <1>c
      <3> QED
        BY <1>2, <3>1
    <2> QED
      BY <2>1
  <1>9. CASE n \in HostMoves
    <2> DEFINE new == Append(hostBlocks, [line |-> n, len |-> 0])
    <2>1. hostBlocks' = AddLength(new) /\ commanded' = commanded
      BY <1>3, <1>9 DEF ProcessLine
    <2>2. /\ new \in Seq([line : Nat, len : Nat]) /\ new # <<>> /\ Len(new) = b + 1
          /\ \A i \in 1 .. b : new[i] = hostBlocks[i]
          /\ new[b + 1].line = n /\ new[b + 1].len = 0
      <3> DEFINE r == [line |-> n, len |-> 0]
                 R == [line : Nat, len : Nat]
      <3>1. r \in R /\ r.line = n /\ r.len = 0 /\ hostBlocks \in Seq(R)
        BY <1>5, <1>b
      <3> HIDE DEF r, R
      <3>2. /\ Append(hostBlocks, r) \in Seq(R) /\ Len(Append(hostBlocks, r)) = b + 1
            /\ \A i \in 1 .. b : Append(hostBlocks, r)[i] = hostBlocks[i]
            /\ Append(hostBlocks, r)[b + 1] = r
        BY <3>1
      <3>3. Append(hostBlocks, r) # <<>>
        BY <3>2, <1>2
      <3> QED
        BY <3>1, <3>2, <3>3 DEF r, R
    <2>3. /\ hostBlocks' \in Seq([line : Nat, len : Nat]) /\ Len(hostBlocks') = b + 1
          /\ \A i \in 1 .. b : hostBlocks'[i] = hostBlocks[i]
          /\ hostBlocks'[b + 1].line = n /\ hostBlocks'[b + 1].len = 1
      <3> HIDE DEF new
      <3>1. /\ AddLength(new) \in Seq([line : Nat, len : Nat]) /\ Len(AddLength(new)) = b + 1
            /\ \A i \in 1 .. (b + 1) - 1 : AddLength(new)[i] = new[i]
            /\ AddLength(new)[b + 1].line = new[b + 1].line
            /\ AddLength(new)[b + 1].len = new[b + 1].len + 1
        BY <2>2, AddLengthFacts
      <3>2. (b + 1) - 1 = b /\ 0 + 1 = 1
        BY <1>2
      <3> QED
        BY <2>1, <2>2, <3>1, <3>2
    <2>4. DOMAIN hostBlocks' = 1 .. b + 1 /\ hostBlocks' # <<>>
      BY <1>2, <2>3
    <2>5. HostResume' = HostResume
      <3>1. HostResume' = hostBlocks'[1].line
        BY <2>4 DEF HostResume
      <3>2. CASE b = 0
        BY <1>b, <2>3, <3>1, <3>2 DEF HostResume
      <3>3. CASE b # 0
        <4>1. 1 \in 1 .. b
          BY <1>2, <3>3
        <4> QED
          BY <1>b, <2>3, <3>1, <3>3, <4>1 DEF HostResume
      <3> QED
        BY <3>2, <3>3
    <2>6. /\ \A i \in 1 .. b : BlockEnd(i)' = BlockEnd(i)
          /\ \A i : i = b + 1 => BlockEnd(i)' = n + 1
      <3>1. \A i : i = b + 1 => BlockEnd(i)' = n + 1
        BY <1>2, <1>5, <2>3 DEF BlockEnd
      <3>2. ASSUME NEW i \in 1 .. b PROVE BlockEnd(i)' = BlockEnd(i)
        <4>1. BlockEnd(i)' = hostBlocks'[i + 1].line
          BY <1>2, <2>3 DEF BlockEnd
        <4>2. CASE i < b
          <5>1. i + 1 \in 1 .. b
            BY <1>2, <4>2
          <5> QED
            BY <2>3, <4>1, <4>2, <5>1 DEF BlockEnd
        <4>3. CASE i = b
          BY <1>2, <2>3, <4>1, <4>3 DEF BlockEnd
        <4> QED
          BY <1>2, <4>2, <4>3
      <3> QED
        BY <3>1, <3>2
    <2>7. BlocksFollow'
      <3> SUFFICES ASSUME NEW i \in 1 .. b + 1
                   PROVE  /\ hostBlocks'[i].line \in HostMoves /\ hostBlocks'[i].line <= n
                          /\ hostBlocks'[i].len > 0
                          /\ hostBlocks'[i].line + hostBlocks'[i].len = BlockEnd(i)'
                          /\ \A m \in HostMoves : ~(hostBlocks'[i].line < m /\ m < BlockEnd(i)')
        BY <1>5, <2>4 DEF BlocksFollow
      <3>1. CASE i \in 1 .. b
        <4>1. hostBlocks'[i] = hostBlocks[i] /\ BlockEnd(i)' = BlockEnd(i)
          BY <2>3, <2>6, <3>1
        <4> HIDE DEF n
        <4> QED
          BY <1>c, <1>d, <3>1, <4>1
      <3>2. CASE i = b + 1
        <4>1. \A m \in HostMoves : ~(n < m /\ m < n + 1)
          <5>1. \A m \in 1 .. HostLines : ~(n < m /\ m < n + 1)
            <6> HIDE DEF n
            <6> QED
              BY <1>5, HostAssumption
          <5> QED
            BY <5>1, HostAssumption
        <4>2. hostBlocks'[i].line = n /\ hostBlocks'[i].len = 1 /\ BlockEnd(i)' = n + 1
          BY <2>3, <2>6, <3>2
        <4>3. n <= n /\ 1 > 0
          BY <1>5
        <4> HIDE DEF n
        <4> QED
          BY <1>9, <4>1, <4>2, <4>3
      <3> QED
        BY <1>2, <3>1, <3>2
    <2>8. HostShape'
      BY <1>1, <1>2, <1>4, <1>5, <2>1, <2>3 DEF HostInv, HostShape
    <2>9. DoneBefore'
      <3>1. \A k \in 1 .. n : k \notin HostMoves => k \in 1 .. HostProcessed
        BY <1>2, <1>9
      <3> QED
        BY <1>1, <1>5, <2>1, <2>5, <3>1 DEF HostInv, DoneBefore
    <2>10. ExactlyOnceInOrder'
      BY <1>1, <2>1 DEF HostInv, ExactlyOnceInOrder
    <2> QED
      BY <1>6, <1>7, <2>7, <2>8, <2>9, <2>10 DEF HostInv
  <1>10. CASE n \notin HostMoves
    <2>1. hostBlocks' = AddLength(hostBlocks) /\ commanded' = commanded \union {n}
      BY <1>3, <1>10 DEF ProcessLine
    <2>2. ExactlyOnceInOrder'
      <3>1. \A k \in 1 .. n - 1 : k \notin HostMoves => k \in commanded
        <4>1. n - 1 = HostProcessed
          BY <1>2
        <4> QED
          BY <4>1 DEF HostInv, DoneBefore
      <3> QED
        BY <1>1, <2>1, <3>1 DEF HostInv, ExactlyOnceInOrder
    <2>3. \A k \in 1 .. n : k \notin HostMoves => k \in commanded'
      <3>1. \A k \in 1 .. n : k \in 1 .. HostProcessed \/ k = n
        BY <1>2
      <3> QED
        BY <2>1, <3>1 DEF HostInv, DoneBefore
    <2>4. CASE b = 0
      <3>1. hostBlocks = <<>> /\ hostBlocks' = <<>> /\ HostResume = n
        BY <1>b, <2>1, <2>4 DEF AddLength, HostResume
      <3>2. HostResume' = n + 1
        BY <1>5, <3>1 DEF HostResume
      <3>3. {m \in HostMoves : m < n + 1} = {m \in HostMoves : m < n}
        <4>1. \A m \in 1 .. HostLines : m < n + 1 => m < n \/ m = n
          BY <1>5, HostAssumption
        <4>2. \A m \in 1 .. HostLines : m < n => m < n + 1
          BY <1>5, HostAssumption
        <4> QED
          BY <1>10, <4>1, <4>2, HostAssumption
      <3>4. DoneBefore'
        BY <1>1, <1>5, <2>3, <3>1, <3>2, <3>3 DEF HostInv, DoneBefore
      <3>5. BlocksFollow'
        BY <3>1 DEF BlocksFollow
      <3>6. HostShape'
        BY <1>1, <1>2, <1>4, <1>5, <2>1, <3>1 DEF HostInv, HostShape
      <3> QED
        BY <1>6, <1>7, <2>2, <3>4, <3>5, <3>6 DEF HostInv
    <2>5. CASE b # 0
      <3>1. /\ hostBlocks' \in Seq([line : Nat, len : Nat]) /\ Len(hostBlocks') = b
            /\ \A i \in 1 .. b - 1 : hostBlocks'[i] = hostBlocks[i]
            /\ hostBlocks'[b].line = hostBlocks[b].line
            /\ hostBlocks'[b].len = hostBlocks[b].len + 1
        BY <1>b, <2>1, <2>5, AddLengthFacts
      <3>2. DOMAIN hostBlocks' = 1 .. b /\ hostBlocks' # <<>>
        BY <1>2, <2>5, <3>1
      <3>3. \A i \in 1 .. b : hostBlocks'[i].line = hostBlocks[i].line
        <4>1. \A i \in 1 .. b : i = b \/ i \in 1 .. b - 1
          BY <1>2
        <4> QED
          BY <3>1, <4>1
      <3>4. HostResume' = HostResume
        <4>1. 1 \in 1 .. b
          BY <1>2, <2>5
        <4> QED
          BY <1>b, <2>5, <3>2, <3>3, <4>1 DEF HostResume
      <3>5. /\ \A i \in 1 .. b - 1 : BlockEnd(i)' = BlockEnd(i)
            /\ BlockEnd(b)' = n + 1 /\ BlockEnd(b) = n
        <4>1. BlockEnd(b)' = n + 1 /\ BlockEnd(b) = n
          BY <1>2, <1>5, <3>1 DEF BlockEnd
        <4>2. ASSUME NEW i \in 1 .. b - 1 PROVE BlockEnd(i)' = BlockEnd(i)
          <5>1. i + 1 \in 1 .. b /\ i < b
            BY <1>2
          <5> QED
            BY <3>1, <3>3, <5>1 DEF BlockEnd
        <4> QED
          BY <4>1, <4>2
      <3>6. BlocksFollow'
        <4> SUFFICES ASSUME NEW i \in 1 .. b
                     PROVE  /\ hostBlocks'[i].line \in HostMoves /\ hostBlocks'[i].line <= n
                            /\ hostBlocks'[i].len > 0
                            /\ hostBlocks'[i].line + hostBlocks'[i].len = BlockEnd(i)'
                            /\ \A m \in HostMoves : ~(hostBlocks'[i].line < m /\ m < BlockEnd(i)')
          BY <1>5, <3>2 DEF BlocksFollow
        <4>1. hostBlocks'[i].line \in HostMoves /\ hostBlocks'[i].line <= n
          <5> HIDE DEF n
          <5> QED
            BY <1>c, <1>d, <3>3
        <4>2. CASE i \in 1 .. b - 1
          BY <1>2, <1>c, <3>1, <3>5, <4>1, <4>2
        <4>3. CASE i = b
          <5>1. hostBlocks'[b].len > 0 /\ hostBlocks'[b].line + hostBlocks'[b].len = n + 1
            <6>1. /\ b \in 1 .. b /\ hostBlocks[b].line + hostBlocks[b].len = n
                  /\ hostBlocks[b].line \in Nat /\ hostBlocks[b].len \in Nat
              BY <1>2, <1>b, <1>c, <2>5, <3>5
            <6> QED
              BY <1>5, <3>1, <6>1
          <5>2. ASSUME NEW m \in HostMoves, hostBlocks[b].line < m, m < n + 1 PROVE FALSE
            <6>1. m \in 1 .. HostLines
              BY HostAssumption
            <6>2. m < n
              BY <1>5, <1>10, <5>2, <6>1, HostAssumption
            <6> QED
              BY <1>2, <1>c, <2>5, <3>5, <5>2, <6>2
          <5> QED
            BY <3>1, <3>5, <4>1, <4>3, <5>1, <5>2
        <4> QED
          BY <1>2, <4>2, <4>3
      <3>7. DoneBefore'
        BY <1>1, <1>5, <2>3, <3>4 DEF HostInv, DoneBefore
      <3>8. HostShape'
        BY <1>1, <1>2, <1>4, <1>5, <2>1, <3>1 DEF HostInv, HostShape
      <3> QED
        BY <1>6, <1>7, <2>2, <3>6, <3>7, <3>8 DEF HostInv
    <2> QED
      BY <2>4, <2>5
  <1> QED
    BY <1>9, <1>10

\* A block is done: its move was the next one, and no move lies before the
\* end of the block.
LEMMA HostFinishStep == HostInv /\ FinishBlock => HostInv'
  <1> SUFFICES ASSUME HostInv, FinishBlock PROVE HostInv'
    OBVIOUS
  <1> DEFINE b == Len(hostBlocks)
             m == Len(moved)
             r == hostBlocks[1].line
  <1>1. /\ hostBlocks # <<>> /\ hostBlocks' = Tail(hostBlocks) /\ moved' = Append(moved, Head(hostBlocks).line)
        /\ UNCHANGED <<gcode_LastN, hostQueue, hostSaved, Stopped, saved_sdpos, commanded>>
    BY DEF FinishBlock, hostRx, hostStop
  <1>2. /\ b \in Nat \ {0} /\ m \in Nat /\ HostProcessed \in Nat
        /\ DOMAIN hostBlocks = 1 .. b /\ moved \in Seq(Nat) /\ 1 \in 1 .. b
        /\ hostBlocks \in Seq([line : Nat, len : Nat])
        /\ \A i \in 1 .. b : hostBlocks[i].line \in Nat /\ hostBlocks[i].len \in Nat
        /\ DOMAIN moved = 1 .. m
    BY <1>1, HostElements DEF HostInv, HostShape
  <1>3. /\ hostBlocks' \in Seq([line : Nat, len : Nat]) /\ Len(hostBlocks') = b - 1
        /\ DOMAIN hostBlocks' = 1 .. b - 1 /\ Head(hostBlocks) = hostBlocks[1]
        /\ \A i \in 1 .. b - 1 : hostBlocks'[i] = hostBlocks[i + 1]
        /\ (hostBlocks' = <<>> <=> b = 1)
    <2> DEFINE R == [line : Nat, len : Nat]
    <2>1. hostBlocks \in Seq(R) /\ hostBlocks # <<>> /\ hostBlocks' = Tail(hostBlocks)
      BY <1>1, <1>2
    <2> HIDE DEF R
    <2>2. /\ hostBlocks' \in Seq(R) /\ Len(hostBlocks') = b - 1 /\ Head(hostBlocks) = hostBlocks[1]
      BY <2>1, <1>2
    <2>3. /\ DOMAIN hostBlocks' = 1 .. b - 1
          /\ \A i \in 1 .. b - 1 : hostBlocks'[i] = hostBlocks[i + 1]
      BY <2>1, <2>2, <1>2
    <2>4. hostBlocks' = <<>> <=> b = 1
      BY <2>2, <1>2
    <2> QED
      BY <2>2, <2>3, <2>4 DEF R
  <1>4. /\ moved' = Append(moved, r) /\ r \in Nat /\ moved' \in Seq(Nat) /\ Len(moved') = m + 1
        /\ DOMAIN moved' = 1 .. m + 1 /\ moved'[m + 1] = r
        /\ \A i \in 1 .. m : moved'[i] = moved[i]
    <2>1. moved' = Append(moved, r) /\ r \in Nat
      BY <1>1, <1>2, <1>3
    <2> HIDE DEF r
    <2> QED
      BY <1>2, <2>1
  <1>5. HostProcessed' = HostProcessed
    BY <1>1 DEF HostProcessed
  <1>6. \A i \in 1 .. b - 1 : i + 1 \in 1 .. b /\ BlockEnd(i)' = BlockEnd(i + 1)
    <2> SUFFICES ASSUME NEW i \in 1 .. b - 1 PROVE i + 1 \in 1 .. b /\ BlockEnd(i)' = BlockEnd(i + 1)
      OBVIOUS
    <2>1. i + 1 \in 1 .. b /\ (i < b - 1 <=> i + 1 < b)
      BY <1>2
    <2>2. CASE i < b - 1
      <3>0. i + 1 \in 1 .. b - 1
        <4>1. b \in Nat
          BY <1>2
        <4> HIDE DEF b
        <4> QED
          BY <4>1, <2>2
      <3>1. i + 1 \in 1 .. b - 1 /\ hostBlocks'[i + 1] = hostBlocks[(i + 1) + 1]
        BY <1>3, <3>0
      <3>2. BlockEnd(i)' = hostBlocks'[i + 1].line
        BY <1>3, <2>2 DEF BlockEnd
      <3>3. BlockEnd(i + 1) = hostBlocks[(i + 1) + 1].line
        BY <2>1, <2>2 DEF BlockEnd
      <3> QED
        BY <2>1, <3>1, <3>2, <3>3
    <2>3. CASE ~(i < b - 1)
      BY <1>3, <1>5, <2>1, <2>3 DEF BlockEnd
    <2> QED
      BY <2>1, <2>2, <2>3
  <1>7. HostResume = r /\ HostResume' = BlockEnd(1)
    <2>1. HostResume = r
      BY <1>1 DEF HostResume
    <2>2. CASE b = 1
      BY <1>3, <1>5, <2>2 DEF HostResume, BlockEnd
    <2>3. CASE b # 1
      <3>1. hostBlocks' # <<>> /\ hostBlocks'[1] = hostBlocks[1 + 1] /\ 1 < b
        BY <1>2, <1>3, <2>3
      <3> QED
        BY <3>1 DEF HostResume, BlockEnd
    <2> QED
      BY <2>1, <2>2, <2>3
  <1>8. /\ r \in HostMoves /\ r <= HostProcessed /\ hostBlocks[1].len > 0
        /\ r + hostBlocks[1].len = BlockEnd(1)
        /\ \A n \in HostMoves : ~(r < n /\ n < BlockEnd(1))
    BY <1>2 DEF HostInv, BlocksFollow
  <1>9. {n \in HostMoves : n < BlockEnd(1)} = {n \in HostMoves : n < r} \union {r}
    <2>1. BlockEnd(1) \in Nat /\ r < BlockEnd(1) /\ r \in Nat
      BY <1>2, <1>4, <1>8
    <2>2. \A n \in 1 .. HostLines : /\ n < r \/ n = r \/ r < n
                                   /\ n < r => n < BlockEnd(1)
      <3> HIDE DEF r
      <3> QED
        BY <2>1, HostAssumption
    <2>3. HostMoves \subseteq 1 .. HostLines
      BY HostAssumption
    <2> HIDE DEF r
    <2> QED
      BY <1>8, <2>1, <2>2, <2>3
  <1>10. ToSet(moved) = {n \in HostMoves : n < r} /\ ToSet(moved') = ToSet(moved) \union {r}
    <2>1. ToSet(moved) = {n \in HostMoves : n < r}
      BY <1>7 DEF HostInv, DoneBefore
    <2>2. ToSet(moved) = {moved[i] : i \in 1 .. m}
      BY <1>2 DEF ToSet
    <2>3. ToSet(moved') = {moved'[i] : i \in 1 .. m + 1}
      BY <1>4 DEF ToSet
    <2>4. \A i : i \in 1 .. m + 1 <=> i \in 1 .. m \/ i = m + 1
      BY <1>2
    <2> HIDE DEF r, m
    <2> QED
      BY <1>4, <2>1, <2>2, <2>3, <2>4
  <1>11. DoneBefore'
    BY <1>1, <1>5, <1>7, <1>9, <1>10 DEF HostInv, DoneBefore
  <1>12. BlocksFollow'
    <2> SUFFICES ASSUME NEW i \in 1 .. b - 1
                 PROVE  /\ hostBlocks'[i].line \in HostMoves /\ hostBlocks'[i].line <= HostProcessed
                        /\ hostBlocks'[i].len > 0
                        /\ hostBlocks'[i].line + hostBlocks'[i].len = BlockEnd(i)'
                        /\ \A n \in HostMoves : ~(hostBlocks'[i].line < n /\ n < BlockEnd(i)')
      BY <1>3, <1>5 DEF BlocksFollow
    <2>1. i + 1 \in 1 .. b /\ BlockEnd(i)' = BlockEnd(i + 1) /\ hostBlocks'[i] = hostBlocks[i + 1]
      BY <1>3, <1>6
    <2>2. /\ hostBlocks[i + 1].line \in HostMoves /\ hostBlocks[i + 1].line <= HostProcessed
          /\ hostBlocks[i + 1].len > 0
          /\ hostBlocks[i + 1].line + hostBlocks[i + 1].len = BlockEnd(i + 1)
          /\ \A n \in HostMoves : ~(hostBlocks[i + 1].line < n /\ n < BlockEnd(i + 1))
      BY <1>2, <2>1 DEF HostInv, BlocksFollow
    <2> QED
      BY <2>1, <2>2
  <1>13. HostShape'
    BY <1>1, <1>3, <1>4, <1>5 DEF HostInv, HostShape
  <1>14. QueueFollows' /\ SavedIsEmpty'
    <2>1. QueueFollows'
      BY <1>1 DEF HostInv, QueueFollows
    <2>2. hostSaved = "no"
      BY <1>1 DEF HostInv, SavedIsEmpty
    <2> QED
      BY <1>1, <2>1, <2>2 DEF SavedIsEmpty
  <1>15. ExactlyOnceInOrder'
    <2>1. ASSUME NEW i \in DOMAIN moved'
          PROVE  /\ moved'[i] \in HostMoves
                 /\ {n \in HostMoves : n < moved'[i]} = {moved'[j] : j \in 1 .. i - 1}
      <3>1. CASE i \in 1 .. m
        <4>1. \A j \in 1 .. i - 1 : j \in 1 .. m
          BY <1>2, <3>1
        <4>2. moved'[i] = moved[i] /\ {moved'[j] : j \in 1 .. i - 1} = {moved[j] : j \in 1 .. i - 1}
          BY <1>4, <3>1, <4>1
        <4> QED
          BY <1>2, <3>1, <4>2 DEF HostInv, ExactlyOnceInOrder
      <3>2. CASE i = m + 1
        <4>1. i - 1 = m
          BY <1>2, <3>2
        <4>2. {moved'[j] : j \in 1 .. m} = ToSet(moved)
          BY <1>2, <1>4 DEF ToSet
        <4> QED
          BY <1>4, <1>8, <1>10, <3>2, <4>1, <4>2
      <3> QED
        <4>1. i \in 1 .. m + 1
          BY <1>4
        <4>2. i \in 1 .. m \/ i = m + 1
          <5>1. m \in Nat
            BY <1>2
          <5> HIDE DEF m
          <5> QED
            BY <4>1, <5>1
        <4> QED
          BY <3>1, <3>2, <4>2
    <2>2. ASSUME NEW n \in commanded' \union ToSet(moved'), NEW k \in 1 .. n - 1, k \notin HostMoves
          PROVE  k \in commanded'
      <3>1. CASE n = r
        <4>1. k \in 1 .. HostProcessed
          BY <1>2, <1>4, <1>8, <3>1
        <4> QED
          BY <1>1, <2>2, <4>1 DEF HostInv, DoneBefore
      <3>2. CASE n \in commanded \union ToSet(moved)
        BY <1>1, <2>2, <3>2 DEF HostInv, ExactlyOnceInOrder
      <3> QED
        BY <1>1, <1>10, <3>1, <3>2
    <2> QED
      BY <2>1, <2>2 DEF ExactlyOnceInOrder
  <1> QED
    BY <1>11, <1>12, <1>13, <1>14, <1>15 DEF HostInv

\* The print is saved: nothing is queued or planned any more, and what was is
\* not counted as processed.
LEMMA HostSaveStep == HostInv /\ PlannedLines < LINES_MOD /\ SaveHostPrint => HostInv'
  <1> SUFFICES ASSUME HostInv, PlannedLines < LINES_MOD, SaveHostPrint PROVE HostInv'
    OBVIOUS
  <1>1. /\ hostSaved = "no" /\ hostSaved' \in {"crash", "thermal"} /\ Stopped' = (hostSaved' = "thermal")
        /\ saved_sdpos' = ResumeLine /\ hostQueue' = <<>> /\ hostBlocks' = <<>>
        /\ UNCHANGED <<gcode_LastN, moved, commanded>>
    BY DEF SaveHostPrint, hostDone
  <1>2. /\ gcode_LastN \in Nat /\ Len(hostQueue) \in Nat /\ HostProcessed \in Nat
        /\ HostProcessed = gcode_LastN - Len(hostQueue)
        /\ HostResume \in Nat \ {0} /\ HostResume <= HostProcessed + 1
    BY <1>1, HostElements, HostResumes DEF HostInv, HostProcessed
  <1>3. PlannedLines = HostProcessed + 1 - HostResume
    BY HostPlanned DEF HostInv
  <1>4. PlannedLines % LINES_MOD = PlannedLines
    <2>1. PlannedLines \in Nat /\ LINES_MOD \in Nat \ {0}
      BY <1>2, <1>3, HostAssumption
    <2> QED
      BY <2>1
  <1>5. saved_sdpos' = HostResume - 1
    BY <1>1, <1>2, <1>3, <1>4 DEF ResumeLine
  <1>6. HostProcessed' = HostResume - 1 /\ HostResume' = HostResume
    BY <1>1, <1>2, <1>5 DEF HostProcessed, HostResume
  <1>7. HostShape'
    BY <1>1, <1>2, <1>5, <1>6 DEF HostInv, HostShape
  <1>8. QueueFollows' /\ BlocksFollow' /\ SavedIsEmpty'
    <2>1. QueueFollows' /\ BlocksFollow'
      BY <1>1 DEF QueueFollows, BlocksFollow
    <2>2. SavedIsEmpty'
      BY <1>1, Zenon DEF SavedIsEmpty
    <2> QED
      BY <2>1, <2>2
  <1>9. DoneBefore'
    <2>1. \A k \in 1 .. HostResume - 1 : k \in 1 .. HostProcessed
      BY <1>2
    <2> QED
      BY <1>1, <1>6, <2>1 DEF HostInv, DoneBefore
  <1>10. ExactlyOnceInOrder'
    BY <1>1 DEF HostInv, ExactlyOnceInOrder
  <1> QED
    BY <1>7, <1>8, <1>9, <1>10 DEF HostInv

\* It is restored: the line it was saved with becomes the last one received.
LEMMA HostRestoreStep == HostInv /\ RestoreHostPrint => HostInv'
  <1> SUFFICES ASSUME HostInv, RestoreHostPrint PROVE HostInv'
    OBVIOUS
  <1>1. /\ hostSaved # "no" /\ hostSaved' = "no" /\ gcode_LastN' = saved_sdpos
        /\ hostQueue = <<>> /\ hostBlocks = <<>>
        /\ UNCHANGED <<hostQueue, hostBlocks, saved_sdpos, moved, commanded>>
    BY DEF RestoreHostPrint, hostDone, HostInv, SavedIsEmpty
  <1>2. saved_sdpos \in Nat /\ HostProcessed = saved_sdpos
    BY <1>1 DEF HostInv, HostShape, HostProcessed
  <1>3. HostProcessed' = saved_sdpos
    <2>1. HostProcessed' = saved_sdpos - 0
      BY <1>1 DEF HostProcessed
    <2> QED
      BY <1>2, <2>1
  <1>4. HostResume' = HostResume
    BY <1>1, <1>2, <1>3 DEF HostResume
  <1>5. HostShape'
    BY <1>1, <1>2, <1>3 DEF HostInv, HostShape
  <1>6. QueueFollows' /\ BlocksFollow' /\ SavedIsEmpty'
    BY <1>1 DEF QueueFollows, BlocksFollow, SavedIsEmpty
  <1>7. DoneBefore' /\ ExactlyOnceInOrder'
    BY <1>1, <1>2, <1>3, <1>4 DEF HostInv, DoneBefore, ExactlyOnceInOrder
  <1> QED
    BY <1>5, <1>6, <1>7 DEF HostInv

LEMMA HostStepInv == HostInv /\ PlannedLines < LINES_MOD /\ [HostNextStep]_hostVars => HostInv'
  <1> SUFFICES ASSUME HostInv, PlannedLines < LINES_MOD, [HostNextStep]_hostVars PROVE HostInv'
    OBVIOUS
  <1>1. CASE HostSend \/ HostReads \/ HostTimeout \/ UNCHANGED hostVars
    <2>1. UNCHANGED <<hostRx, hostBlocks, hostStop, hostDone>>
      BY <1>1 DEF HostSend, HostReads, HostTimeout, hostVars
    <2> QED
      BY <2>1, HostFrame
  <1> QED
    BY <1>1, HostGetStep, HostProcessStep, HostFinishStep, HostSaveStep, HostRestoreStep DEF HostNextStep

\* Whatever is lost, garbled, late or sent again, and wherever the print is
\* interrupted: its moves are made once each and in order and none of its
\* commands is left out, as long as the lines in the planner can be counted
\* in the byte of save_print_file_state().
THEOREM HostLinesOnce ==
    HostSpec /\ [](PlannedLines < LINES_MOD) => []ExactlyOnceInOrder
  <1>1. HostInv => ExactlyOnceInOrder
    BY DEF HostInv
  <1> QED
    BY <1>1, HostInitInv, HostStepInv, PTL DEF HostSpec

\* What is on its way between the host and the printer.
HostWire    == [n : 1 .. HostLines, ok : BOOLEAN]
HostReplies == [t : {"ok", "resend"}, n : 0 .. HostLines + 1]

\* No line is numbered, asked for or resumed from that the print does not have:
\* a host that waits has sent a line, so it can go back to it, and line 0 is
\* never asked for.
HostBounds ==
  /\ hostNext \in 1 .. HostLines + 1 /\ hostWaiting \in BOOLEAN
  /\ hostWaiting => hostNext > 1
  /\ wire \in Seq(HostWire) /\ replies \in Seq(HostReplies)
  /\ \A i \in 1 .. Len(replies) : replies[i].t = "resend" => replies[i].n > 0
  /\ gcode_LastN \in 0 .. HostLines /\ saved_sdpos \in 0 .. HostLines
  /\ Stopped \in BOOLEAN /\ hostSaved \in {"no", "crash", "thermal"}

LEMMA HostBoundsInit == HostInit => HostBounds
  <1> SUFFICES ASSUME HostInit PROVE HostBounds
    OBVIOUS
  <1>1. hostWaiting \in BOOLEAN /\ ~hostWaiting /\ Stopped \in BOOLEAN
    BY Zenon DEF HostInit
  <1>2. /\ hostNext \in 1 .. HostLines + 1
        /\ gcode_LastN \in 0 .. HostLines /\ saved_sdpos \in 0 .. HostLines
    BY HostAssumption DEF HostInit
  <1>3. wire \in Seq(HostWire) /\ replies \in Seq(HostReplies) /\ Len(replies) = 0
    BY DEF HostInit
  <1> QED
    BY <1>1, <1>2, <1>3 DEF HostInit, HostBounds

\* Lines and replies that are added and taken away.
LEMMA HostLine == ASSUME NEW n \in 1 .. HostLines, NEW b \in BOOLEAN, wire \in Seq(HostWire)
                  PROVE  Append(wire, Line(n, b)) \in Seq(HostWire)
  <1>1. Line(n, b) \in HostWire
    BY DEF Line, HostWire
  <1> QED
    BY <1>1

LEMMA HostReply ==
    ASSUME HostBounds, NEW r \in HostReplies, r.t = "resend" => r.n > 0
    PROVE  /\ Append(replies, r) \in Seq(HostReplies)
           /\ \A i \in 1 .. Len(Append(replies, r)) :
                Append(replies, r)[i].t = "resend" => Append(replies, r)[i].n > 0
  <1>1. replies \in Seq(HostReplies)
        /\ \A i \in 1 .. Len(replies) : replies[i].t = "resend" => replies[i].n > 0
    BY DEF HostBounds
  <1> DEFINE R == Append(replies, r)
  <1>2. /\ R \in Seq(HostReplies) /\ Len(R) = Len(replies) + 1 /\ Len(replies) \in Nat
        /\ \A i \in 1 .. Len(replies) : R[i] = replies[i]
        /\ R[Len(replies) + 1] = r
    BY <1>1
  <1> HIDE DEF R
  <1>3. \A i \in 1 .. Len(R) : R[i].t = "resend" => R[i].n > 0
    <2> TAKE i \in 1 .. Len(R)
    <2>1. CASE i = Len(replies) + 1
      BY <1>2, <2>1
    <2>2. CASE i \in 1 .. Len(replies)
      BY <1>1, <1>2, <2>2
    <2> QED
      BY <1>2, <2>1, <2>2
  <1> QED
    BY <1>2, <1>3 DEF R

LEMMA HostFlush ==
    ASSUME HostBounds, NEW last \in 0 .. HostLines, NEW rest \in Seq(HostWire),
           FlushSerialRequestResend(last, rest)
    PROVE  /\ wire' \in Seq(HostWire) /\ replies' \in Seq(HostReplies)
           /\ \A i \in 1 .. Len(replies') : replies'[i].t = "resend" => replies'[i].n > 0
  <1>1. wire' \in Seq(HostWire)
    <2>1. wire' = <<>> \/ wire' = rest
      BY DEF FlushSerialRequestResend
    <2>2. <<>> \in Seq(HostWire)
      OBVIOUS
    <2> QED
      BY <2>1, <2>2
  <1> DEFINE r == Resend(last + 1)
  <1>2. r \in HostReplies /\ r.n > 0 /\ replies' = Append(replies, r)
    BY HostAssumption DEF FlushSerialRequestResend, Resend, HostReplies
  <1> HIDE DEF r
  <1> QED
    BY <1>1, <1>2, HostReply

LEMMA HostReadsBounds == HostBounds /\ HostReads => HostBounds'
  <1> SUFFICES ASSUME HostBounds, HostReads PROVE HostBounds'
    OBVIOUS
  <1> USE DEF HostBounds
  <1>1. /\ replies # <<>> /\ replies' = Tail(replies)
        /\ hostNext' = (IF Head(replies).t = "resend" THEN Head(replies).n ELSE hostNext)
        /\ UNCHANGED <<wire, gcode_LastN, saved_sdpos, Stopped, hostSaved>>
    BY DEF HostReads, hostRx, hostStop
  <1>2. hostWaiting' \in BOOLEAN /\ ~hostWaiting'
    BY Zenon DEF HostReads
  <1>3. /\ replies' \in Seq(HostReplies) /\ Head(replies) \in HostReplies
        /\ Len(replies) \in Nat \ {0} /\ Len(replies') = Len(replies) - 1
        /\ Head(replies) = replies[1] /\ \A i \in 1 .. Len(replies') : replies'[i] = replies[i + 1]
    BY <1>1
  <1>4. \A i \in 1 .. Len(replies') : replies'[i].t = "resend" => replies'[i].n > 0
    <2> TAKE i \in 1 .. Len(replies')
    <2>1. i + 1 \in 1 .. Len(replies) /\ replies'[i] = replies[i + 1]
      BY <1>3
    <2> QED
      BY <2>1
  <1>5. hostNext' \in 1 .. HostLines + 1
    <2>1. 1 \in 1 .. Len(replies)
      BY <1>3
    <2>2. Head(replies).t = "resend" => Head(replies).n > 0
      BY <1>3, <2>1
    <2>3. Head(replies).n \in 0 .. HostLines + 1
      BY <1>3 DEF HostReplies
    <2> QED
      BY <1>1, <2>2, <2>3, HostAssumption
  <1> QED
    BY <1>1, <1>2, <1>3, <1>4, <1>5

LEMMA HostSendBounds == HostBounds /\ (HostSend \/ HostTimeout) => HostBounds'
  <1> SUFFICES ASSUME HostBounds, HostSend \/ HostTimeout PROVE HostBounds'
    OBVIOUS
  <1> USE HostAssumption DEF HostBounds
  <1>1. UNCHANGED <<replies, gcode_LastN, saved_sdpos, Stopped, hostSaved>>
    BY DEF HostSend, HostTimeout, hostRx, hostStop
  <1>2. CASE HostSend
    <2>1. /\ hostNext <= HostLines /\ hostNext' = hostNext + 1
          /\ wire' \in {wire, Append(wire, Line(hostNext, TRUE)), Append(wire, Line(hostNext, FALSE))}
      BY <1>2 DEF HostSend
    <2>2. hostWaiting' \in BOOLEAN /\ hostWaiting'
      BY <1>2, Zenon DEF HostSend
    <2>3. hostNext \in 1 .. HostLines
      BY <2>1
    <2>4. wire' \in Seq(HostWire)
      <3>1. /\ Append(wire, Line(hostNext, TRUE)) \in Seq(HostWire)
            /\ Append(wire, Line(hostNext, FALSE)) \in Seq(HostWire)
        BY <2>3, HostLine
      <3> QED
        BY <2>1, <3>1
    <2> QED
      BY <1>1, <2>1, <2>2, <2>3, <2>4
  <1>3. CASE HostTimeout
    <2>1. /\ hostNext' = hostNext - 1 /\ wire' = wire
          /\ hostWaiting \/ hostNext > HostLines
      BY <1>3 DEF HostTimeout
    <2>2. hostWaiting' \in BOOLEAN /\ ~hostWaiting'
      BY <1>3, Zenon DEF HostTimeout
    <2>3. hostNext > 1
      BY <2>1
    <2>4. hostNext' \in 1 .. HostLines + 1
      BY <2>1, <2>3
    <2> QED
      BY <1>1, <2>1, <2>2, <2>4
  <1> QED
    BY <1>2, <1>3

LEMMA HostGetBounds == HostInv /\ HostBounds /\ GetLine => HostBounds'
  <1> SUFFICES ASSUME HostBounds, GetLine PROVE HostBounds'
    OBVIOUS
  <1>1. /\ wire # <<>> /\ UNCHANGED <<hostNext, hostWaiting, saved_sdpos, Stopped, hostSaved>>
    BY DEF GetLine, hostSide, hostStop
  <1>2. /\ Head(wire) \in HostWire /\ Tail(wire) \in Seq(HostWire)
    BY <1>1 DEF HostBounds
  <1>3. CASE FlushSerialRequestResend(gcode_LastN, Tail(wire)) /\ UNCHANGED hostRx
    <2>1. gcode_LastN \in 0 .. HostLines /\ gcode_LastN' = gcode_LastN
      BY <1>3 DEF HostBounds, hostRx
    <2>2. /\ wire' \in Seq(HostWire) /\ replies' \in Seq(HostReplies)
          /\ \A i \in 1 .. Len(replies') : replies'[i].t = "resend" => replies'[i].n > 0
      BY <1>2, <1>3, <2>1, HostFlush
    <2> QED
      BY <1>1, <2>1, <2>2 DEF HostBounds
  <1>4. CASE wire' = Tail(wire) /\ UNCHANGED replies /\ gcode_LastN' \in {gcode_LastN, Head(wire).n}
    <2>1. Head(wire).n \in 0 .. HostLines
      BY <1>2, HostAssumption DEF HostWire
    <2> QED
      BY <1>1, <1>2, <1>4, <2>1 DEF HostBounds
  <1> QED
    BY <1>3, <1>4 DEF GetLine, hostRx

LEMMA HostProcessBounds == HostBounds /\ (ProcessLine \/ FinishBlock) => HostBounds'
  <1> SUFFICES ASSUME HostBounds, ProcessLine \/ FinishBlock PROVE HostBounds'
    OBVIOUS
  <1>1. UNCHANGED <<hostNext, hostWaiting, wire, gcode_LastN, saved_sdpos, Stopped, hostSaved>>
    BY DEF ProcessLine, FinishBlock, hostSide, hostRx, hostStop
  <1>2. CASE ProcessLine
    <2>1. replies' = Append(replies, Ok) /\ Ok \in HostReplies /\ Ok.t # "resend"
      BY <1>2, HostAssumption DEF ProcessLine, Ok, HostReplies
    <2>2. /\ replies' \in Seq(HostReplies)
          /\ \A i \in 1 .. Len(replies') : replies'[i].t = "resend" => replies'[i].n > 0
      BY <2>1, HostReply
    <2> QED
      BY <1>1, <2>2 DEF HostBounds
  <1>3. CASE FinishBlock
    <2>1. replies' = replies
      BY <1>3 DEF FinishBlock
    <2> QED
      BY <1>1, <2>1 DEF HostBounds
  <1> QED
    BY <1>2, <1>3

LEMMA HostSaveBounds ==
    HostInv /\ HostInv' /\ HostBounds /\ (SaveHostPrint \/ RestoreHostPrint) => HostBounds'
  <1> SUFFICES ASSUME HostInv, HostInv', HostBounds, SaveHostPrint \/ RestoreHostPrint
               PROVE  HostBounds'
    OBVIOUS
  <1>1. UNCHANGED <<hostNext, hostWaiting>>
    BY DEF SaveHostPrint, RestoreHostPrint, hostSide
  <1>2. hostSaved' \in {"no", "crash", "thermal"} /\ saved_sdpos' \in Nat
    BY DEF HostInv, HostShape
  <1>3. Stopped' \in BOOLEAN
    BY Zenon DEF SaveHostPrint, RestoreHostPrint
  <1>4. CASE SaveHostPrint
    <2>1. saved_sdpos' = ResumeLine /\ UNCHANGED <<wire, replies, gcode_LastN>>
      BY <1>4 DEF SaveHostPrint
    <2>2. PlannedLines \in Int /\ LINES_MOD \in Nat \ {0}
      <3>1. PlannedLines = HostProcessed + 1 - HostResume
        BY HostPlanned DEF HostInv
      <3>2. HostProcessed \in Nat /\ HostResume \in Nat
        BY HostElements, HostResumes DEF HostInv
      <3> QED
        BY <3>1, <3>2, HostAssumption
    <2>3. PlannedLines % LINES_MOD \in Nat
      BY <2>2
    <2>4. Len(hostQueue) \in Nat /\ gcode_LastN \in 0 .. HostLines /\ HostLines \in Nat
      BY HostElements, HostAssumption DEF HostInv, HostBounds
    <2>5. saved_sdpos' \in 0 .. HostLines
      BY <1>2, <2>1, <2>3, <2>4 DEF ResumeLine
    <2> QED
      BY <1>1, <1>2, <1>3, <2>1, <2>5 DEF HostBounds
  <1>5. CASE RestoreHostPrint
    <2>1. /\ saved_sdpos \in 0 .. HostLines /\ wire \in Seq(HostWire)
          /\ gcode_LastN' = saved_sdpos /\ saved_sdpos' = saved_sdpos
          /\ FlushSerialRequestResend(saved_sdpos, wire)
      BY <1>5 DEF HostBounds, RestoreHostPrint
    <2>2. /\ wire' \in Seq(HostWire) /\ replies' \in Seq(HostReplies)
          /\ \A i \in 1 .. Len(replies') : replies'[i].t = "resend" => replies'[i].n > 0
      BY <2>1, HostFlush
    <2> QED
      BY <1>1, <1>2, <1>3, <2>1, <2>2 DEF HostBounds
  <1> QED
    BY <1>4, <1>5

LEMMA HostBoundsStep ==
    /\ HostInv /\ HostBounds /\ PlannedLines < LINES_MOD /\ [HostNextStep]_hostVars
    => HostBounds'
  <1> SUFFICES ASSUME HostInv, HostBounds, PlannedLines < LINES_MOD, [HostNextStep]_hostVars
               PROVE  HostBounds'
    OBVIOUS
  <1>1. HostInv'
    BY HostStepInv
  <1>2. CASE UNCHANGED hostVars
    BY <1>2 DEF hostVars, hostSide, hostRx, hostStop, HostBounds
  <1> QED
    BY <1>1, <1>2, HostReadsBounds, HostSendBounds, HostGetBounds, HostProcessBounds,
       HostSaveBounds DEF HostNextStep

\* Every line that is sent, asked for or resumed from is one of the print.
LEMMA HostBoundsTyped == HostBounds => HostTypeOK
  <1> SUFFICES ASSUME HostBounds PROVE HostTypeOK
    OBVIOUS
  <1>1. /\ DOMAIN wire = 1 .. Len(wire) /\ \A i \in 1 .. Len(wire) : wire[i] \in HostWire
        /\ DOMAIN replies = 1 .. Len(replies)
        /\ \A i \in 1 .. Len(replies) : replies[i] \in HostReplies
    BY DEF HostBounds
  <1>2. /\ \A x \in HostWire : x.n \in 0 .. HostLines /\ x.ok \in BOOLEAN
        /\ \A x \in HostReplies : x.t \in {"ok", "resend"}
    BY HostAssumption DEF HostWire, HostReplies
  <1>3. /\ \A i \in DOMAIN wire : wire[i].n \in 0 .. HostLines /\ wire[i].ok \in BOOLEAN
        /\ \A i \in DOMAIN replies : replies[i].t \in {"ok", "resend"}
    BY <1>1, <1>2
  <1>4. hostNext \in 0 .. HostLines + 1
    BY HostAssumption DEF HostBounds
  <1> QED
    BY <1>3, <1>4 DEF HostBounds, HostTypeOK

\* Types of the print from a host, of which the bounds are the point: the host
\* never sends and the printer never asks for or resumes from a line that the
\* print does not have, whatever was lost and whenever it was saved, as long as
\* the planned lines fit the byte they are counted in.
THEOREM HostTyped ==
    HostSpec /\ [](PlannedLines < LINES_MOD) => []HostTypeOK
  <1> QED
    BY HostInitInv, HostStepInv, HostBoundsInit, HostBoundsStep, HostBoundsTyped, PTL DEF HostSpec

-----------------------------------------------------------------------------
(* SerialRx.                                                               *)

\* What comes over the line and what it means.
RxChars  == {"a", "n", "f"}
RxBytes  == [low : {"a", "n", "f", "on", "off"}, high : {"a", "n", "f", "raw"}]
Decoders == [on : BOOLEAN, count : {0, 1}, active : BOOLEAN, queue : 0 .. 2,
             buf : {"none", "a", "n"}, out : {<<>>}]
\* The fields of a decoder, and that of y with the characters o to be taken.
Fields(z, on, count, active, pending, buf, out) ==
  /\ z.on = on /\ z.count = count /\ z.active = active
  /\ z.queue = pending /\ z.buf = buf /\ z.out = out
Leaves(z, y, o) == Fields(z, y.on, y.count, y.active, y.queue, y.buf, o)
\* The decoder between two messages of the host.
IdleDecoder(on)  == [on |-> on, count |-> 0, active |-> FALSE, queue |-> 0, buf |-> "none", out |-> <<>>]

\* In state x the byte b gives the characters o and leads to the state y.  The
\* end of a line is the only character of its byte, or not the first.
Decodes(x, b, o, y) ==
  /\ x \in Decoders /\ y \in Decoders /\ b \in RxBytes /\ o \in Seq(RxChars)
  /\ Leaves(Decoded(x, b), y, o)
  /\ o # <<>> /\ o[1] = "n" => o = <<"n">>
\* The bytes p lead from s to e: q are the states in between, r what is left of
\* the text t.
DecodedBy(q, r, s, p, t, e) ==
  /\ q \in [0 .. Len(p) -> Decoders] /\ r \in [0 .. Len(p) -> Seq(RxChars)]
  /\ q[0] = s /\ q[Len(p)] = e /\ r[0] = t /\ r[Len(p)] = <<>>
  /\ \A i \in 1 .. Len(p) : \E o \in Seq(RxChars) :
        Decodes(q[i - 1], p[i], o, q[i]) /\ r[i - 1] = o \o r[i]
DecodesTo(s, p, t, e) == p \in Seq(RxBytes) /\ \E q, r : DecodedBy(q, r, s, p, t, e)

\* The bytes that are in the ring.
RxCount == IF rxTail <= rxHead THEN rxHead - rxTail ELSE rxHead - rxTail + RX_BUFFER_SIZE
RxIndex(i) == IF rxTail + i - 1 < RX_BUFFER_SIZE THEN rxTail + i - 1
              ELSE rxTail + i - 1 - RX_BUFFER_SIZE
RxRing  == [i \in 1 .. RxCount |-> rx_buffer[RxIndex(i)]]

\* The types, also of a decoder that has lost bytes.
RxTyped ==
  /\ rxHead \in 0 .. RX_BUFFER_SIZE - 1 /\ rxTail \in 0 .. RX_BUFFER_SIZE - 1
  /\ rx_buffer \in [0 .. RX_BUFFER_SIZE - 1 -> RxBytes]
DecoderTyped(d) ==
  /\ d.on \in BOOLEAN /\ d.count \in {0, 1} /\ d.active \in BOOLEAN
  /\ d.queue \in 0 .. 2 /\ d.buf \in {"none", "a", "n", "raw"}
RxLoose ==
  /\ RxTyped /\ rxWire \in Seq(RxBytes) /\ DecoderTyped(Decoder)
  /\ hostPacks \in BOOLEAN /\ reading \in BOOLEAN /\ filled \in BOOLEAN
\* The bytes in the ring and on the wire make of the decoder's state the text
\* that is missing, and leave it idle.
RxSound ==
  /\ RxTyped /\ rxWire \in Seq(RxBytes) /\ text \in Seq(RxChars) /\ hostPacks \in BOOLEAN
  /\ DecodesTo(Decoder, RxRing \o rxWire, text, IdleDecoder(hostPacks))
\* The inductive invariant: this holds as long as the ring has not been full.
RxInv == RxLoose /\ (~filled => RxSound /\ RxCount <= RX_BUFFER_SIZE - 2)

\* Texts are put together in any order.
LEMMA RxAssociative ==
  \A x, y, z \in Seq(RxChars) : (x \o y) \o z = x \o (y \o z)
  BY ConcatAssociative

\* No bytes give no text and lead nowhere.
LEMMA DecodesNothing ==
  ASSUME NEW s \in Decoders, NEW t, NEW e
  PROVE  DecodesTo(s, <<>>, t, e) <=> t = <<>> /\ e = s
  <1>1. ASSUME DecodesTo(s, <<>>, t, e) PROVE t = <<>> /\ e = s
    BY <1>1 DEF DecodesTo, DecodedBy
  <1>2. ASSUME t = <<>>, e = s PROVE DecodesTo(s, <<>>, t, e)
    <2> DEFINE q == [i \in 0 .. 0 |-> s]
               r == [i \in 0 .. 0 |-> <<>>]
    <2>1. <<>> \in Seq(RxChars) /\ Len(<<>>) = 0
      OBVIOUS
    <2>2. q \in [0 .. 0 -> Decoders] /\ r \in [0 .. 0 -> Seq(RxChars)]
      BY <2>1
    <2>3. DecodedBy(q, r, s, <<>>, t, e)
      BY <1>2, <2>1, <2>2 DEF DecodedBy
    <2> HIDE DEF q, r
    <2> QED
      BY <2>3 DEF DecodesTo
  <1> QED
    BY <1>1, <1>2

\* One more byte is sent.
LEMMA DecodesOneMore ==
  ASSUME NEW s, NEW p, NEW t, NEW e, DecodesTo(s, p, t, e), t \in Seq(RxChars),
         NEW b, NEW o, NEW f, Decodes(e, b, o, f)
  PROVE  DecodesTo(s, Append(p, b), t \o o, f) /\ t \o o \in Seq(RxChars)
  <1>1. PICK q, r : DecodedBy(q, r, s, p, t, e)
    BY DEF DecodesTo
  <1>2. p \in Seq(RxBytes) /\ Len(p) \in Nat
    BY DEF DecodesTo
  <1>3. b \in RxBytes /\ o \in Seq(RxChars) /\ f \in Decoders
    BY DEF Decodes
  <1> DEFINE n == Len(p)
             pp == Append(p, b)
             qq == [i \in 0 .. n + 1 |-> IF i <= n THEN q[i] ELSE f]
             rr == [i \in 0 .. n + 1 |-> IF i <= n THEN r[i] \o o ELSE <<>>]
  <1>4. pp \in Seq(RxBytes) /\ Len(pp) = n + 1 /\ pp[n + 1] = b
        /\ \A i \in 1 .. n : pp[i] = p[i]
    BY <1>2, <1>3
  <1> HIDE DEF pp, n
  <1>5. n \in Nat /\ n = Len(p)
    BY <1>2 DEF n
  <1>6. /\ q \in [0 .. n -> Decoders] /\ r \in [0 .. n -> Seq(RxChars)]
        /\ q[0] = s /\ q[n] = e /\ r[0] = t /\ r[n] = <<>>
        /\ \A i \in 1 .. n : \E x \in Seq(RxChars) :
              Decodes(q[i - 1], p[i], x, q[i]) /\ r[i - 1] = x \o r[i]
    BY <1>1, <1>5 DEF DecodedBy
  <1>7. \A i \in 0 .. n : r[i] \in Seq(RxChars) /\ r[i] \o o \in Seq(RxChars)
    BY <1>3, <1>6, ConcatProperties
  <1>8. qq \in [0 .. n + 1 -> Decoders]
    BY <1>3, <1>5, <1>6
  <1>9. rr \in [0 .. n + 1 -> Seq(RxChars)]
    <2>1. <<>> \in Seq(RxChars)
      OBVIOUS
    <2>2. \A i \in 0 .. n + 1 : i <= n => i \in 0 .. n
      BY <1>5
    <2> QED
      BY <1>7, <2>1, <2>2
  <1>10. /\ qq[0] = s /\ qq[n + 1] = f /\ rr[0] = t \o o /\ rr[n + 1] = <<>>
         /\ qq[n] = e /\ rr[n] = <<>> \o o
    <2>1. 0 \in 0 .. n + 1 /\ n \in 0 .. n + 1 /\ n + 1 \in 0 .. n + 1 /\ 0 <= n /\ n <= n /\ ~(n + 1 <= n)
      BY <1>5
    <2>2. qq[0] = q[0] /\ qq[n] = q[n] /\ qq[n + 1] = f
      BY <2>1
    <2>3. rr[0] = r[0] \o o /\ rr[n] = r[n] \o o /\ rr[n + 1] = <<>>
      BY <2>1
    <2> QED
      BY <2>2, <2>3, <1>6
  <1>11. \A i \in 1 .. n : /\ qq[i - 1] = q[i - 1] /\ qq[i] = q[i]
                           /\ rr[i - 1] = r[i - 1] \o o /\ rr[i] = r[i] \o o
    BY <1>5
  <1> HIDE DEF qq, rr
  <1>12. ASSUME NEW i \in 1 .. n + 1
         PROVE  \E x \in Seq(RxChars) :
                  Decodes(qq[i - 1], pp[i], x, qq[i]) /\ rr[i - 1] = x \o rr[i]
    <2>1. CASE i <= n
      <3>0. i \in 1 .. n /\ i \in 0 .. n
        BY <2>1, <1>5
      <3>1. PICK x \in Seq(RxChars) : Decodes(q[i - 1], p[i], x, q[i]) /\ r[i - 1] = x \o r[i]
        BY <3>0, <1>6
      <3>2. r[i] \in Seq(RxChars)
        BY <3>0, <1>7
      <3>3. (x \o r[i]) \o o = x \o (r[i] \o o)
        BY <3>1, <3>2, <1>3, RxAssociative
      <3>4. rr[i - 1] = r[i - 1] \o o /\ rr[i] = r[i] \o o /\ qq[i - 1] = q[i - 1] /\ qq[i] = q[i] /\ pp[i] = p[i]
        BY <3>0, <1>4, <1>11
      <3> QED
        BY <3>1, <3>3, <3>4
    <2>2. CASE ~(i <= n)
      <3>1. i = n + 1 /\ i - 1 = n
        BY <2>2, <1>5
      <3>2. <<>> \o o = o /\ o \o <<>> = o
        BY <1>3, ConcatEmptySeq
      <3>3. Decodes(qq[i - 1], pp[i], o, qq[i])
        BY <3>1, <1>4, <1>10
      <3>4. rr[i - 1] = o \o rr[i]
        BY <3>1, <3>2, <1>10
      <3> QED
        BY <3>3, <3>4, <1>3
    <2> QED
      BY <2>1, <2>2
  <1>13. DecodedBy(qq, rr, s, pp, t \o o, f)
    BY <1>4, <1>8, <1>9, <1>10, <1>12 DEF DecodedBy
  <1>14. DecodesTo(s, pp, t \o o, f)
    BY <1>4, <1>13 DEF DecodesTo
  <1>15. t \o o \in Seq(RxChars)
    BY <1>3, ConcatProperties
  <1> QED
    BY <1>14, <1>15 DEF pp

\* The first byte is read.
LEMMA DecodesFirst ==
  ASSUME NEW s, NEW p, NEW t, NEW e, DecodesTo(s, p, t, e), p # <<>>
  PROVE  \E o \in Seq(RxChars), u \in Seq(RxChars), y \in Decoders :
           Decodes(s, p[1], o, y) /\ t = o \o u /\ DecodesTo(y, Tail(p), u, e)
  <1>1. PICK q, r : DecodedBy(q, r, s, p, t, e)
    BY DEF DecodesTo
  <1>2. p \in Seq(RxBytes)
    BY DEF DecodesTo
  <1> DEFINE n == Len(p)
             pp == Tail(p)
             qq == [i \in 0 .. n - 1 |-> q[i + 1]]
             rr == [i \in 0 .. n - 1 |-> r[i + 1]]
  <1>4. pp \in Seq(RxBytes) /\ Len(pp) = n - 1 /\ n \in Nat /\ n >= 1
        /\ \A i \in 1 .. n - 1 : pp[i] = p[i + 1]
    BY <1>2
  <1> HIDE DEF pp
  <1>5. n = Len(p)
    OBVIOUS
  <1> HIDE DEF n
  <1>6. /\ q \in [0 .. n -> Decoders] /\ r \in [0 .. n -> Seq(RxChars)]
        /\ q[0] = s /\ q[n] = e /\ r[0] = t /\ r[n] = <<>>
        /\ \A i \in 1 .. n : \E x \in Seq(RxChars) :
              Decodes(q[i - 1], p[i], x, q[i]) /\ r[i - 1] = x \o r[i]
    BY <1>1, <1>5 DEF DecodedBy
  <1>7. PICK o \in Seq(RxChars) : Decodes(q[0], p[1], o, q[1]) /\ r[0] = o \o r[1]
    <2>1. 1 \in 1 .. n /\ 1 - 1 = 0
      BY <1>4
    <2> QED
      BY <2>1, <1>6
  <1>8. r[1] \in Seq(RxChars)
    BY <1>4, <1>6
  <1>9. qq \in [0 .. n - 1 -> Decoders] /\ rr \in [0 .. n - 1 -> Seq(RxChars)]
    <2>1. \A i \in 0 .. n - 1 : i + 1 \in 0 .. n
      BY <1>4
    <2> QED
      BY <2>1, <1>6
  <1>10. /\ qq[0] = q[1] /\ qq[n - 1] = e /\ rr[0] = r[1] /\ rr[n - 1] = <<>>
         /\ \A i \in 1 .. n - 1 : /\ qq[i - 1] = q[i + 1 - 1] /\ qq[i] = q[i + 1]
                                  /\ rr[i - 1] = r[i + 1 - 1] /\ rr[i] = r[i + 1]
                                  /\ i + 1 \in 1 .. n
    <2>1. 0 \in 0 .. n - 1 /\ n - 1 \in 0 .. n - 1 /\ n - 1 + 1 = n /\ 0 + 1 = 1
      BY <1>4
    <2>2. qq[0] = q[1] /\ qq[n - 1] = q[n] /\ rr[0] = r[1] /\ rr[n - 1] = r[n]
      BY <2>1
    <2>3. ASSUME NEW i \in 1 .. n - 1
          PROVE  /\ qq[i - 1] = q[i + 1 - 1] /\ qq[i] = q[i + 1]
                 /\ rr[i - 1] = r[i + 1 - 1] /\ rr[i] = r[i + 1]
                 /\ i + 1 \in 1 .. n
      <3>1. i - 1 \in 0 .. n - 1 /\ i \in 0 .. n - 1 /\ i - 1 + 1 = i + 1 - 1 /\ i + 1 \in 1 .. n
        BY <1>4
      <3> QED
        BY <3>1
    <2> QED
      BY <2>2, <2>3, <1>6
  <1> HIDE DEF qq, rr
  <1>11. ASSUME NEW i \in 1 .. n - 1
         PROVE  \E x \in Seq(RxChars) :
                  Decodes(qq[i - 1], pp[i], x, qq[i]) /\ rr[i - 1] = x \o rr[i]
    <2>1. i + 1 \in 1 .. n
      BY <1>10
    <2>2. PICK x \in Seq(RxChars) :
            Decodes(q[i + 1 - 1], p[i + 1], x, q[i + 1]) /\ r[i + 1 - 1] = x \o r[i + 1]
      BY <2>1, <1>6
    <2> QED
      BY <2>2, <1>4, <1>10
  <1>12. DecodedBy(qq, rr, q[1], pp, r[1], e)
    BY <1>4, <1>9, <1>10, <1>11 DEF DecodedBy
  <1>13. DecodesTo(q[1], pp, r[1], e)
    BY <1>4, <1>12 DEF DecodesTo
  <1>14. Decodes(s, p[1], o, q[1]) /\ t = o \o r[1]
    BY <1>6, <1>7
  <1>15. q[1] \in Decoders
    BY <1>4, <1>6
  <1> QED
    BY <1>8, <1>13, <1>14, <1>15 DEF pp

-----------------------------------------------------------------------------
(* What the host sends, byte by byte.                                        *)


\* What the host sends is bytes.
LEMMA PacketBytes ==
  /\ \A c \in RxChars : Raw(c) \in RxBytes
  /\ \A c, d \in RxChars : Packed(c, d) \in RxBytes
  /\ CommandByte \in RxBytes /\ Cmd(TRUE) \in RxBytes /\ Cmd(FALSE) \in RxBytes
  BY DEF Raw, Packed, CommandByte, Cmd, RxBytes, RxChars

\* One character and two are texts.
LEMMA CharSeqs ==
  /\ <<>> \in Seq(RxChars)
  /\ \A c \in RxChars : <<c>> \in Seq(RxChars) /\ \A d \in RxChars : <<c, d>> \in Seq(RxChars)
  OBVIOUS

\* The decoder that waits for n uncommon characters, that has seen a command
\* byte, and that has seen two.
Waits(n, c) == [on |-> TRUE, count |-> 0, active |-> FALSE, queue |-> n, buf |-> c, out |-> <<>>]
Seen(on)    == [on |-> on, count |-> 1, active |-> FALSE, queue |-> 0, buf |-> "none", out |-> <<>>]
Active(on)  == [on |-> on, count |-> 0, active |-> TRUE, queue |-> 0, buf |-> "none", out |-> <<>>]

\* The fields of the states the messages of the host lead through.
LEMMA IdleFields ==
  ASSUME NEW on \in BOOLEAN
  PROVE  IdleDecoder(on) \in Decoders /\ Fields(IdleDecoder(on), on, 0, FALSE, 0, "none", <<>>)
  BY DEF IdleDecoder, Decoders, Fields

\* The decoder that has seen one command byte.
LEMMA SeenFields ==
  ASSUME NEW on \in BOOLEAN
  PROVE  Seen(on) \in Decoders /\ Fields(Seen(on), on, 1, FALSE, 0, "none", <<>>)
  BY DEF Seen, Decoders, Fields

\* The decoder that has seen two.
LEMMA ActiveFields ==
  ASSUME NEW on \in BOOLEAN
  PROVE  Active(on) \in Decoders /\ Fields(Active(on), on, 0, TRUE, 0, "none", <<>>)
  BY DEF Active, Decoders, Fields

\* The decoder that waits for uncommon characters.
LEMMA WaitsFields ==
  ASSUME NEW n \in 0 .. 2, NEW c \in {"none", "a", "n"}
  PROVE  Waits(n, c) \in Decoders /\ Fields(Waits(n, c), TRUE, 0, FALSE, n, c, <<>>)
  BY DEF Waits, Decoders, Fields

\* The branches of Decoded.
Plain(d, c) == d.count = 0 /\ d.active = FALSE /\ c # CommandByte

\* The characters of a byte: none, one or two.
LEMMA ShortSeqs ==
  ASSUME NEW S, NEW x \in S, NEW y \in S
  PROVE  /\ Append(<<>>, x) = <<x>> /\ <<x>> \o <<>> = <<x>>
         /\ <<>> \o <<x, y>> = <<x, y>> /\ <<x>> \o <<y>> = <<x, y>>
  <1>1. /\ <<>> \in Seq(S) /\ <<x>> \in Seq(S) /\ <<y>> \in Seq(S) /\ <<x, y>> \in Seq(S)
        /\ Len(<<x>>) = 1 /\ Len(<<y>>) = 1 /\ Len(<<x, y>>) = 2
        /\ <<x>>[1] = x /\ <<y>>[1] = y /\ <<x, y>>[1] = x /\ <<x, y>>[2] = y
    OBVIOUS
  <1>2. <<x>> \o <<>> = <<x>> /\ <<>> \o <<x, y>> = <<x, y>> /\ <<>> \o <<x>> = <<x>>
    BY <1>1, ConcatEmptySeq
  <1>3. Append(<<>>, x) = <<x>>
    BY <1>1, <1>2, AppendIsConcat
  <1>4. <<x>> \o <<y>> = <<x, y>>
    <2> DEFINE s == <<x>>
               t == <<y>>
               u == <<x, y>>
    <2>1. s \in Seq(S) /\ t \in Seq(S) /\ u \in Seq(S) /\ Len(s) = 1 /\ Len(t) = 1 /\ Len(u) = 2
          /\ s[1] = x /\ t[1] = y /\ u[1] = x /\ u[2] = y
      BY <1>1
    <2> HIDE DEF s, t, u
    <2>2. s \o t \in Seq(S) /\ Len(s \o t) = 2
      BY <2>1, ConcatProperties
    <2>3. \A i \in 1 .. 2 : (s \o t)[i] = IF i <= 1 THEN s[i] ELSE t[i - 1]
      BY <2>1, ConcatProperties
    <2>4. (s \o t)[1] = x /\ (s \o t)[2] = y
      <3>1. 1 \in 1 .. 2 /\ 2 \in 1 .. 2 /\ 1 <= 1 /\ ~(2 <= 1) /\ 2 - 1 = 1
        OBVIOUS
      <3>2. (s \o t)[1] = s[1]
        BY <2>3, <3>1
      <3> DEFINE k == 2 - 1
      <3>0. k = 1
        OBVIOUS
      <3> HIDE DEF k
      <3>3. (s \o t)[2] = t[1]
        <4>1. (s \o t)[2] = t[k]
          BY <2>3, <3>1 DEF k
        <4> QED
          BY <4>1, <3>0
      <3> QED
        BY <2>1, <3>2, <3>3
    <2>5. \A i \in 1 .. Len(s \o t) : (s \o t)[i] = u[i]
      BY <2>1, <2>2, <2>4
    <2>6. s \o t = u
      BY <2>1, <2>2, <2>5, SeqEqual
    <2> QED
      BY <2>6 DEF s, t, u
  <1> QED
    BY <1>2, <1>3, <1>4

  RxHalves == {"none", "a", "n", "f", "on", "off", "raw"}

\* The halves of a byte and the character kept back are of one kind.
LEMMA Halves ==
  /\ \A c \in RxBytes : c.low \in RxHalves /\ c.high \in RxHalves
  /\ \A d \in Decoders : d.out = <<>> /\ d.buf \in RxHalves
  BY DEF RxBytes, RxHalves, Decoders

\* A byte outside a command goes to Inner.
LEMMA PlainIsInner ==
  ASSUME NEW d \in Decoders, NEW c \in RxBytes, Plain(d, c)
  PROVE  Decoded(d, c) = Inner(d, c)
  BY DEF Plain, Decoded

\* Without packing a byte is a character.
LEMMA InnerOff ==
  ASSUME NEW d \in Decoders, NEW c \in RxBytes, d.on = FALSE
  PROVE  Fields(Inner(d, c), FALSE, d.count, d.active, d.queue, d.buf, <<c.low>>)
  <1> DEFINE o == Append(d.out, c.low)
  <1>1. o = <<c.low>>
    BY Halves, ShortSeqs
  <1>2. Inner(d, c) = [d EXCEPT !.out = o]
    BY DEF Inner
  <1> HIDE DEF o
  <1> QED
    BY <1>1, <1>2 DEF Fields, Decoders

\* The byte of an uncommon character, and the common one kept back.
LEMMA InnerQueued ==
  ASSUME NEW d \in Decoders, NEW c \in RxBytes, d.on = TRUE, d.queue > 0
  PROVE  Fields(Inner(d, c), TRUE, d.count, d.active, d.queue - 1, "none",
                IF d.buf = "none" THEN <<c.low>> ELSE <<c.low, d.buf>>)
  <1> DEFINE o == Append(d.out, c.low) \o (IF d.buf = "none" THEN <<>> ELSE <<d.buf>>)
  <1>1. Inner(d, c) = [d EXCEPT !.out = o, !.buf = "none", !.queue = d.queue - 1]
    BY DEF Inner
  <1>2. o = IF d.buf = "none" THEN <<c.low>> ELSE <<c.low, d.buf>>
    <2>1. Append(d.out, c.low) = <<c.low>>
      BY Halves, ShortSeqs
    <2>2. <<c.low>> \o <<>> = <<c.low>> /\ <<c.low>> \o <<d.buf>> = <<c.low, d.buf>>
      BY Halves, ShortSeqs
    <2> QED
      BY <2>1, <2>2
  <1> HIDE DEF o
  <1> QED
    BY <1>1, <1>2 DEF Fields, Decoders

\* A byte when no uncommon character is waited for.
LEMMA InnerUnpacks ==
  ASSUME NEW d \in Decoders, NEW c \in RxBytes, d.on = TRUE, d.queue = 0
  PROVE  Inner(d, c) = Unpacked(d, c)
  BY DEF Inner

\* The four kinds of a packed byte.
LEMMA UnpackedFields ==
  ASSUME NEW d \in Decoders, NEW c \in RxBytes, d.on = TRUE, d.queue = 0
  PROVE  /\ c.low = "f" /\ c.high = "f" =>
              Fields(Unpacked(d, c), TRUE, d.count, d.active, 2, d.buf, <<>>)
         /\ c.low = "f" /\ c.high # "f" =>
              Fields(Unpacked(d, c), TRUE, d.count, d.active, 1, c.high, <<>>)
         /\ c.low = "n" => Fields(Unpacked(d, c), TRUE, d.count, d.active, 0, d.buf, <<"n">>)
         /\ c.low = "a" /\ c.high = "f" =>
              Fields(Unpacked(d, c), TRUE, d.count, d.active, 1, d.buf, <<"a">>)
         /\ c.low = "a" /\ c.high # "f" =>
              Fields(Unpacked(d, c), TRUE, d.count, d.active, 0, d.buf, <<"a", c.high>>)
  <1>0. d.out = <<>> /\ Append(<<>>, c.low) = <<c.low>> /\ <<>> \o <<c.low, c.high>> = <<c.low, c.high>>
    BY Halves, ShortSeqs
  <1>1. ASSUME c.low = "f", c.high = "f" PROVE Fields(Unpacked(d, c), TRUE, d.count, d.active, 2, d.buf, <<>>)
    BY <1>0, <1>1 DEF Unpacked, Fields, Decoders
  <1>2. ASSUME c.low = "f", c.high # "f" PROVE Fields(Unpacked(d, c), TRUE, d.count, d.active, 1, c.high, <<>>)
    BY <1>0, <1>2 DEF Unpacked, Fields, Decoders
  <1>3. ASSUME c.low = "n" PROVE Fields(Unpacked(d, c), TRUE, d.count, d.active, 0, d.buf, <<"n">>)
    <2>1. Unpacked(d, c) = [d EXCEPT !.out = <<"n">>]
      BY <1>0, <1>3 DEF Unpacked
    <2> QED
      BY <2>1 DEF Fields, Decoders
  <1>4. ASSUME c.low = "a", c.high = "f" PROVE Fields(Unpacked(d, c), TRUE, d.count, d.active, 1, d.buf, <<"a">>)
    <2>1. Unpacked(d, c) = [d EXCEPT !.out = <<"a">>, !.queue = 1]
      BY <1>0, <1>4 DEF Unpacked
    <2> QED
      BY <2>1 DEF Fields, Decoders
  <1>5. ASSUME c.low = "a", c.high # "f" PROVE Fields(Unpacked(d, c), TRUE, d.count, d.active, 0, d.buf, <<"a", c.high>>)
    <2>1. Unpacked(d, c) = [d EXCEPT !.out = <<"a", c.high>>]
      BY <1>0, <1>5 DEF Unpacked
    <2> QED
      BY <2>1 DEF Fields, Decoders
  <1> QED
    BY <1>1, <1>2, <1>3, <1>4, <1>5

-----------------------------------------------------------------------------
\* A step of the decoder from what Decoded returns.
LEMMA DecodesFromFields ==
  ASSUME NEW x \in Decoders, NEW y \in Decoders, NEW b \in RxBytes, NEW o \in Seq(RxChars),
         Fields(Decoded(x, b), y.on, y.count, y.active, y.queue, y.buf, o),
         o # <<>> /\ o[1] = "n" => o = <<"n">>
  PROVE  Decodes(x, b, o, y)
  BY DEF Decodes, Leaves

\* A raw byte is no command byte.
LEMMA RawBytes ==
  ASSUME NEW c \in RxChars
  PROVE  Raw(c) \in RxBytes /\ Raw(c).low = c /\ Raw(c) # CommandByte
  BY DEF Raw, RxBytes, RxChars, CommandByte, Packed

\* A packed byte is a command byte only if it announces two characters.
LEMMA PackedBytes ==
  ASSUME NEW c \in RxChars, NEW d \in RxChars
  PROVE  /\ Packed(c, d) \in RxBytes /\ Packed(c, d).low = c /\ Packed(c, d).high = d
         /\ (c # "f" \/ d # "f" => Packed(c, d) # CommandByte)
  BY DEF Packed, RxBytes, RxChars, CommandByte

\* A raw byte without packing.
LEMMA DecodesRaw ==
  ASSUME NEW c \in RxChars PROVE Decodes(IdleDecoder(FALSE), Raw(c), <<c>>, IdleDecoder(FALSE))
  <1> DEFINE d == IdleDecoder(FALSE)
  <1>1. d \in Decoders /\ Fields(d, FALSE, 0, FALSE, 0, "none", <<>>)
    BY IdleFields
  <1> HIDE DEF d
  <1>2. Plain(d, Raw(c)) /\ d.on = FALSE
    BY <1>1, RawBytes DEF Plain, Fields
  <1>3. Fields(Decoded(d, Raw(c)), FALSE, d.count, d.active, d.queue, d.buf, <<c>>)
    BY <1>1, <1>2, RawBytes, PlainIsInner, InnerOff
  <1>4. Decodes(d, Raw(c), <<c>>, d)
    <2>1. Fields(Decoded(d, Raw(c)), d.on, d.count, d.active, d.queue, d.buf, <<c>>)
      BY <1>2, <1>3
    <2>2. <<c>> \in Seq(RxChars) /\ <<c>>[1] = c
      OBVIOUS
    <2> QED
      BY <1>1, <2>1, <2>2, RawBytes, DecodesFromFields
  <1> QED
    BY <1>4 DEF d

\* A packed byte in the idle state.
LEMMA DecodesPacked ==
  ASSUME NEW c \in RxChars, NEW d \in RxChars, c # "f" \/ d # "f"
  PROVE  /\ c = "n" => Decodes(IdleDecoder(TRUE), Packed(c, d), <<"n">>, IdleDecoder(TRUE))
         /\ c = "a" /\ d # "f" => Decodes(IdleDecoder(TRUE), Packed(c, d), <<c, d>>, IdleDecoder(TRUE))
         /\ c = "a" /\ d = "f" => Decodes(IdleDecoder(TRUE), Packed(c, d), <<c>>, Waits(1, "none"))
         /\ c = "f" => Decodes(IdleDecoder(TRUE), Packed(c, d), <<>>, Waits(1, d))
  <1> DEFINE x == IdleDecoder(TRUE)
             b == Packed(c, d)
  <1>1. x \in Decoders /\ Fields(x, TRUE, 0, FALSE, 0, "none", <<>>)
    BY IdleFields
  <1>2. b \in RxBytes /\ b.low = c /\ b.high = d /\ b # CommandByte
    BY PackedBytes
  <1> HIDE DEF x, b
  <1>3. Plain(x, b) /\ x.on = TRUE /\ x.queue = 0 /\ x.count = 0 /\ x.active = FALSE /\ x.buf = "none"
    BY <1>1, <1>2 DEF Plain, Fields
  <1>4. Decoded(x, b) = Unpacked(x, b)
    BY <1>1, <1>2, <1>3, PlainIsInner, InnerUnpacks
  <1> DEFINE z == Decoded(x, b)
  <1>5. /\ c = "f" /\ d # "f" => Fields(z, TRUE, 0, FALSE, 1, d, <<>>)
        /\ c = "n" => Fields(z, TRUE, 0, FALSE, 0, "none", <<"n">>)
        /\ c = "a" /\ d = "f" => Fields(z, TRUE, 0, FALSE, 1, "none", <<"a">>)
        /\ c = "a" /\ d # "f" => Fields(z, TRUE, 0, FALSE, 0, "none", <<"a", d>>)
    BY <1>1, <1>2, <1>3, <1>4, UnpackedFields
  <1> HIDE DEF z
  <1>6. /\ <<>> \in Seq(RxChars) /\ <<c>> \in Seq(RxChars) /\ <<c, d>> \in Seq(RxChars)
        /\ <<c>>[1] = c /\ <<c, d>>[1] = c
    OBVIOUS
  <1>7. ASSUME c = "n" PROVE Decodes(x, b, <<"n">>, x)
    <2>1. Fields(Decoded(x, b), x.on, x.count, x.active, x.queue, x.buf, <<"n">>)
      BY <1>3, <1>5, <1>7 DEF z
    <2> QED
      BY <1>1, <1>2, <1>6, <1>7, <2>1, DecodesFromFields
  <1>8. ASSUME c = "a", d # "f" PROVE Decodes(x, b, <<c, d>>, x)
    <2>1. Fields(Decoded(x, b), x.on, x.count, x.active, x.queue, x.buf, <<c, d>>)
      BY <1>3, <1>5, <1>8 DEF z
    <2> QED
      BY <1>1, <1>2, <1>6, <1>8, <2>1, DecodesFromFields
  <1>9. ASSUME c = "a", d = "f" PROVE Decodes(x, b, <<c>>, Waits(1, "none"))
    <2> DEFINE y == Waits(1, "none")
    <2>1. y \in Decoders /\ Fields(y, TRUE, 0, FALSE, 1, "none", <<>>)
      <3>1. 1 \in 0 .. 2 /\ "none" \in {"none", "a", "n"}
        OBVIOUS
      <3> QED
        BY <3>1, WaitsFields
    <2> HIDE DEF y
    <2>2. y.on = TRUE /\ y.count = 0 /\ y.active = FALSE /\ y.queue = 1 /\ y.buf = "none"
      BY <2>1 DEF Fields
    <2>3. Fields(Decoded(x, b), y.on, y.count, y.active, y.queue, y.buf, <<c>>)
      BY <1>5, <1>9, <2>2 DEF z
    <2>4. Decodes(x, b, <<c>>, y)
      BY <1>1, <1>2, <1>6, <1>9, <2>1, <2>3, DecodesFromFields
    <2> QED
      BY <2>4 DEF y
  <1>10. ASSUME c = "f" PROVE Decodes(x, b, <<>>, Waits(1, d))
    <2> DEFINE y == Waits(1, d)
    <2>0. d \in {"none", "a", "n"} /\ d # "f"
      BY <1>10 DEF RxChars
    <2>1. y \in Decoders /\ Fields(y, TRUE, 0, FALSE, 1, d, <<>>)
      <3>1. 1 \in 0 .. 2
        OBVIOUS
      <3> QED
        BY <3>1, <2>0, WaitsFields
    <2> HIDE DEF y
    <2>2. y.on = TRUE /\ y.count = 0 /\ y.active = FALSE /\ y.queue = 1 /\ y.buf = d
      BY <2>1 DEF Fields
    <2>3. Fields(Decoded(x, b), y.on, y.count, y.active, y.queue, y.buf, <<>>)
      BY <1>5, <1>10, <2>0, <2>2 DEF z
    <2>4. Decodes(x, b, <<>>, y)
      BY <1>1, <1>2, <1>6, <2>1, <2>3, DecodesFromFields
    <2> QED
      BY <2>4 DEF y
  <1> QED
    BY <1>7, <1>8, <1>9, <1>10 DEF x, b

\* The raw byte of an uncommon character.
LEMMA DecodesQueued ==
  ASSUME NEW c \in {"none", "a", "n"}
  PROVE  Decodes(Waits(1, c), Raw("f"), IF c = "none" THEN <<"f">> ELSE <<"f", c>>, IdleDecoder(TRUE))
  <1> DEFINE x == Waits(1, c)
             y == IdleDecoder(TRUE)
             b == Raw("f")
             o == IF c = "none" THEN <<"f">> ELSE <<"f", c>>
  <1>1. x \in Decoders /\ Fields(x, TRUE, 0, FALSE, 1, c, <<>>)
    <2>1. 1 \in 0 .. 2
      OBVIOUS
    <2> QED
      BY <2>1, WaitsFields
  <1>2. y \in Decoders /\ Fields(y, TRUE, 0, FALSE, 0, "none", <<>>)
    BY IdleFields
  <1>3. b \in RxBytes /\ b.low = "f" /\ b # CommandByte
    BY RawBytes DEF RxChars
  <1> HIDE DEF x, y, b
  <1>4. Plain(x, b) /\ x.on = TRUE /\ x.queue = 1 /\ x.queue > 0 /\ x.queue - 1 = 0 /\ x.count = 0 /\ x.active = FALSE /\ x.buf = c
    BY <1>1, <1>3 DEF Plain, Fields
  <1>5. Fields(Decoded(x, b), TRUE, 0, FALSE, 0, "none", o)
    BY <1>1, <1>3, <1>4, PlainIsInner, InnerQueued
  <1>6. y.on = TRUE /\ y.count = 0 /\ y.active = FALSE /\ y.queue = 0 /\ y.buf = "none"
    BY <1>2 DEF Fields
  <1>7. o \in Seq(RxChars) /\ o # <<>> /\ o[1] = "f"
    <2>1. CASE c = "none"
      BY <2>1 DEF RxChars
    <2>2. CASE c # "none"
      <3>1. o = <<"f", c>> /\ c \in RxChars /\ "f" \in RxChars
        BY <2>2 DEF RxChars
      <3> QED
        BY <3>1
    <2> QED
      BY <2>1, <2>2
  <1> HIDE DEF o
  <1>8. Decodes(x, b, o, y)
    BY <1>1, <1>2, <1>3, <1>5, <1>6, <1>7, DecodesFromFields
  <1> QED
    BY <1>8 DEF x, y, b, o

\* The command byte, its second one, and what follows it.
LEMMA DecodesFirstCommand ==
  ASSUME NEW on \in BOOLEAN PROVE Decodes(IdleDecoder(on), CommandByte, <<>>, Seen(on))
  <1> DEFINE x == IdleDecoder(on)
             y == Seen(on)
  <1>1. x \in Decoders /\ Fields(x, on, 0, FALSE, 0, "none", <<>>)
    BY IdleFields
  <1>2. y \in Decoders /\ Fields(y, on, 1, FALSE, 0, "none", <<>>)
    BY SeenFields
  <1>3. CommandByte \in RxBytes
    BY PacketBytes
  <1> HIDE DEF x, y
  <1>4. x.on = on /\ x.count = 0 /\ ~(x.count > 0) /\ x.active = FALSE /\ x.queue = 0 /\ x.buf = "none" /\ x.out = <<>>
    BY <1>1 DEF Fields
  <1>5. Decoded(x, CommandByte) = [x EXCEPT !.count = 1]
    BY <1>4 DEF Decoded
  <1>6. y.on = on /\ y.count = 1 /\ y.active = FALSE /\ y.queue = 0 /\ y.buf = "none"
    BY <1>2 DEF Fields
  <1>7. Fields(Decoded(x, CommandByte), on, 1, FALSE, 0, "none", <<>>)
    BY <1>1, <1>4, <1>5 DEF Fields, Decoders
  <1>8. <<>> \in Seq(RxChars)
    OBVIOUS
  <1>9. Decodes(x, CommandByte, <<>>, y)
    BY <1>1, <1>2, <1>3, <1>6, <1>7, <1>8, DecodesFromFields
  <1> QED
    BY <1>9 DEF x, y

\* The second command byte.
LEMMA DecodesSecondCommand ==
  ASSUME NEW on \in BOOLEAN PROVE Decodes(Seen(on), CommandByte, <<>>, Active(on))
  <1> DEFINE x == Seen(on)
             y == Active(on)
  <1>1. x \in Decoders /\ Fields(x, on, 1, FALSE, 0, "none", <<>>)
    BY SeenFields
  <1>2. y \in Decoders /\ Fields(y, on, 0, TRUE, 0, "none", <<>>)
    BY ActiveFields
  <1>3. CommandByte \in RxBytes
    BY PacketBytes
  <1> HIDE DEF x, y
  <1>4. x.on = on /\ x.count = 1 /\ x.count > 0 /\ x.active = FALSE /\ x.queue = 0 /\ x.buf = "none" /\ x.out = <<>>
    BY <1>1 DEF Fields
  <1>5. Decoded(x, CommandByte) = [x EXCEPT !.active = TRUE, !.count = 0]
    BY <1>4 DEF Decoded
  <1>6. y.on = on /\ y.count = 0 /\ y.active = TRUE /\ y.queue = 0 /\ y.buf = "none"
    BY <1>2 DEF Fields
  <1>7. Fields(Decoded(x, CommandByte), on, 0, TRUE, 0, "none", <<>>)
    BY <1>1, <1>4, <1>5 DEF Fields, Decoders
  <1>8. <<>> \in Seq(RxChars)
    OBVIOUS
  <1>9. Decodes(x, CommandByte, <<>>, y)
    BY <1>1, <1>2, <1>3, <1>6, <1>7, <1>8, DecodesFromFields
  <1> QED
    BY <1>9 DEF x, y

\* The byte after two command bytes turns packing on or off.
LEMMA DecodesSwitch ==
  ASSUME NEW on \in BOOLEAN, NEW new \in BOOLEAN
  PROVE  Decodes(Active(on), Cmd(new), <<>>, IdleDecoder(new))
  <1> DEFINE x == Active(on)
             y == IdleDecoder(new)
             b == Cmd(new)
  <1>1. x \in Decoders /\ Fields(x, on, 0, TRUE, 0, "none", <<>>)
    BY ActiveFields
  <1>2. y \in Decoders /\ Fields(y, new, 0, FALSE, 0, "none", <<>>)
    BY IdleFields
  <1>3. b \in RxBytes /\ b # CommandByte /\ (b.low = "on" <=> new = TRUE)
    <2>1. CASE new = TRUE
      BY <2>1 DEF Cmd, RxBytes, CommandByte, Packed
    <2>2. CASE new = FALSE
      BY <2>2 DEF Cmd, RxBytes, CommandByte, Packed
    <2> QED
      BY <2>1, <2>2
  <1> HIDE DEF x, y, b
  <1>4. x.on = on /\ x.count = 0 /\ x.active = TRUE /\ x.queue = 0 /\ x.buf = "none" /\ x.out = <<>>
    BY <1>1 DEF Fields
  <1>6. y.on = new /\ y.count = 0 /\ y.active = FALSE /\ y.queue = 0 /\ y.buf = "none"
    BY <1>2 DEF Fields
  <1>7. Fields(Decoded(x, b), new, 0, FALSE, 0, "none", <<>>)
    <2>1. CASE new = TRUE
      <3>1. Decoded(x, b) = [x EXCEPT !.on = TRUE, !.active = FALSE]
        BY <1>3, <1>4, <2>1 DEF Decoded
      <3> QED
        BY <1>1, <1>4, <2>1, <3>1 DEF Fields, Decoders
    <2>2. CASE new = FALSE
      <3>1. Decoded(x, b) = [x EXCEPT !.on = FALSE, !.active = FALSE]
        BY <1>3, <1>4, <2>2 DEF Decoded
      <3> QED
        BY <1>1, <1>4, <2>2, <3>1 DEF Fields, Decoders
    <2> QED
      BY <2>1, <2>2
  <1>8. <<>> \in Seq(RxChars)
    OBVIOUS
  <1>9. Decodes(x, b, <<>>, y)
    BY <1>1, <1>2, <1>3, <1>6, <1>7, <1>8, DecodesFromFields
  <1> QED
    BY <1>9 DEF x, y, b

\* A command byte that was none: two uncommon characters follow.
LEMMA DecodesNoCommand == Decodes(Seen(TRUE), Raw("f"), <<"f">>, Waits(1, "none"))
  <1> DEFINE x == Seen(TRUE)
             y == Waits(1, "none")
             b == Raw("f")
             w == [x EXCEPT !.queue = 2]
             v == [w EXCEPT !.count = 0]
  <1>1. x \in Decoders /\ Fields(x, TRUE, 1, FALSE, 0, "none", <<>>)
    BY SeenFields
  <1>2. y \in Decoders /\ Fields(y, TRUE, 0, FALSE, 1, "none", <<>>)
    <2>1. 1 \in 0 .. 2 /\ "none" \in {"none", "a", "n"}
      OBVIOUS
    <2> QED
      BY <2>1, WaitsFields
  <1>3. b \in RxBytes /\ b.low = "f" /\ b # CommandByte
    BY RawBytes DEF RxChars
  <1>4. CommandByte \in RxBytes /\ CommandByte.low = "f" /\ CommandByte.high = "f"
    BY DEF CommandByte, Packed, RxBytes
  <1> HIDE DEF x, y, b
  <1>5. x.on = TRUE /\ x.count = 1 /\ x.count > 0 /\ x.active = FALSE /\ x.queue = 0 /\ x.buf = "none" /\ x.out = <<>>
    BY <1>1 DEF Fields
  <1>6. Inner(x, CommandByte) = w
    <2>1. Inner(x, CommandByte) = Unpacked(x, CommandByte)
      BY <1>1, <1>4, <1>5, InnerUnpacks
    <2> QED
      BY <2>1, <1>4 DEF Unpacked
  <1>7. Decoded(x, b) = Inner(v, b)
    BY <1>3, <1>5, <1>6 DEF Decoded
  <1>8. w \in Decoders /\ w.queue = 2 /\ w.on = TRUE /\ w.active = FALSE /\ w.buf = "none"
    BY <1>1, <1>5 DEF Decoders
  <1> HIDE DEF w
  <1>9. v \in Decoders /\ v.queue = 2 /\ v.on = TRUE /\ v.active = FALSE /\ v.count = 0 /\ v.buf = "none"
    BY <1>8 DEF Decoders
  <1> HIDE DEF v
  <1>10. Fields(Decoded(x, b), TRUE, 0, FALSE, 1, "none", <<"f">>)
    <2>1. v.queue > 0 /\ v.queue - 1 = 1
      BY <1>9
    <2> QED
      BY <1>3, <1>7, <1>9, <2>1, InnerQueued
  <1>11. y.on = TRUE /\ y.count = 0 /\ y.active = FALSE /\ y.queue = 1 /\ y.buf = "none"
    BY <1>2 DEF Fields
  <1>12. <<"f">> \in Seq(RxChars) /\ <<"f">>[1] = "f"
    BY DEF RxChars
  <1>13. Decodes(x, b, <<"f">>, y)
    BY <1>1, <1>2, <1>3, <1>10, <1>11, <1>12, DecodesFromFields
  <1> QED
    BY <1>13 DEF x, y, b

-----------------------------------------------------------------------------
\* A message of the host leaves the decoder idle and adds its text.
LEMMA SentRaw ==
  ASSUME NEW s, NEW p, NEW t \in Seq(RxChars), DecodesTo(s, p, t, IdleDecoder(FALSE)), NEW c \in RxChars
  PROVE  DecodesTo(s, Append(p, Raw(c)), t \o <<c>>, IdleDecoder(FALSE)) /\ t \o <<c>> \in Seq(RxChars)
  BY DecodesRaw, DecodesOneMore

\* A message of one packed byte.
LEMMA SentPair ==
  ASSUME NEW s, NEW p, NEW t \in Seq(RxChars), DecodesTo(s, p, t, IdleDecoder(TRUE)),
         NEW c \in RxChars, NEW d \in RxChars
  PROVE  /\ c = "n" => DecodesTo(s, Append(p, Packed(c, d)), t \o <<c>>, IdleDecoder(TRUE))
         /\ c = "a" /\ d # "f" => DecodesTo(s, Append(p, Packed(c, d)), t \o <<c, d>>, IdleDecoder(TRUE))
  BY DecodesPacked, DecodesOneMore

\* A packed byte with one uncommon character.
LEMMA SentHalf ==
  ASSUME NEW s, NEW p, NEW t \in Seq(RxChars), DecodesTo(s, p, t, IdleDecoder(TRUE)),
         NEW c \in RxChars, NEW d \in RxChars, (c = "a" /\ d = "f") \/ (c = "f" /\ d # "f")
  PROVE  DecodesTo(s, Append(Append(p, Packed(c, d)), Raw("f")), t \o <<c, d>>, IdleDecoder(TRUE))
  <1>0. "f" \in RxChars /\ <<>> \in Seq(RxChars) /\ <<c>> \in Seq(RxChars) /\ <<d>> \in Seq(RxChars)
    BY DEF RxChars
  <1>1. CASE c = "a" /\ d = "f"
    <2>1. Decodes(IdleDecoder(TRUE), Packed(c, d), <<c>>, Waits(1, "none"))
      BY <1>1, DecodesPacked
    <2>2. DecodesTo(s, Append(p, Packed(c, d)), t \o <<c>>, Waits(1, "none")) /\ t \o <<c>> \in Seq(RxChars)
      BY <2>1, DecodesOneMore
    <2>3. Decodes(Waits(1, "none"), Raw("f"), <<d>>, IdleDecoder(TRUE))
      BY <1>1, DecodesQueued
    <2>4. DecodesTo(s, Append(Append(p, Packed(c, d)), Raw("f")), (t \o <<c>>) \o <<d>>, IdleDecoder(TRUE))
      BY <2>2, <2>3, DecodesOneMore
    <2>5. (t \o <<c>>) \o <<d>> = t \o <<c, d>>
      <3>1. <<c>> \o <<d>> = <<c, d>>
        BY ShortSeqs
      <3>2. (t \o <<c>>) \o <<d>> = t \o (<<c>> \o <<d>>)
        BY <1>0, RxAssociative
      <3> QED
        BY <3>1, <3>2
    <2> QED
      BY <2>4, <2>5
  <1>2. CASE c = "f" /\ d # "f"
    <2>0. d \in {"none", "a", "n"} /\ d # "none"
      BY <1>2 DEF RxChars
    <2>1. Decodes(IdleDecoder(TRUE), Packed(c, d), <<>>, Waits(1, d))
      BY <1>2, DecodesPacked
    <2>2. DecodesTo(s, Append(p, Packed(c, d)), t \o <<>>, Waits(1, d)) /\ t \o <<>> \in Seq(RxChars)
      BY <2>1, DecodesOneMore
    <2>3. Decodes(Waits(1, d), Raw("f"), <<"f", d>>, IdleDecoder(TRUE))
      BY <2>0, DecodesQueued
    <2>4. DecodesTo(s, Append(Append(p, Packed(c, d)), Raw("f")), (t \o <<>>) \o <<"f", d>>, IdleDecoder(TRUE))
      BY <2>2, <2>3, DecodesOneMore
    <2>5. t \o <<>> = t
      BY ConcatEmptySeq
    <2> QED
      BY <1>2, <2>4, <2>5
  <1> QED
    BY <1>1, <1>2

\* A packed byte with two, which is the command byte.
LEMMA SentUncommon ==
  ASSUME NEW s, NEW p, NEW t \in Seq(RxChars), DecodesTo(s, p, t, IdleDecoder(TRUE))
  PROVE  DecodesTo(s, Append(Append(Append(p, CommandByte), Raw("f")), Raw("f")),
                   t \o <<"f", "f">>, IdleDecoder(TRUE))
  <1>0. "f" \in RxChars /\ <<>> \in Seq(RxChars) /\ <<"f">> \in Seq(RxChars)
    BY DEF RxChars
  <1>1. DecodesTo(s, Append(p, CommandByte), t \o <<>>, Seen(TRUE)) /\ t \o <<>> = t
    BY DecodesFirstCommand, DecodesOneMore, ConcatEmptySeq
  <1>2. DecodesTo(s, Append(p, CommandByte), t, Seen(TRUE))
    BY <1>1
  <1>3. /\ DecodesTo(s, Append(Append(p, CommandByte), Raw("f")), t \o <<"f">>, Waits(1, "none"))
        /\ t \o <<"f">> \in Seq(RxChars)
    BY <1>2, DecodesNoCommand, DecodesOneMore
  <1>4. Decodes(Waits(1, "none"), Raw("f"), <<"f">>, IdleDecoder(TRUE))
    BY DecodesQueued
  <1>5. DecodesTo(s, Append(Append(Append(p, CommandByte), Raw("f")), Raw("f")), (t \o <<"f">>) \o <<"f">>, IdleDecoder(TRUE))
    BY <1>3, <1>4, DecodesOneMore
  <1>6. (t \o <<"f">>) \o <<"f">> = t \o <<"f", "f">>
    <2>1. <<"f">> \o <<"f">> = <<"f", "f">>
      BY <1>0, ShortSeqs
    <2>2. (t \o <<"f">>) \o <<"f">> = t \o (<<"f">> \o <<"f">>)
      BY <1>0, RxAssociative
    <2> QED
      BY <2>1, <2>2
  <1> QED
    BY <1>5, <1>6

\* The message that turns packing on or off.
LEMMA SentSwitch ==
  ASSUME NEW s, NEW p, NEW t \in Seq(RxChars), NEW on \in BOOLEAN, NEW new \in BOOLEAN,
         DecodesTo(s, p, t, IdleDecoder(on))
  PROVE  DecodesTo(s, Append(Append(Append(p, CommandByte), CommandByte), Cmd(new)), t, IdleDecoder(new))
  <1>0. t \o <<>> = t
    BY ConcatEmptySeq
  <1>1. DecodesTo(s, Append(p, CommandByte), t, Seen(on))
    BY <1>0, DecodesFirstCommand, DecodesOneMore
  <1>2. DecodesTo(s, Append(Append(p, CommandByte), CommandByte), t, Active(on))
    BY <1>0, <1>1, DecodesSecondCommand, DecodesOneMore
  <1> QED
    BY <1>0, <1>2, DecodesSwitch, DecodesOneMore

-----------------------------------------------------------------------------
(* The ring.                                                                 *)

\* The next index of the ring.
LEMMA RxNextIndex ==
  ASSUME NEW i \in 0 .. RX_BUFFER_SIZE - 1
  PROVE  (i + 1) % RX_BUFFER_SIZE = IF i = RX_BUFFER_SIZE - 1 THEN 0 ELSE i + 1
  BY RxAssumption

\* What is between the two indices is a sequence of bytes.
LEMMA RxRingTyped ==
  ASSUME RxTyped
  PROVE  /\ RxCount \in 0 .. RX_BUFFER_SIZE - 1
         /\ \A i \in 1 .. RxCount : RxIndex(i) \in 0 .. RX_BUFFER_SIZE - 1
         /\ RxRing \in Seq(RxBytes) /\ Len(RxRing) = RxCount
         /\ \A i \in 1 .. RxCount : RxRing[i] = rx_buffer[RxIndex(i)]
         /\ (rxHead = rxTail <=> RxCount = 0)
  <1>1. RxCount \in 0 .. RX_BUFFER_SIZE - 1 /\ (rxHead = rxTail <=> RxCount = 0)
    BY RxAssumption DEF RxTyped, RxCount
  <1>2. \A i \in 1 .. RxCount : RxIndex(i) \in 0 .. RX_BUFFER_SIZE - 1
    BY <1>1, RxAssumption DEF RxTyped, RxIndex
  <1>3. \A i \in 1 .. RxCount : rx_buffer[RxIndex(i)] \in RxBytes
    BY <1>2 DEF RxTyped
  <1> QED
    BY <1>1, <1>2, <1>3 DEF RxRing

  RxRingFacts ==
    /\ RxCount \in Nat
    /\ RxRing \in Seq(RxBytes) /\ Len(RxRing) = RxCount
    /\ \A i \in 1 .. RxCount : RxRing[i] = rx_buffer[RxIndex(i)]

\* The same, to be primed.
LEMMA RxRingFact == RxTyped => RxRingFacts
  BY RxRingTyped DEF RxRingFacts

\* What available() tells.
LEMMA RxAvailableCounts == RxTyped => RxAvailable = RxCount
  <1> SUFFICES ASSUME RxTyped PROVE RxAvailable = RxCount
    OBVIOUS
  <1> DEFINE z == RX_BUFFER_SIZE
  <1>1. z \in Nat /\ z > 0 /\ rxHead \in 0 .. z - 1 /\ rxTail \in 0 .. z - 1
    BY RxAssumption DEF RxTyped
  <1>2. CASE rxTail <= rxHead
    <2>1. \A k \in 0 .. z - 1 : (z + k) % z = k
      BY <1>1
    <2>2. rxHead - rxTail \in 0 .. z - 1 /\ z + rxHead - rxTail = z + (rxHead - rxTail)
      BY <1>1, <1>2
    <2> QED
      BY <1>2, <2>1, <2>2 DEF RxAvailable, RxCount
  <1>3. CASE ~(rxTail <= rxHead)
    <2>1. \A k \in 0 .. z - 1 : k % z = k
      BY <1>1
    <2>2. z + rxHead - rxTail \in 0 .. z - 1 /\ z + rxHead - rxTail = rxHead - rxTail + z
      BY <1>1, <1>3
    <2> QED
      BY <1>3, <2>1, <2>2 DEF RxAvailable, RxCount
  <1> QED
    BY <1>2, <1>3

\* The ring is full when there is no next index.
RxFullFacts ==
  /\ (rxHead + 1) % RX_BUFFER_SIZE = rxTail <=> RxCount = RX_BUFFER_SIZE - 1
  /\ RxCount \in 0 .. RX_BUFFER_SIZE - 1

LEMMA RxFull == RxTyped => RxFullFacts
  BY RxNextIndex, RxAssumption DEF RxTyped, RxCount, RxFullFacts

\* The interrupt appends the byte to the ring.
LEMMA RxReceived ==
  ASSUME RxTyped, rxWire \in Seq(RxBytes), StoreChar, (rxHead + 1) % RX_BUFFER_SIZE # rxTail
  PROVE  /\ RxTyped' /\ rxWire' \in Seq(RxBytes)
         /\ RxRing' = Append(RxRing, Head(rxWire)) /\ rxWire' = Tail(rxWire)
         /\ RxCount' \in Nat
  <1>1. /\ rxWire # <<>> /\ rxWire' = Tail(rxWire) /\ rxTail' = rxTail
        /\ rxHead' = (rxHead + 1) % RX_BUFFER_SIZE /\ rxHead' # rxTail
        /\ rx_buffer' = [rx_buffer EXCEPT ![rxHead] = Head(rxWire)]
    BY DEF StoreChar
  <1>2. Head(rxWire) \in RxBytes /\ Tail(rxWire) \in Seq(RxBytes)
    BY <1>1
  <1>3. rxHead' = IF rxHead = RX_BUFFER_SIZE - 1 THEN 0 ELSE rxHead + 1
    BY <1>1, RxNextIndex DEF RxTyped
  <1>4. RxTyped'
    BY <1>1, <1>2, <1>3, RxAssumption DEF RxTyped
  <1>5. RxCount' = RxCount + 1
    <2>1. rxHead \in 0 .. RX_BUFFER_SIZE - 1 /\ rxTail \in 0 .. RX_BUFFER_SIZE - 1
      BY DEF RxTyped
    <2>2. CASE rxHead = RX_BUFFER_SIZE - 1
      BY <1>1, <1>3, <2>1, <2>2, RxAssumption DEF RxCount
    <2>3. CASE rxHead # RX_BUFFER_SIZE - 1
      BY <1>1, <1>3, <2>1, <2>3, RxAssumption DEF RxCount
    <2> QED
      BY <2>2, <2>3
  <1>6. \A i \in 1 .. RxCount : RxIndex(i)' = RxIndex(i) /\ RxIndex(i) # rxHead
    BY <1>1, RxAssumption DEF RxTyped, RxCount, RxIndex
  <1>7. \A i : i = RxCount + 1 => RxIndex(i)' = rxHead
    BY <1>1, RxAssumption DEF RxTyped, RxCount, RxIndex
  <1>8. /\ RxRing \in Seq(RxBytes) /\ Len(RxRing) = RxCount /\ RxCount \in Nat
        /\ \A i \in 1 .. RxCount : RxRing[i] = rx_buffer[RxIndex(i)] /\ RxIndex(i) \in 0 .. RX_BUFFER_SIZE - 1
    BY RxRingTyped
  <1>9. /\ RxRing' \in Seq(RxBytes) /\ Len(RxRing') = RxCount'
        /\ \A i \in 1 .. RxCount' : RxRing'[i] = rx_buffer'[RxIndex(i)']
    <2>1. RxTyped' => RxRingFacts'
      BY RxRingFact, PTL
    <2> QED
      BY <2>1, <1>4 DEF RxRingFacts
  <1> DEFINE r == RxRing
             b == Head(rxWire)
             q == Append(r, b)
  <1>10. /\ q \in Seq(RxBytes) /\ Len(q) = RxCount + 1 /\ q[RxCount + 1] = b
         /\ \A i \in 1 .. RxCount : q[i] = r[i]
    BY <1>2, <1>8
  <1>11. ASSUME NEW i \in 1 .. RxCount + 1 PROVE RxRing'[i] = q[i]
    <2>1. CASE i \in 1 .. RxCount
      <3>1. RxRing'[i] = rx_buffer'[RxIndex(i)]
        BY <2>1, <1>5, <1>6, <1>9
      <3>2. rx_buffer'[RxIndex(i)] = rx_buffer[RxIndex(i)]
        BY <2>1, <1>1, <1>6, <1>8 DEF RxTyped
      <3> QED
        BY <2>1, <3>1, <3>2, <1>8, <1>10
    <2>2. CASE i = RxCount + 1
      <3>1. RxRing'[i] = rx_buffer'[rxHead]
        <4>1. RxRing'[i] = rx_buffer'[RxIndex(i)']
          BY <1>5, <1>9
        <4>2. RxIndex(i)' = rxHead
          BY <2>2, <1>7
        <4> QED
          BY <4>1, <4>2
      <3>2. rx_buffer'[rxHead] = b
        BY <1>1 DEF RxTyped
      <3> QED
        BY <2>2, <3>1, <3>2, <1>10
    <2> QED
      BY <2>1, <2>2, <1>8
  <1>12. RxRing' = q
    <2> DEFINE z == RxRing'
    <2>1. z \in Seq(RxBytes) /\ Len(z) = Len(q) /\ q \in Seq(RxBytes) /\ \A i \in 1 .. Len(z) : z[i] = q[i]
      BY <1>5, <1>9, <1>10, <1>11
    <2> HIDE DEF z, q
    <2>2. z = q
      BY <2>1, SeqEqual
    <2> QED
      BY <2>2 DEF z
  <1> QED
    BY <1>1, <1>2, <1>4, <1>5, <1>8, <1>12

\* The reader takes the first byte of the ring.
LEMMA RxTaken ==
  ASSUME RxTyped, rxHead # rxTail, rxTail' = (rxTail + 1) % RX_BUFFER_SIZE,
         UNCHANGED <<rxHead, rx_buffer>>
  PROVE  /\ RxTyped' /\ RxRing # <<>> /\ RxRing[1] = rx_buffer[rxTail]
         /\ RxRing' = Tail(RxRing) /\ RxCount' = RxCount - 1
  <1>3. rxTail' = IF rxTail = RX_BUFFER_SIZE - 1 THEN 0 ELSE rxTail + 1
    BY RxNextIndex DEF RxTyped
  <1>4. RxTyped'
    BY <1>3, RxAssumption DEF RxTyped
  <1>5. RxCount' = RxCount - 1 /\ RxCount \in Nat /\ RxCount >= 1
    BY <1>3, RxAssumption DEF RxTyped, RxCount
  <1>6. \A i \in 1 .. RxCount - 1 : RxIndex(i)' = RxIndex(i + 1)
    BY <1>3, RxAssumption DEF RxTyped, RxCount, RxIndex
  <1>7. RxIndex(1) = rxTail
    BY RxAssumption DEF RxTyped, RxIndex
  <1>8. /\ RxRing \in Seq(RxBytes) /\ Len(RxRing) = RxCount
        /\ \A i \in 1 .. RxCount : RxRing[i] = rx_buffer[RxIndex(i)]
    BY RxRingTyped
  <1>9. /\ RxRing' \in Seq(RxBytes) /\ Len(RxRing') = RxCount'
        /\ \A i \in 1 .. RxCount' : RxRing'[i] = rx_buffer'[RxIndex(i)']
    <2>1. RxTyped' => RxRingFacts'
      BY RxRingFact, PTL
    <2> QED
      BY <2>1, <1>4 DEF RxRingFacts
  <1>10. RxRing # <<>> /\ RxRing[1] = rx_buffer[rxTail]
    BY <1>5, <1>7, <1>8
  <1> DEFINE q == Tail(RxRing)
  <1>11. q \in Seq(RxBytes) /\ Len(q) = RxCount - 1 /\ \A i \in 1 .. RxCount - 1 : q[i] = RxRing[i + 1]
    BY <1>5, <1>8, <1>10
  <1>12. ASSUME NEW i \in 1 .. RxCount - 1 PROVE RxRing'[i] = q[i]
    <2>1. RxRing'[i] = rx_buffer[RxIndex(i + 1)]
      BY <1>5, <1>6, <1>9
    <2>2. q[i] = RxRing[i + 1] /\ i + 1 \in 1 .. RxCount
      BY <1>5, <1>11
    <2> QED
      BY <2>1, <2>2, <1>8
  <1>13. RxRing' = q
    <2> DEFINE z == RxRing'
    <2>1. z \in Seq(RxBytes) /\ Len(z) = Len(q) /\ q \in Seq(RxBytes) /\ \A i \in 1 .. Len(z) : z[i] = q[i]
      BY <1>5, <1>9, <1>11, <1>12
    <2> HIDE DEF z, q
    <2>2. z = q
      BY <2>1, SeqEqual
    <2> QED
      BY <2>2 DEF z
  <1> QED
    BY <1>4, <1>5, <1>10, <1>13

-----------------------------------------------------------------------------
(* The bytes that are still to be decoded.                                   *)

\* The tail of two sequences in a row.
LEMMA TailOfConcat ==
  ASSUME NEW S, NEW r \in Seq(S), NEW w \in Seq(S), r # <<>>
  PROVE  /\ r \o w # <<>> /\ (r \o w)[1] = r[1] /\ Tail(r \o w) = Tail(r) \o w
  <1> DEFINE p == r \o w
             q == Tail(r)
  <1>1. Len(r) \in Nat /\ Len(r) >= 1 /\ Len(w) \in Nat
    OBVIOUS
  <1>2. /\ p \in Seq(S) /\ Len(p) = Len(r) + Len(w)
        /\ \A i \in 1 .. Len(r) + Len(w) : p[i] = IF i <= Len(r) THEN r[i] ELSE w[i - Len(r)]
    BY ConcatProperties
  <1>3. q \in Seq(S) /\ Len(q) = Len(r) - 1 /\ \A i \in 1 .. Len(q) : q[i] = r[i + 1]
    BY <1>1
  <1> HIDE DEF p, q
  <1>4. p # <<>> /\ p[1] = r[1]
    <2>1. 1 \in 1 .. Len(r) + Len(w) /\ 1 <= Len(r)
      BY <1>1
    <2>2. Len(p) >= 1
      BY <1>1, <1>2
    <2> QED
      BY <1>2, <2>1, <2>2
  <1> DEFINE x == Tail(p)
             y == q \o w
  <1>5. x \in Seq(S) /\ Len(x) = Len(r) + Len(w) - 1 /\ \A i \in 1 .. Len(x) : x[i] = p[i + 1]
    BY <1>1, <1>2, <1>4
  <1>6. /\ y \in Seq(S) /\ Len(y) = Len(q) + Len(w)
        /\ \A i \in 1 .. Len(q) + Len(w) : y[i] = IF i <= Len(q) THEN q[i] ELSE w[i - Len(q)]
    BY <1>3, ConcatProperties
  <1> HIDE DEF x, y
  <1>7. ASSUME NEW i \in 1 .. Len(x) PROVE x[i] = y[i]
    <2>1. i \in Nat /\ i >= 1 /\ i + 1 \in 1 .. Len(r) + Len(w) /\ i \in 1 .. Len(q) + Len(w)
      BY <1>1, <1>3, <1>5
    <2>2. x[i] = IF i + 1 <= Len(r) THEN r[i + 1] ELSE w[i + 1 - Len(r)]
      BY <1>2, <1>5, <2>1
    <2>3. CASE i + 1 <= Len(r)
      <3>1. i \in 1 .. Len(q) /\ i <= Len(q)
        BY <1>1, <1>3, <2>1, <2>3
      <3> QED
        BY <1>3, <1>6, <2>1, <2>2, <2>3, <3>1
    <2>4. CASE ~(i + 1 <= Len(r))
      <3>1. ~(i <= Len(q)) /\ i + 1 - Len(r) = i - Len(q)
        BY <1>1, <1>3, <2>1, <2>4
      <3> QED
        BY <1>6, <2>1, <2>2, <2>4, <3>1
    <2> QED
      BY <2>3, <2>4
  <1>8. x = y
    <2>1. Len(x) = Len(y)
      BY <1>1, <1>3, <1>5, <1>6
    <2> QED
      BY <1>5, <1>6, <1>7, <2>1, SeqEqual
  <1> QED
    BY <1>4, <1>8 DEF p, q, x, y

\* The first element moves from one sequence to the end of the other.
LEMMA HeadMoves ==
  ASSUME NEW S, NEW r \in Seq(S), NEW w \in Seq(S), w # <<>>
  PROVE  Append(r, Head(w)) \o Tail(w) = r \o w
  <1>1. Head(w) \in S /\ Tail(w) \in Seq(S) /\ <<Head(w)>> \in Seq(S)
    OBVIOUS
  <1>2. Append(r, Head(w)) = r \o <<Head(w)>>
    BY <1>1, AppendIsConcat
  <1>3. (r \o <<Head(w)>>) \o Tail(w) = r \o (<<Head(w)>> \o Tail(w))
    BY <1>1, ConcatAssociative
  <1>4. <<Head(w)>> \o Tail(w) = w
    <2> DEFINE a == <<Head(w)>>
               b == Tail(w)
    <2>1. a \in Seq(S) /\ Len(a) = 1 /\ a[1] = w[1] /\ b \in Seq(S) /\ Len(b) = Len(w) - 1 /\ Len(w) \in Nat
          /\ Len(w) >= 1 /\ \A i \in 1 .. Len(b) : b[i] = w[i + 1]
      BY <1>1
    <2> HIDE DEF a, b
    <2> DEFINE z == a \o b
    <2>2. z \in Seq(S) /\ Len(z) = Len(w) /\ \A i \in 1 .. Len(a) + Len(b) : z[i] = IF i <= Len(a) THEN a[i] ELSE b[i - Len(a)]
      <3>1. Len(a) + Len(b) = Len(w)
        BY <2>1
      <3>2. a \in Seq(S) /\ b \in Seq(S)
        BY <2>1
      <3>3. /\ a \o b \in Seq(S) /\ Len(a \o b) = Len(a) + Len(b)
            /\ \A i \in 1 .. Len(a) + Len(b) : (a \o b)[i] = IF i <= Len(a) THEN a[i] ELSE b[i - Len(a)]
        BY <3>2, ConcatProperties
      <3> QED
        BY <3>1, <3>3 DEF z
    <2> HIDE DEF z
    <2>3. ASSUME NEW i \in 1 .. Len(z) PROVE z[i] = w[i]
      <3>1. CASE i = 1
        <4>1. 1 \in 1 .. Len(a) + Len(b) /\ 1 <= Len(a)
          BY <2>1
        <4> QED
          BY <2>1, <2>2, <3>1, <4>1
      <3>2. CASE i # 1
        <4>1. i \in 1 .. Len(a) + Len(b) /\ ~(i <= Len(a)) /\ i - Len(a) \in 1 .. Len(b) /\ i - Len(a) + 1 = i
          BY <2>1, <2>2, <3>2
        <4> QED
          BY <2>1, <2>2, <4>1
      <3> QED
        BY <3>1, <3>2
    <2>4. z = w
      BY <2>2, <2>3, SeqEqual
    <2> QED
      BY <2>4 DEF z, a, b
  <1> QED
    BY <1>2, <1>3, <1>4

\* The part before is a prefix, and what is left is the part after.
LEMMA PrefixOfConcat ==
  ASSUME NEW S, NEW o \in Seq(S), NEW u \in Seq(S)
  PROVE  IsPrefix(o, o \o u) /\ SubSeq(o \o u, Len(o) + 1, Len(o \o u)) = u
  <1> DEFINE t == o \o u
  <1>1. /\ t \in Seq(S) /\ Len(t) = Len(o) + Len(u) /\ Len(o) \in Nat /\ Len(u) \in Nat
        /\ \A i \in 1 .. Len(o) + Len(u) : t[i] = IF i <= Len(o) THEN o[i] ELSE u[i - Len(o)]
    BY ConcatProperties
  <1> HIDE DEF t
  <1>2. \A i \in 1 .. Len(t) : t[i] \in S
    BY <1>1, ElementOfSeq
  <1>3. SubSeq(t, 1, Len(o)) = o
    <2> DEFINE x == SubSeq(t, 1, Len(o))
    <2>1. \A i \in 1 .. Len(o) : t[i] \in S /\ t[i] = o[i]
      BY <1>1, <1>2
    <2>2. x \in Seq(S) /\ Len(x) = Len(o) /\ \A i \in 1 .. Len(o) : x[i] = t[i]
      BY <1>1, <2>1
    <2> HIDE DEF x
    <2>3. x = o
      BY <2>1, <2>2, SeqEqual
    <2> QED
      BY <2>3 DEF x
  <1>4. SubSeq(t, Len(o) + 1, Len(t)) = u
    <2> DEFINE x == SubSeq(t, Len(o) + 1, Len(t))
    <2>1. \A i \in 1 .. Len(u) : i + Len(o) \in Len(o) + 1 .. Len(t) /\ t[i + Len(o)] = u[i]
      BY <1>1
    <2>2. x \in Seq(S) /\ Len(x) = Len(u) /\ \A i \in 1 .. Len(u) : x[i] = t[i + Len(o)]
      BY <1>1, <1>2
    <2> HIDE DEF x
    <2>3. x = u
      BY <2>1, <2>2, SeqEqual
    <2> QED
      BY <2>3 DEF x
  <1>5. SubSeq(o, 1, Len(o)) = o
    BY SubSeqFull
  <1> QED
    BY <1>1, <1>3, <1>4, <1>5 DEF IsPrefix, t

-----------------------------------------------------------------------------
(* The steps.                                                                *)

\* The decoder has its type.
LEMMA DecoderType ==
  ASSUME NEW s, NEW p, NEW t, NEW e, DecodesTo(s, p, t, e) PROVE s \in Decoders
  <1>1. PICK q, r : DecodedBy(q, r, s, p, t, e)
    BY DEF DecodesTo
  <1>2. p \in Seq(RxBytes) /\ Len(p) \in Nat /\ 0 \in 0 .. Len(p)
    BY DEF DecodesTo
  <1> QED
    BY <1>1, <1>2 DEF DecodedBy

\* Nothing is sent and nothing is missing.
LEMMA RxInitSound == RxInit => RxSound
  <1> SUFFICES ASSUME RxInit PROVE RxSound
    OBVIOUS
  <1>1. Raw("a") \in RxBytes
    BY RawBytes DEF RxChars
  <1>2. RxTyped
    BY <1>1, RxAssumption DEF RxInit, RxTyped
  <1>3. RxRing \o rxWire = <<>>
    <2>1. RxRing \in Seq(RxBytes) /\ Len(RxRing) = 0
      BY <1>2, RxRingTyped DEF RxInit
    <2>2. RxRing = <<>> /\ rxWire = <<>>
      BY <2>1 DEF RxInit
    <2> QED
      BY <2>2
  <1>4. Decoder = IdleDecoder(FALSE)
    BY DEF Decoder, IdleDecoder, RxInit
  <1>5. hostPacks = FALSE /\ text = <<>> /\ rxWire = <<>>
    BY DEF RxInit
  <1>6. DecodesTo(Decoder, RxRing \o rxWire, text, IdleDecoder(hostPacks))
    <2>1. IdleDecoder(FALSE) \in Decoders
      BY IdleFields
    <2>2. DecodesTo(IdleDecoder(FALSE), <<>>, <<>>, IdleDecoder(FALSE))
      BY <2>1, DecodesNothing
    <2> QED
      BY <2>2, <1>3, <1>4, <1>5
  <1>7. rxWire \in Seq(RxBytes) /\ text \in Seq(RxChars) /\ hostPacks \in BOOLEAN
    <2>1. <<>> \in Seq(RxBytes) /\ <<>> \in Seq(RxChars)
      OBVIOUS
    <2>2. hostPacks \in BOOLEAN
      BY Zenon, <1>5
    <2> QED
      BY <1>5, <2>1, <2>2
  <1> QED
    BY <1>2, <1>6, <1>7 DEF RxSound

\* A message of three bytes.
LEMMA ThreeBytes ==
  ASSUME NEW S, NEW x \in S, NEW y \in S, NEW z \in S
  PROVE  (<<x>> \o <<y>>) \o <<z>> = <<x, y, z>>
  <1>1. <<x>> \o <<y>> = <<x, y>>
    BY ShortSeqs
  <1>2. <<x, y>> \in Seq(S) /\ <<x, y>> \o <<z>> = Append(<<x, y>>, z)
    BY AppendIsConcat
  <1> DEFINE q == <<x, y>>
             t == <<x, y, z>>
             v == Append(q, z)
  <1>3. /\ q \in Seq(S) /\ Len(q) = 2 /\ q[1] = x /\ q[2] = y
        /\ t \in Seq(S) /\ Len(t) = 3 /\ t[1] = x /\ t[2] = y /\ t[3] = z
    OBVIOUS
  <1> HIDE DEF q, t
  <1>4. v \in Seq(S) /\ Len(v) = 3 /\ v[1] = x /\ v[2] = y /\ v[3] = z
    <2>1. q \in Seq(S)
      BY <1>3
    <2>2. /\ Append(q, z) \in Seq(S) /\ Len(Append(q, z)) = Len(q) + 1
          /\ \A i \in 1 .. Len(q) : Append(q, z)[i] = q[i]
          /\ Append(q, z)[Len(q) + 1] = z
      BY <2>1, AppendProperties
    <2>3. 1 \in 1 .. Len(q) /\ 2 \in 1 .. Len(q) /\ Len(q) + 1 = 3
      BY <1>3
    <2> QED
      BY <1>3, <2>2, <2>3
  <1> HIDE DEF v
  <1>5. v = t
    <2>1. \A i \in 1 .. Len(v) : v[i] = t[i]
      BY <1>3, <1>4
    <2> QED
      BY <1>3, <1>4, <2>1, SeqEqual
  <1> QED
    BY <1>1, <1>2, <1>5 DEF v, t, q

\* What is on the wire follows the ring.
LEMMA WireAppends ==
  ASSUME NEW S, NEW r \in Seq(S), NEW x \in S, NEW y \in S, NEW z \in S
  PROVE  /\ r \o ((<<x>> \o <<>>) \o <<>>) = Append(r, x) /\ r \o (<<x>> \o <<>>) = Append(r, x)
         /\ r \o ((<<x>> \o <<y>>) \o <<>>) = Append(Append(r, x), y)
         /\ r \o ((<<x>> \o <<>>) \o <<y>>) = Append(Append(r, x), y)
         /\ r \o (<<x>> \o <<y>>) = Append(Append(r, x), y)
         /\ r \o ((<<x>> \o <<y>>) \o <<z>>) = Append(Append(Append(r, x), y), z)
  <1>0. <<>> \in Seq(S) /\ <<x>> \in Seq(S) /\ <<y>> \in Seq(S) /\ <<z>> \in Seq(S)
        /\ Append(r, x) \in Seq(S) /\ Append(Append(r, x), y) \in Seq(S)
    BY AppendProperties
  <1>1. /\ <<x>> \o <<>> = <<x>> /\ <<x>> \o <<y>> \in Seq(S)
        /\ (<<x>> \o <<y>>) \o <<>> = <<x>> \o <<y>>
    BY <1>0, ConcatEmptySeq, ConcatProperties
  <1>2. /\ Append(r, x) = r \o <<x>>
        /\ Append(Append(r, x), y) = Append(r, x) \o <<y>>
        /\ Append(Append(Append(r, x), y), z) = Append(Append(r, x), y) \o <<z>>
    BY <1>0, AppendIsConcat
  <1>3. r \o (<<x>> \o <<y>>) = (r \o <<x>>) \o <<y>>
    BY <1>0, ConcatAssociative
  <1>4. r \o ((<<x>> \o <<y>>) \o <<z>>) = (r \o (<<x>> \o <<y>>)) \o <<z>>
    BY <1>0, <1>1, ConcatAssociative
  <1> QED
    BY <1>1, <1>2, <1>3, <1>4

\* When the wire is empty the ring holds all that is pending.
LEMMA RxPending ==
  ASSUME RxSound, rxWire = <<>>
  PROVE  RxRing \in Seq(RxBytes) /\ DecodesTo(Decoder, RxRing, text, IdleDecoder(hostPacks))
  <1>1. RxRing \in Seq(RxBytes) /\ RxRing \o <<>> = RxRing
    BY RxRingTyped, ConcatEmptySeq DEF RxSound
  <1> QED
    BY <1>1 DEF RxSound

\* The step of every action.
LEMMA SendCharsKeeps == RxSound /\ SendChars => RxSound'
  <1> SUFFICES ASSUME RxSound, SendChars PROVE RxSound'
    OBVIOUS
  <1> DEFINE p == RxRing
             s == Decoder
  <1>1. /\ p \in Seq(RxBytes) /\ DecodesTo(s, p, text, IdleDecoder(hostPacks))
        /\ text \in Seq(RxChars) /\ hostPacks \in BOOLEAN
    BY RxPending DEF RxSound, SendChars
  <1>2. RxTyped' /\ RxRing' = p /\ Decoder' = s /\ hostPacks' = hostPacks
    BY DEF RxSound, RxTyped, RxRing, RxCount, RxIndex, Decoder, SendChars, rxRing, mpVars
  <1>3. PICK c \in RxChars, d \in RxChars :
          /\ text' = text \o (IF c = "n" THEN <<c>> ELSE <<c, d>>)
          /\ rxWire' = IF hostPacks
                       THEN <<Packed(c, d)>> \o RawIf(c = "f", c) \o RawIf(c # "n" /\ d = "f", d)
                       ELSE <<Raw(c)>> \o RawIf(c # "n", d)
    BY DEF SendChars, RxChars
  <1>4. /\ Raw(c) \in RxBytes /\ Raw(d) \in RxBytes /\ Packed(c, d) \in RxBytes
        /\ <<>> \in Seq(RxBytes) /\ <<c>> \in Seq(RxChars) /\ <<c, d>> \in Seq(RxChars)
    BY RawBytes, PackedBytes
  <1>5. ASSUME NEW w \in Seq(RxBytes), rxWire' = w, DecodesTo(s, p \o w, text', IdleDecoder(hostPacks))
        PROVE  RxSound'
    <2>1. text' \in Seq(RxChars)
      BY <1>1, <1>3, <1>4, ConcatProperties
    <2> QED
      BY <1>1, <1>2, <1>5, <2>1 DEF RxSound
  <1> HIDE DEF p, s
  <1>6. CASE hostPacks = FALSE
    <2>0. DecodesTo(s, p, text, IdleDecoder(FALSE))
      BY <1>1, <1>6
    <2>1. DecodesTo(s, Append(p, Raw(c)), text \o <<c>>, IdleDecoder(FALSE)) /\ text \o <<c>> \in Seq(RxChars)
      BY <1>1, <2>0, SentRaw
    <2>2. CASE c = "n"
      <3>1. rxWire' = <<Raw(c)>> \o <<>> /\ <<Raw(c)>> \o <<>> \in Seq(RxBytes)
        BY <1>3, <1>4, <1>6, <2>2 DEF RawIf
      <3>2. p \o (<<Raw(c)>> \o <<>>) = Append(p, Raw(c))
        BY <1>1, <1>4, WireAppends
      <3>3. text' = text \o <<c>>
        BY <1>3, <2>2
      <3> QED
        BY <1>5, <1>6, <2>1, <3>1, <3>2, <3>3
    <2>3. CASE c # "n"
      <3>1. rxWire' = <<Raw(c)>> \o <<Raw(d)>> /\ <<Raw(c)>> \o <<Raw(d)>> \in Seq(RxBytes)
        BY <1>3, <1>4, <1>6, <2>3 DEF RawIf
      <3>2. p \o (<<Raw(c)>> \o <<Raw(d)>>) = Append(Append(p, Raw(c)), Raw(d))
        BY <1>1, <1>4, WireAppends
      <3>3. DecodesTo(s, Append(Append(p, Raw(c)), Raw(d)), (text \o <<c>>) \o <<d>>, IdleDecoder(FALSE))
        BY <2>1, SentRaw
      <3>4. (text \o <<c>>) \o <<d>> = text \o <<c, d>>
        <4>1. <<c>> \o <<d>> = <<c, d>>
          BY ShortSeqs
        <4>2. (text \o <<c>>) \o <<d>> = text \o (<<c>> \o <<d>>)
          BY <1>1, <1>4, RxAssociative
        <4> QED
          BY <4>1, <4>2
      <3>5. text' = text \o <<c, d>>
        BY <1>3, <2>3
      <3> QED
        BY <1>5, <1>6, <3>1, <3>2, <3>3, <3>4, <3>5
    <2> QED
      BY <2>2, <2>3
  <1>7. CASE hostPacks = TRUE
    <2>0. DecodesTo(s, p, text, IdleDecoder(TRUE))
      BY <1>1, <1>7
    <2> DEFINE b == Packed(c, d)
    <2>1. CASE c = "n" \/ (c = "a" /\ d # "f")
      <3>1. rxWire' = (<<b>> \o <<>>) \o <<>> /\ (<<b>> \o <<>>) \o <<>> \in Seq(RxBytes)
        <4>1. RawIf(c = "f", c) = <<>> /\ RawIf(c # "n" /\ d = "f", d) = <<>>
          BY <2>1 DEF RawIf
        <4>2. (<<b>> \o <<>>) \o <<>> \in Seq(RxBytes)
          BY <1>4
        <4> QED
          BY <1>3, <1>7, <4>1, <4>2
      <3>2. p \o ((<<b>> \o <<>>) \o <<>>) = Append(p, b)
        BY <1>1, <1>4, WireAppends
      <3>3. DecodesTo(s, Append(p, b), text', IdleDecoder(TRUE))
        BY <1>1, <1>3, <2>0, <2>1, SentPair
      <3> QED
        BY <1>5, <1>7, <3>1, <3>2, <3>3
    <2>2. CASE c = "a" /\ d = "f"
      <3>1. rxWire' = (<<b>> \o <<>>) \o <<Raw(d)>> /\ (<<b>> \o <<>>) \o <<Raw(d)>> \in Seq(RxBytes)
        BY <1>3, <1>4, <1>7, <2>2 DEF RawIf
      <3>2. p \o ((<<b>> \o <<>>) \o <<Raw(d)>>) = Append(Append(p, b), Raw(d))
        BY <1>1, <1>4, WireAppends
      <3>3. DecodesTo(s, Append(Append(p, b), Raw(d)), text \o <<c, d>>, IdleDecoder(TRUE))
        <4>1. DecodesTo(s, Append(Append(p, b), Raw("f")), text \o <<c, d>>, IdleDecoder(TRUE))
          <5>1. (c = "a" /\ d = "f") \/ (c = "f" /\ d # "f")
          BY <2>2
        <5> QED
          BY <1>1, <2>0, <5>1, SentHalf
        <4> QED
          BY <2>2, <4>1
      <3>4. text' = text \o <<c, d>>
        BY <1>3, <2>2
      <3> QED
        BY <1>5, <1>7, <3>1, <3>2, <3>3, <3>4
    <2>3. CASE c = "f" /\ d # "f"
      <3>1. rxWire' = (<<b>> \o <<Raw(c)>>) \o <<>> /\ (<<b>> \o <<Raw(c)>>) \o <<>> \in Seq(RxBytes)
        BY <1>3, <1>4, <1>7, <2>3 DEF RawIf
      <3>2. p \o ((<<b>> \o <<Raw(c)>>) \o <<>>) = Append(Append(p, b), Raw(c))
        BY <1>1, <1>4, WireAppends
      <3>3. DecodesTo(s, Append(Append(p, b), Raw(c)), text \o <<c, d>>, IdleDecoder(TRUE))
        BY <1>1, <2>0, <2>3, SentHalf
      <3>4. text' = text \o <<c, d>>
        BY <1>3, <2>3
      <3> QED
        BY <1>5, <1>7, <3>1, <3>2, <3>3, <3>4
    <2>4. CASE c = "f" /\ d = "f"
      <3>0. b = CommandByte
        BY <2>4 DEF CommandByte
      <3>1. rxWire' = (<<b>> \o <<Raw(c)>>) \o <<Raw(d)>> /\ (<<b>> \o <<Raw(c)>>) \o <<Raw(d)>> \in Seq(RxBytes)
        BY <1>3, <1>4, <1>7, <2>4 DEF RawIf
      <3>2. p \o ((<<b>> \o <<Raw(c)>>) \o <<Raw(d)>>) = Append(Append(Append(p, b), Raw(c)), Raw(d))
        BY <1>1, <1>4, WireAppends
      <3>3. DecodesTo(s, Append(Append(Append(p, b), Raw(c)), Raw(d)), text \o <<c, d>>, IdleDecoder(TRUE))
        BY <1>1, <2>0, <2>4, <3>0, SentUncommon
      <3>4. text' = text \o <<c, d>>
        BY <1>3, <2>4
      <3> QED
        BY <1>5, <1>7, <3>1, <3>2, <3>3, <3>4
    <2> QED
      BY <2>1, <2>2, <2>3, <2>4 DEF RxChars
  <1> QED
    BY <1>1, <1>6, <1>7

\* A switch sends no text and leaves the decoder as the host packs.
LEMMA SwitchPackingKeeps == RxSound /\ SwitchPacking => RxSound'
  <1> SUFFICES ASSUME RxSound, SwitchPacking PROVE RxSound'
    OBVIOUS
  <1> DEFINE p == RxRing
             s == Decoder
             new == ~hostPacks
             b == CommandByte
             w == <<b, b, Cmd(new)>>
  <1>1. /\ p \in Seq(RxBytes) /\ DecodesTo(s, p, text, IdleDecoder(hostPacks))
        /\ text \in Seq(RxChars) /\ hostPacks \in BOOLEAN
    BY RxPending DEF RxSound, SwitchPacking
  <1>2. /\ RxTyped' /\ RxRing' = p /\ Decoder' = s /\ text' = text
    BY DEF RxSound, RxTyped, RxRing, RxCount, RxIndex, Decoder, SwitchPacking, rxRing, mpVars
  <1>3. hostPacks' = new /\ new \in BOOLEAN /\ rxWire' = <<b, b, Cmd(hostPacks')>>
    BY Zenon DEF SwitchPacking
  <1>4. rxWire' = w
    BY Zenon, <1>3
  <1> HIDE DEF p, s, new
  <1>5. b \in RxBytes /\ Cmd(new) \in RxBytes
    <2>1. CASE new = TRUE
      BY <2>1, PacketBytes
    <2>2. CASE new = FALSE
      BY <2>2, PacketBytes
    <2> QED
      BY <1>3, <2>1, <2>2
  <1> HIDE DEF b
  <1>6. DecodesTo(s, Append(Append(Append(p, b), b), Cmd(new)), text, IdleDecoder(new))
    BY <1>1, <1>3, SentSwitch DEF b
  <1>7. w \in Seq(RxBytes) /\ p \o w = Append(Append(Append(p, b), b), Cmd(new))
    <2> DEFINE z == Cmd(new)
    <2>1. z \in RxBytes
      BY <1>5
    <2> HIDE DEF z
    <2>2. (<<b>> \o <<b>>) \o <<z>> = <<b, b, z>> /\ p \o ((<<b>> \o <<b>>) \o <<z>>) = Append(Append(Append(p, b), b), z)
      <3>1. p \in Seq(RxBytes) /\ b \in RxBytes
        BY <1>1, <1>5
      <3>2. (<<b>> \o <<b>>) \o <<z>> = <<b, b, z>>
        BY <2>1, <3>1, ThreeBytes
      <3>3. p \o ((<<b>> \o <<b>>) \o <<z>>) = Append(Append(Append(p, b), b), z)
        BY <2>1, <3>1, WireAppends
      <3> QED
        BY <3>2, <3>3
    <2>3. <<b, b, z>> \in Seq(RxBytes)
      BY <1>5, <2>1
    <2> QED
      BY <2>2, <2>3 DEF z
  <1> HIDE DEF w
  <1>8. rxWire' \in Seq(RxBytes) /\ DecodesTo(Decoder', RxRing' \o rxWire', text', IdleDecoder(hostPacks'))
    BY <1>2, <1>3, <1>4, <1>6, <1>7
  <1> QED
    BY <1>1, <1>2, <1>3, <1>8 DEF RxSound

\* The interrupt moves a byte between the two parts of what is pending.
LEMMA StoreCharKeeps ==
  RxSound /\ StoreChar /\ (rxHead + 1) % RX_BUFFER_SIZE # rxTail => RxSound'
  <1> SUFFICES ASSUME RxSound, StoreChar, (rxHead + 1) % RX_BUFFER_SIZE # rxTail PROVE RxSound'
    OBVIOUS
  <1>1. /\ RxTyped' /\ rxWire' \in Seq(RxBytes)
        /\ RxRing' = Append(RxRing, Head(rxWire)) /\ rxWire' = Tail(rxWire)
    BY RxReceived DEF RxSound
  <1>2. RxRing \in Seq(RxBytes) /\ rxWire \in Seq(RxBytes) /\ rxWire # <<>>
    BY RxRingTyped DEF RxSound, StoreChar
  <1>3. RxRing' \o rxWire' = RxRing \o rxWire
    BY <1>1, <1>2, HeadMoves
  <1>4. Decoder' = Decoder /\ text' = text /\ hostPacks' = hostPacks
    BY DEF StoreChar, mpVars, Decoder
  <1> QED
    BY <1>1, <1>3, <1>4 DEF RxSound

\* The reader takes the characters of the first byte, wherever it returns.
LEMMA ReadByteKeeps == RxSound /\ ReadByte => RxSound'
  <1> SUFFICES ASSUME RxSound, ReadByte PROVE RxSound'
    OBVIOUS
  <1>1. /\ RxTyped' /\ RxRing # <<>> /\ RxRing[1] = rx_buffer[rxTail] /\ RxRing' = Tail(RxRing)
    BY RxTaken DEF RxSound, ReadByte
  <1>2. RxRing \in Seq(RxBytes) /\ rxWire \in Seq(RxBytes)
    BY RxRingTyped DEF RxSound
  <1> DEFINE p == RxRing \o rxWire
  <1>3. p # <<>> /\ p[1] = rx_buffer[rxTail] /\ Tail(p) = RxRing' \o rxWire
    BY <1>1, <1>2, TailOfConcat
  <1>4. DecodesTo(Decoder, p, text, IdleDecoder(hostPacks))
    BY DEF RxSound
  <1> HIDE DEF p
  <1>5. PICK o \in Seq(RxChars), u \in Seq(RxChars), y \in Decoders :
          Decodes(Decoder, p[1], o, y) /\ text = o \o u /\ DecodesTo(y, Tail(p), u, IdleDecoder(hostPacks))
    <2> DEFINE s == Decoder
               e == IdleDecoder(hostPacks)
    <2>1. DecodesTo(s, p, text, e) /\ p # <<>>
      BY <1>3, <1>4
    <2> HIDE DEF s, e
    <2>2. \E o \in Seq(RxChars), u \in Seq(RxChars), y \in Decoders :
            Decodes(s, p[1], o, y) /\ text = o \o u /\ DecodesTo(y, Tail(p), u, e)
      BY <2>1, DecodesFirst
    <2> QED
      BY <2>2 DEF s, e
  <1> DEFINE d == Decoded(Decoder, rx_buffer[rxTail])
  <1>6. /\ SetDecoder(d) /\ UNCHANGED <<rxWire, rx_buffer, rxHead, hostPacks>>
        /\ ~reading' => d.out # <<>> /\ d.out[1] = "n"
        /\ text' = LET taken == IF reading' THEN d.out ELSE <<"n">>
                   IN  IF IsPrefix(taken, text) THEN SubSeq(text, Len(taken) + 1, Len(text))
                       ELSE <<"garbled">>
    BY DEF ReadByte
  <1>7. Leaves(d, y, o) /\ y \in Decoders /\ (o # <<>> /\ o[1] = "n" => o = <<"n">>)
    BY <1>3, <1>5 DEF Decodes
  <1> HIDE DEF d
  <1>8. text' = u
    <2>1. IsPrefix(o, text) /\ SubSeq(text, Len(o) + 1, Len(text)) = u
      BY <1>5, PrefixOfConcat
    <2>2. d.out = o
      BY <1>7 DEF Leaves, Fields
    <2>3. (IF reading' THEN d.out ELSE <<"n">>) = o
      BY <1>6, <1>7, <2>2
    <2> QED
      BY <1>6, <2>1, <2>3
  <1>9. Decoder' = y
    <2>1. /\ mp_config' = y.on /\ mp_cmd_count' = y.count /\ mp_cmd_active' = y.active
          /\ mp_full_char_queue' = y.queue /\ mp_char_buf' = y.buf
      BY Zenon, <1>6, <1>7 DEF SetDecoder, Leaves, Fields
    <2>2. y = [on |-> y.on, count |-> y.count, active |-> y.active, queue |-> y.queue,
               buf |-> y.buf, out |-> <<>>]
      BY <1>7 DEF Decoders
    <2> QED
      BY <2>1, <2>2 DEF Decoder
  <1>10. DecodesTo(Decoder', RxRing' \o rxWire', text', IdleDecoder(hostPacks'))
    BY <1>3, <1>5, <1>6, <1>8, <1>9
  <1>11. hostPacks' \in BOOLEAN /\ rxWire' \in Seq(RxBytes) /\ text' \in Seq(RxChars)
    BY <1>2, <1>5, <1>6, <1>8 DEF RxSound
  <1> QED
    BY <1>1, <1>10, <1>11 DEF RxSound

-----------------------------------------------------------------------------
(* The types, also after a loss.                                             *)

\* A decoder whose fields have their types.
DecoderRecord(d) ==
  d = [on |-> d.on, count |-> d.count, active |-> d.active, queue |-> d.queue, buf |-> d.buf, out |-> d.out]

\* What unpacking and the characters to be taken do to a decoder.
LEMMA DecoderSet ==
  ASSUME NEW d, NEW o, NEW q \in 0 .. 2, NEW b \in {"none", "a", "n", "raw"},
         DecoderTyped(d), DecoderRecord(d)
  PROVE  /\ DecoderTyped([d EXCEPT !.out = o, !.queue = q, !.buf = b])
         /\ DecoderRecord([d EXCEPT !.out = o, !.queue = q, !.buf = b])
         /\ [d EXCEPT !.out = o, !.queue = q] = [d EXCEPT !.out = o, !.queue = q, !.buf = d.buf]
         /\ [d EXCEPT !.queue = q, !.buf = b] = [d EXCEPT !.out = d.out, !.queue = q, !.buf = b]
         /\ [d EXCEPT !.out = o, !.buf = b, !.queue = q] = [d EXCEPT !.out = o, !.queue = q, !.buf = b]
         /\ [d EXCEPT !.queue = q] = [d EXCEPT !.out = d.out, !.queue = q, !.buf = d.buf]
         /\ [d EXCEPT !.out = o] = [d EXCEPT !.out = o, !.queue = d.queue, !.buf = d.buf]
  <1> DEFINE x1 == d.on
             x2 == d.count
             x3 == d.active
             x4 == d.queue
             x5 == d.buf
             x6 == d.out
             z  == [on |-> x1, count |-> x2, active |-> x3, queue |-> q, buf |-> b, out |-> o]
  <1>1. d = [on |-> x1, count |-> x2, active |-> x3, queue |-> x4, buf |-> x5, out |-> x6]
    BY DEF DecoderRecord
  <1>2. x1 \in BOOLEAN /\ x2 \in {0, 1} /\ x3 \in BOOLEAN
    BY DEF DecoderTyped
  <1>3. d.out = x6 /\ d.queue = x4 /\ d.buf = x5
    OBVIOUS
  <1> HIDE DEF x1, x2, x3, x4, x5, x6
  <1>4. [d EXCEPT !.out = o, !.queue = q, !.buf = b] = z
    <2> DEFINE y1 == [d EXCEPT !.out = o]
               y2 == [y1 EXCEPT !.queue = q]
    <2>1. y1 = [on |-> x1, count |-> x2, active |-> x3, queue |-> x4, buf |-> x5, out |-> o]
      BY <1>1
    <2> HIDE DEF y1
    <2>2. y2 = [on |-> x1, count |-> x2, active |-> x3, queue |-> q, buf |-> x5, out |-> o]
      BY <2>1
    <2> HIDE DEF y2
    <2>3. [y2 EXCEPT !.buf = b] = z
      BY <2>2
    <2> HIDE DEF z
    <2> QED
      BY <2>3 DEF y1, y2
  <1>5. DecoderTyped(z) /\ DecoderRecord(z)
    BY <1>2 DEF DecoderTyped, DecoderRecord
  <1>6. [d EXCEPT !.out = o, !.queue = q] = [d EXCEPT !.out = o, !.queue = q, !.buf = d.buf]
    BY <1>1, <1>3
  <1>7. [d EXCEPT !.queue = q, !.buf = b] = [d EXCEPT !.out = d.out, !.queue = q, !.buf = b]
    BY <1>1, <1>3
  <1>8. [d EXCEPT !.out = o, !.buf = b, !.queue = q] = z
    <2> DEFINE y1 == [d EXCEPT !.out = o]
               y2 == [y1 EXCEPT !.buf = b]
    <2>1. y1 = [on |-> x1, count |-> x2, active |-> x3, queue |-> x4, buf |-> x5, out |-> o]
      BY <1>1
    <2> HIDE DEF y1
    <2>2. y2 = [on |-> x1, count |-> x2, active |-> x3, queue |-> x4, buf |-> b, out |-> o]
      BY <2>1
    <2> HIDE DEF y2
    <2>3. [y2 EXCEPT !.queue = q] = z
      BY <2>2
    <2> HIDE DEF z
    <2> QED
      BY <2>3 DEF y1, y2
  <1>9. [d EXCEPT !.queue = q] = [d EXCEPT !.out = d.out, !.queue = q, !.buf = d.buf]
    BY <1>1, <1>3
  <1>10. [d EXCEPT !.out = o] = [d EXCEPT !.out = o, !.queue = d.queue, !.buf = d.buf]
    BY <1>1, <1>3
  <1> HIDE DEF z
  <1> QED
    BY <1>4, <1>5, <1>6, <1>7, <1>8, <1>9, <1>10

LEMMA InnerTyped ==
  ASSUME NEW d, NEW c \in RxBytes, DecoderTyped(d), DecoderRecord(d)
  PROVE  DecoderTyped(Inner(d, c)) /\ DecoderRecord(Inner(d, c))
  <1> DEFINE Set(o, q, b) == [d EXCEPT !.out = o, !.queue = q, !.buf = b]
  <1>1. \A o : \A q \in 0 .. 2 : \A b \in {"none", "a", "n", "raw"} :
           DecoderTyped(Set(o, q, b)) /\ DecoderRecord(Set(o, q, b))
    BY DecoderSet
  <1>2. d.queue \in 0 .. 2 /\ d.buf \in {"none", "a", "n", "raw"} /\ d.on \in BOOLEAN
    BY DEF DecoderTyped
  <1>3. \E o : \E q \in 0 .. 2 : \E b \in {"none", "a", "n", "raw"} : Inner(d, c) = Set(o, q, b)
    <2>1. CASE ~d.on
      <3> DEFINE o == Append(d.out, c.low)
      <3>1. Inner(d, c) = [d EXCEPT !.out = o]
        BY <2>1 DEF Inner
      <3> HIDE DEF o
      <3>2. Inner(d, c) = Set(o, d.queue, d.buf)
        BY <3>1, <1>2, DecoderSet
      <3> HIDE DEF Set
      <3> QED
        BY <3>2, <1>2
    <2>2. CASE d.on /\ d.queue > 0
      <3> DEFINE o == Append(d.out, c.low) \o (IF d.buf = "none" THEN <<>> ELSE <<d.buf>>)
                 q == d.queue - 1
      <3>1. Inner(d, c) = [d EXCEPT !.out = o, !.buf = "none", !.queue = q]
        BY <2>2 DEF Inner
      <3>2. q \in 0 .. 2
        BY <2>2, <1>2
      <3> HIDE DEF o, q
      <3>3. Inner(d, c) = Set(o, q, "none")
        BY <3>1, <3>2, DecoderSet
      <3> HIDE DEF Set
      <3> QED
        BY <3>2, <3>3
    <2>3. CASE d.on /\ ~(d.queue > 0)
      <3>1. d.queue = 0 /\ Inner(d, c) = Unpacked(d, c)
        BY <1>2, <2>3 DEF Inner
      <3>2. CASE c.low = "f" /\ c.high = "f"
        <4>1. Inner(d, c) = [d EXCEPT !.queue = 2]
          BY <3>1, <3>2 DEF Unpacked
        <4>2. Inner(d, c) = Set(d.out, 2, d.buf)
          BY <4>1, <1>2, DecoderSet
        <4> HIDE DEF Set
        <4> QED
          BY <4>2, <1>2
      <3>3. CASE c.low = "f" /\ c.high # "f"
        <4> DEFINE b == c.high
        <4>1. Inner(d, c) = [d EXCEPT !.queue = 1, !.buf = b]
          BY <3>1, <3>3 DEF Unpacked
        <4>2. b \in {"none", "a", "n", "raw"}
          BY <3>3 DEF RxBytes
        <4> HIDE DEF b
        <4>3. Inner(d, c) = Set(d.out, 1, b)
          BY <4>1, <4>2, DecoderSet
        <4> HIDE DEF Set
        <4> QED
          BY <4>2, <4>3
      <3>4. CASE c.low = "n" \/ (c.low # "f" /\ c.high # "f")
        <4> DEFINE o == IF c.low = "n" THEN Append(d.out, c.low) ELSE d.out \o <<c.low, c.high>>
        <4>1. Inner(d, c) = [d EXCEPT !.out = o]
          BY <3>1, <3>4 DEF Unpacked
        <4> HIDE DEF o
        <4>2. Inner(d, c) = Set(o, d.queue, d.buf)
          BY <4>1, <1>2, DecoderSet
        <4> HIDE DEF Set
        <4> QED
          BY <4>2, <1>2
      <3>5. CASE c.low # "f" /\ c.low # "n" /\ c.high = "f"
        <4> DEFINE o == Append(d.out, c.low)
        <4>1. Inner(d, c) = [d EXCEPT !.out = o, !.queue = 1]
          BY <3>1, <3>5 DEF Unpacked
        <4> HIDE DEF o
        <4>2. Inner(d, c) = Set(o, 1, d.buf)
          BY <4>1, <1>2, DecoderSet
        <4> HIDE DEF Set
        <4> QED
          BY <4>2, <1>2
      <3> QED
        BY <3>2, <3>3, <3>4, <3>5
    <2> QED
      BY <1>2, <2>1, <2>2, <2>3
  <1> HIDE DEF Set
  <1> QED
    BY <1>1, <1>3

LEMMA DecodedTyped ==
  ASSUME NEW c \in RxBytes, DecoderTyped(Decoder) PROVE DecoderTyped(Decoded(Decoder, c))
  <1> DEFINE d == Decoder
             x == [Inner(d, CommandByte) EXCEPT !.count = 0]
  <1>1. DecoderTyped(d) /\ DecoderRecord(d)
    BY DEF Decoder, DecoderRecord
  <1>2. CommandByte \in RxBytes
    BY PacketBytes
  <1> HIDE DEF d
  <1>3. DecoderTyped(x) /\ DecoderRecord(x)
    <2> DEFINE y == Inner(d, CommandByte)
    <2>1. DecoderTyped(y) /\ DecoderRecord(y)
      BY <1>1, <1>2, InnerTyped
    <2> HIDE DEF y
    <2>2. DecoderTyped([y EXCEPT !.count = 0]) /\ DecoderRecord([y EXCEPT !.count = 0])
      BY <2>1 DEF DecoderTyped, DecoderRecord
    <2> QED
      BY <2>2 DEF y
  <1>4. CASE c = CommandByte
    BY <1>1, <1>4 DEF Decoded, DecoderTyped, DecoderRecord, d
  <1>5. CASE c # CommandByte /\ d.active
    BY <1>1, <1>5 DEF Decoded, DecoderTyped, DecoderRecord, d
  <1>6. CASE c # CommandByte /\ ~d.active
    <2>1. Decoded(d, c) = IF d.count > 0 THEN Inner(x, c) ELSE Inner(d, c)
      BY <1>6 DEF Decoded
    <2>2. DecoderTyped(Inner(x, c)) /\ DecoderTyped(Inner(d, c))
      <3> HIDE DEF x
      <3> QED
        BY <1>1, <1>3, InnerTyped
    <2> HIDE DEF x
    <2> QED
      BY <2>1, <2>2 DEF d
  <1> QED
    BY <1>4, <1>5, <1>6

\* Every step keeps the types.
LEMMA RxLooseStep == RxLoose /\ [RxNext]_rxVars => RxLoose'
  <1> SUFFICES ASSUME RxLoose, [RxNext]_rxVars PROVE RxLoose'
    OBVIOUS
  <1>1. CASE SendChars
    <2>1. PICK c \in RxChars, d \in RxChars :
            rxWire' = IF hostPacks
                      THEN <<Packed(c, d)>> \o RawIf(c = "f", c) \o RawIf(c # "n" /\ d = "f", d)
                      ELSE <<Raw(c)>> \o RawIf(c # "n", d)
      BY <1>1 DEF SendChars, RxChars
    <2>2. Raw(c) \in RxBytes /\ Raw(d) \in RxBytes /\ Packed(c, d) \in RxBytes
      BY RawBytes, PackedBytes
    <2>3. /\ RawIf(c = "f", c) \in Seq(RxBytes) /\ RawIf(c # "n" /\ d = "f", d) \in Seq(RxBytes)
          /\ RawIf(c # "n", d) \in Seq(RxBytes)
          /\ <<Packed(c, d)>> \in Seq(RxBytes) /\ <<Raw(c)>> \in Seq(RxBytes)
      BY <2>2 DEF RawIf
    <2>4. rxWire' \in Seq(RxBytes)
      BY <2>1, <2>3, ConcatProperties
    <2> QED
      BY <1>1, <2>4 DEF SendChars, RxLoose, RxTyped, Decoder, DecoderTyped, rxRing, mpVars
  <1>2. CASE SwitchPacking
    <2>1. hostPacks' \in BOOLEAN /\ rxWire' = <<CommandByte, CommandByte, Cmd(hostPacks')>>
      BY Zenon, <1>2 DEF SwitchPacking, RxLoose
    <2>2. CommandByte \in RxBytes /\ Cmd(hostPacks') \in RxBytes
      <3>1. CASE hostPacks' = TRUE
        BY <3>1, PacketBytes
      <3>2. CASE hostPacks' = FALSE
        BY <3>2, PacketBytes
      <3> QED
        BY Zenon, <2>1, <3>1, <3>2
    <2>3. rxWire' \in Seq(RxBytes)
      BY <2>1, <2>2
    <2>4. UNCHANGED <<rxRing, mpVars, reading, text, filled>>
      BY <1>2 DEF SwitchPacking
    <2> QED
      BY <2>1, <2>3, <2>4 DEF RxLoose, RxTyped, Decoder, DecoderTyped, rxRing, mpVars
  <1>3. CASE StoreChar
    <2>1. rxWire' \in Seq(RxBytes) /\ Head(rxWire) \in RxBytes
      BY <1>3 DEF StoreChar, RxLoose
    <2>2. (rxHead + 1) % RX_BUFFER_SIZE \in 0 .. RX_BUFFER_SIZE - 1
      BY RxNextIndex, RxAssumption DEF RxLoose, RxTyped
    <2>3. RxTyped'
      BY <1>3, <2>1, <2>2 DEF StoreChar, RxLoose, RxTyped
    <2>4. filled' \in BOOLEAN
      BY Zenon, <1>3 DEF StoreChar
    <2> QED
      BY <1>3, <2>1, <2>3, <2>4 DEF StoreChar, RxLoose, Decoder, DecoderTyped, mpVars
  <1>4. CASE EnterGet
    <2>1. rxHead' \in {rxHead, rxTail}
      BY <1>4 DEF EnterGet, Flushed
    <2> QED
      BY <1>4, <2>1 DEF EnterGet, RxLoose, RxTyped, Decoder, DecoderTyped, mpVars
  <1>5. CASE LeaveGet
    BY <1>5 DEF LeaveGet, RxLoose, RxTyped, Decoder, DecoderTyped, mpVars, rxRing
  <1>6. CASE ReadByte
    <2> DEFINE d == Decoded(Decoder, rx_buffer[rxTail])
    <2>1. SetDecoder(d) /\ reading' \in BOOLEAN /\ UNCHANGED <<rxWire, rx_buffer, rxHead, hostPacks, filled>>
      BY <1>6 DEF ReadByte
    <2>2. RxTyped'
      BY <1>6, RxTaken DEF RxLoose, ReadByte
    <2>3. DecoderTyped(d)
      <3>1. rx_buffer[rxTail] \in RxBytes /\ DecoderTyped(Decoder)
        BY DEF RxLoose, RxTyped
      <3> QED
        BY <3>1, DecodedTyped
    <2> HIDE DEF d
    <2>4. DecoderTyped(Decoder')
      BY <2>1, <2>3 DEF SetDecoder, DecoderTyped, Decoder
    <2> QED
      BY <2>1, <2>2, <2>4 DEF RxLoose
  <1>7. CASE UNCHANGED rxVars
    BY <1>7 DEF rxVars, rxRing, mpVars, RxLoose, RxTyped, Decoder, DecoderTyped
  <1> QED
    BY <1>1, <1>2, <1>3, <1>4, <1>5, <1>6, <1>7 DEF RxNext

\* What leaves the pending bytes and the text as they are.
LEMMA RxSame ==
  ASSUME UNCHANGED <<rxWire, rxRing, mpVars, hostPacks, text>>
  PROVE  RxCount' = RxCount /\ (RxSound => RxSound')
  BY DEF rxRing, mpVars, RxSound, RxTyped, RxRing, RxCount, RxIndex, Decoder

\* Every step keeps the invariant: the ring that has not been full has room for
\* the byte of the interrupt, and get_command() does not find it full.
LEMMA RxStepInv == RxInv /\ [RxNext]_rxVars => RxInv'
  <1> SUFFICES ASSUME RxInv, [RxNext]_rxVars PROVE RxInv'
    OBVIOUS
  <1>1. RxLoose /\ RxLoose'
    BY RxLooseStep DEF RxInv
  <1>2. RxTyped /\ RxTyped'
    BY <1>1 DEF RxLoose
  <1>3. SUFFICES ASSUME ~filled' PROVE RxSound' /\ RxCount' <= RX_BUFFER_SIZE - 2
    BY <1>1, <1>3 DEF RxInv
  <1>4. ~filled
    BY <1>3 DEF RxNext, SendChars, SwitchPacking, StoreChar, EnterGet, LeaveGet, ReadByte, rxVars
  <1>5. RxSound /\ RxCount <= RX_BUFFER_SIZE - 2
    BY <1>4 DEF RxInv
  <1>6. CASE SendChars
    <2>1. RxCount' = RxCount
      BY <1>6 DEF SendChars, rxRing, RxCount
    <2> QED
      BY <1>5, <1>6, <2>1, SendCharsKeeps
  <1>7. CASE SwitchPacking
    <2>1. RxCount' = RxCount
      BY <1>7 DEF SwitchPacking, rxRing, RxCount
    <2> QED
      BY <1>5, <1>7, <2>1, SwitchPackingKeeps
  <1>8. CASE StoreChar
    <2>1. (rxHead + 1) % RX_BUFFER_SIZE # rxTail
      BY <1>2, <1>5, RxFull, RxAssumption DEF RxFullFacts
    <2>2. RxSound'
      BY <1>5, <1>8, <2>1, StoreCharKeeps
    <2>3. rxTail' = rxTail /\ (rxHead' + 1) % RX_BUFFER_SIZE # rxTail
      BY <1>3, <1>8 DEF StoreChar
    <2>4. RxTyped' => RxFullFacts'
      BY RxFull, PTL
    <2>5. RxCount' \in 0 .. RX_BUFFER_SIZE - 1 /\ RxCount' # RX_BUFFER_SIZE - 1
      BY <1>2, <2>3, <2>4 DEF RxFullFacts
    <2> QED
      BY <2>2, <2>5, RxAssumption
  <1>9. CASE EnterGet
    <2>1. RxAvailable # RX_BUFFER_SIZE - 1
      BY <1>2, <1>5, RxAvailableCounts, RxAssumption, RxRingTyped
    <2>2. rxHead' = rxHead
      BY <1>9, <2>1 DEF EnterGet, Flushed
    <2>3. UNCHANGED <<rxWire, rxRing, mpVars, hostPacks, text>>
      BY <1>9, <2>2 DEF EnterGet, rxRing
    <2> QED
      BY <1>5, <2>3, RxSame
  <1>10. CASE LeaveGet
    <2>1. UNCHANGED <<rxWire, rxRing, mpVars, hostPacks, text>>
      BY <1>10 DEF LeaveGet
    <2> QED
      BY <1>5, <2>1, RxSame
  <1>11. CASE ReadByte
    <2>1. RxCount' = RxCount - 1 /\ RxCount \in Nat
      BY <1>2, <1>11, RxTaken, RxRingTyped DEF ReadByte
    <2>2. RxSound'
      BY <1>5, <1>11, ReadByteKeeps
    <2> QED
      BY <1>5, <2>1, <2>2, RxAssumption
  <1>12. CASE UNCHANGED rxVars
    <2>1. UNCHANGED <<rxWire, rxRing, mpVars, hostPacks, text>>
      BY <1>12 DEF rxVars
    <2> QED
      BY <1>5, <2>1, RxSame
  <1> QED
    BY <1>6, <1>7, <1>8, <1>9, <1>10, <1>11, <1>12 DEF RxNext

LEMMA RxInitInv == RxInit => RxInv
  <1> SUFFICES ASSUME RxInit PROVE RxInv
    OBVIOUS
  <1>1. RxSound
    BY RxInitSound
  <1>2. RxCount = 0 /\ RX_BUFFER_SIZE >= 2
    BY RxAssumption DEF RxInit, RxCount
  <1>3. DecoderTyped(Decoder)
    <2>1. Decoder = IdleDecoder(FALSE)
      BY DEF Decoder, IdleDecoder, RxInit
    <2> QED
      BY <2>1 DEF IdleDecoder, DecoderTyped
  <1>4. reading \in BOOLEAN /\ filled \in BOOLEAN
    BY Zenon DEF RxInit
  <1> QED
    BY <1>1, <1>2, <1>3, <1>4, RxAssumption DEF RxInv, RxLoose, RxSound

\* So the invariant always holds.
LEMMA RxInvariant == RxSpec => []RxInv
  BY RxInitInv, RxStepInv, PTL DEF RxSpec

\* However the host packs, whenever it switches, and wherever a call of
\* get_command() begins and returns: as long as the ring has not been full, the
\* lines get exactly the characters that were sent, for every size of the ring.
THEOREM CharactersArrive == RxSpec => []TextArrives
  <1>1. RxInv => TextArrives
    <2> SUFFICES ASSUME RxInv, rxWire = <<>>, rxHead = rxTail, ~filled PROVE text = <<>>
      BY DEF TextArrives
    <2>0. RxSound
      BY DEF RxInv
    <2>1. RxRing = <<>>
      BY <2>0, RxRingTyped DEF RxSound
    <2>2. DecodesTo(Decoder, <<>>, text, IdleDecoder(hostPacks))
      BY <2>0, <2>1, RxPending
    <2> QED
      BY <2>2, DecoderType, DecodesNothing
  <1> QED
    BY <1>1, RxInvariant, PTL

LEMMA RxInvTyped == RxInv => RxTypeOK
  <1> SUFFICES ASSUME RxInv PROVE RxTypeOK
    OBVIOUS
  <1>1. /\ Decoder.on = mp_config /\ Decoder.count = mp_cmd_count /\ Decoder.active = mp_cmd_active
        /\ Decoder.queue = mp_full_char_queue /\ Decoder.buf = mp_char_buf
    BY DEF Decoder
  <1> QED
    BY <1>1 DEF RxInv, RxLoose, RxTyped, DecoderTyped, RxTypeOK

\* The receive ring's indices and the decoder's state keep their types, also
\* after bytes have been lost.
THEOREM SerialTyped == RxSpec => []RxTypeOK
  BY RxInvTyped, RxInvariant, PTL

-----------------------------------------------------------------------------
(* CmdBuffer.                                                              *)

Texts == 0 .. MAX_CMD_SIZE - 1

LEMMA RingSizes ==
    /\ SizeOf \in Nat /\ RESERVE_FRONT \in Nat /\ CMDHDRSIZE \in Nat /\ CMDHDRSIZE >= 1
    /\ MAX_CMD_SIZE \in Nat /\ MAX_CMD_SIZE >= 2
    /\ MAX_CMD_SIZE + CMDHDRSIZE + RESERVE_FRONT <= SizeOf
    /\ FrontLens \subseteq Texts \ {0} /\ UiLens \subseteq Texts \ {0} /\ SdLens \subseteq Texts \ {0}
  <1> DEFINE P == BUFLINES * (MAX_CMD_SIZE + 1)
  <1>1. /\ BUFLINES \in Nat /\ RESERVE_FRONT \in Nat /\ CMDHDRSIZE \in Nat /\ CMDHDRSIZE >= 1
        /\ MAX_CMD_SIZE \in Nat /\ MAX_CMD_SIZE >= 2 /\ MAX_CMD_SIZE + CMDHDRSIZE <= P
    BY CmdBufferAssumption
  <1>2. \A a, b \in Nat : a * b \in Nat
    OBVIOUS
  <1>3. P \in Nat
    BY <1>1, <1>2
  <1>4. SizeOf = P + RESERVE_FRONT
    BY DEF SizeOf
  <1> HIDE DEF P
  <1> QED
    BY <1>1, <1>3, <1>4, CmdBufferAssumption DEF Texts

\* The cell behind an address that may go once around the ring.
CellOf(x) == IF x < SizeOf THEN x ELSE x - SizeOf

\* A command whose cells are those of the addresses from a, with nothing but zeros
\* between its string and b.
CommandAt(cells, a, b, len) ==
  /\ a + Taken(len) <= b
  /\ a + Taken(len) <= SizeOf \/ SizeOf <= a
  /\ cells[CellOf(a)] = Type
  /\ \A x \in a + CMDHDRSIZE .. a + CMDHDRSIZE + len - 1 : cells[CellOf(x)] # 0
  /\ \A x \in a + CMDHDRSIZE + len .. b - 1 : cells[CellOf(x)] = 0

\* The commands of q lie one behind the other at the addresses v, from r to w.
Chain(cells, r, w, q, v) ==
  /\ v \in [1 .. Len(q) + 1 -> Nat]
  /\ v[1] = r /\ v[Len(q) + 1] <= r + SizeOf /\ CellOf(v[Len(q) + 1]) = w
  /\ \A j, k \in 1 .. Len(q) + 1 : j < k => v[j] + (k - j) <= v[k]
  /\ \A k \in 1 .. Len(q) : CommandAt(cells, v[k], v[k + 1], q[k])

\* The addresses from the end of the queue are free for a command.
Room(r, q, v, len) ==
  /\ v[Len(q) + 1] + Taken(len) <= r + SizeOf
  /\ v[Len(q) + 1] + Taken(len) <= SizeOf \/ SizeOf <= v[Len(q) + 1]

LEMMA ChainBounds ==
    ASSUME NEW cells, NEW r \in Cells, NEW w, NEW q \in Seq(Texts), NEW v, Chain(cells, r, w, q, v)
    PROVE  /\ Len(q) \in Nat /\ v[Len(q) + 1] \in Nat
           /\ v[Len(q) + 1] < 2 * SizeOf /\ r <= v[Len(q) + 1]
           /\ \A k \in 1 .. Len(q) : /\ v[k] \in Nat /\ v[k + 1] \in Nat /\ r <= v[k]
                                     /\ v[k] < v[k + 1] /\ v[k + 1] <= v[Len(q) + 1]
  <1>1. Len(q) \in Nat /\ r \in Nat /\ r < SizeOf /\ SizeOf \in Nat
    BY RingSizes DEF Cells
  <1>2. /\ v \in [1 .. Len(q) + 1 -> Nat] /\ v[1] = r /\ v[Len(q) + 1] <= r + SizeOf
        /\ \A j, k \in 1 .. Len(q) + 1 : j < k => v[j] + (k - j) <= v[k]
    BY DEF Chain
  <1>3. \A k \in 1 .. Len(q) + 1 : v[k] \in Nat /\ r <= v[k] /\ v[k] <= v[Len(q) + 1]
    <2> SUFFICES ASSUME NEW k \in 1 .. Len(q) + 1
                 PROVE  v[k] \in Nat /\ r <= v[k] /\ v[k] <= v[Len(q) + 1]
      OBVIOUS
    <2>a. 1 \in 1 .. Len(q) + 1 /\ Len(q) + 1 \in 1 .. Len(q) + 1
      BY <1>1
    <2>b. \A f : f \in [1 .. Len(q) + 1 -> Nat] => f[k] \in Nat
      OBVIOUS
    <2>1. v[k] \in Nat /\ 1 \in 1 .. Len(q) + 1 /\ Len(q) + 1 \in 1 .. Len(q) + 1
      BY <1>2, <2>a, <2>b
    <2>2. v[Len(q) + 1] \in Nat
      BY <1>2, <2>1
    <2>3. k = 1 \/ v[1] + (k - 1) <= v[k]
      BY <1>1, <1>2, <2>1
    <2>4. k = Len(q) + 1 \/ v[k] + ((Len(q) + 1) - k) <= v[Len(q) + 1]
      BY <1>1, <1>2, <2>1
    <2> QED
      BY <1>1, <1>2, <2>1, <2>2, <2>3, <2>4
  <1>4. ASSUME NEW k \in 1 .. Len(q) PROVE v[k] < v[k + 1]
    <2>1. k \in 1 .. Len(q) + 1 /\ k + 1 \in 1 .. Len(q) + 1
      BY <1>1
    <2>2. v[k] + ((k + 1) - k) <= v[k + 1] /\ v[k] \in Nat /\ v[k + 1] \in Nat
      BY <1>2, <1>3, <2>1
    <2> QED
      BY <2>2
  <1>5. \A k \in 1 .. Len(q) : k \in 1 .. Len(q) + 1 /\ k + 1 \in 1 .. Len(q) + 1
    BY <1>1
  <1>6. Len(q) + 1 \in 1 .. Len(q) + 1
    BY <1>1
  <1>7. v[Len(q) + 1] \in Nat /\ r <= v[Len(q) + 1] /\ v[Len(q) + 1] < 2 * SizeOf
    BY <1>1, <1>2, <1>3, <1>6
  <1> QED
    BY <1>1, <1>3, <1>4, <1>5, <1>7

\* A command stays where it is while its cells keep what they hold.
LEMMA CommandStays ==
    ASSUME NEW cells, NEW other, NEW a \in Nat, NEW b \in Nat, NEW len \in Texts,
           CommandAt(cells, a, b, len),
           \A x \in a .. b - 1 : other[CellOf(x)] = cells[CellOf(x)]
    PROVE  CommandAt(other, a, b, len)
  <1>1. len \in Nat /\ CMDHDRSIZE \in Nat /\ CMDHDRSIZE >= 1
    BY RingSizes DEF Texts
  <1>2. /\ a + len + 1 + CMDHDRSIZE <= b
        /\ a + Taken(len) <= SizeOf \/ SizeOf <= a
        /\ cells[CellOf(a)] = Type
        /\ \A x \in a + CMDHDRSIZE .. a + CMDHDRSIZE + len - 1 : cells[CellOf(x)] # 0
        /\ \A x \in a + CMDHDRSIZE + len .. b - 1 : cells[CellOf(x)] = 0
    BY <1>1 DEF CommandAt, Taken
  <1>3. a \in a .. b - 1
    BY <1>1, <1>2
  <1>4. \A x \in a + CMDHDRSIZE .. a + CMDHDRSIZE + len - 1 : x \in a .. b - 1
    BY <1>1, <1>2
  <1>5. \A x \in a + CMDHDRSIZE + len .. b - 1 : x \in a .. b - 1
    BY <1>1, <1>2
  <1> QED
    BY <1>2, <1>3, <1>4, <1>5 DEF CommandAt

LEMMA ChainStays ==
    ASSUME NEW cells, NEW other, NEW r \in Cells, NEW w, NEW q \in Seq(Texts), NEW v,
           Chain(cells, r, w, q, v),
           \A x \in r .. v[Len(q) + 1] - 1 : other[CellOf(x)] = cells[CellOf(x)]
    PROVE  Chain(other, r, w, q, v)
  <1>1. ASSUME NEW k \in 1 .. Len(q) PROVE CommandAt(other, v[k], v[k + 1], q[k])
    <2>1. /\ v[k] \in Nat /\ v[k + 1] \in Nat /\ r <= v[k] /\ v[k + 1] <= v[Len(q) + 1]
          /\ v[Len(q) + 1] \in Nat /\ r \in Nat
      <3>1. r \in Nat
        BY DEF Cells
      <3> QED
        BY <3>1, ChainBounds, Zenon
    <2>2. \A x \in v[k] .. v[k + 1] - 1 : x \in r .. v[Len(q) + 1] - 1
      BY <2>1
    <2>3. q[k] \in Texts
      BY <1>1
    <2>4. CommandAt(cells, v[k], v[k + 1], q[k])
      BY <1>1 DEF Chain
    <2> QED
      BY <2>1, <2>2, <2>3, <2>4, CommandStays
  <1> QED
    BY <1>1 DEF Chain

\* What is written behind the end of the queue does not touch its commands.
LEMMA FreeCells ==
    ASSUME NEW cells, NEW other, NEW r \in Cells, NEW w, NEW q \in Seq(Texts), NEW v,
           Chain(cells, r, w, q, v), NEW len \in Texts, Room(r, q, v, len),
           \A i \in Cells : i \notin w .. w + Taken(len) - 1 => other[i] = cells[i]
    PROVE  Chain(other, r, w, q, v)
  <1> DEFINE e == v[Len(q) + 1]
  <1>a. e \in Nat /\ r <= e /\ e < 2 * SizeOf
    BY ChainBounds
  <1>1. /\ e \in Nat /\ r \in Nat /\ r < SizeOf /\ SizeOf \in Nat /\ len \in Nat /\ CMDHDRSIZE \in Nat
        /\ r <= e /\ e < 2 * SizeOf
    BY <1>a, RingSizes DEF Cells, Texts
  <1>2. /\ e + (len + 1 + CMDHDRSIZE) <= r + SizeOf
        /\ e + (len + 1 + CMDHDRSIZE) <= SizeOf \/ SizeOf <= e
    BY DEF Room, Taken
  <1>3. w = IF e < SizeOf THEN e ELSE e - SizeOf
    BY DEF Chain, CellOf
  <1> HIDE DEF e
  <1>4. ASSUME NEW x \in r .. e - 1
        PROVE  CellOf(x) \in Cells /\ CellOf(x) \notin w .. w + Taken(len) - 1
    <2>1. x \in Nat /\ r <= x /\ x < e
      BY <1>1
    <2>2. CASE x < SizeOf
      BY <1>1, <1>2, <1>3, <2>1, <2>2 DEF CellOf, Cells, Taken
    <2>3. CASE x >= SizeOf
      BY <1>1, <1>2, <1>3, <2>1, <2>3 DEF CellOf, Cells, Taken
    <2> QED
      BY <1>1, <2>1, <2>2, <2>3
  <1> QED
    BY <1>4, ChainStays DEF e

\* A command has been written to these cells.
Holds(cells, at, len) ==
  /\ cells[at] = Type /\ cells[at + CMDHDRSIZE + len] = 0
  /\ \A i \in at + CMDHDRSIZE .. at + CMDHDRSIZE + len - 1 : cells[i] # 0

LEMMA CommandWritten ==
    ASSUME NEW cells, NEW a \in Nat, NEW b \in Nat, NEW len \in Texts,
           a + Taken(len) <= SizeOf \/ SizeOf <= a, Holds(cells, CellOf(a), len),
           a + Taken(len) <= b, \A x \in a + Taken(len) .. b - 1 : cells[CellOf(x)] = 0
    PROVE  CommandAt(cells, a, b, len)
  <1>1. /\ SizeOf \in Nat /\ len \in Nat /\ CMDHDRSIZE \in Nat /\ CMDHDRSIZE >= 1
    BY RingSizes DEF Texts
  <1>2. Taken(len) = len + 1 + CMDHDRSIZE
    BY DEF Taken
  <1>3. \A x \in a .. a + (len + CMDHDRSIZE) : CellOf(x) = CellOf(a) + (x - a)
    <2> SUFFICES ASSUME NEW x \in a .. a + (len + CMDHDRSIZE) PROVE CellOf(x) = CellOf(a) + (x - a)
      OBVIOUS
    <2>1. x \in Nat /\ a <= x /\ x <= a + (len + CMDHDRSIZE)
      BY <1>1
    <2> QED
      BY <1>1, <1>2, <2>1 DEF CellOf
  <1>4. CellOf(a) \in Int
    BY <1>1 DEF CellOf
  <1>5. ASSUME NEW x \in a + CMDHDRSIZE .. a + CMDHDRSIZE + len - 1 PROVE cells[CellOf(x)] # 0
    <2>1. x \in Int /\ a + CMDHDRSIZE <= x /\ x <= a + CMDHDRSIZE + len - 1
      BY <1>1
    <2>2. x \in a .. a + (len + CMDHDRSIZE)
      BY <1>1, <2>1
    <2>3. CellOf(x) = CellOf(a) + (x - a)
      BY <1>3, <2>2
    <2>4. CellOf(x) \in CellOf(a) + CMDHDRSIZE .. CellOf(a) + CMDHDRSIZE + len - 1
      BY <1>1, <1>4, <2>1, <2>3
    <2> QED
      BY <2>4 DEF Holds
  <1>6. ASSUME NEW x \in a + CMDHDRSIZE + len .. b - 1 PROVE cells[CellOf(x)] = 0
    <2>1. x \in Int /\ a + CMDHDRSIZE + len <= x /\ x <= b - 1
      BY <1>1
    <2>2. CASE x = a + CMDHDRSIZE + len
      <3>1. x \in a .. a + (len + CMDHDRSIZE) /\ x - a = CMDHDRSIZE + len
        BY <1>1, <2>1, <2>2
      <3>2. CellOf(x) = CellOf(a) + (x - a)
        BY <1>3, <3>1
      <3>3. CellOf(x) = CellOf(a) + CMDHDRSIZE + len
        BY <1>1, <1>4, <3>1, <3>2
      <3> QED
        BY <3>3 DEF Holds
    <2>3. CASE x # a + CMDHDRSIZE + len
      <3>1. x \in a + Taken(len) .. b - 1
        BY <1>1, <1>2, <2>1, <2>3
      <3> QED
        BY <3>1
    <2> QED
      BY <2>2, <2>3
  <1> QED
    BY <1>5, <1>6 DEF CommandAt, Holds

\* A command at the end of the queue.
LEMMA ChainAppend ==
    ASSUME NEW cells, NEW other, NEW r \in Cells, NEW w, NEW q \in Seq(Texts), NEW v,
           Chain(cells, r, w, q, v), NEW full \in Texts, Room(r, q, v, full),
           \A i \in Cells : i \notin w .. w + Taken(full) - 1 => other[i] = cells[i],
           NEW len \in 0 .. full, Holds(other, w, len)
    PROVE  \E u : Chain(other, r, IF w + Taken(len) = SizeOf THEN 0 ELSE w + Taken(len),
                        Append(q, len), u)
  <1> DEFINE n == Len(q)
             e == v[n + 1]
             f == e + Taken(len)
             u == [k \in 1 .. n + 2 |-> IF k = n + 2 THEN f ELSE v[k]]
             q2 == Append(q, len)
             w2 == IF w + Taken(len) = SizeOf THEN 0 ELSE w + Taken(len)
  <1>1. Chain(other, r, w, q, v)
    BY FreeCells
  <1>2. e \in Nat /\ r <= e /\ e < 2 * SizeOf /\ n \in Nat
    BY ChainBounds
  <1>3. /\ r \in Nat /\ r < SizeOf /\ SizeOf \in Nat /\ len \in Nat /\ CMDHDRSIZE \in Nat
        /\ CMDHDRSIZE >= 1 /\ full \in Nat /\ len <= full /\ full <= MAX_CMD_SIZE - 1
        /\ MAX_CMD_SIZE \in Nat
    BY RingSizes DEF Cells, Texts
  <1>4. /\ e + (full + 1 + CMDHDRSIZE) <= r + SizeOf
        /\ e + (full + 1 + CMDHDRSIZE) <= SizeOf \/ SizeOf <= e
    BY DEF Room, Taken
  <1>5. w = IF e < SizeOf THEN e ELSE e - SizeOf
    BY DEF Chain, CellOf
  <1>6. f = e + (len + 1 + CMDHDRSIZE) /\ f \in Nat /\ e + 1 <= f /\ f <= r + SizeOf
        /\ (f <= SizeOf \/ SizeOf <= e)
    BY <1>2, <1>3, <1>4 DEF Taken
  <1>7. q2 \in Seq(Texts) /\ Len(q2) = n + 1 /\ q2[n + 1] = len /\ \A k \in 1 .. n : q2[k] = q[k]
    <2>1. len \in Texts
      BY <1>3 DEF Texts
    <2> QED
      BY <2>1
  <1>8. /\ v \in [1 .. n + 1 -> Nat] /\ v[1] = r
        /\ \A j, k \in 1 .. n + 1 : j < k => v[j] + (k - j) <= v[k]
        /\ \A k \in 1 .. n : CommandAt(other, v[k], v[k + 1], q[k])
    BY <1>1 DEF Chain
  <1>9. CellOf(f) = w2
    BY <1>2, <1>3, <1>4, <1>5, <1>6 DEF CellOf, Taken
  <1>10. CommandAt(other, e, f, len)
    <2>1. CellOf(e) = w
      BY DEF Chain
    <2>2. len \in Texts /\ (e + Taken(len) <= SizeOf \/ SizeOf <= e)
      BY <1>3, <1>6 DEF Texts
    <2> HIDE DEF e
    <2>3. \A x \in e + Taken(len) .. f - 1 : FALSE
      BY <1>2, <1>6
    <2> HIDE DEF f
    <2>4. f = e + Taken(len)
      BY DEF f
    <2>5. Holds(other, CellOf(e), len)
      BY <2>1
    <2>6. \A x \in e + Taken(len) .. f - 1 : other[CellOf(x)] = 0
      BY <2>3
    <2>7. e \in Nat /\ f \in Nat /\ e + Taken(len) <= f
      BY <1>2, <1>6, <2>4
    <2> QED
      BY <2>2, <2>5, <2>6, <2>7, CommandWritten
  <1> HIDE DEF n, e, f, q2, w2
  <1>a. e = v[n + 1]
    BY DEF e
  <1>11. \A k \in 1 .. n + 1 : v[k] \in Nat
    BY <1>8
  <1>12. u \in [1 .. (n + 1) + 1 -> Nat] /\ u[n + 2] = f /\ \A k \in 1 .. n + 1 : u[k] = v[k]
    BY <1>2, <1>6, <1>11
  <1> HIDE DEF u
  <1>13. ASSUME NEW j \in 1 .. n + 2, NEW k \in 1 .. n + 2, j < k PROVE u[j] + (k - j) <= u[k]
    <2>1. CASE k \in 1 .. n + 1
      <3>1. j \in 1 .. n + 1
        BY <1>2, <1>13
      <3> QED
        BY <1>8, <1>12, <2>1, <3>1, <1>13
    <2>2. CASE k = n + 2
      <3>1. j \in 1 .. n + 1 /\ n + 1 \in 1 .. n + 1
        BY <1>2, <1>13, <2>2
      <3>2. v[j] + ((n + 1) - j) <= e /\ v[j] \in Nat
        <4>1. CASE j = n + 1
          BY <1>2, <1>a, <4>1
        <4>2. CASE j # n + 1
          BY <1>2, <1>8, <1>11, <1>a, <3>1, <4>2
        <4> QED
          BY <4>1, <4>2
      <3>3. u[j] = v[j] /\ u[k] = f
        BY <1>12, <2>2, <3>1
      <3> QED
        BY <1>2, <1>6, <2>2, <3>1, <3>2, <3>3
    <2> QED
      BY <1>2, <2>1, <2>2
  <1>14. ASSUME NEW k \in 1 .. n + 1 PROVE CommandAt(other, u[k], u[k + 1], q2[k])
    <2>1. CASE k \in 1 .. n
      <3>1. k + 1 \in 1 .. n + 1 /\ k \in 1 .. n + 1
        BY <1>2, <2>1
      <3> QED
        BY <1>7, <1>8, <1>12, <2>1, <3>1
    <2>2. CASE k = n + 1
      <3>1. u[k] = e /\ u[k + 1] = f /\ q2[k] = len
        <4>1. k + 1 = n + 2
          BY <1>2, <2>2
        <4> QED
          BY <1>7, <1>12, <1>a, <2>2, <4>1
      <3> QED
        BY <1>10, <3>1
    <2> QED
      BY <1>2, <2>1, <2>2
  <1>15. u[1] = r /\ u[(n + 1) + 1] = f /\ f <= r + SizeOf
    <2>1. 1 \in 1 .. n + 1 /\ (n + 1) + 1 = n + 2
      BY <1>2
    <2> QED
      BY <1>6, <1>8, <1>12, <2>1
  <1>16. Chain(other, r, w2, q2, u)
    <2>1. (n + 1) + 1 = n + 2
      BY <1>2
    <2> QED
      BY <1>7, <1>9, <1>12, <1>13, <1>14, <1>15, <2>1 DEF Chain
  <1> QED
    BY <1>16 DEF q2, w2

-----------------------------------------------------------------------------
\* Looking for zeros.

\* The least place is the first.
LEMMA FirstIs ==
    ASSUME NEW S \in SUBSET Int, NEW m \in S, \A y \in S : m <= y
    PROVE  Min(S) = m
  <1>1. \A x \in S : (\A y \in S : x <= y) => x = m
    <2> SUFFICES ASSUME NEW x \in S, \A y \in S : x <= y PROVE x = m
      OBVIOUS
    <2>1. x <= m /\ m <= x /\ x \in Int /\ m \in Int
      OBVIOUS
    <2> QED
      BY <2>1
  <1>2. Min(S) \in S /\ \A y \in S : Min(S) <= y
    BY DEF Min
  <1> QED
    BY <1>1, <1>2

LEMMA ZeroFound ==
    ASSUME NEW cells, NEW i \in Nat, NEW e \in Nat, i <= e, e < SizeOf,
           \A x \in i .. e - 1 : cells[x] # 0, cells[e] = 0
    PROVE  ZeroFrom(cells, i) = e
  <1> DEFINE S == {j \in i .. SizeOf - 1 : cells[j] = 0} \cup {SizeOf}
  <1>1. SizeOf \in Nat
    BY RingSizes
  <1>2. S \in SUBSET Int /\ e \in S
    BY <1>1
  <1>3. \A y \in S : e <= y
    <2> SUFFICES ASSUME NEW y \in i .. SizeOf - 1, cells[y] = 0, ~(e <= y) PROVE FALSE
      BY <1>1
    <2>1. y \in i .. e - 1
      BY <1>1
    <2> QED
      BY <2>1
  <1>4. ZeroFrom(cells, i) = Min(S)
    BY DEF ZeroFrom, FirstOf
  <1> HIDE DEF S
  <1> QED
    BY <1>2, <1>3, <1>4, FirstIs

LEMMA TextFound ==
    ASSUME NEW cells, NEW i \in Nat, NEW e \in Nat, i <= e, e <= SizeOf,
           \A x \in i .. e - 1 : cells[x] = 0, e = SizeOf \/ cells[e] # 0
    PROVE  TextFrom(cells, i) = e
  <1> DEFINE S == {j \in i .. SizeOf - 1 : cells[j] # 0} \cup {SizeOf}
  <1>1. SizeOf \in Nat
    BY RingSizes
  <1>2. S \in SUBSET Int /\ e \in S
    BY <1>1
  <1>3. \A y \in S : e <= y
    <2> SUFFICES ASSUME NEW y \in i .. SizeOf - 1, cells[y] # 0, ~(e <= y) PROVE FALSE
      BY <1>1
    <2>1. y \in i .. e - 1
      BY <1>1
    <2> QED
      BY <2>1
  <1>4. TextFrom(cells, i) = Min(S)
    BY DEF TextFrom, FirstOf
  <1> HIDE DEF S
  <1> QED
    BY <1>2, <1>3, <1>4, FirstIs

\* The string of a command ends where its length says.
LEMMA StringEnds ==
    ASSUME NEW cells, NEW a \in Nat, NEW b \in Nat, NEW len \in Texts, CommandAt(cells, a, b, len),
           b < 2 * SizeOf
    PROVE  /\ CellOf(a) \in Nat /\ CellOf(a) + Taken(len) <= SizeOf
           /\ ZeroFrom(cells, CellOf(a) + CMDHDRSIZE) = CellOf(a) + CMDHDRSIZE + len
  <1>1. /\ SizeOf \in Nat /\ len \in Nat /\ CMDHDRSIZE \in Nat /\ CMDHDRSIZE >= 1
    BY RingSizes DEF Texts
  <1>2. Taken(len) = len + 1 + CMDHDRSIZE
    BY DEF Taken
  <1>3. a + Taken(len) <= b /\ (a + Taken(len) <= SizeOf \/ SizeOf <= a)
    BY DEF CommandAt
  <1>4. CellOf(a) \in Nat /\ CellOf(a) + Taken(len) <= SizeOf
    BY <1>1, <1>2, <1>3 DEF CellOf
  <1>5. \A x \in a .. a + (len + CMDHDRSIZE) : CellOf(x) = CellOf(a) + (x - a)
    <2> SUFFICES ASSUME NEW x \in a .. a + (len + CMDHDRSIZE) PROVE CellOf(x) = CellOf(a) + (x - a)
      OBVIOUS
    <2>1. x \in Nat /\ a <= x /\ x <= a + (len + CMDHDRSIZE)
      BY <1>1
    <2> QED
      BY <1>1, <1>2, <1>3, <2>1 DEF CellOf
  <1> DEFINE i == CellOf(a) + CMDHDRSIZE
             e == CellOf(a) + CMDHDRSIZE + len
  <1>6. i \in Nat /\ e \in Nat /\ i <= e /\ e < SizeOf
    BY <1>1, <1>2, <1>4
  <1>7. cells[e] = 0
    <2>1. a + CMDHDRSIZE + len \in a .. a + (len + CMDHDRSIZE)
      BY <1>1
    <2>2. CellOf(a + CMDHDRSIZE + len) = CellOf(a) + ((a + CMDHDRSIZE + len) - a)
      BY <1>5, <2>1
    <2>3. CellOf(a + CMDHDRSIZE + len) = e
      BY <1>1, <1>4, <2>2
    <2>4. a + CMDHDRSIZE + len \in a + CMDHDRSIZE + len .. b - 1
      BY <1>1, <1>2, <1>3
    <2> QED
      BY <2>3, <2>4 DEF CommandAt
  <1>8. ASSUME NEW y \in i .. e - 1 PROVE cells[y] # 0
    <2> DEFINE x == a + (y - CellOf(a))
    <2>1. y \in Int /\ CellOf(a) + CMDHDRSIZE <= y /\ y <= CellOf(a) + CMDHDRSIZE + len - 1
      BY <1>1, <1>4
    <2>2. x \in a .. a + (len + CMDHDRSIZE) /\ CellOf(a) + (x - a) = y
          /\ x \in a + CMDHDRSIZE .. a + CMDHDRSIZE + len - 1
      BY <1>1, <1>4, <2>1
    <2> HIDE DEF x
    <2>3. CellOf(x) = y
      BY <1>5, <2>2
    <2> QED
      BY <2>2, <2>3 DEF CommandAt
  <1> HIDE DEF i, e
  <1>9. ZeroFrom(cells, i) = e
    BY <1>6, <1>7, <1>8, ZeroFound
  <1> QED
    BY <1>4, <1>9 DEF i, e

\* Behind a command and its zeros the next one is found.
LEMMA NextFound ==
    ASSUME NEW cells, NEW a \in Nat, NEW b \in Nat, NEW len \in Texts, CommandAt(cells, a, b, len),
           b < 2 * SizeOf, cells[CellOf(b)] # 0
    PROVE  NextCommand(cells, CellOf(a)) = CellOf(b)
  <1>1. /\ SizeOf \in Nat /\ len \in Nat /\ CMDHDRSIZE \in Nat /\ CMDHDRSIZE >= 1
    BY RingSizes DEF Texts
  <1>2. Taken(len) = len + 1 + CMDHDRSIZE
    BY DEF Taken
  <1>3. /\ a + Taken(len) <= b
        /\ a + Taken(len) <= SizeOf \/ SizeOf <= a
        /\ \A x \in a + CMDHDRSIZE + len .. b - 1 : cells[CellOf(x)] = 0
    BY DEF CommandAt
  <1> DEFINE i == CellOf(a) + Taken(len)
  <1>4. /\ ZeroFrom(cells, CellOf(a) + CMDHDRSIZE) = CellOf(a) + CMDHDRSIZE + len
        /\ CellOf(a) \in Nat /\ i <= SizeOf
    BY StringEnds
  <1>5. NextCommand(cells, CellOf(a)) =
          IF TextFrom(cells, i) < SizeOf THEN TextFrom(cells, i) ELSE TextFrom(cells, 0)
    <2>1. (CellOf(a) + CMDHDRSIZE + len) + 1 = i
      BY <1>1, <1>2, <1>4
    <2> HIDE DEF i
    <2> QED
      BY <1>4, <2>1 DEF NextCommand
  <1>6. CASE b < SizeOf
    <2>1. CellOf(a) = a /\ CellOf(b) = b /\ i = a + Taken(len)
      BY <1>1, <1>2, <1>3, <1>6 DEF CellOf
    <2>2. ASSUME NEW x \in i .. b - 1 PROVE cells[x] = 0
      <3>1. x \in a + CMDHDRSIZE + len .. b - 1 /\ CellOf(x) = x
        BY <1>1, <1>2, <1>6, <2>1 DEF CellOf
      <3> QED
        BY <1>3, <3>1
    <2>3. i \in Nat /\ i <= b
      BY <1>1, <1>2, <1>3, <2>1
    <2> HIDE DEF i
    <2>4. TextFrom(cells, i) = b
      BY <1>1, <1>6, <2>1, <2>2, <2>3, TextFound
    <2> QED
      BY <1>5, <1>6, <2>1, <2>4
  <1>7. CASE b >= SizeOf /\ a < SizeOf
    <2>1. CellOf(a) = a /\ CellOf(b) = b - SizeOf /\ i = a + Taken(len) /\ i \in Nat
          /\ b - SizeOf \in Nat /\ b - SizeOf < SizeOf
      BY <1>1, <1>2, <1>3, <1>7 DEF CellOf
    <2>2. ASSUME NEW x \in i .. SizeOf - 1 PROVE cells[x] = 0
      <3>1. x \in a + CMDHDRSIZE + len .. b - 1 /\ CellOf(x) = x
        BY <1>1, <1>2, <1>7, <2>1 DEF CellOf
      <3> QED
        BY <1>3, <3>1
    <2>3. ASSUME NEW x \in 0 .. (b - SizeOf) - 1 PROVE cells[x] = 0
      <3>1. x + SizeOf \in a + CMDHDRSIZE + len .. b - 1 /\ CellOf(x + SizeOf) = x
        BY <1>1, <1>2, <1>3, <1>7, <2>1 DEF CellOf
      <3> QED
        BY <1>3, <3>1
    <2> HIDE DEF i
    <2>4. TextFrom(cells, i) = SizeOf
      BY <1>1, <1>4, <2>1, <2>2, TextFound
    <2>5. TextFrom(cells, 0) = b - SizeOf
      BY <1>1, <2>1, <2>3, TextFound
    <2> QED
      BY <1>1, <1>5, <2>1, <2>4, <2>5
  <1>8. CASE b >= SizeOf /\ a >= SizeOf
    <2>1. CellOf(a) = a - SizeOf /\ CellOf(b) = b - SizeOf /\ i = (a - SizeOf) + Taken(len)
          /\ i \in Nat /\ i <= b - SizeOf /\ b - SizeOf \in Nat /\ b - SizeOf < SizeOf
      BY <1>1, <1>2, <1>3, <1>8 DEF CellOf
    <2>2. ASSUME NEW x \in i .. (b - SizeOf) - 1 PROVE cells[x] = 0
      <3>1. x + SizeOf \in a + CMDHDRSIZE + len .. b - 1 /\ CellOf(x + SizeOf) = x
        BY <1>1, <1>2, <1>8, <2>1 DEF CellOf
      <3> QED
        BY <1>3, <3>1
    <2> HIDE DEF i
    <2>3. TextFrom(cells, i) = b - SizeOf
      BY <1>1, <2>1, <2>2, TextFound
    <2> QED
      BY <1>5, <2>1, <2>3
  <1> QED
    BY <1>1, <1>6, <1>7, <1>8

-----------------------------------------------------------------------------
\* The front of the queue.

\* The same cells, one time around the ring earlier or later.
LEMMA CommandTurns ==
    ASSUME NEW cells, NEW a \in Nat, NEW b \in Nat, NEW len \in Texts, CommandAt(cells, a, b, len)
    PROVE  /\ SizeOf <= a /\ b < 2 * SizeOf => CommandAt(cells, a - SizeOf, b - SizeOf, len)
           /\ b <= SizeOf => CommandAt(cells, a + SizeOf, b + SizeOf, len)
  <1>1. /\ SizeOf \in Nat /\ len \in Nat /\ CMDHDRSIZE \in Nat /\ CMDHDRSIZE >= 1
    BY RingSizes DEF Texts
  <1>2. Taken(len) = len + 1 + CMDHDRSIZE
    BY DEF Taken
  <1>3. /\ a + Taken(len) <= b
        /\ a + Taken(len) <= SizeOf \/ SizeOf <= a
        /\ cells[CellOf(a)] = Type
        /\ \A x \in a + CMDHDRSIZE .. a + CMDHDRSIZE + len - 1 : cells[CellOf(x)] # 0
        /\ \A x \in a + CMDHDRSIZE + len .. b - 1 : cells[CellOf(x)] = 0
    BY DEF CommandAt
  <1>4. ASSUME SizeOf <= a, b < 2 * SizeOf PROVE CommandAt(cells, a - SizeOf, b - SizeOf, len)
    <2> DEFINE c == a - SizeOf
               d == b - SizeOf
    <2>1. c \in Nat /\ d \in Nat /\ a = c + SizeOf /\ b = d + SizeOf /\ d < SizeOf
          /\ c + Taken(len) <= d
      BY <1>1, <1>2, <1>3, <1>4
    <2> HIDE DEF c, d
    <2>2. \A x \in c .. d - 1 : CellOf(x) = CellOf(x + SizeOf)
      BY <1>1, <2>1 DEF CellOf
    <2>3. c \in c .. d - 1
      BY <1>1, <1>2, <2>1
    <2>4. \A x \in c + CMDHDRSIZE .. c + CMDHDRSIZE + len - 1 :
             x \in c .. d - 1 /\ x + SizeOf \in a + CMDHDRSIZE .. a + CMDHDRSIZE + len - 1
      BY <1>1, <1>2, <2>1
    <2>5. \A x \in c + CMDHDRSIZE + len .. d - 1 :
             x \in c .. d - 1 /\ x + SizeOf \in a + CMDHDRSIZE + len .. b - 1
      BY <1>1, <1>2, <2>1
    <2>6. cells[CellOf(c)] = Type
      BY <1>3, <2>1, <2>2, <2>3
    <2>7. \A x \in c + CMDHDRSIZE .. c + CMDHDRSIZE + len - 1 : cells[CellOf(x)] # 0
      BY <1>3, <2>2, <2>4
    <2>8. \A x \in c + CMDHDRSIZE + len .. d - 1 : cells[CellOf(x)] = 0
      BY <1>3, <2>2, <2>5
    <2>9. c + Taken(len) <= SizeOf
      BY <1>1, <1>2, <2>1
    <2>10. CommandAt(cells, c, d, len)
      BY <2>1, <2>6, <2>7, <2>8, <2>9 DEF CommandAt
    <2> QED
      BY <2>10 DEF c, d
  <1>5. ASSUME b <= SizeOf PROVE CommandAt(cells, a + SizeOf, b + SizeOf, len)
    <2> DEFINE c == a + SizeOf
               d == b + SizeOf
    <2>1. c \in Nat /\ d \in Nat /\ a = c - SizeOf /\ b = d - SizeOf /\ SizeOf <= c
          /\ c + Taken(len) <= d
      BY <1>1, <1>2, <1>3, <1>5
    <2> HIDE DEF c, d
    <2>2. \A x \in c .. d - 1 : CellOf(x) = CellOf(x - SizeOf)
      BY <1>1, <1>5, <2>1 DEF CellOf
    <2>3. c \in c .. d - 1
      BY <1>1, <1>2, <2>1
    <2>4. \A x \in c + CMDHDRSIZE .. c + CMDHDRSIZE + len - 1 :
             x \in c .. d - 1 /\ x - SizeOf \in a + CMDHDRSIZE .. a + CMDHDRSIZE + len - 1
      BY <1>1, <1>2, <2>1
    <2>5. \A x \in c + CMDHDRSIZE + len .. d - 1 :
             x \in c .. d - 1 /\ x - SizeOf \in a + CMDHDRSIZE + len .. b - 1
      BY <1>1, <1>2, <2>1
    <2>6. cells[CellOf(c)] = Type
      BY <1>3, <2>1, <2>2, <2>3
    <2>7. \A x \in c + CMDHDRSIZE .. c + CMDHDRSIZE + len - 1 : cells[CellOf(x)] # 0
      BY <1>3, <2>2, <2>4
    <2>8. \A x \in c + CMDHDRSIZE + len .. d - 1 : cells[CellOf(x)] = 0
      BY <1>3, <2>2, <2>5
    <2>10. CommandAt(cells, c, d, len)
      BY <2>1, <2>6, <2>7, <2>8 DEF CommandAt
    <2> QED
      BY <2>10 DEF c, d
  <1> QED
    BY <1>4, <1>5

\* The queue without its first command.
LEMMA ChainPop ==
    ASSUME NEW cells, NEW r \in Cells, NEW w, NEW q \in Seq(Texts), NEW v,
           Chain(cells, r, w, q, v), q # <<>>
    PROVE  /\ Len(q) >= 2 => NextCommand(cells, r) = CellOf(v[2])
           /\ CellOf(v[2]) \in Cells /\ Tail(q) \in Seq(Texts)
           /\ \E u : Chain(cells, CellOf(v[2]), w, Tail(q), u)
  <1> DEFINE n == Len(q)
             shift == IF v[2] < SizeOf THEN 0 ELSE SizeOf
             u == [k \in 1 .. n |-> v[k + 1] - shift]
             t == Tail(q)
  <1>1. /\ n \in Nat /\ n >= 1 /\ t \in Seq(Texts) /\ Len(t) = n - 1
        /\ \A k \in 1 .. n - 1 : t[k] = q[k + 1]
        /\ \A k \in 1 .. n : q[k] \in Texts
    OBVIOUS
  <1>2. /\ v \in [1 .. n + 1 -> Nat] /\ v[1] = r /\ v[n + 1] <= r + SizeOf
        /\ CellOf(v[n + 1]) = w
        /\ \A j, k \in 1 .. n + 1 : j < k => v[j] + (k - j) <= v[k]
        /\ \A k \in 1 .. n : CommandAt(cells, v[k], v[k + 1], q[k])
    BY DEF Chain
  <1>3. /\ v[n + 1] \in Nat /\ v[n + 1] < 2 * SizeOf
        /\ \A k \in 1 .. n : /\ v[k] \in Nat /\ v[k + 1] \in Nat /\ r <= v[k]
                             /\ v[k] < v[k + 1] /\ v[k + 1] <= v[n + 1]
    BY ChainBounds
  <1>4. r \in Nat /\ r < SizeOf /\ SizeOf \in Nat
    BY RingSizes DEF Cells
  <1> HIDE DEF n, t
  <1>5. 1 \in 1 .. n /\ 1 + 1 = 2
    BY <1>1
  <1>6. v[2] \in Nat /\ r < v[2] /\ v[2] <= v[n + 1] /\ v[2] < 2 * SizeOf
    BY <1>2, <1>3, <1>4, <1>5
  <1>7. /\ shift \in Nat /\ shift <= v[2] /\ v[2] - shift = CellOf(v[2])
        /\ shift = 0 \/ (shift = SizeOf /\ SizeOf <= v[2]) 
    BY <1>4, <1>6 DEF CellOf
  <1>8. CellOf(v[2]) \in Cells
    BY <1>4, <1>6 DEF CellOf, Cells
  <1>9. ASSUME n >= 2 PROVE NextCommand(cells, r) = CellOf(v[2])
    <2>1. 2 \in 1 .. n
      BY <1>1, <1>9
    <2>2. CommandAt(cells, v[1], v[2], q[1]) /\ CommandAt(cells, v[2], v[2 + 1], q[2])
      BY <1>2, <1>5, <2>1
    <2>3. cells[CellOf(v[2])] # 0
      BY <2>2 DEF CommandAt, Type
    <2>4. CellOf(v[1]) = r /\ v[1] \in Nat /\ q[1] \in Texts
      BY <1>1, <1>2, <1>4, <1>5 DEF CellOf
    <2>5. NextCommand(cells, CellOf(v[1])) = CellOf(v[2])
      BY <1>6, <2>2, <2>3, <2>4, NextFound
    <2> QED
      BY <2>4, <2>5
  <1> HIDE DEF shift
  <1>10. ASSUME NEW k \in 1 .. n PROVE v[k + 1] \in Nat /\ v[2] <= v[k + 1] /\ v[k + 1] <= v[n + 1]
    <2>1. v[k + 1] \in Nat /\ v[k + 1] <= v[n + 1]
      BY <1>3
    <2>2. CASE k = 1
      BY <1>6, <2>1, <2>2
    <2>3. CASE k # 1
      <3>1. 2 \in 1 .. n + 1 /\ k + 1 \in 1 .. n + 1 /\ 2 < k + 1 /\ k \in Nat
        BY <1>1, <2>3
      <3>2. v[2] + ((k + 1) - 2) <= v[k + 1]
        BY <1>2, <3>1
      <3> QED
        BY <1>6, <2>1, <3>1, <3>2
    <2> QED
      BY <2>2, <2>3
  <1>11. \A k \in 1 .. n : v[k + 1] - shift \in Nat
    BY <1>6, <1>7, <1>10
  <1>12. u \in [1 .. n -> Nat] /\ \A k \in 1 .. n : u[k] = v[k + 1] - shift
    BY <1>11
  <1> HIDE DEF u
  <1>13. u[1] = CellOf(v[2])
    BY <1>5, <1>7, <1>12
  <1>14. u[n] = v[n + 1] - shift /\ u[n] <= CellOf(v[2]) + SizeOf /\ CellOf(u[n]) = w
    <2>1. u[n] = v[n + 1] - shift
      BY <1>1, <1>12
    <2>2. CASE shift = 0
      <3>1. u[n] = v[n + 1] /\ CellOf(v[2]) = v[2]
        BY <1>3, <1>6, <1>7, <2>1, <2>2
      <3> QED
        BY <1>2, <1>3, <1>4, <1>6, <2>1, <3>1
    <2>3. CASE shift = SizeOf /\ SizeOf <= v[2]
      BY <1>2, <1>3, <1>4, <1>6, <1>7, <2>1, <2>3 DEF CellOf
    <2> QED
      BY <1>7, <2>2, <2>3
  <1>15. ASSUME NEW j \in 1 .. n, NEW k \in 1 .. n, j < k PROVE u[j] + (k - j) <= u[k]
    <2>1. j + 1 \in 1 .. n + 1 /\ k + 1 \in 1 .. n + 1 /\ j + 1 < k + 1
      BY <1>1, <1>15
    <2>2. v[j + 1] + ((k + 1) - (j + 1)) <= v[k + 1]
      BY <1>2, <2>1
    <2>3. v[j + 1] \in Nat /\ v[k + 1] \in Nat /\ j \in Nat /\ k \in Nat
      BY <1>10
    <2> QED
      BY <1>7, <1>12, <2>2, <2>3
  <1>16. ASSUME NEW k \in 1 .. n - 1 PROVE CommandAt(cells, u[k], u[k + 1], t[k])
    <2>1. k + 1 \in 1 .. n /\ k \in 1 .. n
      BY <1>1
    <2>2. CommandAt(cells, v[k + 1], v[(k + 1) + 1], q[k + 1]) /\ q[k + 1] \in Texts
      BY <1>1, <1>2, <2>1
    <2>3. /\ v[k + 1] \in Nat /\ v[(k + 1) + 1] \in Nat /\ v[2] <= v[k + 1]
          /\ v[(k + 1) + 1] < 2 * SizeOf
      BY <1>3, <1>4, <1>10, <2>1
    <2>4. u[k] = v[k + 1] - shift /\ u[k + 1] = v[(k + 1) + 1] - shift /\ t[k] = q[k + 1]
      BY <1>1, <1>12, <2>1
    <2>5. CASE shift = 0
      BY <2>2, <2>3, <2>4, <2>5
    <2>6. CASE shift = SizeOf /\ SizeOf <= v[2]
      <3>1. SizeOf <= v[k + 1]
        BY <1>4, <1>6, <2>3, <2>6
      <3>2. CommandAt(cells, v[k + 1] - SizeOf, v[(k + 1) + 1] - SizeOf, q[k + 1])
        BY <2>2, <2>3, <3>1, CommandTurns
      <3> QED
        BY <2>4, <2>6, <3>2
    <2> QED
      BY <1>7, <2>5, <2>6
  <1>17. Len(t) + 1 = n
    BY <1>1
  <1>18. Chain(cells, CellOf(v[2]), w, t, u)
    <2> DEFINE c == CellOf(v[2])
    <2> HIDE DEF c
    <2>1. u[1] = c /\ u[n] <= c + SizeOf /\ CellOf(u[n]) = w
      BY <1>13, <1>14 DEF c
    <2>2. Chain(cells, c, w, t, u)
      BY <1>1, <1>12, <1>15, <1>16, <1>17, <2>1 DEF Chain
    <2> QED
      BY <2>2 DEF c
  <1> QED
    BY <1>1, <1>8, <1>9, <1>18 DEF n, t

\* A command in front of the others: next to them, or at the end of the ring with
\* zeros up to them, when the others are then one time around the ring later.
LEMMA ChainFront ==
    ASSUME NEW cells, NEW other, NEW r \in Cells, NEW w, NEW q \in Seq(Texts), NEW v,
           Chain(cells, r, w, q, v), NEW len \in Texts, NEW r2 \in Cells, NEW shift,
           shift = 0 \/ (shift = SizeOf /\ v[Len(q) + 1] < SizeOf),
           r2 + Taken(len) <= SizeOf, r2 + Taken(len) <= r + shift,
           v[Len(q) + 1] + shift <= r2 + SizeOf,
           \A x \in r .. v[Len(q) + 1] - 1 : other[CellOf(x)] = cells[CellOf(x)],
           \A x \in r2 + Taken(len) .. (r + shift) - 1 : other[CellOf(x)] = 0,
           Holds(other, r2, len)
    PROVE  \E u : Chain(other, r2, w, <<len>> \o q, u)
  <1> DEFINE n == Len(q)
             u == [k \in 1 .. n + 2 |-> IF k = 1 THEN r2 ELSE v[k - 1] + shift]
             p == <<len>> \o q
  <1>1. Chain(other, r, w, q, v)
    BY ChainStays
  <1>2. /\ v[n + 1] \in Nat /\ v[n + 1] < 2 * SizeOf /\ n \in Nat
        /\ \A k \in 1 .. n : /\ v[k] \in Nat /\ v[k + 1] \in Nat /\ v[k + 1] <= v[n + 1]
    BY ChainBounds
  <1>3. /\ r \in Nat /\ r < SizeOf /\ r2 \in Nat /\ r2 < SizeOf /\ SizeOf \in Nat
        /\ len \in Nat /\ CMDHDRSIZE \in Nat
    BY RingSizes DEF Cells, Texts
  <1>4. Taken(len) = len + 1 + CMDHDRSIZE
    BY DEF Taken
  <1>5. /\ v \in [1 .. n + 1 -> Nat] /\ v[1] = r /\ CellOf(v[n + 1]) = w
        /\ \A j, k \in 1 .. n + 1 : j < k => v[j] + (k - j) <= v[k]
        /\ \A k \in 1 .. n : CommandAt(other, v[k], v[k + 1], q[k])
    BY <1>1 DEF Chain
  <1>6. /\ p \in Seq(Texts) /\ Len(p) = n + 1 /\ p[1] = len
        /\ \A k \in 1 .. n : p[k + 1] = q[k] /\ q[k] \in Texts
    OBVIOUS
  <1>7. shift \in Nat
    BY <1>3
  <1>8. CommandAt(other, r2, r + shift, len)
    <2> DEFINE b == r + shift
    <2>1. CellOf(r2) = r2 /\ b \in Nat
      BY <1>3, <1>7 DEF CellOf
    <2>2. Holds(other, CellOf(r2), len)
      BY <2>1
    <2>3. r2 + Taken(len) <= SizeOf \/ SizeOf <= r2
      OBVIOUS
    <2>4. r2 + Taken(len) <= b /\ \A x \in r2 + Taken(len) .. b - 1 : other[CellOf(x)] = 0
      OBVIOUS
    <2> HIDE DEF b
    <2>5. CommandAt(other, r2, b, len)
      BY <1>3, <2>1, <2>2, <2>3, <2>4, CommandWritten
    <2> QED
      BY <2>5 DEF b
  <1> HIDE DEF n, p
  <1>a. /\ shift = 0 \/ (shift = SizeOf /\ v[n + 1] < SizeOf)
        /\ v[n + 1] + shift <= r2 + SizeOf
    BY DEF n
  <1>9. \A k \in 1 .. n + 1 : v[k] \in Nat
    BY <1>5
  <1>10. \A k \in 1 .. n + 2 : (IF k = 1 THEN r2 ELSE v[k - 1] + shift) \in Nat
    <2> SUFFICES ASSUME NEW k \in 1 .. n + 2, k # 1 PROVE v[k - 1] + shift \in Nat
      BY <1>3
    <2>1. k - 1 \in 1 .. n + 1
      BY <1>2
    <2> QED
      BY <1>7, <1>9, <2>1
  <1>11. /\ u \in [1 .. n + 2 -> Nat] /\ u[1] = r2
         /\ \A k \in 1 .. n + 1 : u[k + 1] = v[k] + shift
    <2>1. u \in [1 .. n + 2 -> Nat]
      BY <1>10
    <2>2. 1 \in 1 .. n + 2 /\ \A k \in 1 .. n + 1 : k + 1 \in 1 .. n + 2 /\ k + 1 # 1 /\ (k + 1) - 1 = k
      BY <1>2
    <2> QED
      BY <2>1, <2>2
  <1> HIDE DEF u
  <1>12. u[n + 2] = v[n + 1] + shift /\ u[n + 2] <= r2 + SizeOf /\ CellOf(u[n + 2]) = w
    <2>1. n + 1 \in 1 .. n + 1 /\ (n + 1) + 1 = n + 2
      BY <1>2
    <2>2. u[n + 2] = v[n + 1] + shift
      BY <1>11, <2>1
    <2>3. CellOf(v[n + 1] + shift) = CellOf(v[n + 1])
      BY <1>2, <1>3, <1>a DEF CellOf
    <2> QED
      BY <1>5, <1>a, <2>2, <2>3
  <1>13. ASSUME NEW j \in 1 .. n + 2, NEW k \in 1 .. n + 2, j < k PROVE u[j] + (k - j) <= u[k]
    <2>1. k - 1 \in 1 .. n + 1 /\ (k - 1) + 1 = k /\ k \in Nat /\ j \in Nat
      BY <1>2, <1>13
    <2>2. u[k] = v[k - 1] + shift /\ v[k - 1] \in Nat
      BY <1>9, <1>11, <2>1
    <2>3. CASE j = 1
      <3>1. 1 \in 1 .. n + 1
        BY <1>2
      <3>2. r + ((k - 1) - 1) <= v[k - 1]
        <4>1. CASE k - 1 = 1
          BY <1>3, <1>5, <2>1, <2>2, <4>1
        <4>2. CASE k - 1 # 1
          BY <1>5, <2>1, <3>1, <4>2
        <4> QED
          BY <4>1, <4>2
      <3>3. u[j] = r2 /\ r2 + 1 <= r + shift
        BY <1>3, <1>4, <1>7, <1>11, <2>3
      <3> QED
        BY <1>3, <1>7, <2>1, <2>2, <2>3, <3>2, <3>3
    <2>4. CASE j # 1
      <3>1. j - 1 \in 1 .. n + 1 /\ (j - 1) + 1 = j /\ j - 1 < k - 1
        BY <1>2, <1>13, <2>4
      <3>2. u[j] = v[j - 1] + shift /\ v[j - 1] \in Nat
        BY <1>9, <1>11, <3>1
      <3>3. v[j - 1] + ((k - 1) - (j - 1)) <= v[k - 1]
        BY <1>5, <2>1, <3>1
      <3> QED
        BY <1>7, <2>1, <2>2, <3>2, <3>3
    <2> QED
      BY <2>3, <2>4
  <1>14. ASSUME NEW k \in 1 .. n + 1 PROVE CommandAt(other, u[k], u[k + 1], p[k])
    <2>1. CASE k = 1
      <3>1. u[k] = r2 /\ u[k + 1] = r + shift /\ p[k] = len
        BY <1>2, <1>5, <1>6, <1>11, <2>1
      <3> QED
        BY <1>8, <3>1
    <2>2. CASE k # 1
      <3> DEFINE h == k - 1
      <3>1. h \in 1 .. n /\ h \in 1 .. n + 1 /\ h + 1 \in 1 .. n + 1 /\ h + 1 = k
        BY <1>2, <2>2
      <3> HIDE DEF h
      <3>2. /\ u[k] = v[h] + shift /\ u[k + 1] = v[h + 1] + shift /\ p[k] = q[h]
            /\ v[h] \in Nat /\ v[h + 1] \in Nat /\ q[h] \in Texts /\ v[h + 1] <= v[n + 1]
            /\ CommandAt(other, v[h], v[h + 1], q[h])
        <4>1. u[h + 1] = v[h] + shift /\ u[(h + 1) + 1] = v[h + 1] + shift
          BY <1>11, <3>1
        <4>2. p[h + 1] = q[h] /\ q[h] \in Texts
          BY <1>6, <3>1
        <4>3. v[h] \in Nat /\ v[h + 1] \in Nat /\ CommandAt(other, v[h], v[h + 1], q[h])
          BY <1>5, <1>9, <3>1
        <4>4. v[h + 1] <= v[n + 1]
          BY <1>2, <3>1 DEF n
        <4> QED
          BY <3>1, <4>1, <4>2, <4>3, <4>4
      <3>3. CASE shift = 0
        BY <3>2, <3>3
      <3>4. CASE shift = SizeOf /\ v[n + 1] < SizeOf
        <4>1. v[h + 1] <= SizeOf
          BY <1>2, <1>3, <3>2, <3>4
        <4>2. CommandAt(other, v[h] + SizeOf, v[h + 1] + SizeOf, q[h])
          BY <3>2, <4>1, CommandTurns
        <4> QED
          BY <3>2, <3>4, <4>2
      <3> QED
        BY <1>a, <3>3, <3>4
    <2> QED
      BY <2>1, <2>2
  <1>15. Len(p) + 1 = n + 2 /\ Len(p) = n + 1
    BY <1>2, <1>6
  <1>16. Chain(other, r2, w, p, u)
    BY <1>11, <1>12, <1>13, <1>14, <1>15 DEF Chain
  <1> QED
    BY <1>16 DEF p

-----------------------------------------------------------------------------
\* The ring with its indices.

RingRecords == [cells : [Cells -> 0 .. 3], r : Cells, w : Cells, n : Nat]

\* The commands of q can be found in the ring b.
Readable(b, q) ==
  /\ b \in RingRecords /\ q \in Seq(Texts) /\ b.n = Len(q)
  /\ \E v : Chain(b.cells, b.r, b.w, q, v)

\* From w, a line of full length needs no turn around the ring.
RoomAt(w) ==
  LET end == w + Taken(MAX_CMD_SIZE - 1)
  IN  end + RESERVE_FRONT <= SizeOf \/ (end <= SizeOf /\ RESERVE_FRONT <= w)

LEMMA ChainEnd ==
    ASSUME NEW cells, NEW r \in Cells, NEW w, NEW q \in Seq(Texts), NEW v, Chain(cells, r, w, q, v)
    PROVE  /\ w \in Cells /\ r \in Nat /\ w \in Nat /\ r < SizeOf /\ w < SizeOf
           /\ Len(q) = 0 => r = w
           /\ r < w => v[Len(q) + 1] = w
           /\ r = w => v[Len(q) + 1] \in {w, w + SizeOf}
           /\ Len(q) = 0 => v[Len(q) + 1] = w
           /\ w < r => v[Len(q) + 1] = w + SizeOf
  <1>1. v[Len(q) + 1] \in Nat /\ r <= v[Len(q) + 1] /\ v[Len(q) + 1] < 2 * SizeOf
    BY ChainBounds
  <1>2. SizeOf \in Nat /\ r \in Nat /\ r < SizeOf
    BY RingSizes DEF Cells
  <1>3. v[1] = r /\ v[Len(q) + 1] <= r + SizeOf /\ CellOf(v[Len(q) + 1]) = w
    BY DEF Chain
  <1>4. Len(q) = 0 => v[Len(q) + 1] = r
    BY <1>3
  <1> QED
    BY <1>1, <1>2, <1>3, <1>4 DEF CellOf, Cells

LEMMA RoomInside ==
    ASSUME NEW cells, NEW r \in Cells, NEW w, NEW q \in Seq(Texts), NEW v, Chain(cells, r, w, q, v),
           NEW len \in Texts, Room(r, q, v, len)
    PROVE  w \in Nat /\ w + Taken(len) <= SizeOf
  <1>1. v[Len(q) + 1] \in Nat /\ r <= v[Len(q) + 1] /\ v[Len(q) + 1] < 2 * SizeOf
    BY ChainBounds
  <1>2. SizeOf \in Nat /\ r \in Nat /\ r < SizeOf /\ len \in Nat /\ CMDHDRSIZE \in Nat
    BY RingSizes DEF Cells, Texts
  <1>3. CellOf(v[Len(q) + 1]) = w
    BY DEF Chain
  <1> QED
    BY <1>1, <1>2, <1>3 DEF CellOf, Room, Taken

\* The gap at the end of the ring becomes a part of the last command's zeros.
LEMMA ChainGap ==
    ASSUME NEW cells \in [Cells -> 0 .. 3], NEW r \in Cells, NEW w, NEW q \in Seq(Texts), NEW v,
           Chain(cells, r, w, q, v), Len(q) >= 1, v[Len(q) + 1] = w
    PROVE  \E u : Chain(Zeroed(cells, w, SizeOf), r, 0, q, u) /\ u[Len(q) + 1] = SizeOf
  <1> DEFINE n == Len(q)
             u == [k \in 1 .. n + 1 |-> IF k = n + 1 THEN SizeOf ELSE v[k]]
             zeroed == Zeroed(cells, w, SizeOf)
  <1>1. n \in Nat /\ n >= 1 /\ \A k \in 1 .. n : q[k] \in Texts
    OBVIOUS
  <1>2. r \in Nat /\ r < SizeOf /\ w \in Nat /\ w < SizeOf /\ SizeOf \in Nat
    BY ChainEnd, RingSizes
  <1>3. /\ v \in [1 .. n + 1 -> Nat] /\ v[1] = r
        /\ \A j, k \in 1 .. n + 1 : j < k => v[j] + (k - j) <= v[k]
        /\ \A k \in 1 .. n : CommandAt(cells, v[k], v[k + 1], q[k])
    BY DEF Chain
  <1>4. \A k \in 1 .. n : /\ v[k] \in Nat /\ v[k + 1] \in Nat /\ v[k] < v[k + 1] /\ v[k + 1] <= w
    BY ChainBounds
  <1>5. v[n + 1] = w
    OBVIOUS
  <1> HIDE DEF n
  <1>6. u \in [1 .. n + 1 -> Nat] /\ u[n + 1] = SizeOf /\ \A k \in 1 .. n : u[k] = v[k]
    <2>1. \A k \in 1 .. n + 1 : v[k] \in Nat
      BY <1>3
    <2>2. \A k \in 1 .. n + 1 : (IF k = n + 1 THEN SizeOf ELSE v[k]) \in Nat
      BY <1>2, <2>1
    <2>3. n + 1 \in 1 .. n + 1 /\ \A k \in 1 .. n : k \in 1 .. n + 1 /\ k # n + 1
      BY <1>1
    <2> QED
      BY <2>2, <2>3
  <1> HIDE DEF u
  <1>7. /\ \A x \in 0 .. w - 1 : CellOf(x) = x /\ zeroed[x] = cells[x]
        /\ \A x \in w .. SizeOf - 1 : CellOf(x) = x /\ zeroed[x] = 0
    BY <1>2 DEF CellOf, Zeroed, Cells
  <1> HIDE DEF zeroed
  <1>8. ASSUME NEW j \in 1 .. n + 1, NEW k \in 1 .. n + 1, j < k PROVE u[j] + (k - j) <= u[k]
    <2>a. j \in 1 .. n
      BY <1>1, <1>8
    <2>1. j \in 1 .. n /\ v[j] + (k - j) <= v[k] /\ u[j] = v[j] /\ v[j] \in Nat
      BY <1>3, <1>4, <1>6, <1>8, <2>a
    <2>2. CASE k \in 1 .. n
      BY <1>6, <2>1, <2>2
    <2>3. CASE k = n + 1
      BY <1>2, <1>5, <1>6, <1>1, <2>1, <2>3
    <2> QED
      BY <1>1, <2>2, <2>3
  <1>9. ASSUME NEW k \in 1 .. n PROVE CommandAt(zeroed, v[k], v[k + 1], q[k])
    <2>1. \A x \in v[k] .. v[k + 1] - 1 : x \in 0 .. w - 1
      BY <1>2, <1>4
    <2>2. \A x \in v[k] .. v[k + 1] - 1 : zeroed[CellOf(x)] = cells[CellOf(x)]
      BY <1>7, <2>1
    <2> QED
      BY <1>1, <1>3, <1>4, <2>2, CommandStays
  <1>10. ASSUME NEW k \in 1 .. n PROVE CommandAt(zeroed, u[k], u[k + 1], q[k])
    <2>1. CASE k < n
      <3>1. k + 1 \in 1 .. n
        BY <1>1, <2>1
      <3> QED
        BY <1>6, <1>9, <3>1
    <2>2. CASE k = n
      <3>1. CommandAt(zeroed, v[n], w, q[n]) /\ u[k] = v[n] /\ u[k + 1] = SizeOf /\ v[n] \in Nat
        BY <1>4, <1>5, <1>6, <1>9, <2>2
      <3>2. q[n] \in Nat /\ CMDHDRSIZE \in Nat /\ Taken(q[n]) \in Nat
        BY <1>1, <2>2, RingSizes DEF Texts, Taken
      <3>3. v[n] + Taken(q[n]) <= w /\ (v[n] + Taken(q[n]) <= SizeOf \/ SizeOf <= v[n])
        BY <3>1 DEF CommandAt
      <3>4. v[n] + Taken(q[n]) <= SizeOf
        BY <1>2, <3>1, <3>2, <3>3
      <3>5. \A x \in v[n] + CMDHDRSIZE + q[n] .. SizeOf - 1 :
               x \in v[n] + CMDHDRSIZE + q[n] .. w - 1 \/ x \in w .. SizeOf - 1
        BY <1>2, <3>1, <3>2
      <3>6. \A x \in v[n] + CMDHDRSIZE + q[n] .. SizeOf - 1 : zeroed[CellOf(x)] = 0
        BY <1>7, <3>1, <3>5 DEF CommandAt
      <3> QED
        BY <2>2, <3>1, <3>4, <3>6 DEF CommandAt
    <2> QED
      BY <1>1, <2>1, <2>2
  <1>11. u[1] = r /\ SizeOf <= r + SizeOf /\ CellOf(SizeOf) = 0
    <2>1. 1 \in 1 .. n
      BY <1>1
    <2> QED
      BY <1>2, <1>3, <1>6, <2>1 DEF CellOf
  <1>12. Chain(zeroed, r, 0, q, u)
    BY <1>6, <1>8, <1>10, <1>11 DEF Chain, n
  <1> QED
    BY <1>6, <1>12 DEF zeroed, n

LEMMA RoomAtZero == 0 \in Cells /\ RoomAt(0)
  BY RingSizes DEF RoomAt, Cells, Taken

LEMMA ZeroedTyped ==
    ASSUME NEW cells \in [Cells -> 0 .. 3], NEW from, NEW to
    PROVE  Zeroed(cells, from, to) \in [Cells -> 0 .. 3]
  BY DEF Zeroed

\* cmdqueue_could_enqueue_back() finds room, and leaves the commands readable.
LEMMA BackRoomReadable ==
    ASSUME NEW b, NEW q, Readable(b, q), NEW len \in Texts, b.n = 0 => RoomAt(b.w),
           NEW c \in BackRoom(b, len)
    PROVE  /\ c \in RingRecords /\ c.n = b.n /\ c.r = b.r
           /\ \E u : Chain(c.cells, c.r, c.w, q, u) /\ Room(c.r, q, u, len)
           /\ RoomAt(b.w) => c = b
           /\ len = MAX_CMD_SIZE - 1 => RoomAt(c.w)
  <1> DEFINE full == MAX_CMD_SIZE - 1
             cells == b.cells
             r == b.r
             w == b.w
  <1>1. /\ b \in RingRecords /\ q \in Seq(Texts) /\ b.n = Len(q) /\ cells \in [Cells -> 0 .. 3]
        /\ r \in Cells /\ w \in Cells /\ b.n \in Nat
    BY DEF Readable, RingRecords
  <1>2. PICK v : Chain(cells, r, w, q, v)
    BY DEF Readable
  <1> HIDE DEF cells, r, w
  <1>3. /\ r \in Nat /\ w \in Nat /\ r < SizeOf /\ w < SizeOf
        /\ Len(q) = 0 => r = w
        /\ r < w => v[Len(q) + 1] = w
        /\ Len(q) = 0 => v[Len(q) + 1] = w
        /\ w < r => v[Len(q) + 1] = w + SizeOf
    BY <1>1, <1>2, ChainEnd
  <1>4. /\ SizeOf \in Nat /\ RESERVE_FRONT \in Nat /\ CMDHDRSIZE \in Nat /\ CMDHDRSIZE >= 1
        /\ len \in Nat /\ len <= full /\ full \in Nat /\ MAX_CMD_SIZE \in Nat
    BY RingSizes DEF Texts
  <1>5. Taken(len) = len + 1 + CMDHDRSIZE /\ Taken(full) = full + 1 + CMDHDRSIZE
    BY DEF Taken
  <1>6. RoomAt(w) <=> \/ (w + Taken(full)) + RESERVE_FRONT <= SizeOf
                      \/ w + Taken(full) <= SizeOf /\ RESERVE_FRONT <= w
    BY DEF RoomAt
  <1>7. \/ /\ w < r /\ (w + Taken(len)) + RESERVE_FRONT <= r /\ c = b
        \/ /\ ~(w < r) /\ ~(r = w /\ b.n > 0) /\ c = b
           /\ \/ (w + Taken(len)) + RESERVE_FRONT <= SizeOf
              \/ w + Taken(len) <= SizeOf /\ RESERVE_FRONT <= r
        \/ /\ ~(w < r) /\ ~(r = w /\ b.n > 0) /\ Taken(len) + RESERVE_FRONT <= r
           /\ ~((w + Taken(len)) + RESERVE_FRONT <= SizeOf)
           /\ ~(w + Taken(len) <= SizeOf /\ RESERVE_FRONT <= r)
           /\ c = [b EXCEPT !.w = 0, !.cells = Zeroed(@, b.w, SizeOf)]
    BY DEF BackRoom, Full, r, w
  <1> HIDE DEF full
  <1>8. CASE w < r /\ (w + Taken(len)) + RESERVE_FRONT <= r /\ c = b
    <2>1. Room(r, q, v, len)
      BY <1>3, <1>4, <1>5, <1>8 DEF Room
    <2>2. len = full => RoomAt(w)
      BY <1>3, <1>4, <1>5, <1>6, <1>8
    <2> QED
      BY <1>1, <1>2, <1>8, <2>1, <2>2 DEF cells, r, w, full
  <1>9. CASE /\ ~(w < r) /\ ~(r = w /\ b.n > 0) /\ c = b
             /\ \/ (w + Taken(len)) + RESERVE_FRONT <= SizeOf
                \/ w + Taken(len) <= SizeOf /\ RESERVE_FRONT <= r
    <2>1. Room(r, q, v, len)
      BY <1>1, <1>3, <1>4, <1>5, <1>9 DEF Room
    <2>2. len = full => RoomAt(w)
      BY <1>3, <1>4, <1>5, <1>6, <1>9
    <2> QED
      BY <1>1, <1>2, <1>9, <2>1, <2>2 DEF cells, r, w, full
  <1>10. CASE /\ ~(w < r) /\ ~(r = w /\ b.n > 0) /\ Taken(len) + RESERVE_FRONT <= r
              /\ ~((w + Taken(len)) + RESERVE_FRONT <= SizeOf)
              /\ ~(w + Taken(len) <= SizeOf /\ RESERVE_FRONT <= r)
              /\ c = [b EXCEPT !.w = 0, !.cells = Zeroed(@, b.w, SizeOf)]
    <2>1. ~RoomAt(w)
      BY <1>3, <1>4, <1>5, <1>6, <1>10
    <2>2. Len(q) >= 1 /\ r < w
      <3>1. b.n # 0
        BY <2>1 DEF w
      <3> QED
        BY <1>1, <1>3, <1>10, <3>1
    <2>3. v[Len(q) + 1] = w
      BY <1>3, <2>2
    <2>4. PICK u : Chain(Zeroed(cells, w, SizeOf), r, 0, q, u) /\ u[Len(q) + 1] = SizeOf
      BY <1>1, <1>2, <2>2, <2>3, ChainGap
    <2>5. Room(r, q, u, len)
      BY <1>3, <1>4, <1>5, <1>10, <2>4 DEF Room
    <2>6. /\ c \in RingRecords /\ c.n = b.n /\ c.r = r /\ c.w = 0
          /\ c.cells = Zeroed(cells, w, SizeOf)
      <3>1. Zeroed(cells, w, SizeOf) \in [Cells -> 0 .. 3]
        BY <1>1, ZeroedTyped
      <3>2. 0 \in Cells
        BY RoomAtZero
      <3> QED
        BY <1>1, <1>10, <3>1, <3>2 DEF RingRecords, cells, r, w
    <2> QED
      BY <2>1, <2>4, <2>5, <2>6, RoomAtZero DEF r, w
  <1> QED
    BY <1>7, <1>8, <1>9, <1>10

\* What setting the type, the characters and the zero of a command does.
LEMMA WrittenHolds ==
    ASSUME NEW cells \in [Cells -> 0 .. 3], NEW at \in Nat, NEW len \in Texts,
           at + Taken(len) <= SizeOf
    PROVE  /\ Written(cells, at, len) \in [Cells -> 0 .. 3]
           /\ Holds(Written(cells, at, len), at, len)
           /\ \A i \in Cells : i \notin at .. at + Taken(len) - 1 =>
                                  Written(cells, at, len)[i] = cells[i]
  <1> DEFINE other == Written(cells, at, len)
             zero == at + CMDHDRSIZE + len
  <1>1. /\ SizeOf \in Nat /\ len \in Nat /\ CMDHDRSIZE \in Nat /\ CMDHDRSIZE >= 1
    BY RingSizes DEF Texts
  <1>2. Taken(len) = len + 1 + CMDHDRSIZE
    BY DEF Taken
  <1>3. other \in [Cells -> 0 .. 3]
    BY DEF Written, Type, Char
  <1>4. \A i \in Cells :
           other[i] = IF i = at THEN Type
                      ELSE IF i \in at + CMDHDRSIZE .. at + CMDHDRSIZE + len - 1 THEN Char
                      ELSE IF i = zero THEN 0 ELSE cells[i]
    BY DEF Written
  <1> HIDE DEF other
  <1>5. at \in Cells /\ zero \in Cells /\ zero # at
        /\ ~(zero \in at + CMDHDRSIZE .. at + CMDHDRSIZE + len - 1)
    BY <1>1, <1>2 DEF Cells
  <1>6. other[at] = Type /\ other[zero] = 0
    BY <1>4, <1>5
  <1>7. ASSUME NEW i \in at + CMDHDRSIZE .. at + CMDHDRSIZE + len - 1 PROVE other[i] # 0
    <2>1. i \in Cells
      BY <1>1, <1>2 DEF Cells
    <2> QED
      BY <1>4, <1>7, <2>1 DEF Type, Char
  <1>8. ASSUME NEW i \in Cells, i \notin at .. at + Taken(len) - 1 PROVE other[i] = cells[i]
    <2>1. i # at /\ i # zero /\ ~(i \in at + CMDHDRSIZE .. at + CMDHDRSIZE + len - 1)
      BY <1>1, <1>2, <1>8 DEF Cells
    <2> QED
      BY <1>4, <2>1
  <1> QED
    BY <1>3, <1>6, <1>7, <1>8 DEF Holds, other

\* A command written at bufindw is read behind the others.
LEMMA AppendReadable ==
    ASSUME NEW c \in RingRecords, NEW q \in Seq(Texts), c.n = Len(q),
           NEW v, Chain(c.cells, c.r, c.w, q, v), NEW full \in Texts, Room(c.r, q, v, full),
           NEW other \in [Cells -> 0 .. 3],
           \A i \in Cells : i \notin c.w .. c.w + Taken(full) - 1 => other[i] = c.cells[i],
           NEW len \in 0 .. full, Holds(other, c.w, len)
    PROVE  Readable(Appended([c EXCEPT !.cells = other], len), Append(q, len))
  <1> DEFINE cells == c.cells
             r == c.r
             w == c.w
             w2 == IF w + Taken(len) = SizeOf THEN 0 ELSE w + Taken(len)
             d == Appended([c EXCEPT !.cells = other], len)
  <1>1. cells \in [Cells -> 0 .. 3] /\ r \in Cells /\ w \in Cells /\ c.n \in Nat
    BY DEF RingRecords
  <1>2. d = [cells |-> other, r |-> c.r, w |-> w2, n |-> c.n + 1]
    <2>1. [c EXCEPT !.cells = other] = [cells |-> other, r |-> c.r, w |-> c.w, n |-> c.n]
      BY DEF RingRecords
    <2> DEFINE e == [cells |-> other, r |-> c.r, w |-> c.w, n |-> c.n]
    <2>2. e.w = c.w /\ e.n = c.n
      OBVIOUS
    <2>3. [e EXCEPT !.w = w2, !.n = c.n + 1]
            = [cells |-> other, r |-> c.r, w |-> w2, n |-> c.n + 1]
      <3> DEFINE n2 == c.n + 1
                 f == [cells |-> other, r |-> c.r, w |-> w2, n |-> c.n]
      <3> HIDE DEF w2, n2
      <3>1. [e EXCEPT !.w = w2] = f
        OBVIOUS
      <3>2. [f EXCEPT !.n = n2] = [cells |-> other, r |-> c.r, w |-> w2, n |-> n2]
        OBVIOUS
      <3> QED
        BY <3>1, <3>2 DEF n2
    <2> HIDE DEF e
    <2>4. Appended(e, len) = [e EXCEPT !.w = w2, !.n = c.n + 1]
      BY <2>2 DEF Appended
    <2> QED
      BY <2>1, <2>3, <2>4 DEF e
  <1>a. Chain(cells, r, w, q, v) /\ Room(r, q, v, full) /\ Holds(other, w, len)
        /\ \A i \in Cells : i \notin w .. w + Taken(full) - 1 => other[i] = cells[i]
    OBVIOUS
  <1> HIDE DEF cells, r, w, d
  <1>3. w \in Nat /\ w + Taken(full) <= SizeOf
    BY <1>1, <1>a, RoomInside
  <1>4. SizeOf \in Nat /\ CMDHDRSIZE \in Nat /\ len \in Nat /\ full \in Nat /\ len <= full
        /\ len \in Texts
    BY RingSizes DEF Texts
  <1>5. w2 \in Cells
    BY <1>3, <1>4, RoomAtZero DEF Cells, Taken
  <1>6. \E u : Chain(other, r, w2, Append(q, len), u)
    BY <1>1, <1>a, ChainAppend
  <1> HIDE DEF w2
  <1>7. Append(q, len) \in Seq(Texts) /\ Len(Append(q, len)) = Len(q) + 1
    BY <1>4
  <1>8. /\ d \in RingRecords /\ d.cells = other /\ d.r = r /\ d.w = w2 /\ d.n = c.n + 1
    BY <1>1, <1>2, <1>5 DEF RingRecords, r
  <1>9. Readable(d, Append(q, len))
    BY <1>6, <1>7, <1>8 DEF Readable
  <1> QED
    BY <1>9 DEF d

\* A command of at most the length there is room for, over anything else that was
\* written to that room before.
LEMMA BackReadable ==
    ASSUME NEW b, NEW q, Readable(b, q), NEW full \in Texts, b.n = 0 => RoomAt(b.w),
           NEW c \in BackRoom(b, full), NEW base \in [Cells -> 0 .. 3],
           \A i \in Cells : i \notin c.w .. c.w + Taken(full) - 1 => base[i] = c.cells[i],
           NEW len \in 0 .. full
    PROVE  Readable(Appended([c EXCEPT !.cells = Written(base, c.w, len)], len), Append(q, len))
  <1> DEFINE other == Written(base, c.w, len)
  <1>1. /\ c \in RingRecords /\ c.n = b.n /\ c.r = b.r
        /\ \E u : Chain(c.cells, c.r, c.w, q, u) /\ Room(c.r, q, u, full)
    BY BackRoomReadable
  <1>2. PICK v : Chain(c.cells, c.r, c.w, q, v) /\ Room(c.r, q, v, full)
    BY <1>1
  <1>3. q \in Seq(Texts) /\ c.n = Len(q)
    BY <1>1 DEF Readable
  <1>4. c.r \in Cells
    BY <1>1 DEF RingRecords
  <1>5. c.w \in Nat /\ c.w + Taken(full) <= SizeOf
    BY <1>2, <1>3, <1>4, RoomInside
  <1>6. SizeOf \in Nat /\ CMDHDRSIZE \in Nat /\ full \in Nat /\ len \in Nat /\ len \in Texts
        /\ len <= full
    BY RingSizes DEF Texts
  <1>7. c.w + Taken(len) <= SizeOf
    BY <1>5, <1>6 DEF Taken
  <1>8. /\ other \in [Cells -> 0 .. 3] /\ Holds(other, c.w, len)
        /\ \A i \in Cells : i \notin c.w .. c.w + Taken(len) - 1 => other[i] = base[i]
    BY <1>5, <1>6, <1>7, WrittenHolds
  <1> HIDE DEF other
  <1>9. \A i \in Cells : i \in c.w .. c.w + Taken(len) - 1 => i \in c.w .. c.w + Taken(full) - 1
    BY <1>5, <1>6 DEF Taken, Cells
  <1>10. \A i \in Cells : i \notin c.w .. c.w + Taken(full) - 1 => other[i] = c.cells[i]
    BY <1>8, <1>9
  <1>11. Readable(Appended([c EXCEPT !.cells = other], len), Append(q, len))
    BY <1>1, <1>2, <1>3, <1>8, <1>10, AppendReadable
  <1> QED
    BY <1>11 DEF other

LEMMA EmptyReadable ==
    ASSUME NEW cells \in [Cells -> 0 .. 3], NEW w \in Cells
    PROVE  Readable([cells |-> cells, r |-> w, w |-> w, n |-> 0], <<>>)
  <1> DEFINE v == [k \in 1 .. 0 + 1 |-> w]
             q == << >>
  <1>1. w \in Nat /\ w < SizeOf /\ SizeOf \in Nat
    BY RingSizes DEF Cells
  <1>2. v \in [1 .. 0 + 1 -> Nat] /\ v[1] = w /\ v[0 + 1] = w
    BY <1>1
  <1> HIDE DEF v
  <1>3. q \in Seq(Texts) /\ Len(q) = 0
    OBVIOUS
  <1>4. (\A j, k \in 1 .. 0 + 1 : ~(j < k)) /\ 1 .. 0 = {}
    OBVIOUS
  <1>5. CellOf(w) = w
    BY <1>1 DEF CellOf
  <1> HIDE DEF q
  <1>6. Chain(cells, w, w, q, v)
    BY <1>1, <1>2, <1>3, <1>4, <1>5 DEF Chain
  <1> DEFINE b == [cells |-> cells, r |-> w, w |-> w, n |-> 0]
  <1>7. b \in RingRecords /\ b.n = 0 /\ b.cells = cells /\ b.r = w /\ b.w = w
    BY DEF RingRecords
  <1> HIDE DEF b
  <1>8. Readable(b, q)
    BY <1>3, <1>6, <1>7 DEF Readable
  <1> QED
    BY <1>8 DEF b, q

\* cmdqueue_pop_front() removes the first command and no other.
LEMMA PoppedReadable ==
    ASSUME NEW b, NEW q, Readable(b, q), b.n > 0, serial_count > 0 => RoomAt(b.w),
           serial_count \in Nat
    PROVE  /\ Readable(Popped(b), Tail(q))
           /\ Popped(b).n = 0 \/ serial_count > 0 => RoomAt(Popped(b).w)
  <1>1. /\ b \in RingRecords /\ q \in Seq(Texts) /\ b.n = Len(q) /\ q # <<>>
        /\ b.cells \in [Cells -> 0 .. 3] /\ b.r \in Cells /\ b.w \in Cells /\ b.n \in Nat
        /\ b = [cells |-> b.cells, r |-> b.r, w |-> b.w, n |-> b.n]
    BY DEF Readable, RingRecords
  <1>2. Len(Tail(q)) = Len(q) - 1 /\ Tail(q) \in Seq(Texts)
    BY <1>1
  <1>3. CASE b.n = 1
    <2> DEFINE w == IF serial_count = 0 THEN 0 ELSE b.w
    <2>1. Popped(b) = [b EXCEPT !.n = 0, !.w = w, !.r = w]
      BY <1>3 DEF Popped
    <2>2. w \in Cells /\ RoomAt(w)
      BY <1>1, RoomAtZero
    <2> HIDE DEF w
    <2>3. Popped(b) = [cells |-> b.cells, r |-> w, w |-> w, n |-> 0]
      BY <1>1, <2>1
    <2>a. \A t \in Seq(Texts) : t # <<>> => Len(t) \in Nat \ {0}
      BY EmptySeq
    <2>4. Tail(q) = <<>>
      <3> DEFINE t == Tail(q)
      <3>1. Len(t) = 0 /\ t \in Seq(Texts)
        BY <1>1, <1>2, <1>3
      <3> HIDE DEF t
      <3>2. ~(Len(t) \in Nat \ {0})
        BY <3>1
      <3>3. t = <<>>
        BY <2>a, <3>1, <3>2, Zenon
      <3> QED
        BY <3>3 DEF t
    <2>5. Readable([cells |-> b.cells, r |-> w, w |-> w, n |-> 0], <<>>)
      BY <1>1, <2>2, EmptyReadable
    <2>6. Popped(b).w = w
      BY <2>3
    <2> QED
      BY <2>2, <2>3, <2>4, <2>5, <2>6
  <1>4. CASE b.n # 1
    <2> DEFINE r2 == NextCommand(b.cells, b.r)
    <2>1. PICK v : Chain(b.cells, b.r, b.w, q, v)
      BY DEF Readable
    <2>2. Len(q) >= 2
      BY <1>1, <1>4
    <2>3. r2 \in Cells /\ \E u : Chain(b.cells, r2, b.w, Tail(q), u)
      BY <1>1, <2>1, <2>2, ChainPop
    <2>4. Popped(b) = [b EXCEPT !.n = b.n - 1, !.r = r2]
      BY <1>4 DEF Popped
    <2> HIDE DEF r2
    <2>5. Popped(b) = [cells |-> b.cells, r |-> r2, w |-> b.w, n |-> b.n - 1]
      BY <1>1, <2>4
    <2>6. /\ Popped(b) \in RingRecords /\ Popped(b).n = b.n - 1 /\ Popped(b).cells = b.cells
          /\ Popped(b).r = r2 /\ Popped(b).w = b.w
      BY <1>1, <2>2, <2>3, <2>5 DEF RingRecords
    <2>7. Readable(Popped(b), Tail(q))
      BY <1>1, <1>2, <2>3, <2>6 DEF Readable
    <2> QED
      BY <1>1, <2>2, <2>6, <2>7
  <1> QED
    BY <1>3, <1>4

\* The ring with one field changed.
LEMMA RingFields ==
    ASSUME NEW cells, NEW r, NEW w, NEW n
    PROVE  /\ \A x : [[cells |-> cells, r |-> r, w |-> w, n |-> n] EXCEPT !.cells = x]
                       = [cells |-> x, r |-> r, w |-> w, n |-> n]
           /\ \A x : [[cells |-> cells, r |-> r, w |-> w, n |-> n] EXCEPT !.r = x]
                       = [cells |-> cells, r |-> x, w |-> w, n |-> n]
           /\ \A x : [[cells |-> cells, r |-> r, w |-> w, n |-> n] EXCEPT !.w = x]
                       = [cells |-> cells, r |-> r, w |-> x, n |-> n]
           /\ \A x : [[cells |-> cells, r |-> r, w |-> w, n |-> n] EXCEPT !.n = x]
                       = [cells |-> cells, r |-> r, w |-> w, n |-> x]
  OBVIOUS

\* A command is put in front of the others: one place with room of length `len',
\* and where the others stay.
LEMMA FrontReadable ==
    ASSUME NEW b, NEW q, Readable(b, q), NEW len \in Texts, NEW c \in FrontRoom(b, len),
           serial_count \in Nat
    PROVE  /\ Readable([c EXCEPT !.cells = Written(@, c.r, len), !.n = @ + 1], <<len>> \o q)
           /\ c.w = b.w /\ c.n = b.n
           /\ c = [cells |-> c.cells, r |-> c.r, w |-> c.w, n |-> c.n]
  <1> DEFINE cells == b.cells
             r == b.r
             w == b.w
             T == Taken(len)
             other == Written(c.cells, c.r, len)
             p == <<len>> \o q
  <1>1. /\ b \in RingRecords /\ q \in Seq(Texts) /\ b.n = Len(q) /\ cells \in [Cells -> 0 .. 3]
        /\ r \in Cells /\ w \in Cells /\ b.n \in Nat
        /\ b = [cells |-> b.cells, r |-> b.r, w |-> b.w, n |-> b.n]
    BY DEF Readable, RingRecords
  <1>2. PICK v : Chain(cells, r, w, q, v)
    BY DEF Readable
  <1>3. \/ /\ w < r /\ w <= r - T /\ c = [b EXCEPT !.r = r - T]
        \/ /\ ~(w < r) /\ ~(r = w /\ b.n > 0) /\ T <= r /\ c = [b EXCEPT !.r = r - T]
        \/ /\ ~(w < r) /\ ~(r = w /\ b.n > 0) /\ w <= SizeOf - T
           /\ c = [b EXCEPT !.r = SizeOf - T, !.cells = Zeroed(cells, 0, r)]
    <2>1. w \in Nat /\ MAX_CMD_SIZE \in Nat /\ r \in Nat /\ T \in Nat /\ SizeOf \in Nat
      BY <1>1, RingSizes DEF Cells, Texts, Taken
    <2> DEFINE endw == IF serial_count > 0 THEN w + MAX_CMD_SIZE + 1 ELSE w
    <2>2. w <= endw /\ endw \in Nat
      BY <2>1
    <2>3. \/ /\ w < r /\ endw <= r - T /\ c = [b EXCEPT !.r = r - T]
          \/ /\ ~(w < r) /\ ~(r = w /\ b.n > 0) /\ T <= r /\ c = [b EXCEPT !.r = r - T]
          \/ /\ ~(w < r) /\ ~(r = w /\ b.n > 0) /\ endw <= SizeOf - T
             /\ c = [b EXCEPT !.r = SizeOf - T, !.cells = Zeroed(cells, 0, r)]
      <3> HIDE DEF T
      <3> QED
        BY DEF FrontRoom, Full, T
    <2> HIDE DEF endw, cells, r, w, T
    <2> QED
      BY <2>1, <2>2, <2>3
  <1> HIDE DEF T
  <1>4. c = [cells |-> c.cells, r |-> c.r, w |-> b.w, n |-> b.n]
        /\ \/ /\ w < r /\ w <= r - T /\ c.r = r - T /\ c.cells = cells
           \/ /\ ~(w < r) /\ ~(r = w /\ b.n > 0) /\ T <= r /\ c.r = r - T /\ c.cells = cells
           \/ /\ ~(w < r) /\ ~(r = w /\ b.n > 0) /\ w <= SizeOf - T
              /\ c.r = SizeOf - T /\ c.cells = Zeroed(cells, 0, r)
    <2>1. ASSUME NEW x PROVE [b EXCEPT !.r = x] = [cells |-> b.cells, r |-> x, w |-> b.w, n |-> b.n]
      BY <1>1
    <2>2. ASSUME NEW x, NEW y
          PROVE [b EXCEPT !.r = x, !.cells = y] = [cells |-> y, r |-> x, w |-> b.w, n |-> b.n]
      <3> DEFINE d == [cells |-> b.cells, r |-> x, w |-> b.w, n |-> b.n]
      <3>1. [b EXCEPT !.r = x] = d
        BY <2>1
      <3>2. [d EXCEPT !.cells = y] = [cells |-> y, r |-> x, w |-> b.w, n |-> b.n]
        BY RingFields
      <3> HIDE DEF d
      <3> QED
        BY <3>1, <3>2
    <2>3. CASE c = [b EXCEPT !.r = r - T]
      <3>1. c = [cells |-> b.cells, r |-> r - T, w |-> b.w, n |-> b.n]
        BY <2>1, <2>3
      <3>2. c.r = r - T /\ c.cells = cells /\ c.w = b.w /\ c.n = b.n
        BY <3>1
      <3>3. c = [cells |-> c.cells, r |-> c.r, w |-> b.w, n |-> b.n]
        BY <3>1, <3>2
      <3> HIDE DEF cells, r, w
      <3>5. \/ /\ w < r /\ w <= r - T
            \/ /\ ~(w < r) /\ ~(r = w /\ b.n > 0) /\ T <= r
            \/ /\ ~(w < r) /\ ~(r = w /\ b.n > 0) /\ w <= SizeOf - T
               /\ c = [b EXCEPT !.r = SizeOf - T, !.cells = Zeroed(cells, 0, r)]
        BY <1>3
      <3>6. CASE c = [b EXCEPT !.r = SizeOf - T, !.cells = Zeroed(cells, 0, r)]
        <4>1. c = [cells |-> Zeroed(cells, 0, r), r |-> SizeOf - T, w |-> b.w, n |-> b.n]
          BY <2>2, <3>6
        <4>2. c.cells = Zeroed(cells, 0, r) /\ c.r = SizeOf - T
          BY <4>1
        <4> QED
          BY <3>2, <3>3, <3>5, <4>2
      <3> QED
        BY <3>2, <3>3, <3>5, <3>6
    <2>4. CASE c # [b EXCEPT !.r = r - T]
      <3>1. /\ ~(w < r) /\ ~(r = w /\ b.n > 0) /\ w <= SizeOf - T
            /\ c = [b EXCEPT !.r = SizeOf - T, !.cells = Zeroed(cells, 0, r)]
        BY <1>3, <2>4
      <3>2. c = [cells |-> Zeroed(cells, 0, r), r |-> SizeOf - T, w |-> b.w, n |-> b.n]
        BY <2>2, <3>1
      <3>3. c.r = SizeOf - T /\ c.cells = Zeroed(cells, 0, r) /\ c.w = b.w /\ c.n = b.n
        BY <3>2
      <3>4. c = [cells |-> c.cells, r |-> c.r, w |-> b.w, n |-> b.n]
        BY <3>2, <3>3
      <3> QED
        BY <3>1, <3>3, <3>4
    <2> QED
      BY <2>3, <2>4
  <1> HIDE DEF cells, r, w, p
  <1>5. /\ r \in Nat /\ w \in Nat /\ r < SizeOf /\ w < SizeOf
        /\ Len(q) = 0 => r = w
        /\ r < w => v[Len(q) + 1] = w
        /\ Len(q) = 0 => v[Len(q) + 1] = w
        /\ w < r => v[Len(q) + 1] = w + SizeOf
    BY <1>1, <1>2, ChainEnd
  <1>6. SizeOf \in Nat /\ T \in Nat /\ T >= 1 /\ T <= SizeOf
    BY RingSizes DEF T, Taken, Texts
  <1>7. c.r \in Cells /\ c.r \in Nat /\ c.r + T <= SizeOf
    <2>1. c.r \in Int /\ c.r >= 0 /\ c.r + T <= SizeOf
      BY <1>4, <1>5, <1>6
    <2> QED
      BY <1>6, <2>1 DEF Cells
  <1>8. c.cells \in [Cells -> 0 .. 3]
    BY <1>1, <1>4, ZeroedTyped
  <1>9. /\ other \in [Cells -> 0 .. 3] /\ Holds(other, c.r, len)
        /\ \A i \in Cells : i \notin c.r .. c.r + T - 1 => other[i] = c.cells[i]
    <2>1. c.r + Taken(len) <= SizeOf
      BY <1>7 DEF T
    <2> QED
      BY <1>7, <1>8, <2>1, WrittenHolds DEF T
  <1> HIDE DEF other
  <1>10. \E shift : /\ shift = 0 \/ (shift = SizeOf /\ v[Len(q) + 1] < SizeOf)
                    /\ c.r + T <= r + shift /\ v[Len(q) + 1] + shift <= c.r + SizeOf
                    /\ \A x \in r .. v[Len(q) + 1] - 1 : other[CellOf(x)] = cells[CellOf(x)]
                    /\ \A x \in c.r + T .. (r + shift) - 1 : other[CellOf(x)] = 0
    <2> DEFINE e == v[Len(q) + 1]
    <2>a. (w < r => e = w + SizeOf) /\ (~(w < r) /\ ~(r = w /\ b.n > 0) => e = w)
      BY <1>1, <1>5
    <2> HIDE DEF e
    <2>1. CASE c.r = r - T /\ c.cells = cells
               /\ ((w < r /\ w <= r - T) \/ (~(w < r) /\ ~(r = w /\ b.n > 0) /\ T <= r))
      <3>1. c.r + T = r + 0 /\ e + 0 <= c.r + SizeOf
        BY <1>5, <1>6, <2>a, <2>1
      <3>2. ASSUME NEW x \in r .. e - 1 PROVE CellOf(x) \in Cells /\ CellOf(x) \notin c.r .. c.r + T - 1
        <4>1. x \in Nat /\ r <= x /\ x < e
          BY <1>5, <1>6, <2>a, <2>1
        <4> QED
          BY <1>5, <1>6, <2>a, <2>1, <4>1 DEF CellOf, Cells
      <3>3. \A x \in c.r + T .. (r + 0) - 1 : FALSE
        BY <1>5, <1>6, <1>7, <3>1
      <3>4. \A x \in r .. e - 1 : other[CellOf(x)] = cells[CellOf(x)]
        BY <1>9, <2>1, <3>2
      <3> QED
        BY <1>5, <1>7, <1>6, <3>1, <3>3, <3>4 DEF e
    <2>2. CASE /\ ~(w < r) /\ ~(r = w /\ b.n > 0) /\ w <= SizeOf - T
               /\ c.r = SizeOf - T /\ c.cells = Zeroed(cells, 0, r)
      <3>1. /\ e = w /\ e < SizeOf /\ c.r + T = SizeOf /\ c.r + T <= r + SizeOf
            /\ e + SizeOf <= c.r + SizeOf
        BY <1>5, <1>6, <2>a, <2>2
      <3>2. ASSUME NEW x \in r .. e - 1 PROVE other[CellOf(x)] = cells[CellOf(x)]
        <4>a. x \in Nat /\ r <= x /\ x < w
          BY <1>5, <3>1
        <4>1. x \in Nat /\ r <= x /\ x < w /\ CellOf(x) = x /\ x \in Cells
          BY <1>5, <1>6, <4>a DEF CellOf, Cells
        <4>2. x \notin c.r .. c.r + T - 1
          BY <1>5, <1>6, <2>2, <4>1
        <4>3. c.cells[x] = cells[x]
          BY <1>5, <2>2, <4>1 DEF Zeroed
        <4> QED
          BY <1>9, <4>1, <4>2, <4>3
      <3>3. ASSUME NEW x \in c.r + T .. (r + SizeOf) - 1 PROVE other[CellOf(x)] = 0
        <4>1. /\ x \in Nat /\ CellOf(x) = x - SizeOf /\ x - SizeOf \in 0 .. r - 1
              /\ x - SizeOf \in Cells
          BY <1>5, <1>6, <3>1 DEF CellOf, Cells
        <4> DEFINE y == x - SizeOf
        <4>2. y \in Cells /\ y \in 0 .. r - 1 /\ CellOf(x) = y
          BY <4>1
        <4> HIDE DEF y
        <4>3. y \notin c.r .. c.r + T - 1
          BY <1>5, <1>6, <2>2, <4>2
        <4>4. c.cells[y] = 0
          BY <2>2, <4>2 DEF Zeroed
        <4> QED
          BY <1>9, <4>2, <4>3, <4>4
      <3> QED
        BY <3>1, <3>2, <3>3 DEF e
    <2> QED
      BY <1>4, <2>1, <2>2
  <1>11. PICK shift : /\ shift = 0 \/ (shift = SizeOf /\ v[Len(q) + 1] < SizeOf)
                      /\ c.r + T <= r + shift /\ v[Len(q) + 1] + shift <= c.r + SizeOf
                      /\ \A x \in r .. v[Len(q) + 1] - 1 : other[CellOf(x)] = cells[CellOf(x)]
                      /\ \A x \in c.r + T .. (r + shift) - 1 : other[CellOf(x)] = 0
    BY <1>10
  <1>12. \E u : Chain(other, c.r, w, p, u)
    <2>1. c.r + Taken(len) <= SizeOf /\ c.r + Taken(len) <= r + shift
          /\ \A x \in c.r + Taken(len) .. (r + shift) - 1 : other[CellOf(x)] = 0
      BY <1>7, <1>11 DEF T
    <2> DEFINE at == c.r
    <2>2. at \in Cells /\ at + Taken(len) <= SizeOf /\ at + Taken(len) <= r + shift
          /\ \A x \in at + Taken(len) .. (r + shift) - 1 : other[CellOf(x)] = 0
      BY <1>7, <2>1
    <2>3. v[Len(q) + 1] + shift <= at + SizeOf /\ Holds(other, at, len)
      BY <1>9, <1>11
    <2> HIDE DEF at
    <2>4. \E u : Chain(other, at, w, <<len>> \o q, u)
      BY <1>1, <1>2, <1>11, <2>2, <2>3, ChainFront
    <2> QED
      BY <2>4 DEF at, p
  <1>13. p \in Seq(Texts) /\ Len(p) = b.n + 1
    <2>1. <<len>> \o q \in Seq(Texts) /\ Len(<<len>> \o q) = Len(q) + 1
      BY <1>1
    <2> QED
      BY <1>1, <2>1 DEF p
  <1> DEFINE d == [c EXCEPT !.cells = Written(@, c.r, len), !.n = @ + 1]
  <1>14. d = [cells |-> other, r |-> c.r, w |-> b.w, n |-> b.n + 1]
    <2> DEFINE n2 == b.n + 1
    <2>1. c.n = b.n /\ c.w = b.w
      BY <1>4
    <2>2. d = [c EXCEPT !.cells = other, !.n = n2]
      BY <2>1 DEF other
    <2> HIDE DEF n2, d
    <2>3. [c EXCEPT !.cells = other, !.n = n2] = [cells |-> other, r |-> c.r, w |-> b.w, n |-> n2]
      <3> DEFINE f == [cells |-> other, r |-> c.r, w |-> b.w, n |-> b.n]
      <3>1. c = [cells |-> c.cells, r |-> c.r, w |-> b.w, n |-> b.n]
        BY <1>4
      <3>2. [c EXCEPT !.cells = other] = f
        BY <3>1
      <3>3. [f EXCEPT !.n = n2] = [cells |-> other, r |-> c.r, w |-> b.w, n |-> n2]
        BY RingFields
      <3> HIDE DEF f
      <3> QED
        BY <3>2, <3>3
    <2> QED
      BY <2>2, <2>3 DEF n2
  <1> HIDE DEF d
  <1>15. /\ d \in RingRecords /\ d.cells = other /\ d.r = c.r /\ d.w = w /\ d.n = b.n + 1
    BY <1>1, <1>7, <1>9, <1>14 DEF RingRecords, w
  <1>16. Readable(d, p)
    BY <1>12, <1>13, <1>15 DEF Readable
  <1>17. c.w = b.w /\ c.n = b.n /\ c = [cells |-> c.cells, r |-> c.r, w |-> c.w, n |-> c.n]
    BY <1>4
  <1> QED
    BY <1>16, <1>17 DEF d, p

-----------------------------------------------------------------------------
\* What the queue keeps: its commands are readable, and a line that is being
\* received, as the first line of an empty queue, has its room at bufindw.
QueueInv ==
  /\ Readable(Ring, queue) /\ serial_count \in Texts
  /\ buflen = 0 \/ serial_count > 0 => RoomAt(bufindw)
  /\ cmdbuffer_front_already_processed \in BOOLEAN /\ processing \in BOOLEAN

LEMMA QueueInit == CmdInit => QueueInv
  <1> SUFFICES ASSUME CmdInit PROVE QueueInv
    OBVIOUS
  <1>1. cmdbuffer = [i \in Cells |-> 0] /\ Ring = [cells |-> cmdbuffer, r |-> 0, w |-> 0, n |-> 0]
        /\ queue = <<>> /\ bufindw = 0 /\ serial_count = 0
        /\ cmdbuffer_front_already_processed = FALSE /\ processing = FALSE
    BY DEF CmdInit, Ring
  <1>2. cmdbuffer \in [Cells -> 0 .. 3] /\ 0 \in Cells /\ RoomAt(0)
    BY <1>1, RoomAtZero
  <1>3. Readable([cells |-> cmdbuffer, r |-> 0, w |-> 0, n |-> 0], <<>>)
    BY <1>2, EmptyReadable
  <1>4. 0 \in Texts
    BY RingSizes DEF Texts
  <1> QED
    BY <1>1, <1>2, <1>3, <1>4 DEF QueueInv

\* The ring and its commands, in a state where the invariant holds.
LEMMA RingIs ==
    ASSUME QueueInv
    PROVE  /\ Readable(Ring, queue) /\ Ring \in RingRecords /\ queue \in Seq(Texts)
           /\ buflen = Len(queue) /\ buflen \in Nat /\ serial_count \in Texts /\ serial_count \in Nat
           /\ Ring.cells = cmdbuffer /\ Ring.r = bufindr /\ Ring.w = bufindw /\ Ring.n = buflen
           /\ cmdbuffer \in [Cells -> 0 .. 3] /\ bufindr \in Cells /\ bufindw \in Cells
           /\ Ring.n = 0 => RoomAt(Ring.w)
           /\ serial_count > 0 => RoomAt(Ring.w)
           /\ cmdbuffer_front_already_processed \in BOOLEAN /\ processing \in BOOLEAN
  <1>1. /\ Ring.cells = cmdbuffer /\ Ring.r = bufindr /\ Ring.w = bufindw /\ Ring.n = buflen
    BY DEF Ring
  <1>2. /\ Readable(Ring, queue) /\ Ring \in RingRecords /\ queue \in Seq(Texts)
        /\ Ring.n = Len(queue) /\ serial_count \in Texts
        /\ cmdbuffer_front_already_processed \in BOOLEAN /\ processing \in BOOLEAN
    BY DEF QueueInv, Readable
  <1>3. buflen = 0 \/ serial_count > 0 => RoomAt(bufindw)
    BY DEF QueueInv
  <1>4. Ring.cells \in [Cells -> 0 .. 3] /\ Ring.r \in Cells /\ Ring.w \in Cells /\ Ring.n \in Nat
    BY <1>2 DEF RingRecords
  <1>5. serial_count \in Nat
    BY <1>2 DEF Texts
  <1> HIDE DEF Ring
  <1> QED
    BY <1>1, <1>2, <1>3, <1>4, <1>5

LEMMA RingSet ==
    ASSUME NEW b, NEW q, Readable(b, q), SetRing(b), queue' = q, serial_count' \in Texts,
           b.n = 0 \/ serial_count' > 0 => RoomAt(b.w),
           cmdbuffer_front_already_processed' \in BOOLEAN, processing' \in BOOLEAN
    PROVE  QueueInv'
  <1>1. b = [cells |-> b.cells, r |-> b.r, w |-> b.w, n |-> b.n]
    BY DEF Readable, RingRecords
  <1>2. cmdbuffer' = b.cells /\ bufindr' = b.r /\ bufindw' = b.w /\ buflen' = b.n
    BY DEF SetRing
  <1>3. Ring' = b
    BY <1>1, <1>2 DEF Ring
  <1>4. Readable(Ring', queue')
    BY <1>3
  <1>5. buflen' = 0 \/ serial_count' > 0 => RoomAt(bufindw')
    BY <1>2
  <1>6. Readable(Ring, queue)'
    BY <1>4 DEF Readable, RingRecords, Chain, CommandAt, CellOf, Texts, Cells, SizeOf, Taken, Type
  <1>7. RoomAt(bufindw)' <=> RoomAt(bufindw')
    BY DEF RoomAt, SizeOf, Taken
  <1> QED
    BY <1>5, <1>6, <1>7 DEF QueueInv, Texts

LEMMA QueueStutters ==
    ASSUME QueueInv, UNCHANGED <<cmdbuffer, bufindr, bufindw, buflen, serial_count, queue>>,
           cmdbuffer_front_already_processed' \in BOOLEAN, processing' \in BOOLEAN
    PROVE  QueueInv'
  <1>1. SetRing(Ring)
    BY DEF SetRing, Ring
  <1>2. Readable(Ring, queue) /\ (Ring.n = 0 => RoomAt(Ring.w)) /\ (serial_count > 0 => RoomAt(Ring.w))
        /\ serial_count' \in Texts /\ serial_count' = serial_count /\ queue' = queue
    BY RingIs
  <1> HIDE DEF Ring
  <1> QED
    BY <1>1, <1>2, RingSet

\* One lemma per action.
LEMMA BeginCommandKeeps == ASSUME QueueInv, BeginCommand PROVE QueueInv'
  BY QueueStutters, RingIs DEF BeginCommand

LEMMA RepeatFrontKeeps == ASSUME QueueInv, RepeatFront PROVE QueueInv'
  BY QueueStutters, RingIs DEF RepeatFront

LEMMA EndCommandKeeps == ASSUME QueueInv, EndCommand PROVE QueueInv'
  <1>1. /\ processing' = FALSE /\ serial_count' = serial_count
        /\ cmdbuffer_front_already_processed' = cmdbuffer_front_already_processed
    BY DEF EndCommand
  <1>2. cmdbuffer_front_already_processed' \in BOOLEAN /\ processing' \in BOOLEAN
    BY <1>1, RingIs
  <1>3. CASE cmdbuffer_front_already_processed \/ buflen = 0
    <2>1. UNCHANGED <<cmdbuffer, bufindr, bufindw, buflen, serial_count, queue>>
      BY <1>1, <1>3 DEF EndCommand
    <2> QED
      BY <1>2, <2>1, QueueStutters
  <1>4. CASE ~(cmdbuffer_front_already_processed \/ buflen = 0)
    <2>1. SetRing(Popped(Ring)) /\ queue' = Tail(queue)
      BY <1>4 DEF EndCommand
    <2>2. Readable(Ring, queue) /\ Ring.n > 0 /\ (serial_count > 0 => RoomAt(Ring.w))
          /\ serial_count \in Nat
      BY <1>4, RingIs
    <2>3. /\ Readable(Popped(Ring), Tail(queue))
          /\ Popped(Ring).n = 0 \/ serial_count > 0 => RoomAt(Popped(Ring).w)
      BY <2>2, PoppedReadable
    <2>4. serial_count' \in Texts
      BY <1>1, RingIs
    <2> QED
      BY <1>1, <1>2, <2>1, <2>3, <2>4, RingSet
  <1> QED
    BY <1>3, <1>4

LEMMA EnqueueFrontKeeps == ASSUME QueueInv, EnqueueFront PROVE QueueInv'
  <1> DEFINE drop == ~cmdbuffer_front_already_processed /\ buflen > 0
             b    == IF drop THEN Popped(Ring) ELSE Ring
             q    == IF drop THEN Tail(queue) ELSE queue
  <1>1. /\ processing' = processing /\ cmdbuffer_front_already_processed' = TRUE
        /\ serial_count' = serial_count
    BY DEF EnqueueFront
  <1>2. /\ processing' \in BOOLEAN /\ cmdbuffer_front_already_processed' \in BOOLEAN
        /\ serial_count' \in Texts /\ serial_count \in Nat
    BY <1>1, RingIs
  <1>3. Readable(b, q) /\ (b.n = 0 \/ serial_count > 0 => RoomAt(b.w))
    <2>1. Readable(Ring, queue) /\ (Ring.n = 0 => RoomAt(Ring.w)) /\ Ring.n = buflen
          /\ (serial_count > 0 => RoomAt(Ring.w))
      BY RingIs
    <2>2. CASE drop
      <3>1. /\ Readable(Popped(Ring), Tail(queue))
            /\ Popped(Ring).n = 0 \/ serial_count > 0 => RoomAt(Popped(Ring).w)
        BY <1>2, <2>1, <2>2, PoppedReadable
      <3>2. b = Popped(Ring) /\ q = Tail(queue)
        BY <2>2
      <3> HIDE DEF b, q
      <3> QED
        BY <3>1, <3>2
    <2>3. CASE ~drop
      <3>2. b = Ring /\ q = queue
        BY <2>3
      <3> HIDE DEF b, q
      <3> QED
        BY <2>1, <3>2
    <2> QED
      BY <2>2, <2>3
  <1>4. PICK len \in FrontLens :
           IF FrontRoom(b, len) = {} THEN SetRing(b) /\ queue' = q
           ELSE \E c \in FrontRoom(b, len) :
                  /\ SetRing([c EXCEPT !.cells = Written(@, c.r, len), !.n = @ + 1])
                  /\ queue' = <<len>> \o q
    BY DEF EnqueueFront
  <1> HIDE DEF b, q, drop
  <1>5. CASE FrontRoom(b, len) = {}
    <2>1. SetRing(b) /\ queue' = q
      BY <1>4, <1>5
    <2> QED
      BY <1>1, <1>2, <1>3, <2>1, RingSet
  <1>6. CASE FrontRoom(b, len) # {}
    <2>1. PICK c \in FrontRoom(b, len) :
             /\ SetRing([c EXCEPT !.cells = Written(@, c.r, len), !.n = @ + 1])
             /\ queue' = <<len>> \o q
      BY <1>4, <1>6
    <2> DEFINE d == [c EXCEPT !.cells = Written(@, c.r, len), !.n = @ + 1]
    <2>2. len \in Texts
      BY RingSizes
    <2>3. /\ Readable(d, <<len>> \o q) /\ c.w = b.w /\ c.n = b.n
          /\ c = [cells |-> c.cells, r |-> c.r, w |-> c.w, n |-> c.n]
      BY <1>2, <1>3, <2>2, FrontReadable
    <2>4. b.n \in Nat
      BY <1>3 DEF Readable, RingRecords
    <2>5. d.w = c.w /\ d.n = c.n + 1
      <3> DEFINE x == Written(c.cells, c.r, len)
                 y == c.n + 1
      <3>1. d = [c EXCEPT !.cells = x, !.n = y]
        OBVIOUS
      <3> HIDE DEF x, y, d
      <3>2. [c EXCEPT !.cells = x, !.n = y].w = c.w /\ [c EXCEPT !.cells = x, !.n = y].n = y
        BY <2>3
      <3> QED
        BY <3>1, <3>2 DEF y
    <2>6. SetRing(d) /\ queue' = <<len>> \o q
      BY <2>1
    <2> HIDE DEF d
    <2>7. d.n = 0 \/ serial_count' > 0 => RoomAt(d.w)
      <3>1. ~(d.n = 0)
        BY <2>3, <2>4, <2>5
      <3> QED
        BY <1>1, <1>3, <2>3, <2>5, <3>1
    <2> QED
      BY <1>2, <2>3, <2>6, <2>7, RingSet
  <1> QED
    BY <1>5, <1>6

\* A command behind the others, and no line that is being received.
LEMMA AppendedSet ==
    ASSUME NEW c \in RingRecords, NEW other, NEW len \in Nat,
           Readable(Appended([c EXCEPT !.cells = other], len), Append(queue, len)),
           SetRing(Appended([c EXCEPT !.cells = other], len)), queue' = Append(queue, len),
           serial_count' = 0,
           cmdbuffer_front_already_processed' \in BOOLEAN, processing' \in BOOLEAN
    PROVE  QueueInv'
  <1> DEFINE d == Appended([c EXCEPT !.cells = other], len)
             w2 == IF c.w + Taken(len) = SizeOf THEN 0 ELSE c.w + Taken(len)
             e == [cells |-> other, r |-> c.r, w |-> c.w, n |-> c.n]
  <1>1. [c EXCEPT !.cells = other] = e
    BY DEF RingRecords
  <1>2. e.w = c.w /\ e.n = c.n
    OBVIOUS
  <1>3. \A x, y : [e EXCEPT !.w = x, !.n = y].n = y
    <2> SUFFICES ASSUME NEW x, NEW y PROVE [e EXCEPT !.w = x, !.n = y].n = y
      OBVIOUS
    <2> DEFINE f == [cells |-> other, r |-> c.r, w |-> x, n |-> c.n]
    <2>1. [e EXCEPT !.w = x] = f
      BY RingFields
    <2>2. [f EXCEPT !.n = y].n = y
      OBVIOUS
    <2> HIDE DEF f, e
    <2> QED
      BY <2>1, <2>2
  <1> HIDE DEF e, d
  <1>4. d = [e EXCEPT !.w = w2, !.n = c.n + 1]
    BY <1>1, <1>2 DEF d, Appended
  <1> HIDE DEF w2
  <1>5. d.n = c.n + 1 /\ c.n \in Nat
    BY <1>3, <1>4 DEF RingRecords
  <1>6. SetRing(d) /\ Readable(d, Append(queue, len))
    BY DEF d
  <1>7. serial_count' \in Texts /\ ~(d.n = 0 \/ serial_count' > 0)
    BY <1>5, RingSizes DEF Texts
  <1> QED
    BY <1>6, <1>7, RingSet

LEMMA EnqueueBackKeeps ==
    ASSUME QueueInv, EnqueueBack, ~UiWhileReceiving
    PROVE  QueueInv'
  <1>a. PICK len \in UiLens : \E c \in BackRoom(Ring, len) :
           /\ SetRing(Appended([c EXCEPT !.cells = Written(@, c.w, len)], len))
           /\ queue' = Append(queue, len)
    BY DEF EnqueueBack
  <1>1. PICK c \in BackRoom(Ring, len) :
           /\ SetRing(Appended([c EXCEPT !.cells = Written(@, c.w, len)], len))
           /\ queue' = Append(queue, len)
    BY <1>a
  <1>2. /\ serial_count' = serial_count /\ processing' = processing
        /\ cmdbuffer_front_already_processed' = cmdbuffer_front_already_processed
        /\ serial_count = 0
    BY RingIs DEF EnqueueBack
  <1>3. len \in Texts /\ len \in Nat /\ len \in 0 .. len
    BY RingSizes DEF Texts
  <1>4. Readable(Ring, queue) /\ (Ring.n = 0 => RoomAt(Ring.w))
        /\ cmdbuffer_front_already_processed \in BOOLEAN /\ processing \in BOOLEAN
    BY RingIs
  <1> DEFINE b == Ring
             q == queue
             base == c.cells
             other == Written(c.cells, c.w, len)
  <1>5. c \in RingRecords
    BY <1>3, <1>4, BackRoomReadable
  <1>6. base \in [Cells -> 0 .. 3]
    BY <1>5 DEF RingRecords
  <1>7. Readable(Appended([c EXCEPT !.cells = Written(base, c.w, len)], len), Append(queue, len))
    BY <1>3, <1>4, <1>6, BackReadable
  <1>8. SetRing(Appended([c EXCEPT !.cells = other], len)) /\ queue' = Append(queue, len)
    BY <1>1
  <1>9. Readable(Appended([c EXCEPT !.cells = other], len), Append(queue, len))
    BY <1>7
  <1> HIDE DEF other
  <1> QED
    BY <1>2, <1>3, <1>4, <1>5, <1>8, <1>9, AppendedSet

LEMMA ResetQueueKeeps == ASSUME QueueInv, ResetQueue PROVE QueueInv'
  <1> DEFINE b == [cells |-> cmdbuffer, r |-> 0, w |-> 0, n |-> 0]
  <1>1. SetRing([Ring EXCEPT !.r = 0, !.w = 0, !.n = 0])
    BY DEF ResetQueue
  <1>2. cmdbuffer' = cmdbuffer /\ bufindr' = 0 /\ bufindw' = 0 /\ buflen' = 0
    BY <1>1 DEF SetRing, Ring
  <1>3. /\ queue' = <<>> /\ cmdbuffer_front_already_processed' = TRUE
        /\ processing' = processing /\ serial_count' = serial_count
    BY DEF ResetQueue
  <1>4. Readable(b, <<>>)
    BY RingIs, RoomAtZero, EmptyReadable
  <1>5. b.w = 0 /\ b.cells = cmdbuffer /\ b.r = 0 /\ b.n = 0
    OBVIOUS
  <1> HIDE DEF b
  <1>6. SetRing(b)
    BY <1>2, <1>5 DEF SetRing
  <1>7. RoomAt(b.w)
    BY <1>5, RoomAtZero
  <1> QED
    BY <1>3, <1>4, <1>6, <1>7, RingIs, RingSet

\* What making room for a line of full length leaves.
LEMMA LineRoom ==
    ASSUME QueueInv, NEW c \in BackRoom(Ring, MAX_CMD_SIZE - 1)
    PROVE  /\ c \in RingRecords /\ c.n = buflen /\ RoomAt(c.w) /\ Readable(c, queue)
           /\ c.w \in Nat /\ c.w + Taken(MAX_CMD_SIZE - 1) <= SizeOf
           /\ \E u : /\ Chain(c.cells, c.r, c.w, queue, u)
                     /\ Room(c.r, queue, u, MAX_CMD_SIZE - 1)
  <1> DEFINE full == MAX_CMD_SIZE - 1
  <1>1. full \in Texts
    BY RingSizes DEF Texts
  <1>2. Readable(Ring, queue) /\ (Ring.n = 0 => RoomAt(Ring.w)) /\ Ring.n = buflen
        /\ queue \in Seq(Texts)
    BY RingIs
  <1>3. full = MAX_CMD_SIZE - 1 /\ c \in BackRoom(Ring, full)
    OBVIOUS
  <1> HIDE DEF full
  <1>4. /\ c \in RingRecords /\ c.n = Ring.n
        /\ \E u : Chain(c.cells, c.r, c.w, queue, u) /\ Room(c.r, queue, u, full)
        /\ RoomAt(c.w)
    BY <1>1, <1>2, <1>3, BackRoomReadable
  <1>5. PICK u : Chain(c.cells, c.r, c.w, queue, u) /\ Room(c.r, queue, u, full)
    BY <1>4
  <1>6. c.r \in Cells
    BY <1>4 DEF RingRecords
  <1>7. c.w \in Nat /\ c.w + Taken(full) <= SizeOf
    BY <1>1, <1>2, <1>5, <1>6, RoomInside
  <1>8. Readable(c, queue)
    BY <1>2, <1>4, <1>5 DEF Readable
  <1> QED
    BY <1>2, <1>4, <1>7, <1>8 DEF full

LEMMA GetCharKeeps == ASSUME QueueInv, GetChar PROVE QueueInv'
  <1> DEFINE full == MAX_CMD_SIZE - 1
  <1>1. PICK c \in BackRoom(Ring, full) :
           SetRing([c EXCEPT !.cells[c.w + CMDHDRSIZE + serial_count] = Received])
    BY DEF GetChar
  <1>2. /\ serial_count' = serial_count + 1 /\ serial_count < full /\ queue' = queue
        /\ cmdbuffer_front_already_processed' = cmdbuffer_front_already_processed
        /\ processing' = processing
    BY DEF GetChar
  <1>3. /\ c \in RingRecords /\ RoomAt(c.w) /\ Readable(c, queue) /\ c.w \in Nat
        /\ \E u : Chain(c.cells, c.r, c.w, queue, u) /\ Room(c.r, queue, u, full)
    BY LineRoom
  <1>4. PICK v : Chain(c.cells, c.r, c.w, queue, v) /\ Room(c.r, queue, v, full)
    BY <1>3
  <1>5. /\ full \in Texts /\ MAX_CMD_SIZE \in Nat /\ CMDHDRSIZE \in Nat /\ serial_count \in Nat
        /\ full \in Nat /\ full = MAX_CMD_SIZE - 1
    BY RingSizes, RingIs DEF Texts
  <1> HIDE DEF full
  <1>6. serial_count' \in Texts
    BY <1>2, <1>5 DEF Texts
  <1> DEFINE i == c.w + CMDHDRSIZE + serial_count
             other == [c.cells EXCEPT ![i] = Received]
             d == [c EXCEPT !.cells = other]
  <1>7. /\ c.cells \in [Cells -> 0 .. 3] /\ c.r \in Cells /\ c.w \in Cells /\ c.n \in Nat
        /\ c = [cells |-> c.cells, r |-> c.r, w |-> c.w, n |-> c.n]
    BY <1>3 DEF RingRecords
  <1>8. other \in [Cells -> 0 .. 3]
    <2> HIDE DEF i
    <2> DEFINE V == 0 .. 3
    <2>0. 3 \in V
      OBVIOUS
    <2> HIDE DEF V
    <2>a. \A f \in [Cells -> V] : [f EXCEPT ![i] = 3] \in [Cells -> V]
      BY <2>0
    <2>1. \A f \in [Cells -> 0 .. 3] : [f EXCEPT ![i] = 3] \in [Cells -> 0 .. 3]
      BY <2>a DEF V
    <2> QED
      BY <1>7, <2>1 DEF Received
  <1>9. i \in c.w .. c.w + Taken(full) - 1
    BY <1>2, <1>3, <1>5 DEF Taken
  <1>10. \A j \in Cells : j \notin c.w .. c.w + Taken(full) - 1 => other[j] = c.cells[j]
    <2> HIDE DEF i
    <2> QED
      BY <1>7, <1>9
  <1>11. SetRing(d)
    BY <1>1
  <1> HIDE DEF other, i
  <1>12. queue \in Seq(Texts) /\ Len(queue) = c.n
    BY <1>3 DEF Readable
  <1>13. Chain(other, c.r, c.w, queue, v)
    BY <1>4, <1>5, <1>7, <1>10, <1>12, FreeCells
  <1>14. d = [cells |-> other, r |-> c.r, w |-> c.w, n |-> c.n]
    BY <1>7
  <1> HIDE DEF d
  <1>15. d \in RingRecords /\ d.cells = other /\ d.r = c.r /\ d.w = c.w /\ d.n = c.n
    BY <1>7, <1>8, <1>14 DEF RingRecords
  <1>16. Readable(d, queue)
    BY <1>12, <1>13, <1>15 DEF Readable
  <1>17. cmdbuffer_front_already_processed' \in BOOLEAN /\ processing' \in BOOLEAN
    BY <1>2, RingIs
  <1> QED
    BY <1>2, <1>3, <1>6, <1>11, <1>15, <1>16, <1>17, RingSet

LEMMA DropLineKeeps == ASSUME QueueInv, DropLine PROVE QueueInv'
  <1>1. PICK c \in BackRoom(Ring, MAX_CMD_SIZE - 1) : SetRing(c)
    BY DEF DropLine
  <1>2. /\ serial_count' = 0 /\ queue' = queue
        /\ cmdbuffer_front_already_processed' = cmdbuffer_front_already_processed
        /\ processing' = processing
    BY DEF DropLine
  <1>3. RoomAt(c.w) /\ Readable(c, queue)
    BY LineRoom
  <1>4. serial_count' \in Texts
    BY <1>2, RingSizes DEF Texts
  <1> QED
    BY <1>1, <1>2, <1>3, <1>4, RingIs, RingSet

\* Some zero is the first one.
LEMMA FirstZero ==
    ASSUME NEW cells, NEW i \in Nat, NEW z \in Nat, i <= z, z < SizeOf, cells[z] = 0
    PROVE  ZeroFrom(cells, i) \in Nat /\ i <= ZeroFrom(cells, i) /\ ZeroFrom(cells, i) <= z
  <1> DEFINE S == {j \in i .. SizeOf - 1 : cells[j] = 0}
  <1>1. SizeOf \in Nat
    BY RingSizes
  <1>2. S \in SUBSET Nat /\ z \in S
    BY <1>1
  <1>3. PICK e \in S : \A y \in S : e <= y
    <2> HIDE DEF S
    <2> QED
      BY <1>2, LeastNumber
  <1>4. e \in Nat /\ i <= e /\ e <= z /\ e < SizeOf /\ cells[e] = 0
    BY <1>1, <1>2, <1>3
  <1>5. ASSUME NEW x \in i .. e - 1 PROVE cells[x] # 0
    <2>1. x \in i .. SizeOf - 1 /\ ~(e <= x)
      BY <1>1, <1>4
    <2> QED
      BY <1>3, <2>1
  <1>6. ZeroFrom(cells, i) = e
    BY <1>4, <1>5, ZeroFound
  <1> QED
    BY <1>4, <1>6

LEMMA GetEndOfLineKeeps == ASSUME QueueInv, GetEndOfLine PROVE QueueInv'
  <1> DEFINE full == MAX_CMD_SIZE - 1
  <1>1. PICK c \in BackRoom(Ring, full) : \E strip \in {0, serial_count - 1} :
           LET at   == c.w + CMDHDRSIZE
               line == [c.cells EXCEPT ![at + serial_count] = 0]
               len  == ZeroFrom(line, at + strip) - (at + strip)
               shifted == [i \in Cells |-> IF i = c.w THEN Type
                                           ELSE IF i \in at .. at + len - 1 THEN Char
                                           ELSE IF i = at + len THEN 0 ELSE line[i]]
           IN  /\ SetRing(Appended([c EXCEPT !.cells = shifted], len))
               /\ queue' = Append(queue, len)
    BY DEF GetEndOfLine
  <1>2. PICK strip \in {0, serial_count - 1} :
           LET at   == c.w + CMDHDRSIZE
               line == [c.cells EXCEPT ![at + serial_count] = 0]
               len  == ZeroFrom(line, at + strip) - (at + strip)
               shifted == [i \in Cells |-> IF i = c.w THEN Type
                                           ELSE IF i \in at .. at + len - 1 THEN Char
                                           ELSE IF i = at + len THEN 0 ELSE line[i]]
           IN  /\ SetRing(Appended([c EXCEPT !.cells = shifted], len))
               /\ queue' = Append(queue, len)
    BY <1>1
  <1> DEFINE at   == c.w + CMDHDRSIZE
             line == [c.cells EXCEPT ![at + serial_count] = 0]
             len  == ZeroFrom(line, at + strip) - (at + strip)
             other == Written(line, c.w, len)
  <1>3. /\ SetRing(Appended([c EXCEPT !.cells = other], len))
        /\ queue' = Append(queue, len)
    BY <1>2 DEF Written
  <1>4. /\ serial_count > 0 /\ serial_count' = 0
        /\ cmdbuffer_front_already_processed' = cmdbuffer_front_already_processed
        /\ processing' = processing
    BY DEF GetEndOfLine
  <1>5. cmdbuffer_front_already_processed' \in BOOLEAN /\ processing' \in BOOLEAN
    BY <1>4, RingIs
  <1>6. /\ c \in RingRecords /\ c.w \in Nat /\ c.w + Taken(full) <= SizeOf
    BY LineRoom
  <1>7. /\ full \in Texts /\ MAX_CMD_SIZE \in Nat /\ CMDHDRSIZE \in Nat /\ serial_count \in Nat
        /\ full \in Nat /\ full = MAX_CMD_SIZE - 1 /\ serial_count <= full
    BY RingSizes, RingIs DEF Texts
  <1>8. c.cells \in [Cells -> 0 .. 3]
    BY <1>6 DEF RingRecords
  <1>9. /\ at \in Nat /\ at + serial_count \in c.w .. c.w + Taken(full) - 1
        /\ at + serial_count \in Cells /\ strip \in Nat /\ strip <= serial_count
        /\ at + strip \in Nat /\ at + strip <= at + serial_count /\ at + serial_count < SizeOf
    BY <1>4, <1>6, <1>7, RingSizes DEF Taken, Cells
  <1> DEFINE z == at + serial_count
  <1>10. line \in [Cells -> 0 .. 3] /\ line[z] = 0
         /\ \A i \in Cells : i \notin c.w .. c.w + Taken(full) - 1 => line[i] = c.cells[i]
    <2>1. z \in Cells /\ z \in c.w .. c.w + Taken(full) - 1
      BY <1>9
    <2> HIDE DEF z
    <2>2. line = [c.cells EXCEPT ![z] = 0]
      BY DEF z
    <2> HIDE DEF line
    <2> QED
      BY <1>8, <2>1, <2>2
  <1> HIDE DEF line
  <1>11. /\ ZeroFrom(line, at + strip) \in Nat /\ at + strip <= ZeroFrom(line, at + strip)
         /\ ZeroFrom(line, at + strip) <= z
    BY <1>9, <1>10, FirstZero
  <1>12. len \in 0 .. full /\ len \in Nat
    BY <1>7, <1>9, <1>11
  <1> HIDE DEF len
  <1>13. Readable(Ring, queue) /\ (Ring.n = 0 => RoomAt(Ring.w))
    BY RingIs
  <1>14. Readable(Appended([c EXCEPT !.cells = Written(line, c.w, len)], len), Append(queue, len))
    <2> HIDE DEF full, other
    <2> QED
      BY <1>7, <1>10, <1>12, <1>13, BackReadable
  <1>15. Readable(Appended([c EXCEPT !.cells = other], len), Append(queue, len))
    BY <1>14
  <1> HIDE DEF other
  <1> QED
    BY <1>3, <1>4, <1>5, <1>6, <1>12, <1>15, AppendedSet

LEMMA GetSdLineKeeps == ASSUME QueueInv, GetSdLine PROVE QueueInv'
  <1> DEFINE full == MAX_CMD_SIZE - 1
  <1>1. PICK c \in BackRoom(Ring, full), len \in SdLens :
           LET cells == [i \in Cells |-> IF i \in c.w + 1 .. c.w + CMDHDRSIZE - 1 THEN 0
                                         ELSE c.cells[i]]
           IN  /\ SetRing(Appended([c EXCEPT !.cells = Written(cells, c.w, len)], len))
               /\ queue' = Append(queue, len)
    BY DEF GetSdLine
  <1> DEFINE base == [i \in Cells |-> IF i \in c.w + 1 .. c.w + CMDHDRSIZE - 1 THEN 0
                                      ELSE c.cells[i]]
             other == Written(base, c.w, len)
  <1>2. /\ SetRing(Appended([c EXCEPT !.cells = other], len))
        /\ queue' = Append(queue, len)
    BY <1>1
  <1>3. /\ serial_count' = 0
        /\ cmdbuffer_front_already_processed' = cmdbuffer_front_already_processed
        /\ processing' = processing
    BY DEF GetSdLine
  <1>4. cmdbuffer_front_already_processed' \in BOOLEAN /\ processing' \in BOOLEAN
    BY <1>3, RingIs
  <1>5. /\ c \in RingRecords /\ c.w \in Nat /\ c.w + Taken(full) <= SizeOf
    BY LineRoom
  <1>6. /\ full \in Texts /\ full \in Nat /\ len \in 0 .. full /\ len \in Nat
        /\ CMDHDRSIZE \in Nat /\ SizeOf \in Nat
    BY RingSizes DEF Texts
  <1>7. c.cells \in [Cells -> 0 .. 3]
    BY <1>5 DEF RingRecords
  <1>8. base \in [Cells -> 0 .. 3]
    BY <1>7
  <1>9. \A i \in Cells : i \notin c.w .. c.w + Taken(full) - 1 => base[i] = c.cells[i]
    <2> SUFFICES ASSUME NEW i \in Cells, i \notin c.w .. c.w + Taken(full) - 1
                 PROVE  ~(i \in c.w + 1 .. c.w + CMDHDRSIZE - 1)
      OBVIOUS
    <2> QED
      BY <1>5, <1>6 DEF Taken, Cells
  <1> HIDE DEF base
  <1>10. Readable(Ring, queue) /\ (Ring.n = 0 => RoomAt(Ring.w))
    BY RingIs
  <1>11. Readable(Appended([c EXCEPT !.cells = Written(base, c.w, len)], len), Append(queue, len))
    <2> HIDE DEF full, other
    <2> QED
      BY <1>6, <1>8, <1>9, <1>10, BackReadable
  <1>12. Readable(Appended([c EXCEPT !.cells = other], len), Append(queue, len))
    BY <1>11
  <1> HIDE DEF other
  <1> QED
    BY <1>2, <1>3, <1>4, <1>5, <1>6, <1>12, AppendedSet

LEMMA QueueKeeps ==
    ASSUME QueueInv, [CmdNext]_cmdVars, ~UiWhileReceiving
    PROVE  QueueInv'
  <1>1. CASE UNCHANGED cmdVars
    BY <1>1, QueueStutters, RingIs DEF cmdVars
  <1> QED
    BY <1>1, BeginCommandKeeps, EndCommandKeeps, RepeatFrontKeeps, EnqueueFrontKeeps,
       EnqueueBackKeeps, ResetQueueKeeps, GetCharKeeps, GetEndOfLineKeeps, DropLineKeeps,
       GetSdLineKeeps DEF CmdNext

\* The addresses of the chain are those that cmdqueue_pop_front() would visit.
LEMMA QueueFollowed == QueueInv => QueueReadable
  <1> SUFFICES ASSUME QueueInv PROVE QueueReadable
    OBVIOUS
  <1> DEFINE n == buflen
             Body(f, k) == IF k = 1 THEN bufindr ELSE NextCommand(cmdbuffer, f[k - 1])
             at == CHOOSE f : f = [k \in 1 .. n |-> Body(f, k)]
  <1>1. PICK v : Chain(cmdbuffer, bufindr, bufindw, queue, v)
    BY RingIs DEF Readable
  <1>2. n = Len(queue) /\ n \in Nat /\ bufindr \in Cells /\ queue \in Seq(Texts)
        /\ SizeOf \in Nat
    BY RingIs, RingSizes
  <1>a. \A k \in 1 .. n : queue[k] \in Texts
    BY <1>2
  <1>3. /\ v[n + 1] \in Nat /\ v[n + 1] < 2 * SizeOf
        /\ \A k \in 1 .. n : v[k] \in Nat /\ v[k + 1] \in Nat /\ v[k + 1] <= v[n + 1]
    <2> HIDE DEF n
    <2> QED
      BY <1>1, <1>2, ChainBounds
  <1>4. /\ v[1] = bufindr
        /\ \A k \in 1 .. n : CommandAt(cmdbuffer, v[k], v[k + 1], queue[k])
    <2> HIDE DEF n
    <2> QED
      BY <1>1, <1>2 DEF Chain
  <1>b. QueueReadable <=>
          /\ n = Len(queue)
          /\ \A k \in 1 .. n :
               /\ at[k] + CMDHDRSIZE + queue[k] < SizeOf
               /\ cmdbuffer[at[k]] = Type
               /\ ZeroFrom(cmdbuffer, at[k] + CMDHDRSIZE) = at[k] + CMDHDRSIZE + queue[k]
    BY DEF QueueReadable
  <1> HIDE DEF n
  <1>5. \A k \in 1 .. n : v[k + 1] < 2 * SizeOf
    BY <1>2, <1>3
  <1> DEFINE V(k) == CellOf(v[k])
             w == [k \in 1 .. n |-> V(k)]
  <1>6. ASSUME NEW k \in 1 .. n, k # 1 PROVE V(k) = NextCommand(cmdbuffer, V(k - 1))
    <2> DEFINE h == k - 1
    <2>1. h \in 1 .. n /\ h + 1 = k
      BY <1>2, <1>6
    <2> HIDE DEF h
    <2>2. /\ CommandAt(cmdbuffer, v[h], v[k], queue[h]) /\ CommandAt(cmdbuffer, v[k], v[k + 1], queue[k])
          /\ v[h] \in Nat /\ v[k] \in Nat /\ v[k] < 2 * SizeOf /\ queue[h] \in Texts
      BY <1>a, <1>3, <1>4, <1>5, <2>1
    <2>3. cmdbuffer[CellOf(v[k])] # 0
      BY <2>2 DEF CommandAt, Type
    <2>4. NextCommand(cmdbuffer, CellOf(v[h])) = CellOf(v[k])
      BY <2>2, <2>3, NextFound
    <2> QED
      BY <2>4 DEF h
  <1>c. CellOf(v[1]) = bufindr
    BY <1>2, <1>4 DEF CellOf, Cells
  <1> HIDE DEF V
  <1>d. V(1) = bufindr
    BY <1>c DEF V
  <1>7. w = [k \in 1 .. n |-> Body(w, k)]
    <2> SUFFICES ASSUME NEW k \in 1 .. n PROVE V(k) = Body(w, k)
      OBVIOUS
    <2>1. CASE k = 1
      BY <1>d, <2>1
    <2>2. CASE k # 1
      <3>1. k - 1 \in 1 .. n
        BY <1>2, <2>2
      <3>2. w[k - 1] = V(k - 1)
        BY <3>1
      <3> HIDE DEF w
      <3> QED
        BY <1>6, <2>2, <3>2
    <2> QED
      BY <2>1, <2>2
  <1>8. at = [k \in 1 .. n |-> Body(at, k)]
    <2> HIDE DEF w
    <2> QED
      BY <1>7
  <1> HIDE DEF at, w
  <1>9. \A k \in 1 .. n : at[k] = V(k)
    <2> DEFINE S == {k \in Nat : k + 1 <= n => at[k + 1] = V(k + 1)}
    <2>1. S \in SUBSET Nat /\ 0 \in S
      <3>1. 0 + 1 <= n => at[1] = V(1)
        BY <1>2, <1>8, <1>d
      <3> QED
        BY <3>1
    <2>2. ASSUME NEW k \in S PROVE k + 1 \in S
      <3>1. CASE (k + 1) + 1 <= n
        <4> DEFINE j == (k + 1) + 1
        <4>1. k \in Nat /\ k + 1 <= n /\ j \in 1 .. n /\ j # 1 /\ j - 1 = k + 1
          BY <1>2, <3>1
        <4> HIDE DEF j
        <4>2. at[j - 1] = V(j - 1)
          BY <4>1
        <4>3. at[j] = NextCommand(cmdbuffer, at[j - 1])
          BY <1>8, <4>1
        <4>4. at[j] = V(j)
          BY <1>6, <4>1, <4>2, <4>3
        <4> QED
          BY <4>1, <4>4 DEF j
      <3>2. CASE ~((k + 1) + 1 <= n)
        BY <3>2
      <3> QED
        BY <3>1, <3>2
    <2>3. S = Nat
      <3> HIDE DEF S
      <3> QED
        BY <2>1, <2>2, SetInduction
    <2> SUFFICES ASSUME NEW k \in 1 .. n PROVE at[k] = V(k)
      OBVIOUS
    <2> DEFINE h == k - 1
    <2>4. h \in Nat /\ h + 1 = k /\ h + 1 <= n
      BY <1>2
    <2> HIDE DEF h
    <2>5. h \in S
      <3> HIDE DEF S
      <3> QED
        BY <2>3, <2>4
    <2> QED
      BY <2>4, <2>5
  <1>10. ASSUME NEW k \in 1 .. n
         PROVE  /\ at[k] + CMDHDRSIZE + queue[k] < SizeOf
                /\ cmdbuffer[at[k]] = Type
                /\ ZeroFrom(cmdbuffer, at[k] + CMDHDRSIZE) = at[k] + CMDHDRSIZE + queue[k]
    <2> DEFINE a == CellOf(v[k])
    <2>1. /\ CommandAt(cmdbuffer, v[k], v[k + 1], queue[k]) /\ v[k] \in Nat /\ v[k + 1] \in Nat
          /\ v[k + 1] < 2 * SizeOf /\ queue[k] \in Texts
      BY <1>a, <1>3, <1>4, <1>5
    <2>2. /\ a \in Nat /\ a + Taken(queue[k]) <= SizeOf
          /\ ZeroFrom(cmdbuffer, a + CMDHDRSIZE) = a + CMDHDRSIZE + queue[k]
      BY <2>1, StringEnds
    <2>3. cmdbuffer[a] = Type
      BY <2>1 DEF CommandAt
    <2>4. at[k] = a
      BY <1>9 DEF V
    <2>5. CMDHDRSIZE \in Nat /\ queue[k] \in Nat
      BY <2>1, RingSizes DEF Texts
    <2> HIDE DEF a
    <2>6. a + CMDHDRSIZE + queue[k] < SizeOf
      BY <1>2, <2>2, <2>5 DEF Taken
    <2> QED
      BY <2>2, <2>3, <2>4, <2>6
  <1> QED
    BY <1>b, <1>2, <1>10

LEMMA QueueTyped == QueueInv => CmdTypeOK
  <1> SUFFICES ASSUME QueueInv PROVE CmdTypeOK
    OBVIOUS
  <1>1. PICK v : Chain(cmdbuffer, bufindr, bufindw, queue, v)
    BY RingIs DEF Readable
  <1>2. /\ cmdbuffer \in [Cells -> 0 .. 3] /\ bufindr \in Cells /\ bufindw \in Cells
        /\ buflen = Len(queue) /\ buflen \in Nat /\ serial_count \in Texts
        /\ cmdbuffer_front_already_processed \in BOOLEAN /\ processing \in BOOLEAN
        /\ queue \in Seq(Texts) /\ SizeOf \in Nat
    BY RingIs, RingSizes
  <1>3. buflen \in 0 .. SizeOf
    <2> DEFINE e == v[Len(queue) + 1]
    <2>1. /\ v \in [1 .. Len(queue) + 1 -> Nat] /\ v[1] = bufindr /\ e <= bufindr + SizeOf
          /\ \A j, k \in 1 .. Len(queue) + 1 : j < k => v[j] + (k - j) <= v[k]
      BY <1>1 DEF Chain
    <2>a. e \in Nat
      BY <1>1, <1>2, ChainBounds
    <2>2. e \in Nat /\ bufindr \in Nat
      BY <1>2, <2>a DEF Cells
    <2> HIDE DEF e
    <2>3. CASE buflen = 0
      BY <1>2, <2>3
    <2>4. CASE buflen > 0
      <3>1. 1 \in 1 .. Len(queue) + 1 /\ Len(queue) + 1 \in 1 .. Len(queue) + 1 /\ 1 < Len(queue) + 1
        BY <1>2, <2>4
      <3>2. bufindr + ((Len(queue) + 1) - 1) <= e
        BY <2>1, <3>1 DEF e
      <3> QED
        BY <1>2, <2>1, <2>2, <3>2
    <2> QED
      BY <1>2, <2>3, <2>4
  <1>4. {0, Type, Char, Received} = 0 .. 3
    BY DEF Type, Char, Received
  <1>5. \A k \in DOMAIN queue : queue[k] \in Texts
    BY <1>2
  <1> QED
    BY <1>2, <1>3, <1>4, <1>5 DEF CmdTypeOK, Texts

\* Unless a menu enqueues while a line is being received, cmdqueue_pop_front()
\* finds every queued command by following the zeros: for every size of the ring
\* and of its commands, and after any number of lines, commands pushed to the
\* front, pops, resets and turns around the ring.
THEOREM QueueFound ==
    ASSUME ~UiWhileReceiving
    PROVE  CmdSpec => []QueueReadable
  <1>1. CmdInit => QueueInv
    BY QueueInit
  <1>2. QueueInv /\ [CmdNext]_cmdVars => QueueInv'
    BY QueueKeeps
  <1>3. QueueInv => QueueReadable
    BY QueueFollowed
  <1> QED
    BY <1>1, <1>2, <1>3, PTL DEF CmdSpec

\* The indices stay inside the ring, the number of commands does not pass its
\* size, and no command and no line being received is longer than a line may be.
THEOREM CommandsTyped ==
    ASSUME ~UiWhileReceiving
    PROVE  CmdSpec => []CmdTypeOK
  <1>1. CmdInit => QueueInv
    BY QueueInit
  <1>2. QueueInv /\ [CmdNext]_cmdVars => QueueInv'
    BY QueueKeeps
  <1>3. QueueInv => CmdTypeOK
    BY QueueTyped
  <1> QED
    BY <1>1, <1>2, <1>3, PTL DEF CmdSpec
=============================================================================
