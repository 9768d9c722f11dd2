--------------------------- MODULE Lookahead_proofs ---------------------------
(***************************************************************************)
(* The planner's queue: for every length of the queue, all moves and every *)
(* interleaving with the stepper interrupt.                                *)
(***************************************************************************)
EXTENDS Lookahead, Induction

-----------------------------------------------------------------------------
(* Blocks and windows.                                                     *)

\* The fields of a block.
LEMMA BlockFields ==
    ASSUME NEW x \in PlannedBlocks
    PROVE  /\ x.nominal \in Nat /\ x.safe \in Nat /\ x.gain \in Nat /\ x.max_entry \in Nat
           /\ x.entry \in Nat /\ x.full_halt \in BOOLEAN /\ x.nominal_length \in BOOLEAN
           /\ x.recalculate \in BOOLEAN /\ x.initial \in Nat /\ x.final \in Nat
           /\ \A e \in Nat, f \in BOOLEAN :
                /\ [x EXCEPT !.entry = e] \in PlannedBlocks
                /\ [x EXCEPT !.entry = e, !.recalculate = f] \in PlannedBlocks
                /\ [x EXCEPT !.recalculate = f] \in PlannedBlocks
           /\ \A i, f \in Nat : [x EXCEPT !.initial = i, !.final = f] \in PlannedBlocks
  BY DEF PlannedBlocks

\* The move a block was planned for.
SameMove(x, y) ==
  /\ x.nominal = y.nominal /\ x.safe = y.safe /\ x.gain = y.gain
  /\ x.max_entry = y.max_entry /\ x.nominal_length = y.nominal_length

LEMMA Window ==
    ASSUME NEW w \in Seq(PlannedBlocks)
    PROVE  /\ Len(w) \in Nat /\ DOMAIN w = 1 .. Len(w)
           /\ \A b \in 1 .. Len(w) : w[b] \in PlannedBlocks
           /\ (w = <<>> <=> Len(w) = 0)
           /\ \A b \in 1 .. Len(w) :
                /\ w[b].nominal \in Nat /\ w[b].safe \in Nat /\ w[b].gain \in Nat
                /\ w[b].max_entry \in Nat /\ w[b].entry \in Nat /\ w[b].initial \in Nat
                /\ w[b].final \in Nat /\ w[b].recalculate \in BOOLEAN
                /\ w[b].nominal_length \in BOOLEAN
  <1>1. Len(w) \in Nat /\ DOMAIN w = 1 .. Len(w) /\ (w = <<>> <=> Len(w) = 0)
    <2> HIDE DEF PlannedBlocks
    <2> QED OBVIOUS
  <1>2. \A b \in 1 .. Len(w) : w[b] \in PlannedBlocks
    <2> HIDE DEF PlannedBlocks
    <2> QED OBVIOUS
  <1> QED
    BY <1>1, <1>2, BlockFields

LEMMA LeastGreatest ==
    ASSUME NEW a \in Int, NEW b \in Int
    PROVE  /\ Least(a, b) \in Int /\ Least(a, b) <= a /\ Least(a, b) <= b
           /\ (Least(a, b) = a \/ Least(a, b) = b)
           /\ Greatest(a, b) \in Int /\ a <= Greatest(a, b) /\ b <= Greatest(a, b)
           /\ (Greatest(a, b) = a \/ Greatest(a, b) = b)
           /\ (a <= b => Least(a, b) = a /\ Greatest(a, b) = b)
           /\ (b <= a => Least(a, b) = b /\ Greatest(a, b) = a)
           /\ (a \in Nat /\ b \in Nat => Least(a, b) \in Nat)
  BY DEF Least, Greatest

\* calculate_trapezoid_for_block() changes the rates of the block alone.
Rated(x, exit, running) == [Trapezoid(x, exit, running) EXCEPT !.recalculate = FALSE]

HasRates(y, x, exit, running) ==
  /\ y \in PlannedBlocks /\ SameMove(y, x) /\ y.entry = x.entry
  /\ y.recalculate = FALSE
  /\ (running => y.initial = x.initial /\ y.final = x.final)
  /\ (~running => /\ y.initial = Least(x.entry, x.nominal)
                  /\ y.final = Least(exit, x.nominal))

LEMMA TrapezoidFields ==
    ASSUME NEW x \in PlannedBlocks, NEW exit \in Nat, NEW running \in BOOLEAN
    PROVE  HasRates(Rated(x, exit, running), x, exit, running)
  <1> DEFINE y == Rated(x, exit, running)
  <1>1. PICK i \in Nat, f \in Nat : i = Least(x.entry, x.nominal) /\ f = Least(exit, x.nominal)
    <2>1. x.entry \in Nat /\ x.nominal \in Nat
      BY BlockFields
    <2> QED
      BY <2>1 DEF Least
  <1>2. CASE running
    <2>1. y = [x EXCEPT !.recalculate = FALSE]
      BY <1>2 DEF Trapezoid, Rated
    <2>2. /\ y \in PlannedBlocks /\ y.nominal = x.nominal /\ y.safe = x.safe /\ y.gain = x.gain
          /\ y.max_entry = x.max_entry /\ y.nominal_length = x.nominal_length
          /\ y.entry = x.entry /\ y.recalculate = FALSE /\ y.initial = x.initial
          /\ y.final = x.final
      BY <2>1 DEF PlannedBlocks
    <2> HIDE DEF y
    <2>3. HasRates(y, x, exit, running)
      BY <1>2, <2>2 DEF SameMove, HasRates
    <2> QED
      BY <2>3 DEF y
  <1>3. CASE ~running
    <2>1. y = [[x EXCEPT !.initial = i, !.final = f] EXCEPT !.recalculate = FALSE]
      BY <1>1, <1>3 DEF Trapezoid, Rated
    <2>2. /\ y \in PlannedBlocks /\ y.nominal = x.nominal /\ y.safe = x.safe /\ y.gain = x.gain
          /\ y.max_entry = x.max_entry /\ y.nominal_length = x.nominal_length
          /\ y.entry = x.entry /\ y.recalculate = FALSE /\ y.initial = i /\ y.final = f
      BY <2>1 DEF PlannedBlocks
    <2> HIDE DEF y
    <2>3. HasRates(y, x, exit, running)
      BY <1>1, <1>3, <2>2 DEF SameMove, HasRates
    <2> QED
      BY <2>3 DEF y
  <1> QED
    BY <1>2, <1>3

\* A window of the same moves, none entered faster than it may be.
LEMMA SameBlocksOK ==
    ASSUME NEW w, NEW v \in Seq(PlannedBlocks), BlocksOK(w), Len(v) = Len(w),
           \A b \in 1 .. Len(w) : SameMove(v[b], w[b]) /\ v[b].entry <= v[b].max_entry
    PROVE  BlocksOK(v)
  <1>1. \A b \in 1 .. Len(v) : b \in 1 .. Len(w)
    OBVIOUS
  <1> QED
    BY <1>1 DEF BlocksOK, SameMove

\* The distances are those of the moves.
LEMMA SameDistances ==
    ASSUME NEW w, NEW v \in Seq(PlannedBlocks), BlocksOK(w), Len(v) = Len(w),
           NEW p \in [1 .. Len(w) + 1 -> Int], BrakesWith(w, p),
           \A b \in 1 .. Len(w) : SameMove(v[b], w[b]),
           \A b \in 1 .. Len(w) : v[b].entry + p[b] <= SafeMax + p[Len(w) + 1],
           \A b, c \in 1 .. Len(w) : b < c => v[b].entry + p[b] <= SafeMax + v[c].entry + p[c]
    PROVE  Brakes(v)
  <1>1. \A b \in 1 .. Len(w) : v[b].gain = w[b].gain
    BY DEF SameMove
  <1>2. BrakesWith(v, p)
    BY <1>1 DEF BrakesWith
  <1> QED
    BY <1>2 DEF Brakes

\* Without the first k blocks.
LEMMA Shifted ==
    ASSUME NEW w, NEW v \in Seq(PlannedBlocks), NEW k \in Nat, k <= Len(w), Len(v) = Len(w) - k,
           \A b \in 1 .. Len(v) : v[b] = w[b + k],
           BlocksOK(w), LastSafe(w), Brakes(w)
    PROVE  BlocksOK(v) /\ LastSafe(v) /\ Brakes(v)
  <1> DEFINE n == Len(w)
             m == Len(v)
  <1>1. w \in Seq(PlannedBlocks) /\ n \in Nat /\ m \in Nat /\ m = n - k
    BY Window DEF BlocksOK
  <1>2. (v = <<>> <=> m = 0) /\ (w = <<>> <=> n = 0)
    BY Window, <1>1
  <1>3. \A b \in 1 .. m : b + k \in 1 .. n
    <2> HIDE DEF n, m
    <2> QED BY <1>1
  <1>4. BlocksOK(v)
    BY <1>3 DEF BlocksOK
  <1>5. LastSafe(v)
    <2> SUFFICES ASSUME v # <<>> PROVE LastSafe(v)
      BY DEF LastSafe
    <2>1. m \in 1 .. m /\ m + k = n /\ w # <<>>
      <3> HIDE DEF n, m
      <3> QED BY <1>1, <1>2
    <2>2. v[m] = w[n]
      BY <2>1
    <2> QED
      BY <2>1, <2>2 DEF LastSafe
  <1>6. Brakes(v)
    <2>1. PICK p \in [1 .. n + 1 -> Int] : BrakesWith(w, p)
      BY DEF Brakes
    <2> DEFINE q == [b \in 1 .. m + 1 |-> p[b + k]]
    <2>2. /\ \A b \in 1 .. n : p[b + 1] = p[b] + w[b].gain
          /\ \A b, c \in 1 .. n + 1 : b < c => p[b] <= p[c]
          /\ \A b \in 1 .. n : w[b].entry + p[b] <= SafeMax + p[n + 1]
          /\ \A b, c \in 1 .. n : b < c => w[b].entry + p[b] <= SafeMax + w[c].entry + p[c]
      BY <2>1 DEF BrakesWith
    <2>3. \A b \in 1 .. m + 1 : b + k \in 1 .. n + 1 /\ q[b] = p[b + k]
      <3> HIDE DEF n, m
      <3> QED BY <1>1
    <2>4. q \in [1 .. m + 1 -> Int]
      BY <2>1, <2>3
    <2>5. \A b \in 1 .. m : q[b + 1] = q[b] + v[b].gain
      <3> SUFFICES ASSUME NEW b \in 1 .. m PROVE q[b + 1] = q[b] + v[b].gain
        OBVIOUS
      <3>1. b \in 1 .. m + 1 /\ b + 1 \in 1 .. m + 1 /\ (b + 1) + k = (b + k) + 1
        <4> HIDE DEF n, m
        <4> QED BY <1>1
      <3>2. q[b + 1] = p[(b + k) + 1] /\ q[b] = p[b + k] /\ v[b] = w[b + k] /\ b + k \in 1 .. n
        BY <3>1, <2>3, <1>3
      <3> QED
        BY <3>2, <2>2
    <2>6. \A b, c \in 1 .. m + 1 : b < c => q[b] <= q[c]
      <3> SUFFICES ASSUME NEW b \in 1 .. m + 1, NEW c \in 1 .. m + 1, b < c PROVE q[b] <= q[c]
        OBVIOUS
      <3>1. b + k < c + k
        <4> HIDE DEF n, m
        <4> QED BY <1>1
      <3> QED
        BY <3>1, <2>3, <2>2
    <2>7. \A b \in 1 .. m : v[b].entry + q[b] <= SafeMax + q[m + 1]
      <3> SUFFICES ASSUME NEW b \in 1 .. m PROVE v[b].entry + q[b] <= SafeMax + q[m + 1]
        OBVIOUS
      <3>1. b \in 1 .. m + 1 /\ m + 1 \in 1 .. m + 1 /\ (m + 1) + k = n + 1
        <4> HIDE DEF n, m
        <4> QED BY <1>1
      <3>2. q[m + 1] = p[n + 1] /\ q[b] = p[b + k] /\ v[b] = w[b + k] /\ b + k \in 1 .. n
        BY <3>1, <2>3, <1>3
      <3> QED
        BY <3>2, <2>2
    <2>8. \A b, c \in 1 .. m : b < c => v[b].entry + q[b] <= SafeMax + v[c].entry + q[c]
      <3> SUFFICES ASSUME NEW b \in 1 .. m, NEW c \in 1 .. m, b < c
                   PROVE v[b].entry + q[b] <= SafeMax + v[c].entry + q[c]
        OBVIOUS
      <3>1. b + k < c + k /\ b \in 1 .. m + 1 /\ c \in 1 .. m + 1
        <4> HIDE DEF n, m
        <4> QED BY <1>1
      <3>2. /\ q[b] = p[b + k] /\ v[b] = w[b + k] /\ b + k \in 1 .. n
            /\ q[c] = p[c + k] /\ v[c] = w[c + k] /\ c + k \in 1 .. n
        BY <3>1, <2>3, <1>3
      <3> QED
        BY <3>1, <3>2, <2>2
    <2>9. BrakesWith(v, q)
      <3> HIDE DEF q
      <3> QED
        BY <2>5, <2>6, <2>7, <2>8 DEF BrakesWith
    <2> HIDE DEF q
    <2> QED
      BY <2>4, <2>9 DEF Brakes
  <1> QED
    BY <1>4, <1>5, <1>6

-----------------------------------------------------------------------------
(* The reverse pass.                                                       *)

\* The function that ReversePass() chooses exists.
LEMMA PassEquation ==
    ASSUME NEW w, Len(w) \in Nat, NEW stop
    PROVE  LET r == ReversePass(w, stop)
           IN r = [b \in 1 .. Len(w) |->
                     IF stop < b /\ b < Len(w) THEN Raised(w[b], r[b + 1]) ELSE w[b]]
  <1> DEFINE n == Len(w)
             Body(f, b) == IF stop < b /\ b < n THEN Raised(w[b], f[b + 1]) ELSE w[b]
             r == CHOOSE f : f = [b \in 1 .. n |-> Body(f, b)]
             S == {m \in 1 .. n : \E f : f = [b \in m .. n |-> Body(f, b)]}
  <1>1. ReversePass(w, stop) = r
    BY DEF ReversePass
  <1>2. \E f : f = [b \in 1 .. n |-> Body(f, b)]
    <2>1. CASE n = 0
      <3>1. << >> = [b \in 1 .. n |-> Body(<< >>, b)]
        BY <2>1
      <3> HIDE DEF Body, n
      <3> QED
        BY <3>1
    <2>2. CASE n > 0
      <3>1. n \in S
        <4> DEFINE g == [b \in n .. n |-> w[b]]
        <4>1. \A b \in n .. n : Body(g, b) = w[b]
          OBVIOUS
        <4>2. g = [b \in n .. n |-> Body(g, b)]
          BY <4>1
        <4> HIDE DEF Body, g
        <4> QED
          BY <2>2, <4>2
      <3>2. ASSUME NEW m \in 1 .. n - 1, m + 1 \in S PROVE m \in S
        <4>1. PICK f : f = [b \in m + 1 .. n |-> Body(f, b)]
          BY <3>2
        <4> DEFINE g == [b \in m .. n |-> IF b = m THEN Body(f, m) ELSE f[b]]
        <4>2. ASSUME NEW b \in m .. n PROVE g[b] = Body(g, b)
          <5>1. b < n => b + 1 \in m .. n /\ b + 1 # m
            OBVIOUS
          <5>2. b < n => g[b + 1] = f[b + 1]
            BY <5>1
          <5>3. b # m => b \in m + 1 .. n
            OBVIOUS
          <5>4. g[b] = IF b = m THEN Body(f, m) ELSE f[b]
            OBVIOUS
          <5>5. b # m => f[b] = Body(f, b)
            BY <4>1, <5>3
          <5>6. Body(g, b) = Body(f, b)
            <6> HIDE DEF g
            <6> QED BY <5>2
          <5> HIDE DEF g, Body
          <5> QED
            BY <5>4, <5>5, <5>6
        <4>3. g = [b \in m .. n |-> Body(g, b)]
          <5>1. g = [b \in m .. n |-> g[b]]
            OBVIOUS
          <5> HIDE DEF g, Body
          <5> QED
            BY <4>2, <5>1
        <4>4. m \in 1 .. n
          OBVIOUS
        <4> HIDE DEF g, Body
        <4> QED
          BY <4>3, <4>4
      <3>3. n \in Nat \ {0}
        BY <2>2
      <3>4. 1 .. n \subseteq S
        <4> HIDE DEF S, n
        <4> QED
          BY <3>1, <3>2, <3>3, DownInduction
      <3>5. 1 \in S
        BY <3>3, <3>4
      <3> HIDE DEF Body, n
      <3> QED
        BY <3>5
    <2> QED
      BY <2>1, <2>2
  <1>3. r = [b \in 1 .. n |-> Body(r, b)]
    <2> HIDE DEF Body, n
    <2> QED
      BY <1>2
  <1> HIDE DEF r
  <1> QED
    BY <1>1, <1>3

\* What a step of the pass does to a block.
LEMMA RaisedFields ==
    ASSUME NEW x \in PlannedBlocks, NEW y \in PlannedBlocks, NEW z, z = Raised(x, y),
           x.entry <= x.max_entry
    PROVE  /\ z \in PlannedBlocks /\ SameMove(z, x) /\ z.full_halt = x.full_halt
           /\ z.initial = x.initial /\ z.final = x.final /\ z.entry <= z.max_entry
           /\ (~z.recalculate => z = x)
           /\ \/ z.entry = x.max_entry
              \/ z.entry = y.entry + x.gain
           /\ \/ z = x
              \/ x.nominal_length /\ z.entry = x.max_entry
              \/ z.entry <= y.entry + x.gain
  <1>1. /\ x.max_entry \in Nat /\ x.entry \in Nat /\ x.gain \in Nat /\ y.entry \in Nat
        /\ x.nominal_length \in BOOLEAN
    BY BlockFields
  <1>2. CASE x.entry = x.max_entry
    <2>1. z = x
      BY <1>2 DEF Raised
    <2> QED
      BY <1>1, <1>2, <2>1 DEF SameMove
  <1>3. CASE x.entry # x.max_entry
    <2>1. PICK e \in Nat : e = IF x.nominal_length \/ x.max_entry <= y.entry
                               THEN x.max_entry
                               ELSE Least(x.max_entry, Allowable(x.gain, y.entry))
      BY <1>1 DEF Least, Allowable
    <2>2. z = [x EXCEPT !.entry = e, !.recalculate = TRUE]
      BY <1>3, <2>1 DEF Raised
    <2>3. /\ z \in PlannedBlocks /\ z.nominal = x.nominal /\ z.safe = x.safe /\ z.gain = x.gain
          /\ z.max_entry = x.max_entry /\ z.nominal_length = x.nominal_length
          /\ z.full_halt = x.full_halt /\ z.initial = x.initial /\ z.final = x.final
          /\ z.entry = e /\ z.recalculate = TRUE
      BY <2>2 DEF PlannedBlocks
    <2>4. /\ e <= x.max_entry
          /\ e = x.max_entry \/ e = y.entry + x.gain
          /\ (x.nominal_length /\ e = x.max_entry) \/ e <= y.entry + x.gain
      <3>1. CASE x.nominal_length
        BY <1>1, <2>1, <3>1
      <3>2. CASE ~x.nominal_length /\ x.max_entry <= y.entry
        BY <1>1, <2>1, <3>2
      <3>3. CASE ~x.nominal_length /\ ~(x.max_entry <= y.entry)
        BY <1>1, <2>1, <3>3 DEF Least, Allowable
      <3> QED
        BY <3>1, <3>2, <3>3
    <2> QED
      BY <2>3, <2>4 DEF SameMove
  <1> QED
    BY <1>2, <1>3

\* The blocks after the reverse pass: the same moves, those that are not to be
\* recalculated the same blocks, and a block that may have been slowed down
\* can brake to the one behind it.
LEMMA ReversePassFields ==
    ASSUME NEW w \in Seq(PlannedBlocks), BlocksOK(w), NEW stop \in Nat,
           NEW r, r = ReversePass(w, stop)
    PROVE  /\ r \in Seq(PlannedBlocks) /\ Len(r) = Len(w)
           /\ \A b \in 1 .. Len(w) :
                /\ SameMove(r[b], w[b]) /\ r[b].initial = w[b].initial /\ r[b].final = w[b].final
                /\ r[b].entry <= r[b].max_entry
                /\ (~r[b].recalculate => r[b] = w[b])
                /\ (b <= stop \/ b = Len(w) => r[b] = w[b])
                /\ \/ r[b] = w[b]
                   \/ /\ b < Len(w)
                      /\ \/ r[b].entry = w[b].max_entry
                         \/ r[b].entry = r[b + 1].entry + w[b].gain
                      /\ \/ w[b].nominal_length /\ r[b].entry = w[b].max_entry
                         \/ r[b].entry <= r[b + 1].entry + w[b].gain
  <1> DEFINE n == Len(w)
  <1>1. n \in Nat /\ \A b \in 1 .. n : w[b] \in PlannedBlocks /\ w[b].entry <= w[b].max_entry
    BY Window DEF BlocksOK
  <1>2. r = [b \in 1 .. n |-> IF stop < b /\ b < n THEN Raised(w[b], r[b + 1]) ELSE w[b]]
    BY <1>1, PassEquation
  <1>3. \A b \in 1 .. n : r[b] = IF stop < b /\ b < n THEN Raised(w[b], r[b + 1]) ELSE w[b]
    BY <1>2
  <1> HIDE DEF n
  <1>4. \A b \in 1 .. n : r[b] \in PlannedBlocks
    <2>1. CASE n = 0
      BY <2>1
    <2>2. CASE n # 0
      <3> DEFINE S == {b \in 1 .. n : r[b] \in PlannedBlocks}
      <3>1. n \in S /\ n \in Nat \ {0}
        BY <1>1, <1>3, <2>2
      <3>2. ASSUME NEW b \in 1 .. n - 1, b + 1 \in S PROVE b \in S
        <4>1. b \in 1 .. n /\ r[b + 1] \in PlannedBlocks
          BY <1>1, <3>2
        <4>2. Raised(w[b], r[b + 1]) \in PlannedBlocks
          BY <1>1, <4>1, RaisedFields
        <4> QED
          BY <1>1, <1>3, <4>1, <4>2
      <3>3. 1 .. n \subseteq S
        <4> HIDE DEF S
        <4> QED
          BY <3>1, <3>2, DownInduction
      <3> QED
        BY <3>3
    <2> QED
      BY <2>1, <2>2
  <1>5. r \in Seq(PlannedBlocks) /\ Len(r) = n
    <2>1. DOMAIN r = 1 .. n /\ r = [b \in 1 .. n |-> r[b]]
      BY <1>2
    <2> HIDE DEF PlannedBlocks
    <2> QED
      BY <1>1, <1>4, <2>1
  <1>6. ASSUME NEW b \in 1 .. n
        PROVE  /\ SameMove(r[b], w[b]) /\ r[b].initial = w[b].initial /\ r[b].final = w[b].final
               /\ r[b].entry <= r[b].max_entry
               /\ (~r[b].recalculate => r[b] = w[b])
               /\ (b <= stop \/ b = n => r[b] = w[b])
               /\ \/ r[b] = w[b]
                  \/ /\ b < n
                     /\ \/ r[b].entry = w[b].max_entry
                        \/ r[b].entry = r[b + 1].entry + w[b].gain
                     /\ \/ w[b].nominal_length /\ r[b].entry = w[b].max_entry
                        \/ r[b].entry <= r[b + 1].entry + w[b].gain
    <2>1. CASE ~(stop < b /\ b < n)
      <3>1. r[b] = w[b]
        BY <1>3, <2>1
      <3> QED
        BY <1>1, <3>1 DEF SameMove
    <2>2. CASE stop < b /\ b < n
      <3>1. r[b] = Raised(w[b], r[b + 1]) /\ b + 1 \in 1 .. n /\ ~(b <= stop \/ b = n)
        BY <1>1, <1>3, <2>2
      <3>2. w[b] \in PlannedBlocks /\ r[b + 1] \in PlannedBlocks /\ w[b].entry <= w[b].max_entry
        BY <1>1, <1>4, <3>1
      <3> QED
        BY <2>2, <3>1, <3>2, RaisedFields
    <2> QED
      BY <2>1, <2>2
  <1> QED
    BY <1>5, <1>6 DEF n

LEMMA RaisedSums ==
    ASSUME NEW M \in Nat, NEW nominal \in Nat, NEW safe \in Nat, NEW gain \in Nat,
           NEW max \in Nat, NEW long \in BOOLEAN, NEW old \in Nat, NEW new \in Nat,
           NEW next \in Nat, NEW p \in Int, NEW q \in Int, q = p + gain,
           old <= max, max <= nominal, safe <= M, long => nominal <= safe + gain,
           new = max \/ new = next + gain, (long /\ new = max) \/ new <= next + gain
    PROVE  /\ new + p >= old + p \/ new + p = next + q
           /\ new + p <= next + q \/ new + p <= M + q
  <1>1. new + p >= old + p \/ new + p = next + q
    OBVIOUS
  <1>2. CASE long /\ new = max
    <2>1. new <= safe + gain
      BY <1>2
    <2> QED
      BY <1>1, <2>1
  <1>3. CASE new <= next + gain
    BY <1>1, <1>3
  <1> QED
    BY <1>2, <1>3

\* The reverse pass leaves every block able to brake, up to SafeMax.
LEMMA ReversePassBrakes ==
    ASSUME NEW w \in Seq(PlannedBlocks), BlocksOK(w), Brakes(w), NEW stop \in Nat,
           NEW r, r = ReversePass(w, stop)
    PROVE  Brakes(r)
  <1> DEFINE n == Len(w)
             M == SafeMax
  <1>1. n \in Nat /\ M \in Nat
    BY Window, LookaheadAssumption
  <1>2. r \in Seq(PlannedBlocks) /\ Len(r) = n
    BY ReversePassFields
  <1>3. PICK p \in [1 .. n + 1 -> Int] : BrakesWith(w, p)
    BY DEF Brakes
  <1>4. /\ \A b \in 1 .. n : p[b + 1] = p[b] + w[b].gain
        /\ \A b, c \in 1 .. n + 1 : b < c => p[b] <= p[c]
        /\ \A b \in 1 .. n : w[b].entry + p[b] <= M + p[n + 1]
        /\ \A b, c \in 1 .. n : b < c => w[b].entry + p[b] <= M + w[c].entry + p[c]
    BY <1>3 DEF BrakesWith
  <1> DEFINE U(b) == w[b].entry + p[b]
             V(b) == r[b].entry + p[b]
             Keeps(b) == r[b] = w[b]
             Follows(b) == b < n /\ V(b) <= V(b + 1)
             Bounded(b) == b < n /\ V(b) <= M + p[b + 1]
             Over(b) == V(b) >= U(b) \/ (b < n /\ V(b) = V(b + 1))
  <1>5. \A b \in 1 .. n : /\ U(b) \in Int /\ V(b) \in Int /\ p[b] \in Int /\ p[b] <= V(b)
                          /\ w[b].entry \in Nat /\ r[b].entry \in Nat
    <2> SUFFICES ASSUME NEW b \in 1 .. n
                 PROVE /\ U(b) \in Int /\ V(b) \in Int /\ p[b] \in Int /\ p[b] <= V(b)
                       /\ w[b].entry \in Nat /\ r[b].entry \in Nat
      OBVIOUS
    <2>1. w[b].entry \in Nat /\ r[b].entry \in Nat
      BY <1>2, Window
    <2>2. p[b] \in Int
      BY <1>1
    <2> QED
      BY <2>1, <2>2
  <1>6. ASSUME NEW b \in 1 .. n
        PROVE  /\ Keeps(b) \/ Follows(b) \/ Bounded(b)
               /\ Over(b)
    <2>1. CASE Keeps(b)
      BY <1>5, <2>1
    <2>2. CASE ~Keeps(b)
      <3>1. /\ b < n
            /\ \/ r[b].entry = w[b].max_entry
               \/ r[b].entry = r[b + 1].entry + w[b].gain
            /\ \/ w[b].nominal_length /\ r[b].entry = w[b].max_entry
               \/ r[b].entry <= r[b + 1].entry + w[b].gain
        BY <2>2, ReversePassFields
      <3>2. /\ w[b].entry <= w[b].max_entry /\ w[b].max_entry <= w[b].nominal
            /\ w[b].safe <= M
            /\ (w[b].nominal_length => w[b].nominal <= w[b].safe + w[b].gain)
        BY DEF BlocksOK
      <3>3. /\ w[b].entry \in Nat /\ w[b].max_entry \in Nat /\ w[b].nominal \in Nat
            /\ w[b].safe \in Nat /\ w[b].gain \in Nat
        BY Window
      <3>4. b + 1 \in 1 .. n /\ p[b + 1] = p[b] + w[b].gain
        BY <1>1, <1>4, <3>1
      <3>5. r[b].entry \in Nat /\ r[b + 1].entry \in Nat /\ p[b] \in Int /\ p[b + 1] \in Int
        BY <1>5, <3>4
      <3>6. w[b].nominal_length \in BOOLEAN /\ w[b].safe <= SafeMax /\ SafeMax \in Nat
        BY <1>1, <3>2, Window
      <3>7. /\ r[b].entry + p[b] >= w[b].entry + p[b]
                \/ r[b].entry + p[b] = r[b + 1].entry + p[b + 1]
            /\ r[b].entry + p[b] <= r[b + 1].entry + p[b + 1]
                \/ r[b].entry + p[b] <= SafeMax + p[b + 1]
        <4>1. ASSUME NEW nominal, nominal = w[b].nominal, NEW safe, safe = w[b].safe,
                     NEW gain, gain = w[b].gain, NEW max, max = w[b].max_entry,
                     NEW long, long = w[b].nominal_length, NEW old, old = w[b].entry,
                     NEW new, new = r[b].entry, NEW next, next = r[b + 1].entry,
                     NEW s, s = p[b], NEW t, t = p[b + 1]
              PROVE  /\ new + s >= old + s \/ new + s = next + t
                     /\ new + s <= next + t \/ new + s <= SafeMax + t
          <5>1. /\ nominal \in Nat /\ safe \in Nat /\ gain \in Nat /\ max \in Nat
                /\ long \in BOOLEAN /\ old \in Nat /\ new \in Nat /\ next \in Nat
                /\ s \in Int /\ t \in Int
            BY <3>3, <3>5, <3>6, <4>1
          <5>2. /\ t = s + gain /\ old <= max /\ max <= nominal /\ safe <= SafeMax
                /\ (long => nominal <= safe + gain)
            BY <3>2, <3>4, <3>6, <4>1
          <5>3. /\ new = max \/ new = next + gain
                /\ (long /\ new = max) \/ new <= next + gain
            BY <3>1, <4>1
          <5> QED
            BY <3>6, <5>1, <5>2, <5>3, RaisedSums
        <4> QED
          BY <4>1
      <3> QED
        BY <3>1, <3>7
    <2> QED
      BY <2>1, <2>2
  <1>7. \A b \in 1 .. n : Keeps(b) => V(b) = U(b)
    OBVIOUS
  <1>8. \A b \in 1 .. n : U(b) <= M + p[n + 1]
    BY <1>4
  <1>9. \A b, c \in 1 .. n : b < c => U(b) <= M + U(c)
    <2> SUFFICES ASSUME NEW b \in 1 .. n, NEW c \in 1 .. n, b < c PROVE U(b) <= M + U(c)
      OBVIOUS
    <2>1. w[b].entry + p[b] <= M + w[c].entry + p[c]
      BY <1>4
    <2>2. w[c].entry \in Int /\ p[c] \in Int
      BY <1>5
    <2> HIDE DEF M
    <2> QED
      BY <1>1, <2>1, <2>2
  <1>10. n # 0 => Keeps(n)
    BY <1>1, ReversePassFields
  <1>11. \A b \in 1 .. n : p[b] <= V(b) /\ (b < n => b + 1 \in 1 .. n /\ p[b + 1] \in Int)
    <2> HIDE DEF V, n
    <2> QED BY <1>1, <1>5
  <1>12. p[n + 1] \in Int
    BY <1>1
  <1>13. \A b, c \in 1 .. n : b < c => p[b + 1] <= p[c] /\ p[b + 1] <= p[n + 1]
    <2> SUFFICES ASSUME NEW b \in 1 .. n, NEW c \in 1 .. n, b < c
                 PROVE  p[b + 1] <= p[c] /\ p[b + 1] <= p[n + 1]
      OBVIOUS
    <2>1. b + 1 \in 1 .. n + 1 /\ c \in 1 .. n + 1 /\ n + 1 \in 1 .. n + 1
          /\ b + 1 < n + 1 /\ (b + 1 = c \/ b + 1 < c)
      BY <1>1
    <2>2. p[c] \in Int
      BY <1>1
    <2> QED
      BY <1>4, <2>1, <2>2
  <1> HIDE DEF U, V, Keeps, n, M
  <1>14. \A b \in 1 .. n : U(b) \in Int /\ V(b) \in Int
    BY <1>5
  <1>15. CASE n = 0
    <2>1. BrakesWith(r, p)
      BY <1>1, <1>2, <1>15, <1>3 DEF BrakesWith, n
    <2> QED
      BY <1>2, <2>1 DEF Brakes
  <1>16. CASE n # 0
    <2>0. n \in Nat \ {0}
      BY <1>1, <1>16
    <2>1. \A c \in 1 .. n : \A b \in 1 .. n : b < c => U(b) <= M + V(c)
      <3> DEFINE S == {c \in 1 .. n : \A b \in 1 .. n : b < c => U(b) <= M + V(c)}
      <3>1. n \in S
        BY <2>0, <1>7, <1>9, <1>10
      <3>2. ASSUME NEW c \in 1 .. n - 1, c + 1 \in S PROVE c \in S
        <4>1. c \in 1 .. n /\ c + 1 \in 1 .. n
          BY <2>0
        <4>2. ASSUME NEW b \in 1 .. n, b < c PROVE U(b) <= M + V(c)
          <5>1. b < c + 1 /\ U(b) <= M + V(c + 1)
            BY <3>2, <4>1, <4>2
          <5>2. CASE V(c) >= U(c)
            <6>1. U(b) <= M + U(c)
              BY <1>9, <4>1, <4>2
            <6> QED
              BY <1>1, <1>14, <4>1, <5>2, <6>1
          <5>3. CASE V(c) = V(c + 1)
            BY <5>1, <5>3
          <5> QED
            BY <1>6, <4>1, <5>2, <5>3
        <4> QED
          BY <4>1, <4>2
      <3>3. 1 .. n \subseteq S
        <4> HIDE DEF S
        <4> QED
          BY <2>0, <3>1, <3>2, DownInduction
      <3> QED
        BY <3>3
    <2>2. \A b \in 1 .. n : \A c \in 1 .. n : b < c => V(b) <= M + V(c)
      <3> DEFINE S == {b \in 1 .. n : \A c \in 1 .. n : b < c => V(b) <= M + V(c)}
      <3>1. n \in S
        BY <2>0
      <3>2. ASSUME NEW b \in 1 .. n - 1, b + 1 \in S PROVE b \in S
        <4>1. b \in 1 .. n /\ b + 1 \in 1 .. n
          BY <2>0
        <4>2. ASSUME NEW c \in 1 .. n, b < c PROVE V(b) <= M + V(c)
          <5>1. V(b) \in Int /\ V(c) \in Int /\ V(b + 1) \in Int
            BY <1>14, <4>1
          <5>2. CASE Keeps(b)
            BY <1>7, <2>1, <4>1, <4>2, <5>2
          <5>3. CASE Follows(b)
            <6>1. CASE b + 1 = c
              BY <1>1, <5>1, <5>3, <6>1
            <6>2. CASE b + 1 # c
              <7>1. b + 1 < c
                BY <4>2, <6>2
              <7>2. V(b + 1) <= M + V(c)
                BY <3>2, <7>1
              <7> QED
                BY <1>1, <5>1, <5>3, <7>2
            <6> QED
              BY <6>1, <6>2
          <5>4. CASE Bounded(b)
            <6>1. p[b + 1] <= p[c] /\ p[c] <= V(c) /\ V(b) <= M + p[b + 1]
              BY <1>13, <1>11, <4>1, <4>2, <5>4
            <6>2. p[b + 1] \in Int /\ p[c] \in Int
              BY <1>1, <4>1
            <6> QED
              BY <1>1, <5>1, <6>1, <6>2
          <5> QED
            BY <1>6, <4>1, <5>2, <5>3, <5>4
        <4> QED
          BY <4>1, <4>2
      <3>3. 1 .. n \subseteq S
        <4> HIDE DEF S
        <4> QED
          BY <2>0, <3>1, <3>2, DownInduction
      <3> QED
        BY <3>3
    <2>3. \A b \in 1 .. n : V(b) <= M + p[n + 1]
      <3> DEFINE S == {b \in 1 .. n : V(b) <= M + p[n + 1]}
      <3>1. n \in S
        BY <2>0, <1>7, <1>8, <1>10
      <3>2. ASSUME NEW b \in 1 .. n - 1, b + 1 \in S PROVE b \in S
        <4>1. b \in 1 .. n /\ b + 1 \in 1 .. n /\ n \in 1 .. n /\ b < n
          BY <2>0
        <4>2. V(b) \in Int /\ V(b + 1) \in Int /\ V(b + 1) <= M + p[n + 1]
          BY <1>14, <3>2, <4>1
        <4>3. CASE Keeps(b)
          BY <1>7, <1>8, <4>1, <4>3
        <4>4. CASE Follows(b)
          BY <1>1, <1>12, <4>1, <4>2, <4>4
        <4>5. CASE Bounded(b)
          <5>1. p[b + 1] <= p[n + 1] /\ p[b + 1] \in Int
            BY <1>13, <1>11, <4>1
          <5> QED
            BY <1>1, <1>12, <4>1, <4>2, <4>5, <5>1
        <4> QED
          BY <1>6, <4>1, <4>3, <4>4, <4>5
      <3>3. 1 .. n \subseteq S
        <4> HIDE DEF S
        <4> QED
          BY <2>0, <3>1, <3>2, DownInduction
      <3> QED
        BY <3>3
    <2>4. \A b \in 1 .. n : r[b].entry + p[b] <= M + p[n + 1]
      BY <2>3 DEF V
    <2>5. \A b, c \in 1 .. n : b < c => r[b].entry + p[b] <= M + r[c].entry + p[c]
      <3> SUFFICES ASSUME NEW b \in 1 .. n, NEW c \in 1 .. n, b < c
                   PROVE r[b].entry + p[b] <= M + r[c].entry + p[c]
        OBVIOUS
      <3>1. r[b].entry + p[b] <= M + (r[c].entry + p[c])
        BY <2>2 DEF V
      <3>2. r[c].entry \in Int /\ p[c] \in Int /\ r[b].entry \in Int /\ p[b] \in Int
        BY <1>5
      <3> QED
        BY <1>1, <3>1, <3>2
    <2>6. \A b \in 1 .. n : SameMove(r[b], w[b])
      BY ReversePassFields DEF n
    <2> QED
      BY <1>2, <1>3, <2>4, <2>5, <2>6, SameDistances DEF n, M
  <1> QED
    BY <1>15, <1>16

\* The reverse pass stops at a block in front of the newest, or at the first.
LEMMA Stops ==
    ASSUME NEW w, Len(w) \in Nat
    PROVE  /\ StopsAt(w) \in Nat /\ 1 <= StopsAt(w)
           /\ StopsAt(w) = 1 \/ StopsAt(w) < Len(w)
  <1> DEFINE n == Len(w)
             H == {b \in 2 .. n - 1 : w[b].full_halt}
             T == {n - b : b \in H}
  <1>1. CASE H = {}
    BY <1>1 DEF StopsAt
  <1>2. CASE H # {}
    <2>1. T \in SUBSET Nat /\ T # {}
      BY <1>2
    <2>2. PICK m \in T : \A k \in T : m <= k
      BY <2>1, LeastNumber
    <2>3. PICK b \in H : m = n - b
      BY <2>2
    <2>4. ASSUME NEW c \in H PROVE c <= b
      <3>1. n - c \in T /\ b \in Nat /\ c \in Nat
        BY <2>3
      <3>2. n - b <= n - c
        BY <2>2, <2>3, <3>1
      <3> QED
        BY <3>1, <3>2
    <2>5. StopsAt(w) = CHOOSE d \in H : \A c \in H : c <= d
      BY <1>2 DEF StopsAt
    <2>6. StopsAt(w) \in H
      <3> HIDE DEF H
      <3> QED
        BY <2>3, <2>4, <2>5
    <2> QED
      BY <2>6
  <1> QED
    BY <1>1, <1>2

-----------------------------------------------------------------------------
(* The steps.                                                              *)

LEMMA QueuedFrom ==
    ASSUME window \in Seq(PlannedBlocks), block_buffer_tail \in 1 .. Len(window) + 1
    PROVE  /\ Queued \in Seq(PlannedBlocks) /\ Len(Queued) = Len(window) + 1 - block_buffer_tail
           /\ (Queued = <<>> <=> block_buffer_tail = Len(window) + 1)
           /\ (block_buffer_tail = 1 => Queued = window)
  <1> HIDE DEF PlannedBlocks
  <1>1. Len(window) \in Nat /\ DOMAIN window = 1 .. Len(window)
    OBVIOUS
  <1>2. Queued \in Seq(PlannedBlocks) /\ Len(Queued) = Len(window) + 1 - block_buffer_tail
    BY <1>1 DEF Queued, QueueFrom
  <1>3. Queued = <<>> <=> Len(Queued) = 0
    BY <1>2
  <1>4. block_buffer_tail = 1 => Queued = window
    <2> SUFFICES ASSUME block_buffer_tail = 1 PROVE Queued = window
      OBVIOUS
    <2>1. \A b \in 1 .. Len(window) : Queued[b] = window[b]
      BY <1>1 DEF Queued, QueueFrom
    <2> QED
      BY <1>1, <1>2, <2>1
  <1> QED
    BY <1>1, <1>2, <1>3, <1>4

LEMMA LookaheadInitInv == LookaheadInit => LookaheadInv
  <1> SUFFICES ASSUME LookaheadInit PROVE LookaheadInv
    OBVIOUS
  <1>1. /\ window = <<>> /\ block_buffer_tail = 1 /\ busy = FALSE /\ planning = "no"
        /\ moves_queued = 0 /\ from = 0 /\ previous = AtRest
    BY DEF LookaheadInit
  <1>2. Len(window) = 0 /\ QueueSize \in Nat \ {0}
    BY <1>1, LookaheadAssumption
  <1>3. PlanningOK
    <2>1. /\ planning \in {"no", "line", "recalculate", "forward"} /\ busy \in BOOLEAN /\ ~busy
          /\ planning # "forward" /\ planning # "line"
      BY <1>1
    <2>2. block_buffer_tail \in 1 .. Len(window) + 1 /\ Len(window) <= QueueSize /\ moves_queued \in 0 .. QueueSize
      BY <1>1, <1>2
    <2>3. previous \in [nominal : Nat, safe : Nat]
      BY <1>1 DEF AtRest
    <2> QED
      BY <1>1, <2>1, <2>2, <2>3 DEF PlanningOK
  <1>4. window \in Seq(PlannedBlocks) /\ \A b \in 1 .. Len(window) : FALSE
    <2> HIDE DEF PlannedBlocks
    <2> QED
      BY <1>1
  <1>5. BlocksOK(window) /\ LastSafe(window)
    BY <1>1, <1>4 DEF BlocksOK, LastSafe
  <1>6. FlagsOK
    BY <1>2 DEF FlagsOK
  <1>7. Brakes(window)
    <2> DEFINE p == [b \in 1 .. 1 |-> 0]
    <2>1. p \in [1 .. Len(window) + 1 -> Int] /\ BrakesWith(window, p)
      BY <1>2 DEF BrakesWith
    <2> HIDE DEF p
    <2> QED
      BY <2>1 DEF Brakes
  <1> QED
    BY <1>3, <1>5, <1>6, <1>7 DEF LookaheadInv

LEMMA PlanLineStep ==
    ASSUME LookaheadInv, PlanLine PROVE LookaheadInv'
  <1>1. /\ planning = "no" /\ Len(Queued) < QueueSize
        /\ planning' = "line" /\ moves_queued' = Len(Queued)
        /\ window' = window /\ block_buffer_tail' = block_buffer_tail /\ busy' = busy
        /\ from' = from /\ previous' = previous
    BY DEF PlanLine
  <1>2. PlanningOK /\ FlagsOK /\ BlocksOK(window) /\ LastSafe(window) /\ Brakes(window)
    BY DEF LookaheadInv
  <1>3. block_buffer_tail = 1 /\ from = 0 /\ Len(window) \in Nat
    BY <1>1, <1>2, Window DEF PlanningOK, BlocksOK
  <1>4. Len(Queued) = Len(window)
    BY <1>2, <1>3, QueuedFrom DEF BlocksOK, PlanningOK
  <1>5. PlanningOK'
    BY <1>1, <1>2, <1>3, <1>4, LookaheadAssumption DEF PlanningOK
  <1>6. FlagsOK'
    BY <1>1, <1>2 DEF FlagsOK, Finished, TakenBlock
  <1>7. (BlocksOK(window) /\ LastSafe(window) /\ Brakes(window))'
    BY <1>1, <1>2
  <1> QED
    BY <1>5, <1>6, <1>7 DEF LookaheadInv

LEMMA ResetAbortedStep ==
    ASSUME LookaheadInv, ResetAborted PROVE LookaheadInv'
  <1>1. /\ window' = window /\ block_buffer_tail' = block_buffer_tail /\ busy' = busy
        /\ from' = from /\ previous' = previous /\ planning' = planning
        /\ moves_queued' = moves_queued
    BY DEF ResetAborted
  <1> QED
    BY <1>1 DEF LookaheadInv, PlanningOK, BlocksOK, LastSafe, Brakes, FlagsOK, Finished, TakenBlock

LEMMA StutterStep ==
    ASSUME LookaheadInv, UNCHANGED lookaheadVars PROVE LookaheadInv'
  <1>1. /\ window' = window /\ block_buffer_tail' = block_buffer_tail /\ busy' = busy
        /\ from' = from /\ previous' = previous /\ planning' = planning
        /\ moves_queued' = moves_queued
    BY DEF lookaheadVars
  <1> QED
    BY <1>1 DEF LookaheadInv, PlanningOK, BlocksOK, LastSafe, Brakes, FlagsOK, Finished, TakenBlock

LEMMA TakeBlockStep ==
    ASSUME LookaheadInv, TakeBlock PROVE LookaheadInv'
  <1>1. /\ window' = window /\ block_buffer_tail' = block_buffer_tail /\ ~busy /\ busy' = TRUE
        /\ from' = from /\ previous' = previous /\ planning' = planning
        /\ moves_queued' = moves_queued /\ Queued # <<>>
    BY DEF TakeBlock
  <1>2. PlanningOK /\ FlagsOK /\ BlocksOK(window) /\ LastSafe(window) /\ Brakes(window)
    BY DEF LookaheadInv
  <1>3. block_buffer_tail <= Len(window)
    <2>1. Len(window) \in Nat /\ block_buffer_tail \in 1 .. Len(window) + 1
      BY <1>2, Window DEF PlanningOK, BlocksOK
    <2>2. block_buffer_tail # Len(window) + 1
      BY <1>1, <1>2, <2>1, QueuedFrom DEF BlocksOK
    <2> QED
      BY <2>1, <2>2
  <1>4. PlanningOK'
    BY <1>1, <1>2, <1>3 DEF PlanningOK
  <1>5. \A b : TakenBlock(b) => TakenBlock(b)'
    BY <1>1 DEF TakenBlock
  <1>6. \A b : Finished(b)' <=> Finished(b)
    BY <1>1 DEF Finished
  <1>7. FlagsOK'
    BY <1>1, <1>2, <1>5, <1>6 DEF FlagsOK
  <1>8. (BlocksOK(window) /\ LastSafe(window) /\ Brakes(window))'
    BY <1>1, <1>2
  <1> QED
    BY <1>4, <1>7, <1>8 DEF LookaheadInv

\* The blocks that DiscardBlock leaves are those in front of which it was.
LEMMA DiscardBlockStep ==
    ASSUME LookaheadInv, DiscardBlock PROVE LookaheadInv'
  <1>1. /\ busy /\ busy' = FALSE
        /\ IF planning = "forward"
           THEN block_buffer_tail' = block_buffer_tail + 1 /\ window' = window
           ELSE window' = Tail(window) /\ block_buffer_tail' = block_buffer_tail
        /\ from' = from /\ previous' = previous /\ planning' = planning
        /\ moves_queued' = moves_queued
    BY DEF DiscardBlock
  <1>2. PlanningOK /\ FlagsOK /\ BlocksOK(window) /\ LastSafe(window) /\ Brakes(window)
    BY DEF LookaheadInv
  <1>3. /\ window \in Seq(PlannedBlocks) /\ Len(window) \in Nat
        /\ block_buffer_tail \in 1 .. Len(window)
    <2>1. window \in Seq(PlannedBlocks) /\ Len(window) \in Nat
      BY <1>2, Window DEF BlocksOK
    <2>2. block_buffer_tail \in 1 .. Len(window) + 1 /\ block_buffer_tail <= Len(window)
      BY <1>1, <1>2 DEF PlanningOK
    <2> QED
      BY <2>1, <2>2
  <1>4. CASE planning = "forward"
    <2>1. PlanningOK'
      <3>1. planning' \in {"no", "line", "recalculate", "forward"} /\ busy' \in BOOLEAN
        BY <1>1, <1>2 DEF PlanningOK
      <3>2. block_buffer_tail' \in 1 .. Len(window') + 1 /\ (busy' => block_buffer_tail' <= Len(window'))
        BY <1>1, <1>3, <1>4 DEF PlanningOK
      <3>3. IF planning' = "forward" THEN from' \in 1 .. Len(window')
            ELSE block_buffer_tail' = 1 /\ from' = 0
        BY <1>1, <1>2, <1>4 DEF PlanningOK
      <3>4. Len(window') <= QueueSize /\ (planning' = "line" => Len(window') < QueueSize)
        BY <1>1, <1>2, <1>4 DEF PlanningOK
      <3>5. moves_queued' \in 0 .. QueueSize /\ previous' \in [nominal : Nat, safe : Nat]
        BY <1>1, <1>2 DEF PlanningOK
      <3> QED
        BY <3>1, <3>2, <3>3, <3>4, <3>5 DEF PlanningOK
    <2>2. \A b \in 1 .. Len(window) : (TakenBlock(b)' <=> TakenBlock(b)) /\ (Finished(b)' <=> Finished(b))
      BY <1>1, <1>3, <1>4 DEF TakenBlock, Finished
    <2>3. FlagsOK'
      <3>1. \A b \in 1 .. Len(window) - 1 : b \in 1 .. Len(window)
        BY <1>3
      <3> QED
        BY <1>1, <1>2, <1>4, <2>2, <3>1 DEF FlagsOK
    <2> QED
      BY <1>1, <1>2, <1>4, <2>1, <2>3 DEF LookaheadInv
  <1>5. CASE planning # "forward"
    <2> DEFINE v == Tail(window)
    <2>1. block_buffer_tail = 1 /\ from = 0 /\ window # <<>>
      BY <1>2, <1>3, <1>5, Window DEF PlanningOK
    <2>2. /\ v \in Seq(PlannedBlocks) /\ Len(v) = Len(window) - 1
          /\ \A b \in 1 .. Len(v) : v[b] = window[b + 1]
      <3> HIDE DEF PlannedBlocks
      <3> QED
        BY <1>3, <2>1
    <2>3. window' = v
      BY <1>1, <1>5
    <2> HIDE DEF v
    <2>4. 1 \in Nat /\ 1 <= Len(window)
      BY <1>3
    <2>5. BlocksOK(v) /\ LastSafe(v) /\ Brakes(v)
      BY <1>2, <2>2, <2>4, Shifted
    <2>6. PlanningOK'
      <3>0. Len(v) \in Nat /\ Len(v) < Len(window) /\ Len(window) <= QueueSize /\ QueueSize \in Nat
        BY <1>2, <1>3, <2>2, <2>4, LookaheadAssumption DEF PlanningOK
      <3>1. planning' \in {"no", "line", "recalculate", "forward"} /\ busy' \in BOOLEAN
        BY <1>1, <1>2 DEF PlanningOK
      <3>2. block_buffer_tail' \in 1 .. Len(window') + 1 /\ (busy' => block_buffer_tail' <= Len(window'))
        BY <1>1, <1>5, <2>1, <2>3, <3>0 DEF PlanningOK
      <3>3. IF planning' = "forward" THEN from' \in 1 .. Len(window')
            ELSE block_buffer_tail' = 1 /\ from' = 0
        BY <1>1, <1>5, <2>1 DEF PlanningOK
      <3>4. Len(window') <= QueueSize /\ (planning' = "line" => Len(window') < QueueSize)
        BY <1>3, <2>3, <3>0 DEF PlanningOK
      <3>5. moves_queued' \in 0 .. QueueSize /\ previous' \in [nominal : Nat, safe : Nat]
        BY <1>1, <1>2 DEF PlanningOK
      <3> QED
        BY <3>1, <3>2, <3>3, <3>4, <3>5 DEF PlanningOK
    <2>7. \A b \in 1 .. Len(v) : ~TakenBlock(b + 1) /\ (Finished(b)' => Finished(b + 1))
      <3> SUFFICES ASSUME NEW b \in 1 .. Len(v)
                   PROVE ~TakenBlock(b + 1) /\ (Finished(b)' => Finished(b + 1))
        OBVIOUS
      <3>1. b + 1 > 1
        OBVIOUS
      <3>2. Finished(b)' <=> planning \in {"no", "line"} \/ (planning = "recalculate" /\ b < Len(v))
        BY <1>1, <1>5, <2>3 DEF Finished
      <3>3. b < Len(v) => b + 1 < Len(window)
        BY <1>3, <2>2
      <3> QED
        BY <2>1, <3>1, <3>2, <3>3 DEF Finished, TakenBlock
    <2>8. FlagsOK'
      <3>1. \A b \in 1 .. Len(v) : b + 1 \in 1 .. Len(window)
        BY <1>3, <2>2
      <3>2. \A b \in 1 .. Len(v) - 1 : b + 1 \in 1 .. Len(window) - 1 /\ b \in 1 .. Len(v)
                                       /\ b + 1 \in 1 .. Len(v)
        BY <1>3, <2>2
      <3>3. \A b \in 1 .. Len(v) : Finished(b)' => ~v[b].recalculate
        BY <1>2, <2>2, <2>7, <3>1 DEF FlagsOK
      <3>4. \A b \in 1 .. Len(v) : ~v[b].recalculate => v[b].initial = v[b].entry
        BY <1>2, <2>2, <2>7, <3>1 DEF FlagsOK
      <3>5. \A b \in 1 .. Len(v) - 1 :
               ~v[b].recalculate /\ ~v[b + 1].recalculate
               => v[b].final = Least(v[b + 1].entry, v[b].nominal)
        <4> SUFFICES ASSUME NEW b \in 1 .. Len(v) - 1, ~v[b].recalculate, ~v[b + 1].recalculate
                     PROVE  v[b].final = Least(v[b + 1].entry, v[b].nominal)
          OBVIOUS
        <4>1. v[b] = window[b + 1] /\ v[b + 1] = window[(b + 1) + 1]
          BY <2>2, <3>2
        <4>2. ~TakenBlock(b + 1) /\ b + 1 \in 1 .. Len(window) - 1
          BY <2>7, <3>2
        <4> QED
          BY <1>2, <4>1, <4>2 DEF FlagsOK
      <3>6. planning' # "forward"
        BY <1>1, <1>5
      <3> QED
        BY <2>3, <3>3, <3>4, <3>5, <3>6 DEF FlagsOK
    <2> QED
      BY <2>3, <2>5, <2>6, <2>8 DEF LookaheadInv
  <1> QED
    BY <1>4, <1>5

LEMMA AbortHardStep ==
    ASSUME LookaheadInv, AbortHard PROVE LookaheadInv'
  <1>1. /\ busy' = FALSE /\ previous' = AtRest
        /\ IF planning = "forward"
           THEN block_buffer_tail' = Len(window) + 1 /\ window' = window
           ELSE window' = <<>> /\ block_buffer_tail' = block_buffer_tail
        /\ from' = from /\ planning' = planning /\ moves_queued' = moves_queued
    BY DEF AbortHard
  <1>2. PlanningOK /\ FlagsOK /\ BlocksOK(window) /\ LastSafe(window) /\ Brakes(window)
    BY DEF LookaheadInv
  <1>3. /\ window \in Seq(PlannedBlocks) /\ Len(window) \in Nat
        /\ previous' \in [nominal : Nat, safe : Nat]
    BY <1>1, <1>2, Window DEF BlocksOK, AtRest
  <1>4. CASE planning = "forward"
    <2>1. PlanningOK'
      <3>1. planning' \in {"no", "line", "recalculate", "forward"} /\ busy' \in BOOLEAN
        BY <1>1, <1>2 DEF PlanningOK
      <3>2. block_buffer_tail' \in 1 .. Len(window') + 1 /\ (busy' => block_buffer_tail' <= Len(window'))
        BY <1>1, <1>3, <1>4 DEF PlanningOK
      <3>3. IF planning' = "forward" THEN from' \in 1 .. Len(window')
            ELSE block_buffer_tail' = 1 /\ from' = 0
        BY <1>1, <1>2, <1>4 DEF PlanningOK
      <3>4. Len(window') <= QueueSize /\ (planning' = "line" => Len(window') < QueueSize)
        BY <1>1, <1>2, <1>4 DEF PlanningOK
      <3>5. moves_queued' \in 0 .. QueueSize /\ previous' \in [nominal : Nat, safe : Nat]
        BY <1>1, <1>2, <1>3 DEF PlanningOK
      <3> QED
        BY <3>1, <3>2, <3>3, <3>4, <3>5 DEF PlanningOK
    <2>2. \A b \in 1 .. Len(window) : TakenBlock(b)' /\ (Finished(b)' <=> Finished(b))
      BY <1>1, <1>3, <1>4 DEF TakenBlock, Finished
    <2>3. FlagsOK'
      <3>1. \A b \in 1 .. Len(window) - 1 : b \in 1 .. Len(window)
        BY <1>3
      <3> QED
        BY <1>1, <1>2, <1>4, <2>2, <3>1 DEF FlagsOK
    <2> QED
      BY <1>1, <1>2, <1>4, <2>1, <2>3 DEF LookaheadInv
  <1>5. CASE planning # "forward"
    <2>1. block_buffer_tail = 1 /\ from = 0 /\ window' = <<>> /\ Len(window') = 0
      BY <1>1, <1>2, <1>5 DEF PlanningOK
    <2>2. PlanningOK'
      <3>0. QueueSize \in Nat \ {0}
        BY LookaheadAssumption
      <3>1. planning' \in {"no", "line", "recalculate", "forward"} /\ busy' \in BOOLEAN
        BY <1>1, <1>2 DEF PlanningOK
      <3>2. block_buffer_tail' \in 1 .. Len(window') + 1 /\ (busy' => block_buffer_tail' <= Len(window'))
        BY <1>1, <1>5, <2>1 DEF PlanningOK
      <3>3. IF planning' = "forward" THEN from' \in 1 .. Len(window')
            ELSE block_buffer_tail' = 1 /\ from' = 0
        BY <1>1, <1>5, <2>1 DEF PlanningOK
      <3>4. Len(window') <= QueueSize /\ (planning' = "line" => Len(window') < QueueSize)
        BY <2>1, <3>0 DEF PlanningOK
      <3>5. moves_queued' \in 0 .. QueueSize /\ previous' \in [nominal : Nat, safe : Nat]
        BY <1>1, <1>2, <1>3 DEF PlanningOK
      <3> QED
        BY <3>1, <3>2, <3>3, <3>4, <3>5 DEF PlanningOK
    <2>3. window' \in Seq(PlannedBlocks) /\ \A b \in 1 .. Len(window') : FALSE
      <3> HIDE DEF PlannedBlocks
      <3> QED
        BY <2>1
    <2>4. BlocksOK(window)' /\ LastSafe(window)'
      BY <2>1, <2>3 DEF BlocksOK, LastSafe
    <2>5. FlagsOK'
      BY <2>1 DEF FlagsOK
    <2>6. Brakes(window')
      <3> DEFINE p == [b \in 1 .. 1 |-> 0]
      <3>1. p \in [1 .. Len(window') + 1 -> Int] /\ BrakesWith(window', p)
        BY <2>1 DEF BrakesWith
      <3> HIDE DEF p
      <3> QED
        BY <3>1 DEF Brakes
    <2> QED
      BY <2>2, <2>4, <2>5, <2>6 DEF LookaheadInv
  <1> QED
    BY <1>4, <1>5

\* The block of a new move ends at its safe speed and can brake to it.
LEMMA NewBlockFields ==
    ASSUME NEW move \in Moves, NEW vmax \in Nat, vmax <= move.nominal, NEW halt \in BOOLEAN,
           NEW x, x = NewBlock(move, vmax, halt)
    PROVE  /\ x \in PlannedBlocks /\ x.entry <= x.max_entry /\ x.max_entry <= x.nominal
           /\ x.safe <= x.nominal /\ x.safe <= SafeMax /\ x.recalculate = TRUE
           /\ (x.nominal_length => x.nominal <= x.safe + x.gain)
           /\ x.final = x.safe /\ x.initial <= x.safe + x.gain /\ x.entry <= x.safe + x.gain
  <1>1. /\ move.nominal \in Nat /\ move.safe \in Nat /\ move.gain \in Nat
        /\ move.safe <= move.nominal /\ move.safe <= SafeMax
    BY LookaheadAssumption
  <1>2. PICK entry \in Nat : entry = EntrySpeed(move, vmax)
    BY <1>1 DEF EntrySpeed, Least, Allowable
  <1>3. entry <= vmax /\ entry <= move.safe + move.gain
    BY <1>1, <1>2 DEF EntrySpeed, Least, Allowable
  <1>4. PICK long \in BOOLEAN : long = (move.nominal <= Allowable(move.gain, move.safe))
    <2>1. CASE move.nominal <= Allowable(move.gain, move.safe)
      <3>1. TRUE = (move.nominal <= Allowable(move.gain, move.safe))
        BY <2>1
      <3> QED
        BY <3>1
    <2>2. CASE ~(move.nominal <= Allowable(move.gain, move.safe))
      <3>1. FALSE = (move.nominal <= Allowable(move.gain, move.safe))
        BY <2>2
      <3> QED
        BY <3>1
    <2> QED
      BY <2>1, <2>2
  <1>5. long => move.nominal <= move.safe + move.gain
    BY <1>1, <1>4 DEF Allowable
  <1> DEFINE y == [nominal |-> move.nominal, safe |-> move.safe, gain |-> move.gain,
                   max_entry |-> vmax, entry |-> entry, full_halt |-> halt,
                   nominal_length |-> long, recalculate |-> TRUE, initial |-> 0, final |-> 0]
  <1>6. x = Trapezoid(y, move.safe, FALSE)
    BY <1>2, <1>4 DEF NewBlock
  <1>7. Least(entry, move.nominal) = entry /\ Least(move.safe, move.nominal) = move.safe
    BY <1>1, <1>3 DEF Least
  <1>8. x = [y EXCEPT !.initial = entry, !.final = move.safe]
    BY <1>6, <1>7 DEF Trapezoid
  <1>9. x = [nominal |-> move.nominal, safe |-> move.safe, gain |-> move.gain,
             max_entry |-> vmax, entry |-> entry, full_halt |-> halt,
             nominal_length |-> long, recalculate |-> TRUE, initial |-> entry, final |-> move.safe]
    BY <1>8
  <1> HIDE DEF y
  <1>10. x \in PlannedBlocks
    BY <1>1, <1>9 DEF PlannedBlocks
  <1>11. /\ x.nominal = move.nominal /\ x.safe = move.safe /\ x.gain = move.gain
         /\ x.max_entry = vmax /\ x.entry = entry /\ x.nominal_length = long
         /\ x.recalculate = TRUE /\ x.initial = entry /\ x.final = move.safe
    BY <1>9
  <1> QED
    BY <1>1, <1>3, <1>5, <1>10, <1>11

\* A block that can brake to a speed it may end at is added behind the others.
LEMMA BlockAppended ==
    ASSUME NEW w, BlocksOK(w), Brakes(w), NEW x \in PlannedBlocks,
           x.entry <= x.max_entry, x.max_entry <= x.nominal,
           x.safe <= x.nominal, x.safe <= SafeMax,
           x.nominal_length => x.nominal <= x.safe + x.gain,
           x.final = x.safe, x.initial <= x.safe + x.gain, x.entry <= x.safe + x.gain
    PROVE  /\ BlocksOK(Append(w, x)) /\ LastSafe(Append(w, x)) /\ Brakes(Append(w, x))
           /\ Len(Append(w, x)) = Len(w) + 1 /\ Append(w, x)[Len(w) + 1] = x
           /\ \A b \in 1 .. Len(w) : Append(w, x)[b] = w[b]
  <1> DEFINE n == Len(w)
             v == Append(w, x)
  <1>1. /\ w \in Seq(PlannedBlocks) /\ n \in Nat
        /\ \A b \in 1 .. n : w[b] \in PlannedBlocks /\ w[b].entry \in Nat /\ w[b].gain \in Nat
    BY Window DEF BlocksOK
  <1>2. /\ v \in Seq(PlannedBlocks) /\ Len(v) = n + 1 /\ v[n + 1] = x /\ v # <<>>
        /\ \A b \in 1 .. n : v[b] = w[b]
    <2> HIDE DEF PlannedBlocks
    <2> QED
      BY <1>1
  <1> HIDE DEF v, n
  <1>3. \A b \in 1 .. n + 1 : b = n + 1 \/ b \in 1 .. n
    BY <1>1
  <1>4. \A b \in 1 .. n + 1 :
          /\ v[b].entry <= v[b].max_entry /\ v[b].max_entry <= v[b].nominal
          /\ v[b].safe <= v[b].nominal /\ v[b].safe <= SafeMax
          /\ (v[b].nominal_length => v[b].nominal <= v[b].safe + v[b].gain)
    <2> SUFFICES ASSUME NEW b \in 1 .. n + 1
                 PROVE /\ v[b].entry <= v[b].max_entry /\ v[b].max_entry <= v[b].nominal
                       /\ v[b].safe <= v[b].nominal /\ v[b].safe <= SafeMax
                       /\ (v[b].nominal_length => v[b].nominal <= v[b].safe + v[b].gain)
      OBVIOUS
    <2>1. CASE b = n + 1
      BY <1>2, <2>1
    <2>2. CASE b \in 1 .. n
      <3>1. v[b] = w[b]
        BY <1>2, <2>2
      <3> QED
        BY <2>2, <3>1 DEF BlocksOK, n
    <2> QED
      BY <1>3, <2>1, <2>2
  <1>5. BlocksOK(v)
    BY <1>2, <1>4 DEF BlocksOK
  <1>6. LastSafe(v)
    BY <1>2 DEF LastSafe
  <1>7. Brakes(v)
    <2>1. PICK p \in [1 .. n + 1 -> Int] : BrakesWith(w, p)
      BY DEF Brakes, n
    <2>2. /\ \A b \in 1 .. n : p[b + 1] = p[b] + w[b].gain
          /\ \A b, c \in 1 .. n + 1 : b < c => p[b] <= p[c]
          /\ \A b \in 1 .. n : w[b].entry + p[b] <= SafeMax + p[n + 1]
          /\ \A b, c \in 1 .. n : b < c => w[b].entry + p[b] <= SafeMax + w[c].entry + p[c]
      BY <2>1 DEF BrakesWith, n
    <2>3. x.gain \in Nat /\ x.entry \in Nat /\ x.safe \in Nat /\ SafeMax \in Nat /\ p[n + 1] \in Int
      <3>1. p[n + 1] \in Int
        BY <1>1
      <3> QED
        BY <3>1, BlockFields, LookaheadAssumption
    <2> DEFINE q == [b \in 1 .. n + 2 |-> IF b = n + 2 THEN p[n + 1] + x.gain ELSE p[b]]
    <2>4. q \in [1 .. n + 2 -> Int] /\ q[n + 2] = p[n + 1] + x.gain
          /\ \A b \in 1 .. n + 1 : q[b] = p[b] /\ q[b] \in Int
      BY <1>1, <2>3
    <2> HIDE DEF q
    <2>5. \A b \in 1 .. n + 2 : b = n + 2 \/ b \in 1 .. n + 1
      BY <1>1
    <2>6. n + 1 \in 1 .. n + 1 /\ (n + 1) + 1 = n + 2
      BY <1>1
    <2>7. \A b \in 1 .. n + 1 : q[b + 1] = q[b] + v[b].gain
      <3> SUFFICES ASSUME NEW b \in 1 .. n + 1 PROVE q[b + 1] = q[b] + v[b].gain
        OBVIOUS
      <3>1. CASE b = n + 1
        BY <1>2, <2>4, <2>6, <3>1
      <3>2. CASE b \in 1 .. n
        <4>1. b + 1 \in 1 .. n + 1
          BY <1>1, <3>2
        <4> QED
          BY <1>2, <2>2, <2>4, <3>2, <4>1
      <3> QED
        BY <1>3, <3>1, <3>2
    <2>8. \A b \in 1 .. n + 1 : p[b] <= p[n + 1]
      <3> SUFFICES ASSUME NEW b \in 1 .. n + 1 PROVE p[b] <= p[n + 1]
        OBVIOUS
      <3>1. b = n + 1 \/ b < n + 1
        BY <1>1
      <3>2. p[b] \in Int
        BY <1>1
      <3> QED
        BY <2>2, <2>6, <3>1, <3>2
    <2>9. \A b, c \in 1 .. n + 2 : b < c => q[b] <= q[c]
      <3> SUFFICES ASSUME NEW b \in 1 .. n + 2, NEW c \in 1 .. n + 2, b < c PROVE q[b] <= q[c]
        OBVIOUS
      <3>1. b \in 1 .. n + 1 /\ q[b] = p[b] /\ p[b] \in Int
        BY <1>1, <2>4
      <3>2. CASE c = n + 2
        <4>1. p[b] <= p[n + 1]
          BY <2>8, <3>1
        <4> QED
          BY <2>3, <2>4, <3>1, <3>2, <4>1
      <3>3. CASE c \in 1 .. n + 1
        BY <2>2, <2>4, <3>1, <3>3
      <3> QED
        BY <2>5, <3>2, <3>3
    <2>10. \A b \in 1 .. n + 1 : v[b].entry + q[b] <= SafeMax + q[n + 2]
      <3> SUFFICES ASSUME NEW b \in 1 .. n + 1 PROVE v[b].entry + q[b] <= SafeMax + q[n + 2]
        OBVIOUS
      <3>1. CASE b = n + 1
        <4>1. v[b].entry = x.entry /\ q[b] = p[n + 1]
          BY <1>2, <2>4, <2>6, <3>1
        <4> QED
          BY <2>3, <2>4, <4>1
      <3>2. CASE b \in 1 .. n
        <4>1. v[b].entry = w[b].entry /\ q[b] = p[b] /\ w[b].entry \in Nat /\ p[b] \in Int
          BY <1>1, <1>2, <2>4, <3>2
        <4>2. w[b].entry + p[b] <= SafeMax + p[n + 1]
          BY <2>2, <3>2
        <4> QED
          BY <2>3, <2>4, <4>1, <4>2
      <3> QED
        BY <1>3, <3>1, <3>2
    <2>11. \A b, c \in 1 .. n + 1 : b < c => v[b].entry + q[b] <= SafeMax + v[c].entry + q[c]
      <3> SUFFICES ASSUME NEW b \in 1 .. n + 1, NEW c \in 1 .. n + 1, b < c
                   PROVE v[b].entry + q[b] <= SafeMax + v[c].entry + q[c]
        OBVIOUS
      <3>1. b \in 1 .. n
        BY <1>1
      <3>2. v[b].entry = w[b].entry /\ q[b] = p[b] /\ w[b].entry \in Nat /\ p[b] \in Int
        BY <1>1, <1>2, <2>4, <3>1
      <3>3. CASE c = n + 1
        <4>1. v[c].entry = x.entry /\ q[c] = p[n + 1]
          BY <1>2, <2>4, <2>6, <3>3
        <4>2. w[b].entry + p[b] <= SafeMax + p[n + 1]
          BY <2>2, <3>1
        <4> QED
          BY <2>3, <3>2, <4>1, <4>2
      <3>4. CASE c \in 1 .. n
        BY <1>2, <2>2, <2>4, <3>1, <3>2, <3>4
      <3> QED
        BY <1>3, <3>3, <3>4
    <2>12. BrakesWith(v, q)
      BY <1>2, <2>6, <2>7, <2>9, <2>10, <2>11 DEF BrakesWith
    <2> QED
      BY <1>2, <2>4, <2>6, <2>12 DEF Brakes
  <1> QED
    BY <1>2, <1>5, <1>6, <1>7 DEF v, n

LEMMA PublishStep ==
    ASSUME LookaheadInv, Publish PROVE LookaheadInv'
  <1>1. PICK move \in Moves, v \in JunctionSpeeds \union {0} :
          /\ IF Coasts(move, v) THEN TRUE ELSE v = 0
          /\ previous' = [nominal |-> move.nominal, safe |-> move.safe]
          /\ IF planner_aborted
             THEN planning' = "no" /\ UNCHANGED window
             ELSE /\ planning' = "recalculate"
                  /\ window' = Append(window, NewBlock(move, IF v = 0 THEN move.safe ELSE v, v = 0))
    BY DEF Publish
  <1>2. /\ planning = "line" /\ moves_queued' = 0
        /\ block_buffer_tail' = block_buffer_tail /\ busy' = busy /\ from' = from
    BY DEF Publish
  <1>3. PlanningOK /\ FlagsOK /\ BlocksOK(window) /\ LastSafe(window) /\ Brakes(window)
    BY DEF LookaheadInv
  <1>4. /\ move.nominal \in Nat /\ move.safe \in Nat /\ move.safe <= move.nominal
        /\ QueueSize \in Nat /\ v \in Nat
    BY LookaheadAssumption
  <1>5. /\ window \in Seq(PlannedBlocks) /\ Len(window) \in Nat /\ Len(window) < QueueSize
        /\ block_buffer_tail = 1 /\ from = 0
    BY <1>2, <1>3, Window DEF PlanningOK, BlocksOK
  <1>6. moves_queued' \in 0 .. QueueSize /\ previous' \in [nominal : Nat, safe : Nat]
    BY <1>1, <1>2, <1>4
  <1>7. CASE planner_aborted
    <2>1. planning' = "no" /\ window' = window
      BY <1>1, <1>7
    <2>2. PlanningOK'
      <3>1. planning' \in {"no", "line", "recalculate", "forward"} /\ busy' \in BOOLEAN
        BY <1>2, <1>3, <2>1 DEF PlanningOK
      <3>2. /\ block_buffer_tail' \in 1 .. Len(window') + 1
            /\ (busy' => block_buffer_tail' <= Len(window'))
        BY <1>2, <1>3, <2>1 DEF PlanningOK
      <3>3. planning' # "forward" /\ block_buffer_tail' = 1 /\ from' = 0
        BY <1>2, <1>5, <2>1
      <3>4. Len(window') <= QueueSize /\ planning' # "line"
        BY <1>4, <1>5, <2>1
      <3> QED
        BY <1>6, <3>1, <3>2, <3>3, <3>4 DEF PlanningOK
    <2>3. FlagsOK'
      BY <1>2, <1>3, <2>1 DEF FlagsOK, Finished, TakenBlock
    <2> QED
      BY <1>3, <2>1, <2>2, <2>3 DEF LookaheadInv
  <1>8. CASE ~planner_aborted
    <2> DEFINE vmax == IF v = 0 THEN move.safe ELSE v
    <2>1. vmax \in Nat /\ vmax <= move.nominal
      <3>1. CASE v = 0
        BY <1>4, <3>1
      <3>2. CASE v # 0
        <4>1. v <= Least(previous.nominal, move.nominal)
          BY <1>1, <3>2 DEF Coasts
        <4>2. previous.nominal \in Nat
          <5>1. \A r \in [nominal : Nat, safe : Nat] : r.nominal \in Nat
            OBVIOUS
          <5> QED
            BY <1>3, <5>1 DEF PlanningOK
        <4>3. Least(previous.nominal, move.nominal) <= move.nominal
          BY <1>4, <4>2 DEF Least
        <4>4. Least(previous.nominal, move.nominal) \in Nat
          BY <1>4, <4>2 DEF Least
        <4>5. v <= move.nominal
          BY <1>4, <4>1, <4>3, <4>4
        <4> QED
          BY <1>4, <3>2, <4>5
      <3> QED
        BY <3>1, <3>2
    <2>2. PICK halt \in BOOLEAN : halt = (v = 0)
      OBVIOUS
    <2>3. PICK x : x = NewBlock(move, vmax, halt)
      OBVIOUS
    <2>4. planning' = "recalculate" /\ window' = Append(window, x)
      BY <1>1, <1>8, <2>2, <2>3
    <2> HIDE DEF vmax
    <2>5. /\ x \in PlannedBlocks /\ x.entry <= x.max_entry /\ x.max_entry <= x.nominal
          /\ x.safe <= x.nominal /\ x.safe <= SafeMax /\ x.recalculate = TRUE
          /\ (x.nominal_length => x.nominal <= x.safe + x.gain)
          /\ x.final = x.safe /\ x.initial <= x.safe + x.gain /\ x.entry <= x.safe + x.gain
      BY <2>1, <2>3, NewBlockFields
    <2>6. /\ BlocksOK(Append(window, x)) /\ LastSafe(Append(window, x)) /\ Brakes(Append(window, x))
          /\ Len(Append(window, x)) = Len(window) + 1 /\ Append(window, x)[Len(window) + 1] = x
          /\ \A b \in 1 .. Len(window) : Append(window, x)[b] = window[b]
      BY <1>3, <2>5, BlockAppended
    <2>7. (BlocksOK(window) /\ LastSafe(window) /\ Brakes(window))'
      BY <2>4, <2>6
    <2>8. /\ Len(window') = Len(window) + 1 /\ window'[Len(window) + 1] = x
          /\ \A b \in 1 .. Len(window) : window'[b] = window[b]
      BY <2>4, <2>6
    <2>9. PlanningOK'
      <3>1. planning' \in {"no", "line", "recalculate", "forward"} /\ busy' \in BOOLEAN
        BY <1>2, <1>3, <2>4 DEF PlanningOK
      <3>2. /\ block_buffer_tail' \in 1 .. Len(window') + 1
            /\ (busy' => block_buffer_tail' <= Len(window'))
        BY <1>2, <1>5, <2>8
      <3>3. planning' # "forward" /\ block_buffer_tail' = 1 /\ from' = 0
        BY <1>2, <1>5, <2>4
      <3>4. Len(window') <= QueueSize /\ planning' # "line"
        BY <1>4, <1>5, <2>4, <2>8
      <3> QED
        BY <1>6, <3>1, <3>2, <3>3, <3>4 DEF PlanningOK
    <2>10. FlagsOK'
      <3>1. \A b \in 1 .. Len(window') : b = Len(window) + 1 \/ b \in 1 .. Len(window)
        BY <1>5, <2>8
      <3>2. \A b : TakenBlock(b)' <=> TakenBlock(b)
        BY <1>2 DEF TakenBlock
      <3>3. \A b \in 1 .. Len(window') : Finished(b)' => b \in 1 .. Len(window)
        BY <1>5, <2>4, <2>8 DEF Finished
      <3>4. \A b \in 1 .. Len(window) : Finished(b)
        BY <1>2 DEF Finished
      <3>5. (\A b \in 1 .. Len(window) : Finished(b) => ~window[b].recalculate)'
        BY <1>3, <2>8, <3>3, <3>4 DEF FlagsOK
      <3>6. ASSUME NEW b \in 1 .. Len(window'), ~TakenBlock(b)', ~window'[b].recalculate
            PROVE  window'[b].initial = window'[b].entry
        <4>1. b \in 1 .. Len(window)
          BY <2>5, <2>8, <3>1, <3>6
        <4> QED
          BY <1>3, <2>8, <3>2, <3>6, <4>1 DEF FlagsOK
      <3>7. ASSUME NEW b \in 1 .. Len(window') - 1, ~TakenBlock(b)', ~window'[b].recalculate,
                   ~window'[b + 1].recalculate
            PROVE  window'[b].final = Least(window'[b + 1].entry, window'[b].nominal)
        <4>1. b + 1 # Len(window) + 1 /\ b \in 1 .. Len(window)
          BY <1>5, <2>5, <2>8, <3>7
        <4>2. b \in 1 .. Len(window) - 1 /\ b + 1 \in 1 .. Len(window)
          BY <1>5, <4>1
        <4>3. window'[b] = window[b] /\ window'[b + 1] = window[b + 1]
          BY <2>8, <4>2
        <4> QED
          BY <1>3, <3>2, <3>7, <4>2, <4>3 DEF FlagsOK
      <3>8. planning' # "forward"
        BY <2>4
      <3> QED
        BY <3>5, <3>6, <3>7, <3>8 DEF FlagsOK
    <2> QED
      BY <2>7, <2>9, <2>10 DEF LookaheadInv
  <1> QED
    BY <1>7, <1>8

LEMMA StartRecalculateStep ==
    ASSUME LookaheadInv, StartRecalculate PROVE LookaheadInv'
  <1>1. PlanningOK /\ FlagsOK /\ BlocksOK(window) /\ LastSafe(window) /\ Brakes(window)
    BY DEF LookaheadInv
  <1>2. /\ planning = "recalculate" /\ block_buffer_tail' = 1
        /\ busy' = busy /\ moves_queued' = moves_queued /\ previous' = previous
    BY DEF StartRecalculate
  <1>3. /\ window \in Seq(PlannedBlocks) /\ Len(window) \in Nat /\ block_buffer_tail = 1 /\ from = 0
        /\ (window = <<>> <=> Len(window) = 0)
    BY <1>1, <1>2, Window DEF PlanningOK, BlocksOK
  <1>4. Queued = window
    BY <1>1, <1>3, QueuedFrom DEF PlanningOK
  <1>5. PICK stop : stop = StopsAt(window)
    OBVIOUS
  <1>6. stop \in Nat /\ 1 <= stop /\ (stop = 1 \/ stop < Len(window))
    BY <1>3, <1>5, Stops
  <1>7. PICK r : r = ReversePass(window, stop)
    OBVIOUS
  <1>8. /\ window' = r
        /\ IF window # <<>> THEN planning' = "forward" /\ from' = stop
                            ELSE planning' = "no" /\ from' = 0
    BY <1>4, <1>5, <1>7 DEF StartRecalculate
  <1>9. /\ r \in Seq(PlannedBlocks) /\ Len(r) = Len(window)
        /\ \A b \in 1 .. Len(window) :
             /\ SameMove(r[b], window[b]) /\ r[b].initial = window[b].initial
             /\ r[b].final = window[b].final /\ r[b].entry <= r[b].max_entry
             /\ (~r[b].recalculate => r[b] = window[b])
             /\ (b <= stop \/ b = Len(window) => r[b] = window[b])
    BY <1>1, <1>3, <1>6, <1>7, ReversePassFields
  <1>10. BlocksOK(r)
    BY <1>1, <1>9, SameBlocksOK
  <1>11. Brakes(r)
    BY <1>1, <1>3, <1>6, <1>7, ReversePassBrakes
  <1>12. LastSafe(r)
    <2> SUFFICES ASSUME r # <<>> PROVE LastSafe(r)
      BY DEF LastSafe
    <2>1. Len(r) # 0
      BY <1>9, Window
    <2>2. window # <<>> /\ Len(window) \in 1 .. Len(window) /\ r[Len(r)] = window[Len(window)]
      BY <1>3, <1>9, <2>1
    <2> QED
      BY <1>1, <1>9, <2>2 DEF LastSafe
  <1>13. PlanningOK'
    <2>1. planning' \in {"no", "line", "recalculate", "forward"} /\ planning' # "line"
          /\ busy' \in BOOLEAN
      BY <1>1, <1>2, <1>8 DEF PlanningOK
    <2>2. /\ block_buffer_tail' \in 1 .. Len(window') + 1
          /\ (busy' => block_buffer_tail' <= Len(window'))
      <3>1. busy => block_buffer_tail <= Len(window)
        BY <1>1 DEF PlanningOK
      <3>2. Len(window') = Len(window) /\ block_buffer_tail' = block_buffer_tail
        BY <1>2, <1>3, <1>8, <1>9
      <3> QED
        BY <1>2, <1>3, <3>1, <3>2
    <2>3. IF planning' = "forward" THEN from' \in 1 .. Len(window')
          ELSE block_buffer_tail' = 1 /\ from' = 0
      <3>1. CASE window = <<>>
        BY <1>2, <1>8, <3>1
      <3>2. CASE window # <<>>
        <4>1. Len(window') = Len(window) /\ Len(window) # 0
          BY <1>3, <1>8, <1>9, <3>2
        <4>2. from' = stop /\ planning' = "forward"
          BY <1>8, <3>2
        <4> QED
          BY <1>3, <1>6, <4>1, <4>2
      <3> QED
        BY <3>1, <3>2
    <2>4. Len(window') <= QueueSize
      BY <1>1, <1>8, <1>9 DEF PlanningOK
    <2>5. moves_queued' \in 0 .. QueueSize /\ previous' \in [nominal : Nat, safe : Nat]
      BY <1>1, <1>2 DEF PlanningOK
    <2> QED
      BY <2>1, <2>2, <2>3, <2>4, <2>5 DEF PlanningOK
  <1>14. FlagsOK'
    <2>1. \A b \in 1 .. Len(window) : b < Len(window) => ~window[b].recalculate
      BY <1>1, <1>2 DEF FlagsOK, Finished
    <2>2. \A b : TakenBlock(b)' <=> TakenBlock(b)
      BY <1>2, <1>3 DEF TakenBlock
    <2>3. \A b \in 1 .. Len(window) :
            ~TakenBlock(b) /\ ~window[b].recalculate => window[b].initial = window[b].entry
      BY <1>1 DEF FlagsOK
    <2>4. \A b \in 1 .. Len(window) - 1 :
            ~TakenBlock(b) /\ ~window[b].recalculate /\ ~window[b + 1].recalculate
            => window[b].final = Least(window[b + 1].entry, window[b].nominal)
      BY <1>1 DEF FlagsOK
    <2>5. \A b \in 1 .. Len(r) : planning' = "forward" /\ b < from' => b + 1 <= stop /\ b + 1 < Len(window)
      <3> SUFFICES ASSUME NEW b \in 1 .. Len(r), planning' = "forward", b < from'
                   PROVE b + 1 <= stop /\ b + 1 < Len(window)
        OBVIOUS
      <3>1. from' = stop
        BY <1>8
      <3> QED
        BY <1>3, <1>6, <3>1
    <2>6. (\A b \in 1 .. Len(window) : Finished(b) => ~window[b].recalculate)'
      <3>1. ASSUME NEW b \in 1 .. Len(r), Finished(b)' PROVE ~r[b].recalculate
        <4>1. planning' = "forward" /\ b < from'
          <5>1. Len(window) # 0
            BY <1>9
          <5>2. planning' = "forward"
            BY <1>3, <1>8, <5>1
          <5> QED
            BY <3>1, <5>2 DEF Finished
        <4>2. b <= stop /\ b < Len(window) /\ b \in 1 .. Len(window)
          BY <1>3, <1>6, <1>9, <2>5, <4>1
        <4> QED
          BY <1>9, <2>1, <4>2
      <3> QED
        BY <1>8, <3>1
    <2>7. ASSUME NEW b \in 1 .. Len(r), ~TakenBlock(b), ~r[b].recalculate
          PROVE  r[b].initial = r[b].entry
      BY <1>9, <2>3, <2>7
    <2>8. ASSUME NEW b \in 1 .. Len(r) - 1, ~TakenBlock(b), ~r[b].recalculate,
                 ~r[b + 1].recalculate \/ (planning' = "forward" /\ b < from')
          PROVE  r[b].final = Least(r[b + 1].entry, r[b].nominal)
      <3>1. b \in 1 .. Len(window) /\ b + 1 \in 1 .. Len(window) /\ b \in 1 .. Len(window) - 1
        BY <1>3, <1>9
      <3>2. r[b] = window[b]
        BY <1>9, <2>8, <3>1
      <3>3. r[b + 1] = window[b + 1] /\ ~window[b + 1].recalculate
        <4>1. CASE ~r[b + 1].recalculate
          <5>1. r[b + 1] = window[b + 1]
            BY <1>9, <3>1, <4>1
          <5> QED
            BY <4>1, <5>1
        <4>2. CASE planning' = "forward" /\ b < from'
          <5>1. b + 1 <= stop /\ b + 1 < Len(window)
            BY <1>9, <2>5, <3>1, <4>2
          <5> QED
            BY <1>9, <2>1, <3>1, <5>1
        <4> QED
          BY <2>8, <4>1, <4>2
      <3> QED
        BY <2>4, <2>8, <3>1, <3>2, <3>3
    <2> QED
      BY <1>8, <2>2, <2>6, <2>7, <2>8 DEF FlagsOK
  <1>15. (BlocksOK(window) /\ LastSafe(window) /\ Brakes(window))'
    BY <1>8, <1>10, <1>11, <1>12
  <1> QED
    BY <1>13, <1>14, <1>15 DEF LookaheadInv

LEMMA SlowedSums ==
    ASSUME NEW M \in Int, NEW new \in Int, NEW old \in Int, NEW p \in Int,
           NEW next \in Int, NEW q \in Int, new <= old, old + p <= M + next + q
    PROVE  /\ new + p <= M + next + q
           /\ \A e, s, g \in Int : e = next + g /\ s = q + g /\ 0 <= g => new + p <= M + e + s
  OBVIOUS

\* A slowed block keeps what was in front of it able to brake.
LEMMA SlowedBrakes ==
    ASSUME NEW w, BlocksOK(w), Brakes(w), NEW v \in Seq(PlannedBlocks), Len(v) = Len(w),
           NEW f \in 1 .. Len(w) - 1,
           \A b \in 1 .. Len(w) : SameMove(v[b], w[b]),
           \A b \in 1 .. Len(w) : b # f + 1 => v[b].entry = w[b].entry,
           \/ v[f + 1].entry = w[f + 1].entry
           \/ v[f + 1].entry <= w[f + 1].entry /\ v[f + 1].entry = w[f].entry + w[f].gain
    PROVE  Brakes(v)
  <1> DEFINE n == Len(w)
  <1>1. w \in Seq(PlannedBlocks) /\ n \in Nat /\ f \in 1 .. n /\ f + 1 \in 1 .. n
    BY Window DEF BlocksOK
  <1>2. PICK p \in [1 .. n + 1 -> Int] : BrakesWith(w, p)
    BY DEF Brakes
  <1>3. /\ \A b \in 1 .. n : p[b + 1] = p[b] + w[b].gain
        /\ \A b, c \in 1 .. n + 1 : b < c => p[b] <= p[c]
        /\ \A b \in 1 .. n : w[b].entry + p[b] <= SafeMax + p[n + 1]
        /\ \A b, c \in 1 .. n : b < c => w[b].entry + p[b] <= SafeMax + w[c].entry + p[c]
    BY <1>2 DEF BrakesWith
  <1>4. /\ SafeMax \in Nat /\ p[n + 1] \in Int
        /\ \A b \in 1 .. n : /\ w[b].entry \in Nat /\ v[b].entry \in Nat /\ w[b].gain \in Nat
                             /\ p[b] \in Int
    <2>1. SafeMax \in Nat /\ p[n + 1] \in Int /\ \A b \in 1 .. n : p[b] \in Int
      BY <1>1, LookaheadAssumption
    <2>2. \A b \in 1 .. n : w[b].entry \in Nat /\ v[b].entry \in Nat /\ w[b].gain \in Nat
      BY <1>1, Window
    <2> QED
      BY <2>1, <2>2
  <1>5. p[f + 1] = p[f] + w[f].gain
    BY <1>1, <1>3
  <1>6. v[f + 1].entry <= w[f + 1].entry
    BY <1>1, <1>4
  <1> HIDE DEF n
  <1>7. \A b \in 1 .. n : v[b].entry <= w[b].entry
    <2> SUFFICES ASSUME NEW b \in 1 .. n PROVE v[b].entry <= w[b].entry
      OBVIOUS
    <2>1. CASE b = f + 1
      BY <1>6, <2>1
    <2>2. CASE b # f + 1
      <3>1. v[b].entry = w[b].entry
        BY <2>2 DEF n
      <3> QED
        BY <1>4, <3>1
    <2> QED
      BY <2>1, <2>2
  <1>8. \A b \in 1 .. n : v[b].entry + p[b] <= SafeMax + p[n + 1]
    <2> SUFFICES ASSUME NEW b \in 1 .. n PROVE v[b].entry + p[b] <= SafeMax + p[n + 1]
      OBVIOUS
    <2>1. w[b].entry + p[b] <= SafeMax + p[n + 1] /\ v[b].entry <= w[b].entry
      BY <1>3, <1>7
    <2> QED
      BY <1>4, <2>1
  <1>9. \A b, c \in 1 .. n : b < c => v[b].entry + p[b] <= SafeMax + v[c].entry + p[c]
    <2> SUFFICES ASSUME NEW b \in 1 .. n, NEW c \in 1 .. n, b < c
                 PROVE v[b].entry + p[b] <= SafeMax + v[c].entry + p[c]
      OBVIOUS
    <2>1. /\ v[b].entry <= w[b].entry /\ w[b].entry + p[b] <= SafeMax + w[c].entry + p[c]
          /\ v[b].entry \in Nat /\ w[b].entry \in Nat /\ w[c].entry \in Nat /\ v[c].entry \in Nat
          /\ p[b] \in Int /\ p[c] \in Int
      BY <1>3, <1>4, <1>7
    <2>2. CASE v[c].entry = w[c].entry
      <3>1. v[b].entry + p[b] <= SafeMax + w[c].entry + p[c]
        <4>1. ASSUME NEW new, new = v[b].entry, NEW old, old = w[b].entry, NEW s, s = p[b],
                     NEW next, next = w[c].entry, NEW t, t = p[c]
              PROVE  new + s <= SafeMax + next + t
          <5>1. /\ new \in Int /\ old \in Int /\ s \in Int /\ next \in Int /\ t \in Int
                /\ SafeMax \in Int
            BY <1>4, <2>1, <4>1
          <5>2. new <= old /\ old + s <= SafeMax + next + t
            BY <2>1, <4>1
          <5> QED
            BY <5>1, <5>2, SlowedSums
        <4> QED
          BY <4>1
      <3> QED
        BY <2>2, <3>1
    <2>3. CASE v[c].entry # w[c].entry
      <3>1. c = f + 1
        BY <2>3 DEF n
      <3>2. v[c].entry = w[f].entry + w[f].gain /\ p[c] = p[f] + w[f].gain
        BY <1>5, <2>3, <3>1
      <3>3. w[f].entry \in Nat /\ w[f].gain \in Nat /\ p[f] \in Int
        BY <1>1, <1>4
      <3>4. w[b].entry + p[b] <= SafeMax + w[f].entry + p[f]
        <4>1. CASE b = f
          BY <1>4, <3>3, <4>1
        <4>2. CASE b # f
          <5>1. b < f
            BY <1>1, <3>1, <4>2
          <5> QED
            BY <1>1, <1>3, <5>1
        <4> QED
          BY <4>1, <4>2
      <3>5. SafeMax \in Int /\ w[f].entry \in Int /\ w[f].gain \in Int /\ p[f] \in Int /\ 0 <= w[f].gain
        BY <1>4, <3>3
      <3>6. ASSUME NEW new, new = v[b].entry, NEW old, old = w[b].entry, NEW s, s = p[b],
                   NEW next, next = w[f].entry, NEW t, t = p[f], NEW g, g = w[f].gain,
                   NEW e, e = v[c].entry, NEW q, q = p[c]
            PROVE  new + s <= SafeMax + e + q
        <4>1. /\ new \in Int /\ old \in Int /\ s \in Int /\ next \in Int /\ t \in Int
              /\ g \in Int /\ 0 <= g /\ e \in Int /\ q \in Int /\ SafeMax \in Int
          BY <2>1, <3>5, <3>6
        <4>2. /\ new <= old /\ old + s <= SafeMax + next + t
              /\ e = next + g /\ q = t + g
          BY <2>1, <3>2, <3>4, <3>6
        <4> QED
          BY <4>1, <4>2, SlowedSums
      <3> QED
        BY <3>6
    <2> QED
      BY <2>2, <2>3
  <1> QED
    BY <1>2, <1>8, <1>9, SameDistances DEF n

\* The forward pass slows a block to what the one in front of it reaches.
Limited(prev, current, reached) ==
  IF ~prev.nominal_length /\ reached < current.entry
  THEN [current EXCEPT !.entry = reached, !.recalculate = TRUE]
  ELSE current

Slowed(x, prev, current) ==
  /\ x \in PlannedBlocks /\ SameMove(x, current)
  /\ x.initial = current.initial /\ x.final = current.final
  /\ (~x.recalculate => x = current) /\ x.entry <= current.entry
  /\ \/ x.entry = current.entry
     \/ x.entry <= current.entry /\ x.entry = prev.entry + prev.gain

LEMMA LimitedFields ==
    ASSUME NEW prev \in PlannedBlocks, NEW current \in PlannedBlocks,
           NEW reached, reached = Least(current.entry, Allowable(prev.gain, prev.entry))
    PROVE  Slowed(Limited(prev, current, reached), prev, current)
  <1> DEFINE x == Limited(prev, current, reached)
  <1>1. current.entry \in Nat /\ prev.gain \in Nat /\ prev.entry \in Nat
    BY BlockFields
  <1>2. CASE ~prev.nominal_length /\ reached < current.entry
    <2>1. reached \in Nat /\ reached <= current.entry /\ reached = prev.entry + prev.gain
      BY <1>1, <1>2 DEF Least, Allowable
    <2>2. x = [current EXCEPT !.entry = reached, !.recalculate = TRUE]
      BY <1>2 DEF Limited
    <2>3. /\ x \in PlannedBlocks /\ x.nominal = current.nominal /\ x.safe = current.safe
          /\ x.gain = current.gain /\ x.max_entry = current.max_entry
          /\ x.nominal_length = current.nominal_length /\ x.initial = current.initial
          /\ x.final = current.final /\ x.entry = reached /\ x.recalculate = TRUE
      BY <2>1, <2>2 DEF PlannedBlocks
    <2> QED
      BY <2>1, <2>3 DEF SameMove, Slowed
  <1>3. CASE ~(~prev.nominal_length /\ reached < current.entry)
    <2>1. x = current
      BY <1>3 DEF Limited
    <2>2. x.entry <= current.entry
      BY <1>1, <2>1
    <2> QED
      BY <2>1, <2>2 DEF SameMove, Slowed
  <1> QED
    BY <1>2, <1>3

LEMMA ForwardStep ==
    ASSUME LookaheadInv, Forward PROVE LookaheadInv'
  <1>1. PlanningOK /\ FlagsOK /\ BlocksOK(window) /\ LastSafe(window) /\ Brakes(window)
    BY DEF LookaheadInv
  <1>2. /\ planning = "forward" /\ from < Len(window) /\ from' = from + 1
        /\ block_buffer_tail' = block_buffer_tail /\ busy' = busy /\ planning' = planning
        /\ moves_queued' = moves_queued /\ previous' = previous
    BY DEF Forward
  <1> DEFINE n == Len(window)
  <1>3. /\ window \in Seq(PlannedBlocks) /\ n \in Nat /\ DOMAIN window = 1 .. n
        /\ from \in 1 .. n - 1 /\ from \in 1 .. n /\ from + 1 \in 1 .. n /\ from # from + 1
    <2>1. window \in Seq(PlannedBlocks) /\ n \in Nat /\ DOMAIN window = 1 .. n
      BY <1>1, Window DEF BlocksOK
    <2>2. from \in 1 .. n
      BY <1>1, <1>2 DEF PlanningOK
    <2> QED
      BY <1>2, <2>1, <2>2
  <1>4. PICK prev, current : prev = window[from] /\ current = window[from + 1]
    OBVIOUS
  <1>5. PICK reached : reached = Least(current.entry, Allowable(prev.gain, prev.entry))
    OBVIOUS
  <1>6. PICK limited : limited = Limited(prev, current, reached)
    OBVIOUS
  <1>7. PICK planned : planned = IF prev.recalculate \/ limited.recalculate
                                 THEN Rated(prev, limited.entry, TakenBlock(from))
                                 ELSE prev
    OBVIOUS
  <1>8. window' = [window EXCEPT ![from] = planned, ![from + 1] = limited]
    BY <1>4, <1>5, <1>6, <1>7 DEF Forward, Limited, Rated
  <1>9. prev \in PlannedBlocks /\ current \in PlannedBlocks
    BY <1>3, <1>4, Window
  <1>10. /\ limited \in PlannedBlocks /\ SameMove(limited, current)
         /\ limited.initial = current.initial /\ limited.final = current.final
         /\ (~limited.recalculate => limited = current) /\ limited.entry <= current.entry
         /\ \/ limited.entry = current.entry
            \/ limited.entry <= current.entry /\ limited.entry = prev.entry + prev.gain
    <2>1. Slowed(limited, prev, current)
      BY <1>5, <1>6, <1>9, LimitedFields
    <2> QED
      BY <2>1 DEF Slowed
  <1>11. TakenBlock(from) \in BOOLEAN /\ limited.entry \in Nat
    BY <1>10, BlockFields DEF TakenBlock
  <1>12. /\ planned \in PlannedBlocks /\ SameMove(planned, prev) /\ planned.entry = prev.entry
         /\ planned.recalculate = FALSE
         /\ \/ planned = prev /\ ~prev.recalculate /\ limited = current /\ ~current.recalculate
            \/ TakenBlock(from)
            \/ /\ planned.initial = Least(prev.entry, prev.nominal)
               /\ planned.final = Least(limited.entry, prev.nominal)
    <2>1. CASE prev.recalculate \/ limited.recalculate
      <3>1. planned = Rated(prev, limited.entry, TakenBlock(from))
        BY <1>7, <2>1
      <3>2. PICK running \in BOOLEAN : running = TakenBlock(from)
        BY <1>11
      <3>3. planned = Rated(prev, limited.entry, running)
        BY <3>1, <3>2
      <3>4. /\ planned \in PlannedBlocks /\ SameMove(planned, prev) /\ planned.entry = prev.entry
            /\ planned.recalculate = FALSE
            /\ (~running => /\ planned.initial = Least(prev.entry, prev.nominal)
                            /\ planned.final = Least(limited.entry, prev.nominal))
        <4>1. HasRates(planned, prev, limited.entry, running)
          BY <1>9, <1>11, <3>3, TrapezoidFields
        <4> QED
          BY <4>1 DEF HasRates
      <3> QED
        BY <3>2, <3>4
    <2>2. CASE ~(prev.recalculate \/ limited.recalculate)
      <3>1. planned = prev /\ ~prev.recalculate /\ limited = current /\ ~current.recalculate
        BY <1>7, <1>10, <2>2
      <3>2. prev.recalculate = FALSE
        BY <1>9, <3>1, BlockFields
      <3> QED
        BY <1>9, <3>1, <3>2 DEF SameMove
    <2> QED
      BY <2>1, <2>2
  <1>13. /\ window' \in Seq(PlannedBlocks) /\ Len(window') = n
         /\ window'[from] = planned /\ window'[from + 1] = limited
         /\ \A b \in 1 .. n : b # from /\ b # from + 1 => window'[b] = window[b]
    <2> HIDE DEF PlannedBlocks
    <2>1. PICK f : f = from
      OBVIOUS
    <2>2. window' = [window EXCEPT ![f] = planned, ![f + 1] = limited]
      BY <1>8, <2>1
    <2>3. /\ f \in 1 .. n /\ f + 1 \in 1 .. n /\ f # f + 1
      BY <1>3, <2>1
    <2>4. /\ window' \in Seq(PlannedBlocks) /\ Len(window') = n
          /\ window'[f] = planned /\ window'[f + 1] = limited
          /\ \A b \in 1 .. n : b # f /\ b # f + 1 => window'[b] = window[b]
      BY <1>3, <1>10, <1>12, <2>2, <2>3
    <2> QED
      BY <2>1, <2>4
  <1>14. \A b \in 1 .. n : /\ SameMove(window'[b], window[b])
                           /\ window'[b].entry <= window'[b].max_entry
                           /\ window[b].entry <= window[b].max_entry
    <2> SUFFICES ASSUME NEW b \in 1 .. n
                 PROVE /\ SameMove(window'[b], window[b])
                       /\ window'[b].entry <= window'[b].max_entry
                       /\ window[b].entry <= window[b].max_entry
      OBVIOUS
    <2>1. window[b].entry <= window[b].max_entry
      BY <1>1 DEF BlocksOK
    <2>2. CASE b = from
      BY <1>4, <1>12, <1>13, <2>1, <2>2 DEF SameMove
    <2>3. CASE b = from + 1
      <3>1. limited.entry <= current.entry /\ current.entry <= current.max_entry
            /\ limited.max_entry = current.max_entry
        BY <1>4, <1>10, <2>1, <2>3 DEF SameMove
      <3>2. limited.entry \in Nat /\ current.entry \in Nat /\ current.max_entry \in Nat
        BY <1>9, <1>10, BlockFields
      <3> QED
        BY <1>4, <1>10, <1>13, <2>1, <2>3, <3>1, <3>2
    <2>4. CASE b # from /\ b # from + 1
      BY <1>13, <2>1, <2>4 DEF SameMove
    <2> QED
      BY <2>2, <2>3, <2>4
  <1>15. BlocksOK(window')
    BY <1>1, <1>13, <1>14, SameBlocksOK
  <1>16. Brakes(window')
    <2>1. \A b \in 1 .. n : b # from + 1 => window'[b].entry = window[b].entry
      BY <1>4, <1>12, <1>13
    <2>2. \/ window'[from + 1].entry = window[from + 1].entry
          \/ /\ window'[from + 1].entry <= window[from + 1].entry
             /\ window'[from + 1].entry = window[from].entry + window[from].gain
      BY <1>4, <1>10, <1>13
    <2>3. PICK v, f : v = window' /\ f = from
      OBVIOUS
    <2>4. /\ v \in Seq(PlannedBlocks) /\ Len(v) = Len(window) /\ f \in 1 .. Len(window) - 1
          /\ \A b \in 1 .. Len(window) : SameMove(v[b], window[b])
          /\ \A b \in 1 .. Len(window) : b # f + 1 => v[b].entry = window[b].entry
          /\ \/ v[f + 1].entry = window[f + 1].entry
             \/ /\ v[f + 1].entry <= window[f + 1].entry
                /\ v[f + 1].entry = window[f].entry + window[f].gain
      BY <1>3, <1>13, <1>14, <2>1, <2>2, <2>3
    <2>5. Brakes(v)
      BY <1>1, <2>4, SlowedBrakes
    <2> QED
      BY <2>3, <2>5
  <1>17. LastSafe(window')
    <2> SUFFICES ASSUME window' # <<>> PROVE LastSafe(window')
      BY DEF LastSafe
    <2>1. window # <<>> /\ n \in 1 .. n /\ n # from
      <3>1. from \in 1 .. n - 1 /\ n \in Nat
        BY <1>3
      <3>2. window # <<>> <=> n # 0
        BY <1>3, Window
      <3> HIDE DEF n
      <3> QED
        BY <3>1, <3>2
    <2>2. /\ window[n].final = window[n].safe
          /\ window[n].initial <= window[n].safe + window[n].gain
          /\ window[n].entry <= window[n].safe + window[n].gain
      BY <1>1, <2>1 DEF LastSafe
    <2>3. CASE n = from + 1
      <3>1. limited.entry <= current.entry /\ current.entry <= current.safe + current.gain
            /\ limited.safe = current.safe /\ limited.gain = current.gain
        BY <1>4, <1>10, <2>2, <2>3 DEF SameMove
      <3>2. limited.entry \in Nat /\ current.entry \in Nat /\ current.safe \in Nat /\ current.gain \in Nat
        BY <1>9, <1>10, BlockFields
      <3>3. limited.entry <= limited.safe + limited.gain
        BY <3>1, <3>2
      <3>4. window'[Len(window')] = limited /\ window[n] = current
        BY <1>4, <1>13, <2>3
      <3> QED
        BY <1>10, <2>2, <3>1, <3>3, <3>4 DEF LastSafe
    <2>4. CASE n # from + 1
      <3>1. window'[Len(window')] = window[n]
        BY <1>13, <2>1, <2>4
      <3> QED
        BY <2>2, <3>1 DEF LastSafe
    <2> QED
      BY <2>3, <2>4
  <1>18. PlanningOK'
    <2>1. planning' \in {"no", "line", "recalculate", "forward"} /\ busy' \in BOOLEAN
          /\ planning' # "line"
      BY <1>1, <1>2 DEF PlanningOK
    <2>2. /\ block_buffer_tail' \in 1 .. Len(window') + 1
          /\ (busy' => block_buffer_tail' <= Len(window'))
      BY <1>1, <1>2, <1>13 DEF PlanningOK
    <2>3. planning' = "forward" /\ from' \in 1 .. Len(window')
      BY <1>2, <1>3, <1>13
    <2>4. Len(window') <= QueueSize
      BY <1>1, <1>13 DEF PlanningOK
    <2>5. moves_queued' \in 0 .. QueueSize /\ previous' \in [nominal : Nat, safe : Nat]
      BY <1>1, <1>2 DEF PlanningOK
    <2> QED
      BY <2>1, <2>2, <2>3, <2>4, <2>5 DEF PlanningOK
  <1>19. FlagsOK'
    <2>1. \A b : TakenBlock(b)' <=> TakenBlock(b)
      BY <1>2 DEF TakenBlock
    <2>2. /\ \A b \in 1 .. n : b < from => ~window[b].recalculate
          /\ \A b \in 1 .. n :
               ~TakenBlock(b) /\ ~window[b].recalculate => window[b].initial = window[b].entry
          /\ \A b \in 1 .. n - 1 :
               ~TakenBlock(b) /\ ~window[b].recalculate /\ (~window[b + 1].recalculate \/ b < from)
               => window[b].final = Least(window[b + 1].entry, window[b].nominal)
      BY <1>1, <1>2 DEF FlagsOK, Finished
    <2>3. \A b \in 1 .. n : b = from \/ b = from + 1 \/ (b # from /\ b # from + 1)
      OBVIOUS
    <2>4. ASSUME NEW b \in 1 .. n, b < from + 1 PROVE ~window'[b].recalculate
      <3>1. CASE b = from
        BY <1>12, <1>13, <3>1
      <3>2. CASE b # from
        <4>1. b < from /\ b # from + 1
          BY <1>3, <2>4, <3>2
        <4> QED
          BY <1>13, <2>2, <3>2, <4>1
      <3> QED
        BY <3>1, <3>2
    <2>5. ASSUME NEW b \in 1 .. n, ~TakenBlock(b), ~window'[b].recalculate
          PROVE  window'[b].initial = window'[b].entry
      <3>1. CASE b = from
        <4>1. prev.entry <= prev.max_entry /\ prev.max_entry <= prev.nominal
          BY <1>1, <1>3, <1>4 DEF BlocksOK
        <4>2. Least(prev.entry, prev.nominal) = prev.entry
          <5>1. prev.entry \in Nat /\ prev.max_entry \in Nat /\ prev.nominal \in Nat
            BY <1>9, BlockFields
          <5> QED
            BY <4>1, <5>1 DEF Least
        <4>3. \/ planned = prev /\ ~prev.recalculate
              \/ planned.initial = Least(prev.entry, prev.nominal)
          BY <1>12, <2>5, <3>1
        <4>4. CASE planned = prev /\ ~prev.recalculate
          BY <1>3, <1>4, <1>13, <2>2, <2>5, <3>1, <4>4
        <4>5. CASE planned.initial = Least(prev.entry, prev.nominal)
          BY <1>12, <1>13, <3>1, <4>2, <4>5
        <4> QED
          BY <4>3, <4>4, <4>5
      <3>2. CASE b = from + 1
        <4>1. limited = current
          BY <1>10, <1>13, <2>5, <3>2
        <4>2. window'[b] = window[b]
          BY <1>4, <1>13, <3>2, <4>1
        <4> QED
          BY <2>2, <2>5, <4>2
      <3>3. CASE b # from /\ b # from + 1
        BY <1>13, <2>2, <2>5, <3>3
      <3> QED
        BY <3>1, <3>2, <3>3
    <2>6. ASSUME NEW b \in 1 .. n - 1, ~TakenBlock(b), ~window'[b].recalculate,
                 ~window'[b + 1].recalculate \/ b < from + 1
          PROVE  window'[b].final = Least(window'[b + 1].entry, window'[b].nominal)
      <3>0. b \in 1 .. n /\ b + 1 \in 1 .. n /\ b \in Int /\ from \in Int
        BY <1>3
      <3>1. CASE b = from
        <4>1. window'[b] = planned /\ window'[b + 1] = limited /\ planned.nominal = prev.nominal
          BY <1>12, <1>13, <3>1 DEF SameMove
        <4>2. CASE planned = prev /\ ~prev.recalculate /\ limited = current /\ ~current.recalculate
          BY <1>3, <1>4, <2>2, <2>6, <3>1, <4>1, <4>2
        <4>3. CASE planned.final = Least(limited.entry, prev.nominal)
          BY <4>1, <4>3
        <4> QED
          BY <1>12, <2>6, <3>1, <4>2, <4>3
      <3>2. CASE b = from + 1
        <4>1. window'[b] = limited /\ limited = current /\ window'[b] = window[b]
          BY <1>4, <1>10, <1>13, <2>6, <3>2
        <4>2. b + 1 # from /\ b + 1 # from + 1 /\ ~(b < from + 1)
          BY <3>0, <3>2
        <4>3. window'[b + 1] = window[b + 1]
          BY <1>13, <3>0, <4>2
        <4> QED
          BY <2>2, <2>6, <4>1, <4>2, <4>3
      <3>3. CASE b + 1 = from
        <4>1. b # from /\ b # from + 1 /\ b < from
          BY <3>0, <3>3
        <4>2. window'[b] = window[b]
          BY <1>13, <3>0, <4>1
        <4>3. window'[b + 1].entry = window[b + 1].entry
          BY <1>4, <1>12, <1>13, <3>3
        <4> QED
          BY <2>2, <2>6, <4>1, <4>2, <4>3
      <3>4. CASE b # from /\ b # from + 1 /\ b + 1 # from
        <4>1. b + 1 # from + 1 /\ (b < from + 1 => b < from)
          BY <3>0, <3>4
        <4>2. window'[b] = window[b] /\ window'[b + 1] = window[b + 1]
          BY <1>13, <3>0, <3>4, <4>1
        <4> QED
          BY <2>2, <2>6, <4>1, <4>2
      <3> QED
        BY <3>1, <3>2, <3>3, <3>4
    <2> QED
      <3>1. planning' = "forward" /\ from' = from + 1 /\ Len(window') = n
        BY <1>2, <1>13
      <3>2. \A b \in 1 .. n : Finished(b)' <=> b < from + 1
        BY <3>1 DEF Finished
      <3> HIDE DEF n
      <3> QED
        BY <2>1, <2>4, <2>5, <2>6, <3>1, <3>2 DEF FlagsOK
  <1> QED
    BY <1>15, <1>16, <1>17, <1>18, <1>19 DEF LookaheadInv

LEMMA LastTrapezoidStep ==
    ASSUME LookaheadInv, LastTrapezoid PROVE LookaheadInv'
  <1>1. PlanningOK /\ FlagsOK /\ BlocksOK(window) /\ LastSafe(window) /\ Brakes(window)
    BY DEF LookaheadInv
  <1> DEFINE n == Len(window)
             t == block_buffer_tail
  <1>2. /\ planning = "forward" /\ from = n /\ block_buffer_tail' = 1 /\ planning' = "no"
        /\ from' = 0 /\ busy' = busy /\ moves_queued' = moves_queued /\ previous' = previous
    BY DEF LastTrapezoid
  <1>3. PICK last : last = Rated(window[n], window[n].safe, TakenBlock(n))
    OBVIOUS
  <1>4. PICK w : w = [window EXCEPT ![n] = last]
    OBVIOUS
  <1>5. window' = SubSeq(w, t, Len(w))
    BY <1>2, <1>3, <1>4 DEF LastTrapezoid, Rated
  <1>6. /\ window \in Seq(PlannedBlocks) /\ n \in Nat \ {0} /\ DOMAIN window = 1 .. n
        /\ n \in 1 .. n /\ t \in 1 .. n + 1 /\ window # <<>>
    <2>1. window \in Seq(PlannedBlocks) /\ n \in Nat /\ DOMAIN window = 1 .. n
          /\ (window = <<>> <=> n = 0)
      BY <1>1, Window DEF BlocksOK
    <2>2. n \in 1 .. n /\ t \in 1 .. n + 1
      BY <1>1, <1>2 DEF PlanningOK
    <2> HIDE DEF n
    <2> QED
      BY <2>1, <2>2
  <1>7. /\ window[n] \in PlannedBlocks /\ window[n].safe \in Nat /\ window[n].entry \in Nat
        /\ window[n].nominal \in Nat /\ window[n].max_entry \in Nat /\ window[n].gain \in Nat
    BY <1>6, Window
  <1>8. HasRates(last, window[n], window[n].safe, TakenBlock(n))
    <2>1. PICK running \in BOOLEAN : running = TakenBlock(n)
      BY DEF TakenBlock
    <2>2. HasRates(last, window[n], window[n].safe, running)
      BY <1>3, <1>7, <2>1, TrapezoidFields
    <2> QED
      BY <2>1, <2>2
  <1>9. /\ last \in PlannedBlocks /\ SameMove(last, window[n]) /\ last.entry = window[n].entry
        /\ last.recalculate = FALSE
        /\ (TakenBlock(n) => last.initial = window[n].initial /\ last.final = window[n].final)
        /\ (~TakenBlock(n) => /\ last.initial = Least(window[n].entry, window[n].nominal)
                              /\ last.final = Least(window[n].safe, window[n].nominal))
    BY <1>8 DEF HasRates
  <1>10. /\ w \in Seq(PlannedBlocks) /\ Len(w) = n /\ w[n] = last
         /\ \A b \in 1 .. n : b # n => w[b] = window[b]
    <2> HIDE DEF PlannedBlocks
    <2>1. w \in Seq(PlannedBlocks) /\ Len(w) = n
      BY <1>4, <1>6, <1>9
    <2>2. w[n] = last /\ \A b \in 1 .. n : b # n => w[b] = window[b]
      BY <1>4, <1>6
    <2> QED
      BY <2>1, <2>2
  <1>11. /\ window[n].entry <= window[n].max_entry /\ window[n].max_entry <= window[n].nominal
         /\ window[n].safe <= window[n].nominal
    BY <1>1, <1>6 DEF BlocksOK
  <1>12. /\ Least(window[n].entry, window[n].nominal) = window[n].entry
         /\ Least(window[n].safe, window[n].nominal) = window[n].safe
    BY <1>7, <1>11 DEF Least
  <1>13. BlocksOK(w)
    <2>1. \A b \in 1 .. n : SameMove(w[b], window[b]) /\ w[b].entry <= w[b].max_entry
      <3> SUFFICES ASSUME NEW b \in 1 .. n
                   PROVE  SameMove(w[b], window[b]) /\ w[b].entry <= w[b].max_entry
        OBVIOUS
      <3>1. window[b].entry <= window[b].max_entry
        BY <1>1 DEF BlocksOK
      <3>2. CASE b = n
        BY <1>9, <1>10, <3>1, <3>2 DEF SameMove
      <3>3. CASE b # n
        BY <1>10, <3>1, <3>3 DEF SameMove
      <3> QED
        BY <3>2, <3>3
    <2> QED
      BY <1>1, <1>10, <2>1, SameBlocksOK
  <1>14. Brakes(w)
    <2>1. PICK p \in [1 .. n + 1 -> Int] : BrakesWith(window, p)
      BY <1>1 DEF Brakes
    <2>2. \A b \in 1 .. n : SameMove(w[b], window[b]) /\ w[b].entry = window[b].entry
      <3> SUFFICES ASSUME NEW b \in 1 .. n
                   PROVE  SameMove(w[b], window[b]) /\ w[b].entry = window[b].entry
        OBVIOUS
      <3>1. CASE b = n
        BY <1>9, <1>10, <3>1
      <3>2. CASE b # n
        BY <1>10, <3>2 DEF SameMove
      <3> QED
        BY <3>1, <3>2
    <2>3. /\ \A b \in 1 .. n : window[b].entry + p[b] <= SafeMax + p[n + 1]
          /\ \A b, c \in 1 .. n : b < c => window[b].entry + p[b] <= SafeMax + window[c].entry + p[c]
      BY <2>1 DEF BrakesWith
    <2>4. /\ \A b \in 1 .. n : w[b].entry + p[b] <= SafeMax + p[n + 1]
          /\ \A b, c \in 1 .. n : b < c => w[b].entry + p[b] <= SafeMax + w[c].entry + p[c]
      BY <2>2, <2>3
    <2> QED
      BY <1>1, <1>10, <2>1, <2>2, <2>4, SameDistances
  <1>15. LastSafe(w)
    <2>1. /\ window[n].final = window[n].safe
          /\ window[n].initial <= window[n].safe + window[n].gain
          /\ window[n].entry <= window[n].safe + window[n].gain
      BY <1>1, <1>6 DEF LastSafe
    <2>2. last.safe = window[n].safe /\ last.gain = window[n].gain
      BY <1>9 DEF SameMove
    <2>3. last.final = last.safe /\ last.initial <= last.safe + last.gain
          /\ last.entry <= last.safe + last.gain
      BY <1>9, <1>12, <2>1, <2>2
    <2> QED
      BY <1>10, <2>3 DEF LastSafe
  <1> HIDE DEF n, t
  <1>16. PICK k \in Nat : k = t - 1 /\ k <= n
    BY <1>6
  <1>17. /\ window' \in Seq(PlannedBlocks) /\ Len(window') = Len(w) - k
         /\ \A b \in 1 .. Len(window') : window'[b] = w[b + k]
    <2> HIDE DEF PlannedBlocks
    <2>1. PICK s \in 1 .. n + 1 : s = t
      BY <1>6
    <2>2. PICK v : v = window'
      OBVIOUS
    <2>3. v = SubSeq(w, s, n)
      BY <1>5, <1>10, <2>1, <2>2
    <2>4. v \in Seq(PlannedBlocks) /\ Len(v) = n + 1 - s
      BY <1>6, <1>10, <2>3
    <2>5. \A b \in 1 .. Len(v) : v[b] = w[s + b - 1]
      BY <1>6, <1>10, <2>3, <2>4
    <2>6. \A b \in 1 .. Len(v) : s + b - 1 = b + k
      BY <1>16, <2>1
    <2>7. Len(v) = n - k
      BY <1>6, <1>16, <2>1, <2>4
    <2> QED
      BY <1>10, <2>2, <2>4, <2>5, <2>6, <2>7
  <1>18. (BlocksOK(window) /\ LastSafe(window) /\ Brakes(window))'
    <2>1. PICK v : v = window'
      OBVIOUS
    <2>2. BlocksOK(v) /\ LastSafe(v) /\ Brakes(v)
      BY <1>10, <1>13, <1>14, <1>15, <1>16, <1>17, <2>1, Shifted
    <2> QED
      BY <2>1, <2>2
  <1>19. Len(window') = n - k /\ Len(window') \in Nat /\ n \in Nat /\ t = k + 1
    BY <1>6, <1>10, <1>16, <1>17
  <1>20. PlanningOK'
    <2>1. planning' = "no" /\ busy' \in BOOLEAN /\ block_buffer_tail' = 1 /\ from' = 0
      BY <1>1, <1>2 DEF PlanningOK
    <2>2. block_buffer_tail' \in 1 .. Len(window') + 1
      BY <1>2, <1>19
    <2>3. busy' => block_buffer_tail' <= Len(window')
      <3>1. busy => t <= n
        BY <1>1 DEF PlanningOK, n, t
      <3> QED
        BY <1>2, <1>19, <3>1
    <2>4. Len(window') <= QueueSize
      <3>1. n <= QueueSize /\ QueueSize \in Nat
        BY <1>1, LookaheadAssumption DEF PlanningOK, n
      <3> QED
        BY <1>16, <1>19, <3>1
    <2>5. moves_queued' \in 0 .. QueueSize /\ previous' \in [nominal : Nat, safe : Nat]
      BY <1>1, <1>2 DEF PlanningOK
    <2> QED
      BY <2>1, <2>2, <2>3, <2>4, <2>5 DEF PlanningOK
  <1>21. FlagsOK'
    <2>1. \A b \in 1 .. Len(window') : b + k \in 1 .. n /\ (TakenBlock(b)' <=> TakenBlock(b + k))
      <3> SUFFICES ASSUME NEW b \in 1 .. Len(window')
                   PROVE  b + k \in 1 .. n /\ (TakenBlock(b)' <=> TakenBlock(b + k))
        OBVIOUS
      <3>1. b + k \in 1 .. n /\ (b < 1 <=> b + k < k + 1) /\ (b = 1 <=> b + k = k + 1)
        BY <1>16, <1>19
      <3>2. TakenBlock(b)' <=> b < 1 \/ (b = 1 /\ busy)
        BY <1>2 DEF TakenBlock
      <3>3. TakenBlock(b + k) <=> b + k < k + 1 \/ (b + k = k + 1 /\ busy)
        BY <1>19 DEF TakenBlock, t
      <3> QED
        BY <3>1, <3>2, <3>3
    <2>2. \A b \in 1 .. n : ~w[b].recalculate /\ (b # n => ~window[b].recalculate)
      <3> SUFFICES ASSUME NEW b \in 1 .. n
                   PROVE ~w[b].recalculate /\ (b # n => ~window[b].recalculate)
        OBVIOUS
      <3>1. CASE b = n
        BY <1>9, <1>10, <3>1
      <3>2. CASE b # n
        <4>1. b < from
          BY <1>2, <1>19, <3>2 DEF n
        <4>2. ~window[b].recalculate
          BY <1>1, <1>2, <4>1 DEF FlagsOK, Finished, n
        <4> QED
          BY <1>10, <3>2, <4>2
      <3> QED
        BY <3>1, <3>2
    <2>3. \A b \in 1 .. n : ~TakenBlock(b) => w[b].initial = w[b].entry
      <3> SUFFICES ASSUME NEW b \in 1 .. n, ~TakenBlock(b) PROVE w[b].initial = w[b].entry
        OBVIOUS
      <3>1. CASE b = n
        BY <1>9, <1>10, <1>12, <3>1
      <3>2. CASE b # n
        <4>1. window[b].initial = window[b].entry
          BY <1>1, <2>2, <3>2 DEF FlagsOK, n
        <4> QED
          BY <1>10, <3>2, <4>1
      <3> QED
        BY <3>1, <3>2
    <2>4. \A b \in 1 .. n - 1 : ~TakenBlock(b) => w[b].final = Least(w[b + 1].entry, w[b].nominal)
      <3> SUFFICES ASSUME NEW b \in 1 .. n - 1, ~TakenBlock(b)
                   PROVE  w[b].final = Least(w[b + 1].entry, w[b].nominal)
        OBVIOUS
      <3>1. b \in 1 .. n /\ b # n /\ b + 1 \in 1 .. n /\ b < n
        BY <1>19
      <3>2. ~window[b].recalculate /\ b < from
        BY <1>2, <2>2, <3>1 DEF n
      <3>3. window[b].final = Least(window[b + 1].entry, window[b].nominal)
        BY <1>1, <1>2, <3>2 DEF FlagsOK, n
      <3>4. w[b + 1].entry = window[b + 1].entry
        BY <1>9, <1>10, <3>1
      <3> QED
        BY <1>10, <3>1, <3>3, <3>4
    <2>5. \A b \in 1 .. Len(window') : ~window'[b].recalculate
      BY <1>17, <2>1, <2>2
    <2>6. \A b \in 1 .. Len(window') : ~TakenBlock(b)' => window'[b].initial = window'[b].entry
      BY <1>17, <2>1, <2>3
    <2>7. \A b \in 1 .. Len(window') - 1 :
             ~TakenBlock(b)' => window'[b].final = Least(window'[b + 1].entry, window'[b].nominal)
      <3> SUFFICES ASSUME NEW b \in 1 .. Len(window') - 1, ~TakenBlock(b)'
                   PROVE  window'[b].final = Least(window'[b + 1].entry, window'[b].nominal)
        OBVIOUS
      <3>1. /\ b \in 1 .. Len(window') /\ b + 1 \in 1 .. Len(window') /\ b + k \in 1 .. n - 1
            /\ (b + 1) + k = (b + k) + 1
        BY <1>16, <1>19
      <3>2. window'[b] = w[b + k] /\ window'[b + 1] = w[(b + k) + 1]
        BY <1>17, <3>1
      <3>3. ~TakenBlock(b + k)
        BY <2>1, <3>1
      <3> QED
        BY <2>4, <3>1, <3>2, <3>3
    <2> QED
      BY <2>5, <2>6, <2>7 DEF FlagsOK
  <1> QED
    BY <1>18, <1>20, <1>21 DEF LookaheadInv

-----------------------------------------------------------------------------
(* The theorems.                                                           *)

LEMMA LookaheadStepInv == LookaheadInv /\ [LookaheadNext]_lookaheadVars => LookaheadInv'
  <1> SUFFICES ASSUME LookaheadInv, [LookaheadNext]_lookaheadVars PROVE LookaheadInv'
    OBVIOUS
  <1>1. CASE PlanLine
    BY <1>1, PlanLineStep
  <1>2. CASE Publish
    BY <1>2, PublishStep
  <1>3. CASE StartRecalculate
    BY <1>3, StartRecalculateStep
  <1>4. CASE Forward
    BY <1>4, ForwardStep
  <1>5. CASE LastTrapezoid
    BY <1>5, LastTrapezoidStep
  <1>6. CASE TakeBlock
    BY <1>6, TakeBlockStep
  <1>7. CASE DiscardBlock
    BY <1>7, DiscardBlockStep
  <1>8. CASE AbortHard
    BY <1>8, AbortHardStep
  <1>9. CASE ResetAborted
    BY <1>9, ResetAbortedStep
  <1>10. CASE UNCHANGED lookaheadVars
    BY <1>10, StutterStep
  <1> QED
    BY <1>1, <1>2, <1>3, <1>4, <1>5, <1>6, <1>7, <1>8, <1>9, <1>10 DEF LookaheadNext

LEMMA LookaheadInvariant == LookaheadSpec => []LookaheadInv
  BY LookaheadInitInv, LookaheadStepInv, PTL DEF LookaheadSpec

LEMMA SafeFromInv == LookaheadInv => EndsSafe
  <1> SUFFICES ASSUME LookaheadInv, Queued # <<>>
               PROVE  ExitSpeed(window[Len(window)]) <= window[Len(window)].safe
    BY DEF EndsSafe
  <1>1. PlanningOK /\ BlocksOK(window) /\ LastSafe(window)
    BY DEF LookaheadInv
  <1>2. PICK x : x = window[Len(window)]
    OBVIOUS
  <1>3. window \in Seq(PlannedBlocks) /\ window # <<>> /\ Len(window) \in 1 .. Len(window)
    <2>1. window \in Seq(PlannedBlocks) /\ Len(window) \in Nat /\ (window = <<>> <=> Len(window) = 0)
      BY <1>1, Window DEF BlocksOK
    <2>2. block_buffer_tail \in 1 .. Len(window) + 1 /\ block_buffer_tail # Len(window) + 1
      BY <1>1, <2>1, QueuedFrom DEF PlanningOK
    <2> QED
      BY <2>1, <2>2
  <1>4. x.final = x.safe /\ x.initial <= x.safe + x.gain
    BY <1>1, <1>2, <1>3 DEF LastSafe
  <1>5. x.final \in Nat /\ x.safe \in Nat /\ x.initial \in Nat /\ x.gain \in Nat
    BY <1>2, <1>3, Window
  <1>6. ExitSpeed(x) <= x.safe
    BY <1>4, <1>5 DEF ExitSpeed, Least, Greatest, Allowable
  <1> QED
    BY <1>2, <1>6

LEMMA JunctionsFromInv == LookaheadInv => JunctionsMeet
  <1> SUFFICES ASSUME LookaheadInv, planning = "no",
                      NEW b \in block_buffer_tail .. Len(window) - 1, ~TakenBlock(b)
               PROVE  /\ window[b].final = Least(window[b + 1].initial, window[b].nominal)
                      /\ ExitSpeed(window[b]) <= window[b].final + SafeMax
    BY DEF JunctionsMeet
  <1>1. PlanningOK /\ FlagsOK /\ BlocksOK(window) /\ Brakes(window)
    BY DEF LookaheadInv
  <1>2. window \in Seq(PlannedBlocks) /\ Len(window) \in Nat /\ block_buffer_tail = 1
    BY <1>1, Window DEF PlanningOK, BlocksOK
  <1>3. b \in 1 .. Len(window) /\ b + 1 \in 1 .. Len(window) /\ b \in 1 .. Len(window) - 1
    BY <1>2
  <1>4. ~window[b].recalculate /\ ~window[b + 1].recalculate
    BY <1>1, <1>3 DEF FlagsOK, Finished
  <1>5. ~TakenBlock(b + 1)
    BY <1>2, <1>3 DEF TakenBlock
  <1>6. /\ window[b].initial = window[b].entry /\ window[b + 1].initial = window[b + 1].entry
        /\ window[b].final = Least(window[b + 1].entry, window[b].nominal)
    BY <1>1, <1>3, <1>4, <1>5 DEF FlagsOK
  <1>7. PICK p \in [1 .. Len(window) + 1 -> Int] : BrakesWith(window, p)
    BY <1>1 DEF Brakes
  <1>8. /\ window[b].entry + p[b] <= SafeMax + window[b + 1].entry + p[b + 1]
        /\ p[b + 1] = p[b] + window[b].gain /\ p[b] \in Int
    <2>1. b < b + 1 /\ b \in 1 .. Len(window) + 1
      BY <1>3
    <2> QED
      BY <1>3, <1>7, <2>1 DEF BrakesWith
  <1>9. PICK x, y, s, t : x = window[b] /\ y = window[b + 1] /\ s = p[b] /\ t = p[b + 1]
    OBVIOUS
  <1>10. /\ x.entry \in Nat /\ y.entry \in Nat /\ x.nominal \in Nat /\ x.gain \in Nat
         /\ x.final \in Nat /\ x.initial \in Nat /\ s \in Int /\ SafeMax \in Nat
         /\ x.entry <= x.max_entry /\ x.max_entry <= x.nominal /\ x.max_entry \in Nat
    <2>1. /\ x.entry \in Nat /\ y.entry \in Nat /\ x.nominal \in Nat /\ x.gain \in Nat
          /\ x.final \in Nat /\ x.initial \in Nat /\ x.max_entry \in Nat
      BY <1>2, <1>3, <1>9, Window
    <2>2. x.entry <= x.max_entry /\ x.max_entry <= x.nominal
      BY <1>1, <1>3, <1>9 DEF BlocksOK
    <2> QED
      BY <1>8, <1>9, <2>1, <2>2, LookaheadAssumption
  <1>11. x.entry + s <= SafeMax + y.entry + t /\ t = s + x.gain
    BY <1>8, <1>9
  <1>12. x.initial = x.entry /\ x.final = Least(y.entry, x.nominal)
    BY <1>6, <1>9
  <1>13. x.entry <= SafeMax + y.entry + x.gain
    <2>1. ASSUME NEW e \in Nat, NEW f \in Nat, NEW g \in Nat, e + s <= SafeMax + f + t, t = s + g
          PROVE  e <= SafeMax + f + g
      BY <1>10, <2>1
    <2> QED
      BY <1>10, <1>11, <2>1
  <1>14. ExitSpeed(x) <= x.final + SafeMax
    <2>1. CASE x.final >= x.initial
      BY <1>10, <2>1 DEF ExitSpeed, Least, Allowable
    <2>2. CASE ~(x.final >= x.initial)
      <3>1. x.final = y.entry
        BY <1>10, <1>12, <2>2 DEF Least
      <3>2. x.initial - x.gain <= x.final + SafeMax
        BY <1>10, <1>12, <1>13, <3>1
      <3> QED
        BY <1>10, <2>2, <3>2 DEF ExitSpeed, Greatest
    <2> QED
      BY <2>1, <2>2
  <1> QED
    BY <1>6, <1>9, <1>14

LEMMA LookaheadInvTyped == LookaheadInv => LookaheadTypeOK
  <1> SUFFICES ASSUME LookaheadInv PROVE LookaheadTypeOK
    OBVIOUS
  <1>1. PlanningOK /\ BlocksOK(window)
    BY DEF LookaheadInv
  <1>2. Len(window) \in Nat
    BY <1>1, Window DEF BlocksOK
  <1>3. from \in 0 .. Len(window) + 1
    <2>1. CASE planning = "forward"
      <3>1. from \in 1 .. Len(window)
        BY <1>1, <2>1 DEF PlanningOK
      <3> QED
        BY <1>2, <3>1
    <2>2. CASE planning # "forward"
      <3>1. from = 0
        BY <1>1, <2>2 DEF PlanningOK
      <3> QED
        BY <1>2, <3>1
    <2> QED
      BY <2>1, <2>2
  <1>4. \A b \in 1 .. Len(window) :
          window[b].entry <= window[b].max_entry /\ window[b].max_entry <= window[b].nominal
    BY <1>1 DEF BlocksOK
  <1> QED
    BY <1>1, <1>3, <1>4 DEF LookaheadTypeOK, PlanningOK

\* plan_buffer_line(), planner_recalculate() and the stepper interrupt keep the
\* queue within BLOCK_BUFFER_SIZE - 1 blocks, the tail and the index of the
\* forward pass within it, and no block faster than its junction and its move
\* allow.
THEOREM LookaheadTyped == LookaheadSpec => []LookaheadTypeOK
  BY LookaheadInvariant, LookaheadInvTyped, PTL

\* Whatever moves come, and wherever planner_recalculate() and the stepper
\* interrupt are, the newest block of the queue ends at a speed the machine may
\* halt from: the queue may run empty at any time.
THEOREM NewestEndsSafe == LookaheadSpec => []EndsSafe
  BY LookaheadInvariant, SafeFromInv, PTL

\* After planner_recalculate() every queued block that is not being executed is
\* to end at the speed its successor starts with, and is too fast there by no
\* more than the speed the jerk limits let a move end at.
THEOREM SpeedsMeet == LookaheadSpec => []JunctionsMeet
  BY LookaheadInvariant, JunctionsFromInv, PTL
=============================================================================
