---------------------------- MODULE FormatterProofs ----------------------------
(***************************************************************************)
(* Proofs about the times of words: the laws of their semiring, that the   *)
(* words of a path come in order although their times are rounded one by   *)
(* one, and that Convert(), as Transcript runs it, gives each word it puts *)
(* out the time of the recognized words it is rewritten from, for every    *)
(* path of every grammar, up to the first word that Convert() cannot time. *)
(*                                                                         *)
(* The invariant says what the weight that Convert() holds stands for: the *)
(* recognized words whose space has been taken since the last word that    *)
(* was put out, or nothing if there is none.                               *)
(***************************************************************************)
EXTENDS DiarizationProofs

LEMMA ZeroAndOne == Zero \in Weights /\ One \in Weights /\ Zero # One
BY InfAssumption DEF Zero, One, Weight, Weights, Values, MaxMinZero, MaxMinOne

\* timing-weight.h: what makes the weights a semiring, which the algorithms of OpenFst
\* that are run on the words rely on: both operations are associative and commutative,
\* Zero() and One() are neutral, Zero() annihilates, and Times distributes over Plus.
\* With MaxMinWeight::Properties(), Plus is idempotent.
THEOREM SemiringLaws ==
  ASSUME NEW u \in Weights, NEW v \in Weights, NEW w \in Weights
  PROVE  /\ Plus(u, v) \in Weights /\ Times(u, v) \in Weights
         /\ Plus(u, Plus(v, w)) = Plus(Plus(u, v), w) /\ Plus(u, v) = Plus(v, u)
         /\ Times(u, Times(v, w)) = Times(Times(u, v), w) /\ Times(u, v) = Times(v, u)
         /\ Plus(u, Zero) = u /\ Times(u, One) = u /\ Times(u, Zero) = Zero
         /\ Times(u, Plus(v, w)) = Plus(Times(u, v), Times(u, w))
         /\ Plus(u, u) = u
<1> USE DEF Plus, Times, Weight, Zero, One, MaxMinZero, MaxMinOne, MaxMinPlus, MaxMinTimes,
            MinMaxPlus, MinMaxTimes
<1>1. /\ u.start \in Values /\ v.start \in Values /\ w.start \in Values
      /\ u.end \in Values /\ v.end \in Values /\ w.end \in Values
      /\ u = [start |-> u.start, end |-> u.end]
  BY DEF Weights
<1>2. \A x \in Values : x \in Int /\ -Inf <= x /\ x <= Inf
  BY InfAssumption DEF Values
<1>3. Plus(u, v) \in Weights /\ Times(u, v) \in Weights
  BY <1>1 DEF Weights
<1>4. Plus(u, Plus(v, w)) = Plus(Plus(u, v), w) /\ Plus(u, v) = Plus(v, u)
  BY <1>1, <1>2
<1>5. Times(u, Times(v, w)) = Times(Times(u, v), w) /\ Times(u, v) = Times(v, u)
  BY <1>1, <1>2
<1>6. Plus(u, Zero) = u /\ Times(u, One) = u /\ Times(u, Zero) = Zero /\ Plus(u, u) = u
  BY <1>1, <1>2, InfAssumption
<1>7. Times(u, Plus(v, w)) = Plus(Times(u, v), Times(u, w))
  BY <1>1, <1>2
<1>8. QED
  BY <1>3, <1>4, <1>5, <1>6, <1>7
-------------------------------------------------------------------------------
\* Functions defined by recursion on 0 .. n

\* Induction up to n, on a set of numbers.
LEMMA UpTo ==
  ASSUME NEW n \in Nat, NEW T, 0 \in T, \A i \in 1 .. n : i - 1 \in T => i \in T
  PROVE  \A i \in 0 .. n : i \in T
<1> DEFINE R == {i \in 0 .. n : i \notin T}
<1> SUFFICES ASSUME R # {} PROVE FALSE
  OBVIOUS
<1>1. R \in SUBSET Nat
  OBVIOUS
<1>2. PICK i \in R : \A j \in R : i <= j
  BY <1>1, LeastNat
<1>3. i \in 1 .. n /\ i \notin T /\ i - 1 \in 0 .. n /\ ~(i <= i - 1)
  OBVIOUS
<1>4. i - 1 \in T
  BY <1>2, <1>3
<1>5. QED
  BY <1>3, <1>4

\* A function that begins with "first" and goes on by "step".
Recurs(f, n, A, first, step) ==
  f \in [0 .. n -> A] /\ f[0] = first /\ \A i \in 1 .. n : f[i] = step[i][f[i - 1]]

LEMMA RecursionExists ==
  ASSUME NEW n \in Nat, NEW A, NEW first \in A, NEW step \in [1 .. n -> [A -> A]]
  PROVE  \E f : Recurs(f, n, A, first, step)
<1> DEFINE Begins(f, m) == f[0] = first /\ \A i \in 1 .. m : f[i] = step[i][f[i - 1]]
           T == {m \in 0 .. n : \E f \in [0 .. m -> A] : Begins(f, m)}
<1>1. 0 \in T
  <2> DEFINE f == [i \in 0 .. 0 |-> first]
  <2>1. f \in [0 .. 0 -> A] /\ f[0] = first
    OBVIOUS
  <2> HIDE DEF f
  <2>2. Begins(f, 0)
    BY <2>1
  <2> HIDE DEF Begins
  <2>3. QED
    BY <2>1, <2>2
<1>2. ASSUME NEW m \in 1 .. n, m - 1 \in T PROVE m \in T
  <2>1. PICK f \in [0 .. m - 1 -> A] : Begins(f, m - 1)
    BY <1>2
  <2> DEFINE g == [i \in 0 .. m |-> IF i = m THEN step[m][f[m - 1]] ELSE f[i]]
  <2>2. m \in Nat /\ m - 1 \in 0 .. m - 1 /\ f[m - 1] \in A /\ step[m][f[m - 1]] \in A
    OBVIOUS
  <2>3. g \in [0 .. m -> A]
    BY <2>2
  <2>4. g[0] = first /\ g[m] = step[m][g[m - 1]]
    BY <2>1, <2>2
  <2>5. ASSUME NEW i \in 1 .. m, i # m PROVE g[i] = step[i][g[i - 1]]
    <3>1. i \in 1 .. m - 1 /\ i - 1 \in 0 .. m /\ i - 1 # m
      BY <2>2, <2>5
    <3>2. QED
      BY <2>1, <2>5, <3>1
  <2> HIDE DEF g
  <2>6. Begins(g, m)
    BY <2>4, <2>5
  <2> HIDE DEF Begins
  <2>7. QED
    BY <2>3, <2>6
<1>3. n \in T
  <2> HIDE DEF T
  <2>1. \A i \in 0 .. n : i \in T
    BY <1>1, <1>2, UpTo
  <2>2. QED
    BY <2>1
<1>4. PICK f \in [0 .. n -> A] : Begins(f, n)
  BY <1>3
<1>5. QED
  BY <1>4 DEF Recurs
-------------------------------------------------------------------------------
\* The words of a path

LEMMA ShiftsArePositive ==
  /\ FrameShift \in Nat \ {0} /\ Subsampling \in Nat \ {0} /\ FrameShift * Subsampling \in Nat
  /\ FrameShift * Subsampling >= 2
BY TranscriptAssumption

LEMMA MillisAdd ==
  ASSUME NEW m \in Nat, NEW n \in Nat
  PROVE  /\ Millis(m) \in Nat /\ Millis(n) \in Nat
         /\ Millis(m + n) = Millis(m) + Millis(n)
         /\ n > 0 => Millis(n) >= 2
<1>1. /\ FrameShift \in Nat /\ Subsampling \in Nat
      /\ FrameShift * Subsampling \in Nat /\ FrameShift * Subsampling >= 2
  BY ShiftsArePositive
<1>2. m * FrameShift \in Nat /\ n * FrameShift \in Nat
  BY <1>1
<1>3. Millis(m) \in Nat /\ Millis(n) \in Nat
  BY <1>1, <1>2 DEF Millis
<1>4. Millis(m + n) = Millis(m) + Millis(n)
  <2>1. (m + n) * FrameShift = m * FrameShift + n * FrameShift
    BY <1>1
  <2>2. \A x, y \in Nat : (x + y) * Subsampling = x * Subsampling + y * Subsampling
    BY <1>1
  <2>3. QED
    BY <1>2, <2>1, <2>2 DEF Millis
<1>5. ASSUME n > 0 PROVE Millis(n) >= 2
  <2>1. 1 * FrameShift <= n * FrameShift
    BY <1>1, <1>5, TimesMonotone
  <2>2. FrameShift * Subsampling <= n * FrameShift * Subsampling
    BY <1>1, <1>2, <2>1, TimesMonotone
  <2>3. QED
    BY <1>1, <1>3, <2>2 DEF Millis
<1>6. QED
  BY <1>3, <1>4, <1>5

LEMMA MillisMonotone ==
  ASSUME NEW m \in Nat, NEW n \in Nat, m <= n
  PROVE  /\ Millis(m) \in Nat /\ Millis(n) \in Nat /\ Millis(m) <= Millis(n)
         /\ m < n => Millis(m) + 2 <= Millis(n)
<1>1. n - m \in Nat /\ n = m + (n - m)
  OBVIOUS
<1>2. /\ Millis(m) \in Nat /\ Millis(n - m) \in Nat /\ Millis(n) = Millis(m) + Millis(n - m)
      /\ n - m > 0 => Millis(n - m) >= 2
  BY <1>1, MillisAdd
<1>3. QED
  BY <1>2

\* What is lost in the conversion.
LEMMA MillisShort ==
  ASSUME NEW n \in 0 .. MaxAligned
  PROVE  /\ n \in Nat /\ FramesToMillis(n) \in Nat /\ Millis(n) \in Nat
         /\ FramesToMillis(n) \in {Millis(n) - 1, Millis(n)}
BY MillisAssumption, MillisAdd

PathWords == [text: Seq(STRING), length: Nat]

LEMMA PathWordsType ==
  ASSUME NEW path \in Seq(PathWords)
  PROVE  /\ Len(path) \in Nat
         /\ \A i \in 1 .. Len(path) : path[i].text \in Seq(STRING) /\ path[i].length \in Nat
<1>1. Len(path) \in Nat /\ \A i \in 1 .. Len(path) : path[i] \in PathWords
  OBVIOUS
<1>2. QED
  BY <1>1 DEF PathWords

\* The frames at which the words of a path begin.
LEMMA BeginsAscend ==
  ASSUME NEW path \in Seq(PathWords)
  PROVE  /\ \A i \in 0 .. Len(path) :
              /\ BeginFrames(path)[i] \in Nat
              /\ \A j \in 0 .. i : BeginFrames(path)[j] <= BeginFrames(path)[i]
         /\ \A i \in 1 .. Len(path) :
              BeginFrames(path)[i] = BeginFrames(path)[i - 1] + path[i].length
<1> DEFINE n == Len(path)
           b == BeginFrames(path)
           step == [i \in 1 .. n |-> [x \in Nat |-> x + path[i].length]]
<1>1. n \in Nat /\ \A i \in 1 .. n : path[i].length \in Nat
  BY PathWordsType
<1>2. b = [i \in 0 .. n |-> IF i = 0 THEN 0 ELSE b[i - 1] + path[i].length]
  <2>1. step \in [1 .. n -> [Nat -> Nat]]
    BY <1>1
  <2>2. PICK f : Recurs(f, n, Nat, 0, step)
    <3> HIDE DEF step, n, b
    <3>1. QED
      BY <1>1, <2>1, RecursionExists
  <2>3. ASSUME NEW i \in 1 .. n PROVE f[i] = f[i - 1] + path[i].length
    <3>1. i - 1 \in 0 .. n /\ f[i - 1] \in Nat
      BY <1>1, <2>2 DEF Recurs
    <3>2. QED
      BY <2>2, <3>1 DEF Recurs
  <2>4. f = [i \in 0 .. n |-> IF i = 0 THEN 0 ELSE f[i - 1] + path[i].length]
    BY <1>1, <2>2, <2>3 DEF Recurs
  <2>5. \E g : g = [i \in 0 .. n |-> IF i = 0 THEN 0 ELSE g[i - 1] + path[i].length]
    BY <2>4
  <2>6. QED
    BY <2>5 DEF BeginFrames
<1> HIDE DEF b, n
<1> DEFINE T == {i \in 0 .. n : \A j \in 0 .. i : b[j] \in Nat /\ b[j] <= b[i]}
<1>3. 0 \in T
  <2>1. b[0] = 0
    BY <1>1, <1>2
  <2>2. QED
    BY <1>1, <2>1
<1>4. ASSUME NEW i \in 1 .. n, i - 1 \in T PROVE i \in T
  <2>1. i \in 0 .. n /\ i # 0 /\ i \in Nat
    BY <1>1
  <2>2. b[i] = b[i - 1] + path[i].length /\ b[i - 1] \in Nat /\ path[i].length \in Nat
    <3>1. i - 1 \in 0 .. i - 1
      BY <2>1
    <3>2. QED
      BY <1>1, <1>2, <1>4, <2>1, <3>1
  <2>3. b[i] \in Nat /\ b[i - 1] <= b[i]
    BY <2>2
  <2>4. ASSUME NEW j \in 0 .. i, j # i PROVE b[j] \in Nat /\ b[j] <= b[i]
    <3>1. j \in 0 .. i - 1
      BY <1>1, <2>1, <2>4
    <3>2. b[j] \in Nat /\ b[j] <= b[i - 1]
      BY <1>4, <3>1
    <3>3. QED
      BY <2>2, <2>3, <3>2
  <2>5. QED
    BY <2>1, <2>3, <2>4
<1>5. \A i \in 0 .. n : i \in T
  <2> HIDE DEF T
  <2>1. QED
    BY <1>1, <1>3, <1>4, UpTo
<1>6. \A i \in 1 .. n : b[i] = b[i - 1] + path[i].length
  BY <1>1, <1>2
<1>7. QED
  BY <1>5, <1>6 DEF b, n

WordAlis == [text: Seq(STRING), weight: Weights]

\* The words among the first i of a path, in their order.
Found(found, path, i) ==
  /\ found \in Seq(Nat)
  /\ \A k \in 1 .. Len(found) :
       /\ found[k] \in 1 .. i /\ path[found[k]].text # <<>>
       /\ \A l \in 1 .. k - 1 : found[l] < found[k]

LEMMA FoundAppended ==
  ASSUME NEW i \in Nat \ {0}, NEW path, path[i].text # <<>>, NEW found, Found(found, path, i - 1)
  PROVE  Found(Append(found, i), path, i)
<1> DEFINE more == Append(found, i)
           n == Len(found)
<1>1. /\ n \in Nat /\ more \in Seq(Nat) /\ Len(more) = n + 1 /\ more[n + 1] = i
      /\ \A k \in 1 .. n : more[k] = found[k] /\ found[k] \in 1 .. i - 1
  BY DEF Found
<1> HIDE DEF more, n
<1>2. ASSUME NEW k \in 1 .. n + 1
      PROVE  /\ more[k] \in 1 .. i /\ path[more[k]].text # <<>>
             /\ \A l \in 1 .. k - 1 : more[l] < more[k]
  <2>1. CASE k = n + 1
    <3>1. \A l \in 1 .. k - 1 : l \in 1 .. n
      BY <1>1, <2>1
    <3>2. \A l \in 1 .. k - 1 : more[l] < i
      BY <1>1, <3>1
    <3>3. QED
      BY <1>1, <2>1, <3>2
  <2>2. CASE k # n + 1
    <3>1. k \in 1 .. n /\ \A l \in 1 .. k - 1 : l \in 1 .. n
      BY <1>1, <2>2
    <3>2. path[found[k]].text # <<>> /\ \A l \in 1 .. k - 1 : found[l] < found[k]
      BY <3>1 DEF Found, n
    <3>3. QED
      BY <1>1, <3>1, <3>2
  <2>3. QED
    BY <2>1, <2>2
<1>3. QED
  BY <1>1, <1>2 DEF Found, more

LEMMA WordsAreFound ==
  ASSUME NEW path \in Seq(PathWords)
  PROVE  Found(WordsOf(path), path, Len(path))
<1> DEFINE n == Len(path)
           step == [i \in 1 .. n |-> [x \in Seq(Nat) |->
                      IF path[i].text = <<>> THEN x ELSE Append(x, i)]]
           a == CHOOSE f : f = [i \in 0 .. n |->
                  IF i = 0 THEN <<>>
                  ELSE IF path[i].text = <<>> THEN f[i - 1] ELSE Append(f[i - 1], i)]
<1>1. n \in Nat
  OBVIOUS
<1>2. WordsOf(path) = a[n]
  BY DEF WordsOf
<1> HIDE DEF n, a
<1>3. a = [i \in 0 .. n |-> IF i = 0 THEN <<>>
                            ELSE IF path[i].text = <<>> THEN a[i - 1]
                            ELSE Append(a[i - 1], i)]
  <2>1. step \in [1 .. n -> [Seq(Nat) -> Seq(Nat)]]
    <3>1. ASSUME NEW i \in 1 .. n, NEW x \in Seq(Nat)
          PROVE  (IF path[i].text = <<>> THEN x ELSE Append(x, i)) \in Seq(Nat)
      BY <1>1
    <3>2. QED
      BY <3>1
  <2>2. PICK f : Recurs(f, n, Seq(Nat), <<>>, step)
    <3> HIDE DEF step
    <3>1. <<>> \in Seq(Nat)
      OBVIOUS
    <3>2. QED
      BY <1>1, <2>1, <3>1, RecursionExists
  <2>3. ASSUME NEW i \in 1 .. n
        PROVE f[i] = IF path[i].text = <<>> THEN f[i - 1] ELSE Append(f[i - 1], i)
    <3>1. f[i - 1] \in Seq(Nat) /\ f[i] = step[i][f[i - 1]]
      <4> HIDE DEF step
      <4>1. QED
        BY <1>1, <2>2 DEF Recurs
    <3>2. QED
      BY <3>1
  <2>4. f = [i \in 0 .. n |-> IF i = 0 THEN <<>>
                            ELSE IF path[i].text = <<>> THEN f[i - 1]
                            ELSE Append(f[i - 1], i)]
    <3> DEFINE Body(i) == IF i = 0 THEN <<>>
                          ELSE IF path[i].text = <<>> THEN f[i - 1]
                          ELSE Append(f[i - 1], i)
    <3>1. ASSUME NEW i \in 0 .. n PROVE f[i] = Body(i)
      <4> HIDE DEF step
      <4>1. CASE i = 0
        BY <2>2, <4>1 DEF Recurs
      <4>2. CASE i # 0
        <5>1. i \in 1 .. n
          BY <1>1, <4>2
        <5>2. QED
          BY <2>3, <4>2, <5>1
      <4>3. QED
        BY <4>1, <4>2
    <3> HIDE DEF Body, step
    <3>2. f = [i \in 0 .. n |-> f[i]]
      BY <2>2 DEF Recurs
    <3>3. f = [i \in 0 .. n |-> Body(i)]
      BY <3>1, <3>2
    <3>4. QED
      BY <3>3 DEF Body
  <2>5. \E g : g = [i \in 0 .. n |-> IF i = 0 THEN <<>>
                            ELSE IF path[i].text = <<>> THEN g[i - 1]
                            ELSE Append(g[i - 1], i)]
    BY <2>4
  <2>6. QED
    BY <2>5 DEF a
<1> HIDE DEF step
<1> DEFINE T == {i \in 0 .. n : Found(a[i], path, i)}
<1>4. 0 \in T
  <2>1. a[0] = <<>> /\ 0 \in 0 .. n
    BY <1>1, <1>3
  <2>2. Found(<<>>, path, 0)
    BY DEF Found
  <2>3. QED
    BY <2>1, <2>2
<1>5. ASSUME NEW i \in 1 .. n, i - 1 \in T PROVE i \in T
  <2>1. i \in 0 .. n /\ i - 1 \in 0 .. n /\ i # 0 /\ i \in Nat
    BY <1>1
  <2>2. a[i] = IF path[i].text = <<>> THEN a[i - 1] ELSE Append(a[i - 1], i)
    BY <1>3, <2>1
  <2>3. CASE path[i].text = <<>>
    BY <1>5, <2>1, <2>2, <2>3 DEF Found
  <2>4. CASE path[i].text # <<>>
    BY <1>5, <2>1, <2>2, <2>4, FoundAppended
  <2>5. QED
    BY <2>3, <2>4
<1>6. n \in T
  <2> HIDE DEF T
  <2>1. \A i \in 0 .. n : i \in T
    BY <1>1, <1>4, <1>5, UpTo
  <2>2. QED
    BY <1>1, <2>1
<1>7. QED
  BY <1>2, <1>6 DEF n

\* The paths of a call: see PathAssumption.
IsPath(path) ==
  /\ path \in Seq(PathWords)
  /\ \A i \in DOMAIN path : path[i].text # <<>> => path[i].length > 0
  /\ BeginFrames(path)[Len(path)] <= MaxAligned

LEMMA CallPaths ==
  ASSUME call \in Calls, NEW path \in call.best_paths
  PROVE  IsPath(path)
BY PathAssumption DEF IsPath, PathWords

\* A word's times are between those of its frames, but for what the conversions lose.
WordBounded(weight, first, last) ==
  /\ first \in 0 .. MaxAligned /\ last \in 0 .. MaxAligned
  /\ weight \in Weights /\ weight.start = FramesToMillis(first)
  /\ weight.start \in Nat /\ weight.end \in Nat /\ weight.start < Inf
  /\ Millis(first) \in Nat /\ Millis(last) \in Nat
  /\ Millis(first) <= weight.start + 1 /\ weight.start + 2 <= Millis(last)
  /\ Millis(first) <= weight.end /\ weight.end <= Millis(last)

LEMMA WordBounds ==
  ASSUME NEW path, IsPath(path), NEW i \in 1 .. Len(path), path[i].text # <<>>
  PROVE  WordBounded(WordWeight(path, i), BeginFrames(path)[i - 1], BeginFrames(path)[i])
<1> DEFINE first == BeginFrames(path)[i - 1]
           last == BeginFrames(path)[i]
           length == path[i].length
           f == FramesToMillis(first)
           g == FramesToMillis(length)
<1>1. path \in Seq(PathWords) /\ Len(path) \in Nat /\ i \in DOMAIN path
  BY DEF IsPath
<1>2. length \in Nat /\ length > 0
  BY <1>1, PathWordsType DEF IsPath
<1>3. /\ first \in Nat /\ last \in Nat /\ last = first + length
      /\ last <= BeginFrames(path)[Len(path)] /\ BeginFrames(path)[Len(path)] \in Nat
  <2>1. i - 1 \in 0 .. Len(path) /\ i \in 0 .. Len(path) /\ Len(path) \in 0 .. Len(path)
    BY <1>1
  <2>2. QED
    BY <1>1, <2>1, BeginsAscend
<1>4. BeginFrames(path)[Len(path)] <= MaxAligned /\ MaxAligned \in Nat
  BY TranscriptAssumption DEF IsPath
<1> DEFINE weight == WordWeight(path, i)
<1>5. weight = Weight(f, f + g)
  BY DEF WordWeight
<1> HIDE DEF first, last, length, weight
<1>6. first \in 0 .. MaxAligned /\ last \in 0 .. MaxAligned /\ length \in 0 .. MaxAligned
  BY <1>2, <1>3, <1>4
<1>7. /\ f \in Nat /\ f \in {Millis(first) - 1, Millis(first)}
      /\ g \in Nat /\ g \in {Millis(length) - 1, Millis(length)}
  BY <1>6, MillisShort
<1>8. /\ Millis(first) \in Nat /\ Millis(length) \in Nat /\ Millis(length) >= 2
      /\ Millis(last) = Millis(first) + Millis(length)
  BY <1>2, <1>3, MillisAdd
<1>9. Millis(last) < Inf
  <2>1. Millis(last) <= Millis(MaxAligned) /\ Millis(MaxAligned) \in Nat
    <3>1. last \in Nat /\ MaxAligned \in Nat /\ last <= MaxAligned
      BY <1>4, <1>6
    <3>2. QED
      BY <3>1, MillisMonotone
  <2>2. QED
    BY <1>8, <2>1, PathAssumption, InfAssumption
<1> HIDE DEF f, g
<1>10. weight.start = f /\ weight.end = f + g
  BY <1>5 DEF Weight
<1>11. /\ f + g \in Nat /\ Millis(first) <= f + 1 /\ f + 2 <= Millis(last)
       /\ Millis(first) <= f + g /\ f + g <= Millis(last) /\ f < Inf /\ f + g < Inf
  BY <1>7, <1>8, <1>9, InfAssumption
<1>12. weight \in Weights
  <2>1. f \in Values /\ f + g \in Values
    BY <1>7, <1>11, InfAssumption DEF Values
  <2>2. QED
    BY <1>5, <2>1 DEF Weight, Weights
<1>13. /\ weight.start \in Nat /\ weight.end \in Nat /\ weight.start < Inf
       /\ Millis(first) <= weight.start + 1 /\ weight.start + 2 <= Millis(last)
       /\ Millis(first) <= weight.end /\ weight.end <= Millis(last)
  BY <1>7, <1>10, <1>11
<1>14. weight.start = FramesToMillis(first)
  BY <1>10 DEF f
<1>15. WordBounded(weight, first, last)
  BY <1>6, <1>8, <1>12, <1>13, <1>14 DEF WordBounded
<1>16. QED
  BY <1>15 DEF first, last, weight

\* Words that come one after the other, at finite times.
Ordered(alis) ==
  \A i \in 1 .. Len(alis) :
    /\ alis[i].weight.start < Inf
    /\ \A j \in i .. Len(alis) : /\ alis[i].weight.start <= alis[j].weight.start
                                 /\ alis[i].weight.end <= alis[j].weight.end

\* Each begins at the time of its first frame.
BeginAt(alis, frames) ==
  /\ DOMAIN frames = DOMAIN alis
  /\ \A i \in DOMAIN alis : /\ frames[i] \in 0 .. MaxAligned
                            /\ alis[i].weight.start = FramesToMillis(frames[i])

\* GetWordAlignments: the words of a path come one after the other, although their starts
\* and ends are converted one by one and the words may overlap by a millisecond.
LEMMA PathWordsFollow ==
  ASSUME NEW path, IsPath(path)
  PROVE  /\ WordAlignments(path) \in Seq(WordAlis) /\ Ordered(WordAlignments(path))
         /\ BeginAt(WordAlignments(path), FirstFrames(path))
<1> DEFINE found == WordsOf(path)
           alis == WordAlignments(path)
           frames == FirstFrames(path)
           b == BeginFrames(path)
           n == Len(path)
<1>1. path \in Seq(PathWords) /\ n \in Nat
  BY DEF IsPath
<1>2. /\ found \in Seq(Nat) /\ Len(found) \in Nat /\ DOMAIN found = 1 .. Len(found)
      /\ \A k \in 1 .. Len(found) :
           /\ found[k] \in 1 .. n /\ path[found[k]].text # <<>>
           /\ \A l \in 1 .. k - 1 : found[l] < found[k]
  BY <1>1, WordsAreFound DEF Found
<1>3. /\ alis = [k \in DOMAIN found |->
                   [text |-> path[found[k]].text, weight |-> WordWeight(path, found[k])]]
      /\ frames = [k \in DOMAIN found |-> b[found[k] - 1]]
  BY DEF WordAlignments, FirstFrames
<1> HIDE DEF found, alis, frames, b, n
<1>4. ASSUME NEW k \in 1 .. Len(found)
      PROVE  /\ alis[k].text = path[found[k]].text /\ alis[k].weight = WordWeight(path, found[k])
             /\ frames[k] = b[found[k] - 1]
             /\ b[found[k] - 1] \in 0 .. MaxAligned /\ b[found[k]] \in 0 .. MaxAligned
             /\ alis[k].weight \in Weights
             /\ alis[k].weight.start = FramesToMillis(b[found[k] - 1])
             /\ alis[k].weight.start \in Nat /\ alis[k].weight.end \in Nat
             /\ alis[k].weight.start < Inf
             /\ Millis(b[found[k] - 1]) \in Nat /\ Millis(b[found[k]]) \in Nat
             /\ Millis(b[found[k] - 1]) <= alis[k].weight.start + 1
             /\ alis[k].weight.start + 2 <= Millis(b[found[k]])
             /\ Millis(b[found[k] - 1]) <= alis[k].weight.end
             /\ alis[k].weight.end <= Millis(b[found[k]])
  <2>1. /\ alis[k].text = path[found[k]].text /\ alis[k].weight = WordWeight(path, found[k])
        /\ frames[k] = b[found[k] - 1] /\ found[k] \in 1 .. Len(path)
        /\ path[found[k]].text # <<>>
    BY <1>2, <1>3 DEF n
  <2>2. QED
    <3>1. WordBounded(alis[k].weight, b[found[k] - 1], b[found[k]])
      BY <2>1, WordBounds DEF b
    <3>2. QED
      BY <2>1, <3>1 DEF WordBounded
<1>5. DOMAIN alis = 1 .. Len(found) /\ DOMAIN frames = 1 .. Len(found)
  BY <1>2, <1>3
<1>6. alis \in Seq(WordAlis) /\ Len(alis) = Len(found)
  <2>1. ASSUME NEW k \in 1 .. Len(found) PROVE alis[k] \in WordAlis
    <3>1. path[found[k]].text \in Seq(STRING)
      BY <1>1, <1>2, PathWordsType DEF n
    <3>2. alis[k] = [text |-> path[found[k]].text, weight |-> WordWeight(path, found[k])]
      BY <1>2, <1>3
    <3>3. WordWeight(path, found[k]) \in Weights
      BY <1>4
    <3>4. QED
      BY <3>1, <3>2, <3>3 DEF WordAlis
  <2>2. alis = [k \in 1 .. Len(found) |-> alis[k]]
    BY <1>2, <1>3
  <2>3. QED
    BY <1>2, <2>1, <2>2
<1>7. BeginAt(alis, frames)
  BY <1>4, <1>5 DEF BeginAt
<1>8. ASSUME NEW k \in 1 .. Len(found), NEW l \in k .. Len(found)
      PROVE  /\ alis[k].weight.start <= alis[l].weight.start
             /\ alis[k].weight.end <= alis[l].weight.end
  <2>1. CASE k = l
    BY <1>4, <2>1
  <2>2. CASE k # l
    <3>1. l \in 1 .. Len(found) /\ k \in 1 .. l - 1
      BY <1>2, <2>2
    <3>2. found[k] < found[l] /\ found[k] \in 1 .. n /\ found[l] \in 1 .. n
      BY <1>2, <3>1
    <3>3. found[k] \in 0 .. found[l] - 1 /\ found[l] - 1 \in 0 .. n
      BY <1>1, <3>2
    <3>4. b[found[k]] <= b[found[l] - 1]
      BY <1>1, <3>3, BeginsAscend DEF b, n
    <3>5. b[found[k]] \in Nat /\ b[found[l] - 1] \in Nat
      BY <1>4, <3>1
    <3>6. Millis(b[found[k]]) <= Millis(b[found[l] - 1])
      BY <3>4, <3>5, MillisMonotone
    <3> DEFINE s1 == alis[k].weight.start
               s2 == alis[l].weight.start
               e1 == alis[k].weight.end
               e2 == alis[l].weight.end
               m1 == Millis(b[found[k]])
               m2 == Millis(b[found[l] - 1])
    <3>7. /\ s1 \in Nat /\ s2 \in Nat /\ e1 \in Nat /\ e2 \in Nat /\ m1 \in Nat /\ m2 \in Nat
          /\ m1 <= m2 /\ s1 + 2 <= m1 /\ m2 <= s2 + 1 /\ e1 <= m1 /\ m2 <= e2
      BY <1>4, <3>1, <3>6
    <3> HIDE DEF s1, s2, e1, e2, m1, m2
    <3>8. s1 <= s2 /\ e1 <= e2
      BY <3>7
    <3>9. QED
      BY <3>8 DEF s1, s2, e1, e2
  <2>3. QED
    BY <2>1, <2>2
<1>9. Ordered(alis)
  BY <1>4, <1>6, <1>8 DEF Ordered
<1>10. QED
  BY <1>6, <1>7, <1>9 DEF alis, frames
-------------------------------------------------------------------------------
\* The invariant

InOrder ==
  /\ words \in Seq(Weights)
  /\ \A i \in 1 .. Len(words) :
       /\ words[i].start < Inf
       /\ \A j \in i .. Len(words) : /\ words[i].start <= words[j].start
                                     /\ words[i].end <= words[j].end

ConvertTyped ==
  /\ word_alis \in Seq(WordAlis) /\ current_ali \in Seq(STRING) /\ current_weight \in Weights
  /\ last_ali_missing_time \in BOOLEAN /\ last_taken \in Seq(Nat)

ConvertTypes ==
  /\ ConvertTyped
  /\ n_taken \in 0 .. Len(words) /\ first_missed \in Nat
  /\ Len(last_taken) = Len(word_alis)
  /\ place \in {"off", "before", "within", "late"}
  /\ place \in {"within", "late"} => n_taken < Len(words)

\* The last recognized word of those put out so far.
Upto == IF last_taken = <<>> THEN 0 ELSE last_taken[Len(last_taken)]

\* The time from the start of one recognized word to the end of another.
Span(i, j) == Weight(words[i].start, words[j].end)

\* What Convert() holds, as long as it could time all words.
Held ==
  first_missed = 0 =>
    /\ place \in {"off", "before", "within"} =>
         /\ ~last_ali_missing_time
         /\ Upto <= n_taken
         /\ current_weight = IF Upto = n_taken THEN One ELSE Span(Upto + 1, n_taken)
    /\ place = "late" =>
         /\ last_ali_missing_time /\ current_weight = One
         /\ word_alis # <<>>
         /\ FirstOf(Len(word_alis)) = n_taken + 1 /\ LastOf(Len(word_alis)) = n_taken + 1

\* From the first word that it could not time on, it does not change the ones before.
Missed ==
  first_missed # 0 => /\ first_missed <= n_taken + 1
                      /\ word_alis # <<>> /\ first_missed <= LastOf(Len(word_alis))

Timed(i) ==
  /\ FirstOf(i) \in 1 .. Len(words) /\ LastOf(i) \in 1 .. Len(words)
  /\ FirstOf(i) <= LastOf(i)
  /\ word_alis[i].weight = Span(FirstOf(i), LastOf(i))

AllTimed ==
  \A i \in 1 .. Len(word_alis) :
    (i < Len(word_alis) \/ place # "late") /\ BeforeMissed(i) => Timed(i)

\* Nothing has been formatted yet.
Fresh ==
  /\ place = "off" => /\ words = <<>> /\ n_taken = 0 /\ word_alis = <<>> /\ last_taken = <<>>
                      /\ first_missed = 0
  /\ stage \in {"diarize", "paths"} => place = "off"
  /\ call \in Calls

FInv == InOrder /\ ConvertTypes /\ Held /\ Missed /\ AllTimed /\ Fresh
-------------------------------------------------------------------------------
\* The weights

LEMMA SpanIsTimed ==
  ASSUME InOrder, NEW i \in 1 .. Len(words), NEW j \in i .. Len(words)
  PROVE  /\ Span(i, j) \in Weights /\ Span(i, j) # One
         /\ Span(j, j) = words[j]
<1>1. j \in 1 .. Len(words)
  BY DEF InOrder
<1>2. words[i] \in Weights /\ words[j] \in Weights
  BY <1>1 DEF InOrder
<1>3. words[i].start < Inf /\ words[i].start \in Values /\ words[j].end \in Values
  BY <1>2 DEF InOrder, Weights
<1>4. Span(i, j) \in Weights
  BY <1>3 DEF Span, Weight, Weights
<1>5. Span(i, j).start = words[i].start /\ One.start = Inf
  BY DEF Span, One, Weight, MaxMinOne
<1>6. Span(i, j) # One
  BY <1>3, <1>5, InfAssumption DEF Values
<1>7. Span(j, j) = words[j]
  BY <1>2 DEF Span, Weight, Weights
<1>8. QED
  BY <1>4, <1>6, <1>7

\* The weight of the next word widens a span to it.
LEMMA TimesWidens ==
  ASSUME InOrder, NEW i \in 1 .. Len(words), NEW j \in i .. Len(words), NEW k \in j .. Len(words)
  PROVE  Times(Span(i, j), words[k]) = Span(i, k)
<1>1. j \in 1 .. Len(words) /\ k \in 1 .. Len(words) /\ k \in i .. Len(words)
  BY DEF InOrder
<1>2. /\ words[i].start \in Int /\ words[k].start \in Int
      /\ words[j].end \in Int /\ words[k].end \in Int
  <2>1. words[i] \in Weights /\ words[j] \in Weights /\ words[k] \in Weights
    BY <1>1 DEF InOrder
  <2>2. Values \subseteq Int
    BY InfAssumption DEF Values
  <2>3. QED
    BY <2>1, <2>2 DEF Weights
<1>3. words[i].start <= words[k].start /\ words[j].end <= words[k].end
  BY <1>1 DEF InOrder
<1>4. Span(i, j).start = words[i].start /\ Span(i, j).end = words[j].end
  BY DEF Span, Weight
<1>5. /\ MaxMinTimes(Span(i, j).start, words[k].start) = words[i].start
      /\ MinMaxTimes(Span(i, j).end, words[k].end) = words[k].end
  BY <1>2, <1>3, <1>4 DEF MaxMinTimes, MinMaxTimes
<1>6. QED
  BY <1>5 DEF Times, Span

\* With the weight of the next word Convert() holds all words since the last one put out.
LEMMA NextAccumulates ==
  ASSUME FInv, first_missed = 0, place \in {"before", "within"}, n_taken < Len(words)
  PROVE  /\ Upto \in 0 .. n_taken
         /\ Accumulated(words[n_taken + 1]) = Span(Upto + 1, n_taken + 1)
         /\ Span(Upto + 1, n_taken + 1) # One
<1> USE DEF FInv
<1>1. n_taken \in Nat /\ Upto \in 0 .. n_taken /\ Len(words) \in Nat
  BY DEF ConvertTypes, ConvertTyped, Held, Upto, InOrder
<1> DEFINE n == n_taken + 1
           u == Upto + 1
<1>2. n \in 1 .. Len(words) /\ u \in 1 .. Len(words) /\ n \in u .. Len(words)
  BY <1>1
<1>3. words[n] = Span(n, n) /\ words[n] # One /\ Span(u, n) # One
  BY <1>2, SpanIsTimed
<1>4. CASE Upto = n_taken
  BY <1>1, <1>3, <1>4 DEF Held, Accumulated
<1>5. CASE Upto # n_taken
  <2>1. current_weight = Span(u, n_taken)
    BY <1>5 DEF Held
  <2>2. n_taken \in u .. Len(words) /\ n \in n_taken .. Len(words)
    BY <1>1, <1>2, <1>5
  <2>3. current_weight # One
    BY <1>2, <2>1, <2>2, SpanIsTimed
  <2>4. Times(current_weight, words[n]) = Span(u, n)
    BY <1>2, <2>1, <2>2, TimesWidens
  <2>5. QED
    BY <1>1, <1>3, <2>3, <2>4 DEF Accumulated
<1>6. QED
  BY <1>4, <1>5
-------------------------------------------------------------------------------
\* The steps of the path

\* The types of Convert(), whatever it is given.
LEMMA AccumulatedType ==
  ASSUME ConvertTyped, NEW weight \in Weights
  PROVE  Accumulated(weight) \in Weights
<1>1. current_weight \in Weights
  BY DEF ConvertTyped
<1>2. Times(current_weight, weight) \in Weights
  BY <1>1, SemiringLaws
<1>3. QED
  BY <1>1, <1>2 DEF Accumulated

LEMMA ConvertTextType ==
  ASSUME ConvertTyped, NEW weight \in Weights, NEW text \in Seq(STRING),
         ConvertText(weight, text)
  PROVE  ConvertTyped' /\ Len(word_alis') = Len(word_alis) /\ last_taken' = last_taken
<1>1. Accumulated(weight) \in Weights
  BY AccumulatedType
<1>2. current_ali' \in Seq(STRING) /\ last_taken' = last_taken
  BY DEF ConvertText, ConvertTyped
<1>3. CASE last_ali_missing_time /\ Accumulated(weight) # One
  <2> DEFINE k == Len(word_alis)
             timed == [word_alis[k] EXCEPT !.weight = Accumulated(weight)]
  <2>1. word_alis' = [word_alis EXCEPT ![k] = timed] /\ current_weight' = One
        /\ last_ali_missing_time' = FALSE
    BY <1>3 DEF ConvertText
  <2>2. word_alis' \in Seq(WordAlis) /\ Len(word_alis') = k
    <3>1. CASE k \in DOMAIN word_alis
      <4>1. word_alis[k] \in WordAlis
        BY <3>1 DEF ConvertTyped
      <4>2. timed \in WordAlis
        BY <1>1, <4>1 DEF WordAlis
      <4> HIDE DEF timed
      <4>3. QED
        BY <2>1, <3>1, <4>2 DEF ConvertTyped
    <3>2. CASE k \notin DOMAIN word_alis
      <4> HIDE DEF timed
      <4>1. word_alis' = word_alis
        BY <2>1, <3>2 DEF ConvertTyped
      <4>2. QED
        BY <4>1 DEF ConvertTyped
    <3>3. QED
      BY <3>1, <3>2
  <2>3. QED
    BY <1>2, <2>1, <2>2, ZeroAndOne DEF ConvertTyped
<1>4. CASE ~(last_ali_missing_time /\ Accumulated(weight) # One)
  BY <1>1, <1>2, <1>4 DEF ConvertText, ConvertTyped
<1>5. QED
  BY <1>3, <1>4

LEMMA ConvertSpaceType ==
  ASSUME ConvertTyped, NEW weight \in Weights, NEW upto \in Nat, ConvertSpace(weight, upto)
  PROVE  /\ ConvertTyped'
         /\ Len(word_alis') = Len(word_alis) + 1 /\ Len(last_taken') = Len(last_taken) + 1
<1>1. Accumulated(weight) \in Weights
  BY AccumulatedType
<1>2. [text |-> current_ali, weight |-> Accumulated(weight)] \in WordAlis
  BY <1>1 DEF ConvertTyped, WordAlis
<1>3. /\ word_alis' \in Seq(WordAlis) /\ last_taken' \in Seq(Nat)
      /\ Len(word_alis') = Len(word_alis) + 1 /\ Len(last_taken') = Len(last_taken) + 1
  BY <1>2 DEF ConvertSpace, ConvertTyped
<1>4. last_ali_missing_time' \in BOOLEAN
  BY DEF ConvertSpace
<1>5. QED
  BY <1>3, <1>4, ZeroAndOne DEF ConvertSpace, ConvertTyped

\* What every step of the path does to the words that were put out before.
LEMMA StepTypes ==
  ASSUME FInv, Format
  PROVE  InOrder' /\ ConvertTypes' /\ words' = words /\ place' # "off"
<1> USE DEF FInv
<1>0. /\ ConvertTyped /\ n_taken \in Nat /\ Len(words) \in Nat /\ first_missed \in Nat
      /\ words \in Seq(Weights) /\ Len(last_taken) = Len(word_alis) /\ <<>> \in Seq(STRING)
  BY DEF ConvertTypes, InOrder
<1>1. ASSUME NEW text \in Texts, TakeBytes(text) \/ PutText(text)
      PROVE  ConvertTypes' /\ words' = words /\ place' # "off"
  <2>1. /\ place' = "within" /\ n_taken < Len(words) /\ UNCHANGED <<words, n_taken>>
        /\ ConvertText(One, text) /\ first_missed' \in Nat
    BY <1>0, <1>1 DEF TakeBytes, PutText, ConvertTypes, Misses
  <2>2. ConvertTyped' /\ Len(word_alis') = Len(word_alis) /\ last_taken' = last_taken
    BY <1>0, <2>1, ConvertTextType, ZeroAndOne, FormatterAssumption
  <2>3. QED
    BY <1>0, <2>1, <2>2 DEF ConvertTypes
<1>2. ASSUME PutSpace
      PROVE  ConvertTypes' /\ words' = words /\ place' # "off"
  <2>1. /\ place' = "late" /\ n_taken < Len(words) /\ UNCHANGED <<words, n_taken>>
        /\ ConvertSpace(One, n_taken + 1) /\ first_missed' \in Nat
    BY <1>0, <1>2 DEF PutSpace, ConvertTypes, Misses
  <2>2. /\ ConvertTyped'
        /\ Len(word_alis') = Len(word_alis) + 1 /\ Len(last_taken') = Len(last_taken) + 1
    BY <1>0, <2>1, ConvertSpaceType, ZeroAndOne
  <2>3. Len(last_taken') = Len(word_alis')
    BY <1>0, <2>2
  <2>4. n_taken' \in 0 .. Len(words') /\ n_taken' < Len(words') /\ words' = words
    BY <1>0, <2>1
  <2>5. QED
    BY <2>1, <2>2, <2>3, <2>4 DEF ConvertTypes
<1>3. ASSUME TakeSpace \/ DropSpace
      PROVE  ConvertTypes' /\ words' = words /\ place' # "off"
  <2>1. /\ place' = "before" /\ n_taken < Len(words) /\ words' = words /\ n_taken' = n_taken + 1
        /\ \/ ConvertSpace(words[n_taken + 1], n_taken + 1)
           \/ ConvertText(words[n_taken + 1], <<>>)
        /\ first_missed' \in Nat
    BY <1>0, <1>3 DEF TakeSpace, DropSpace, ConvertTypes, Misses
  <2>2. n_taken + 1 \in 1 .. Len(words) /\ n_taken + 1 \in Nat
    BY <1>0, <2>1
  <2>3. words[n_taken + 1] \in Weights
    BY <1>0, <2>2
  <2>4. ConvertTyped' /\ Len(last_taken') = Len(word_alis')
    BY <1>0, <2>1, <2>2, <2>3, ConvertSpaceType, ConvertTextType
  <2>5. n_taken' \in 0 .. Len(words')
    BY <1>0, <2>1, <2>2
  <2>6. QED
    BY <2>1, <2>4, <2>5 DEF ConvertTypes
<1>4. ConvertTypes' /\ words' = words /\ place' # "off"
  BY <1>1, <1>2, <1>3 DEF Format
<1>5. InOrder'
  BY <1>4 DEF InOrder
<1>6. QED
  BY <1>4, <1>5

\* Text without a weight changes nothing that matters.
LEMMA TextKeeps ==
  ASSUME FInv, first_missed = 0, place \in {"before", "within"}, NEW text, ConvertText(One, text)
  PROVE  UNCHANGED <<word_alis, last_taken, last_ali_missing_time, current_weight>>
<1>1. ~last_ali_missing_time
  BY DEF FInv, Held
<1>2. Accumulated(One) = current_weight
  BY DEF Accumulated
<1>3. QED
  BY <1>1, <1>2 DEF ConvertText

LEMMA BytesTaken ==
  ASSUME FInv, NEW text \in Texts, TakeBytes(text), first_missed' = 0
  PROVE  Held' /\ AllTimed'
<1> USE DEF FInv
<1>1. /\ place = "before" /\ place' = "within" /\ n_taken < Len(words) /\ first_missed = 0
      /\ UNCHANGED <<words, n_taken>> /\ ConvertText(One, text)
  BY DEF TakeBytes
<1>2. UNCHANGED <<word_alis, last_taken, last_ali_missing_time, current_weight>>
  BY <1>1, TextKeeps
<1>3. Upto' = Upto /\ \A i, j : Span(i, j)' = Span(i, j)
  BY <1>1, <1>2 DEF Upto, Span
<1>4. Held'
  BY <1>1, <1>2, <1>3 DEF Held
<1>5. AllTimed'
  BY <1>1, <1>2 DEF AllTimed, BeforeMissed, Timed, FirstOf, LastOf, Span
<1>6. QED
  BY <1>4, <1>5

\* A word that is put out after the one before.
LEMMA Appended ==
  ASSUME FInv, first_missed = 0, place = "within", NEW weight, NEW k \in Nat, k = Len(word_alis),
         UNCHANGED words,
         last_taken' = Append(last_taken, n_taken + 1),
         word_alis' = Append(word_alis, [text |-> current_ali, weight |-> weight])
  PROVE  /\ Len(word_alis') = k + 1 /\ Len(last_taken') = k + 1
         /\ Upto' = n_taken + 1
         /\ FirstOf(k + 1)' = Upto + 1 /\ LastOf(k + 1)' = n_taken + 1
         /\ word_alis'[k + 1].weight = weight
         /\ \A i \in 1 .. k : Timed(i)'
<1> USE DEF FInv
<1>1. /\ word_alis \in Seq(WordAlis) /\ last_taken \in Seq(Nat)
      /\ Len(last_taken) = k /\ k \in Nat
  BY DEF ConvertTypes, ConvertTyped
<1>2. /\ Len(word_alis') = k + 1 /\ Len(last_taken') = k + 1
      /\ last_taken'[k + 1] = n_taken + 1 /\ word_alis'[k + 1].weight = weight
      /\ \A i \in 1 .. k : last_taken'[i] = last_taken[i] /\ word_alis'[i] = word_alis[i]
  BY <1>1
<1>3. Upto' = n_taken + 1
  BY <1>1, <1>2 DEF Upto
<1>4. FirstOf(k + 1)' = Upto + 1 /\ LastOf(k + 1)' = n_taken + 1
  <2>1. CASE k = 0
    BY <1>1, <1>2, <2>1 DEF FirstOf, LastOf, Upto
  <2>2. CASE k > 0
    <3>1. last_taken # <<>> /\ k \in 1 .. k /\ k + 1 # 1 /\ (k + 1) - 1 = k
      BY <1>1, <2>2
    <3>2. QED
      BY <1>1, <1>2, <3>1 DEF FirstOf, LastOf, Upto
  <2>3. QED
    BY <1>1, <2>1, <2>2
<1>5. ASSUME NEW i \in 1 .. k PROVE Timed(i)'
  <2>1. Timed(i)
    BY <1>5 DEF AllTimed, BeforeMissed
  <2>2. i # 1 => i - 1 \in 1 .. k
    BY <1>1, <1>5
  <2>3. FirstOf(i)' = FirstOf(i) /\ LastOf(i)' = LastOf(i)
    BY <1>2, <1>5, <2>2 DEF FirstOf, LastOf
  <2>4. QED
    BY <1>2, <1>5, <2>1, <2>3 DEF Timed, Span
<1>6. QED
  BY <1>2, <1>3, <1>4, <1>5

LEMMA SpaceTaken ==
  ASSUME FInv, TakeSpace, first_missed' = 0
  PROVE  Held' /\ AllTimed'
<1> USE DEF FInv
<1> DEFINE n == n_taken + 1
           weight == Accumulated(words[n])
<1>1. /\ place' = "before" /\ n_taken' = n /\ UNCHANGED words
      /\ word_alis' = Append(word_alis, [text |-> current_ali, weight |-> weight])
      /\ last_taken' = Append(last_taken, n) /\ current_ali' = <<>> /\ current_weight' = One
      /\ last_ali_missing_time' = (last_ali_missing_time \/ weight = One)
  BY DEF TakeSpace, ConvertSpace
<1>2. n_taken \in Nat /\ n_taken < Len(words) /\ n \in 1 .. Len(words)
  BY DEF ConvertTypes, InOrder, TakeSpace
<1>3. place = "within" /\ first_missed = 0
  BY <1>2 DEF TakeSpace, Misses
<1>4. ~last_ali_missing_time
  BY <1>3 DEF Held
<1>5. Upto \in 0 .. n_taken /\ weight = Span(Upto + 1, n) /\ weight # One
  BY <1>2, <1>3, NextAccumulates
<1> HIDE DEF weight
<1>6. PICK k \in Nat : k = Len(word_alis)
  BY DEF ConvertTypes, ConvertTyped
<1>7. /\ Len(word_alis') = k + 1 /\ Len(last_taken') = k + 1 /\ Upto' = n
      /\ FirstOf(k + 1)' = Upto + 1 /\ LastOf(k + 1)' = n
      /\ word_alis'[k + 1].weight = weight
      /\ \A i \in 1 .. k : Timed(i)'
  BY <1>1, <1>3, <1>6, Appended
<1>8. Held'
  <2>1. ~last_ali_missing_time'
    BY <1>1, <1>4, <1>5
  <2>2. Upto' <= n_taken' /\ Upto' = n_taken'
    BY <1>1, <1>2, <1>7
  <2>3. QED
    BY <1>1, <2>1, <2>2 DEF Held
<1>9. Timed(k + 1)'
  BY <1>1, <1>2, <1>5, <1>7 DEF Timed, Span
<1>10. AllTimed'
  BY <1>7, <1>9 DEF AllTimed
<1>11. QED
  BY <1>8, <1>10

LEMMA SpacePut ==
  ASSUME FInv, PutSpace, first_missed' = 0
  PROVE  Held' /\ AllTimed'
<1> USE DEF FInv
<1> DEFINE n == n_taken + 1
<1>1. /\ place' = "late" /\ UNCHANGED <<words, n_taken>>
      /\ last_taken' = Append(last_taken, n) /\ current_ali' = <<>> /\ current_weight' = One
  BY DEF PutSpace, ConvertSpace
<1>2. n_taken \in Nat /\ n_taken < Len(words) /\ n \in 1 .. Len(words)
  BY DEF ConvertTypes, InOrder, PutSpace
<1>3. place = "within" /\ first_missed = 0 /\ current_weight = One
  BY <1>2 DEF PutSpace, Misses
<1>4. /\ word_alis' = Append(word_alis, [text |-> current_ali, weight |-> One])
      /\ last_ali_missing_time' = TRUE
  BY <1>3 DEF PutSpace, ConvertSpace, Accumulated
<1>5. Upto = n_taken
  <2>1. ASSUME Upto # n_taken PROVE FALSE
    <3>1. Upto \in 0 .. n_taken /\ current_weight = Span(Upto + 1, n_taken)
      BY <1>2, <1>3, <2>1, NextAccumulates DEF Held
    <3>2. Upto + 1 \in 1 .. Len(words) /\ n_taken \in Upto + 1 .. Len(words)
      BY <1>2, <2>1, <3>1
    <3>3. QED
      BY <1>3, <3>1, <3>2, SpanIsTimed
  <2>2. QED
    BY <2>1
<1>6. PICK k \in Nat : k = Len(word_alis)
  BY DEF ConvertTypes, ConvertTyped
<1>7. /\ Len(word_alis') = k + 1 /\ Len(last_taken') = k + 1
      /\ FirstOf(k + 1)' = Upto + 1 /\ LastOf(k + 1)' = n
      /\ \A i \in 1 .. k : Timed(i)'
  BY <1>1, <1>3, <1>4, <1>6, Appended
<1>8. Held'
  BY <1>1, <1>2, <1>4, <1>5, <1>7 DEF Held
<1>9. AllTimed'
  BY <1>1, <1>7 DEF AllTimed
<1>10. QED
  BY <1>8, <1>9

\* A weight that arrives late is that of the word which waits for it, and one that arrives
\* within a word is held for it.
LEMMA SpaceDropped ==
  ASSUME FInv, DropSpace, first_missed' = 0
  PROVE  Held' /\ AllTimed'
<1> USE DEF FInv
<1> DEFINE n == n_taken + 1
           weight == Accumulated(words[n])
<1>1. /\ place \in {"within", "late"} /\ place' = "before" /\ n_taken' = n /\ first_missed = 0
      /\ UNCHANGED <<words, last_taken>> /\ ConvertText(words[n], <<>>)
  BY DEF DropSpace, ConvertText
<1>2. n_taken \in Nat /\ n_taken < Len(words) /\ n \in 1 .. Len(words)
  BY <1>1 DEF ConvertTypes, InOrder
<1>3. CASE place = "within"
  <2>1. /\ ~last_ali_missing_time /\ Upto \in 0 .. n_taken
        /\ weight = Span(Upto + 1, n) /\ weight # One
    BY <1>1, <1>2, <1>3, NextAccumulates DEF Held
  <2>2. UNCHANGED <<word_alis, last_ali_missing_time>> /\ current_weight' = weight
    BY <1>1, <2>1 DEF ConvertText
  <2>3. Upto' = Upto /\ Span(Upto + 1, n) = Weight(words'[Upto' + 1].start, words'[n_taken'].end)
    BY <1>1 DEF Upto, Span
  <2>4. Held'
    BY <1>1, <1>2, <2>1, <2>2, <2>3 DEF Held, Span
  <2>5. AllTimed'
    BY <1>1, <1>3, <2>2 DEF AllTimed, BeforeMissed, Timed, FirstOf, LastOf, Span
  <2>6. QED
    BY <2>4, <2>5
<1>4. CASE place = "late"
  <2>1. /\ last_ali_missing_time /\ current_weight = One /\ word_alis # <<>>
        /\ FirstOf(Len(word_alis)) = n /\ LastOf(Len(word_alis)) = n
    BY <1>1, <1>4 DEF Held
  <2>2. PICK k \in Nat : k = Len(word_alis) /\ k > 0
    BY <2>1 DEF ConvertTypes, ConvertTyped
  <2>3. words[n] = Span(n, n) /\ words[n] # One /\ words[n] \in Weights
    BY <1>2, SpanIsTimed DEF InOrder
  <2>4. Accumulated(words[n]) = words[n]
    BY <2>1, <2>3 DEF Accumulated
  <2>5. /\ word_alis' = [word_alis EXCEPT ![k].weight = words[n]]
        /\ current_weight' = One /\ last_ali_missing_time' = FALSE
    BY <1>1, <2>1, <2>2, <2>3, <2>4 DEF ConvertText
  <2> DEFINE timed == [word_alis[k] EXCEPT !.weight = words[n]]
  <2>6. word_alis \in Seq(WordAlis) /\ Len(word_alis) = k /\ k \in 1 .. k
    BY <2>2 DEF ConvertTypes, ConvertTyped
  <2>7. /\ Len(word_alis') = k /\ word_alis'[k].weight = words[n]
        /\ \A i \in 1 .. k - 1 : word_alis'[i] = word_alis[i]
    <3>1. word_alis[k] \in WordAlis
      BY <2>6
    <3>2. timed \in WordAlis /\ timed.weight = words[n]
      BY <2>3, <3>1 DEF WordAlis
    <3>3. word_alis' = [word_alis EXCEPT ![k] = timed]
      BY <2>5
    <3> HIDE DEF timed
    <3>4. QED
      BY <2>6, <3>2, <3>3
  <2>8. Upto' = n
    BY <1>1, <2>1, <2>2 DEF Upto, LastOf, ConvertTypes
  <2>9. Held'
    BY <1>1, <1>2, <2>5, <2>8 DEF Held
  <2>10. ASSUME NEW i \in 1 .. k PROVE Timed(i)'
    <3>1. FirstOf(i)' = FirstOf(i) /\ LastOf(i)' = LastOf(i)
      BY <1>1 DEF FirstOf, LastOf
    <3>2. CASE i = k
      BY <1>1, <1>2, <2>1, <2>2, <2>3, <2>7, <3>1, <3>2 DEF Timed, Span
    <3>3. CASE i # k
      <4>1. Timed(i) /\ i \in 1 .. k - 1
        BY <1>1, <2>2, <2>10, <3>3 DEF AllTimed, BeforeMissed
      <4>2. QED
        BY <1>1, <2>7, <3>1, <4>1 DEF Timed, Span
    <3>4. QED
      BY <3>2, <3>3
  <2>11. AllTimed'
    BY <2>7, <2>10 DEF AllTimed
  <2>12. QED
    BY <2>9, <2>11
<1>5. QED
  BY <1>1, <1>3, <1>4

\* Words that are not put out last keep their times, and the last one is not before the
\* first that Convert() cannot time.
LEMMA MissedStep ==
  ASSUME FInv, Format, first_missed' # 0
  PROVE  Held' /\ Missed' /\ AllTimed'
<1> USE DEF FInv
<1> DEFINE k == Len(word_alis)
<1>1. /\ word_alis \in Seq(WordAlis) /\ last_taken \in Seq(Nat) /\ Len(last_taken) = k /\ k \in Nat
      /\ n_taken \in Nat /\ first_missed \in Nat
      /\ place \in {"within", "late"} => n_taken < Len(words)
  BY DEF ConvertTypes, ConvertTyped, InOrder
<1>2. words' = words /\ Len(last_taken') = Len(word_alis') /\ first_missed' \in Nat
  BY StepTypes DEF ConvertTypes
<1>3. /\ n_taken' \in {n_taken, n_taken + 1}
      /\ \/ first_missed' = first_missed
         \/ first_missed = 0 /\ first_missed' = n_taken + 1 /\ place \in {"within", "late"}
  BY DEF Format, TakeBytes, PutText, PutSpace, TakeSpace, DropSpace, Misses
<1>4. first_missed' <= n_taken + 1 /\ first_missed' <= n_taken' + 1
  BY <1>1, <1>3 DEF Missed
<1>5. ASSUME first_missed # 0 \/ place = "late"
      PROVE  word_alis # <<>> /\ first_missed' <= LastOf(k)
  <2>1. CASE first_missed # 0
    BY <1>3, <2>1 DEF Missed
  <2>2. CASE first_missed = 0
    <3>1. word_alis # <<>> /\ LastOf(k) = n_taken + 1
      BY <1>5, <2>2 DEF Held
    <3>2. QED
      BY <1>4, <3>1
  <2>3. QED
    BY <2>1, <2>2
<1>6. ASSUME NEW i \in 1 .. k, LastOf(i) < first_missed' PROVE Timed(i)
  <2>1. BeforeMissed(i)
    BY <1>3, <1>6 DEF BeforeMissed
  <2>2. LastOf(i) \in Nat /\ LastOf(k) \in Nat
    BY <1>1, <1>6 DEF LastOf
  <2>3. first_missed # 0 \/ place = "late" => i # k
    BY <1>2, <1>5, <1>6, <2>2
  <2>4. i < k \/ place # "late"
    BY <1>1, <2>3
  <2>5. QED
    BY <1>6, <2>1, <2>4 DEF AllTimed
<1>7. Held'
  BY DEF Held
\* What is needed of both kinds of steps
<1>8. ASSUME NEW m \in {k, k + 1}, Len(word_alis') = m, m > 0,
             first_missed' <= last_taken'[m],
             \A i \in 1 .. m : last_taken'[i] = last_taken[i] \/ i > k,
             \A i \in 1 .. k : word_alis'[i] = word_alis[i] \/ ~(LastOf(i) < first_missed'),
             m = k + 1 => ~(last_taken'[m] < first_missed')
      PROVE  Missed' /\ AllTimed'
  <2>1. Missed'
    <3>1. word_alis' # <<>>
      BY <1>1, <1>8
    <3>2. QED
      BY <1>4, <1>8, <3>1 DEF Missed, LastOf
  <2>2. ASSUME NEW i \in 1 .. m, BeforeMissed(i)' PROVE Timed(i)'
    <3>1. LastOf(i)' < first_missed' /\ LastOf(i)' = last_taken'[i]
      BY <2>2 DEF BeforeMissed, LastOf
    <3>2. i \in 1 .. k
      BY <1>1, <1>8, <2>2, <3>1
    <3>3. LastOf(i)' = LastOf(i) /\ FirstOf(i)' = FirstOf(i)
      <4>1. i # 1 => i - 1 \in 1 .. m /\ i - 1 <= k
        BY <1>1, <1>8, <3>2
      <4>2. ~(i > k) /\ (i # 1 => ~(i - 1 > k))
        BY <1>1, <3>2
      <4>3. last_taken'[i] = last_taken[i] /\ (i # 1 => last_taken'[i - 1] = last_taken[i - 1])
        BY <1>8, <2>2, <4>1, <4>2
      <4>4. QED
        BY <4>3 DEF LastOf, FirstOf
    <3>4. Timed(i) /\ word_alis'[i] = word_alis[i]
      BY <1>6, <1>8, <3>1, <3>2, <3>3
    <3>5. QED
      BY <1>2, <3>3, <3>4 DEF Timed, Span
  <2>3. AllTimed'
    BY <1>8, <2>2 DEF AllTimed
  <2>4. QED
    BY <2>1, <2>3
<1>9. CASE \E weight : ConvertSpace(weight, n_taken + 1)
  <2>1. PICK weight : ConvertSpace(weight, n_taken + 1)
    BY <1>9
  <2> DEFINE word == [text |-> current_ali, weight |-> Accumulated(weight)]
  <2>2. /\ word_alis' = Append(word_alis, word) /\ last_taken' = Append(last_taken, n_taken + 1)
    BY <2>1 DEF ConvertSpace
  <2> HIDE DEF word
  <2>3. /\ Len(word_alis') = k + 1 /\ last_taken'[k + 1] = n_taken + 1
        /\ \A i \in 1 .. k : word_alis'[i] = word_alis[i] /\ last_taken'[i] = last_taken[i]
    BY <1>1, <2>2
  <2>4. first_missed' <= last_taken'[k + 1] /\ ~(last_taken'[k + 1] < first_missed')
    BY <1>1, <1>2, <1>4, <2>3
  <2>5. \A i \in 1 .. k + 1 : last_taken'[i] = last_taken[i] \/ i > k
    BY <1>1, <2>3
  <2> HIDE DEF k
  <2>6. k + 1 \in {k, k + 1} /\ k + 1 > 0
    BY <1>1
  <2>7. Missed' /\ AllTimed'
    BY <1>8, <2>3, <2>4, <2>5, <2>6
  <2>8. QED
    BY <1>7, <2>7
<1>10. CASE \E weight, text : ConvertText(weight, text) /\ (first_missed # 0 \/ place = "late")
  <2>1. PICK weight, text : ConvertText(weight, text) /\ (first_missed # 0 \/ place = "late")
    BY <1>10
  <2>2. word_alis # <<>> /\ first_missed' <= LastOf(k)
    BY <1>5, <2>1
  <2>3. /\ last_taken' = last_taken
        /\ \/ word_alis' = word_alis
           \/ word_alis' = [word_alis EXCEPT ![k].weight = Accumulated(weight)]
    BY <2>1 DEF ConvertText
  <2>4. /\ Len(word_alis') = k /\ k > 0
        /\ \A i \in 1 .. k : word_alis'[i] = word_alis[i] \/ i = k
    BY <1>1, <2>2, <2>3
  <2>5. LastOf(k) \in Nat /\ LastOf(k) = last_taken'[k]
    BY <1>1, <2>3, <2>4 DEF LastOf
  <2>6. \A i \in 1 .. k : word_alis'[i] = word_alis[i] \/ ~(LastOf(i) < first_missed')
    BY <1>2, <2>2, <2>4, <2>5
  <2> HIDE DEF k
  <2>7. \A i \in 1 .. k : last_taken'[i] = last_taken[i] \/ i > k
    BY <2>3
  <2>8. k \in {k, k + 1} /\ ~(k = k + 1)
    BY <1>1
  <2>9. Missed' /\ AllTimed'
    BY <1>8, <2>2, <2>4, <2>5, <2>6, <2>7, <2>8
  <2>10. QED
    BY <1>7, <2>9
<1>11. \/ \E weight : ConvertSpace(weight, n_taken + 1)
       \/ \E weight, text : ConvertText(weight, text) /\ (first_missed # 0 \/ place = "late")
  <2>1. CASE \E text \in Texts : TakeBytes(text) \/ PutText(text)
    BY <2>1 DEF TakeBytes, PutText
  <2>2. CASE PutSpace \/ TakeSpace
    BY <2>2 DEF PutSpace, TakeSpace
  <2>3. CASE DropSpace
    BY <2>3 DEF DropSpace
  <2>4. QED
    BY <2>1, <2>2, <2>3 DEF Format
<1>12. QED
  BY <1>9, <1>10, <1>11

LEMMA PathStep ==
  ASSUME FInv, Format
  PROVE  InOrder' /\ ConvertTypes' /\ Held' /\ Missed' /\ AllTimed' /\ place' # "off"
<1>1. InOrder' /\ ConvertTypes' /\ place' # "off"
  BY StepTypes
<1>2. CASE first_missed' # 0
  BY <1>1, <1>2, MissedStep
<1>3. CASE first_missed' = 0
  <2>1. Missed'
    BY <1>3 DEF Missed
  <2>2. ASSUME NEW text \in Texts, PutText(text) PROVE FALSE
    <3>1. n_taken \in Nat
      BY DEF FInv, ConvertTypes, InOrder
    <3>2. QED
      BY <1>3, <2>2, <3>1 DEF PutText, Misses
  <2>3. QED
    BY <1>1, <1>3, <2>1, <2>2, BytesTaken, SpacePut, SpaceTaken, SpaceDropped DEF Format
<1>4. QED
  BY <1>2, <1>3
-------------------------------------------------------------------------------
\* The steps of the call

LEMMA StartsInOrder ==
  ASSUME FInv, stage = "paths", FindPaths
  PROVE  FInv'
<1> USE DEF FInv
<1>1. /\ place = "off" /\ n_taken = 0 /\ word_alis = <<>> /\ last_taken = <<>> /\ words = <<>>
      /\ first_missed = 0 /\ ~last_ali_missing_time /\ current_weight = One /\ ConvertTyped
  BY DEF Fresh, Held, Upto, ConvertTypes
<1>2. CASE UNCHANGED format_vars
  <2>1. InOrder' /\ ConvertTypes' /\ Held' /\ Missed' /\ AllTimed'
    BY <1>2 DEF InOrder, ConvertTypes, ConvertTyped, Held, Missed, AllTimed, BeforeMissed, Timed,
                Upto, FirstOf, LastOf, Span, format_vars, path_vars, convert_vars
  <2>2. Fresh'
    BY <1>1, <1>2 DEF FindPaths, GetResultsReturns, Fresh, format_vars, path_vars, convert_vars
  <2>3. QED
    BY <2>1, <2>2
<1>3. CASE ~UNCHANGED format_vars
  <2>1. PICK path \in call.best_paths :
          /\ stage' = "format" /\ call' = call
          /\ StartFormat([i \in DOMAIN WordAlignments(path) |-> WordAlignments(path)[i].weight])
    BY <1>3 DEF FindPaths
  <2> DEFINE heard == WordAlignments(path)
             alis == [i \in DOMAIN heard |-> heard[i].weight]
  <2>2. heard \in Seq(WordAlis) /\ Ordered(heard)
    <3>1. call \in Calls
      BY DEF Fresh
    <3>2. QED
      BY <2>1, <3>1, CallPaths, PathWordsFollow
  <2>3. /\ words' = alis
        /\ place' = "before" /\ UNCHANGED <<n_taken, n_early, first_missed, convert_vars>>
    BY <2>1 DEF StartFormat
  <2>4. InOrder'
    <3> HIDE DEF heard
    <3>1. /\ DOMAIN heard = 1 .. Len(heard) /\ Len(heard) \in Nat
          /\ \A i \in 1 .. Len(heard) : heard[i].weight \in Weights
      <4>1. /\ DOMAIN heard = 1 .. Len(heard) /\ Len(heard) \in Nat
            /\ \A i \in 1 .. Len(heard) : heard[i] \in WordAlis
        BY <2>2
      <4>2. QED
        BY <4>1 DEF WordAlis
    <3>2. /\ alis \in Seq(Weights) /\ Len(alis) = Len(heard)
          /\ \A i \in 1 .. Len(alis) : alis[i] = heard[i].weight
      BY <3>1
    <3> HIDE DEF alis
    <3>3. ASSUME NEW i \in 1 .. Len(alis), NEW j \in i .. Len(alis)
          PROVE  /\ alis[i].start < Inf
                 /\ alis[i].start <= alis[j].start /\ alis[i].end <= alis[j].end
      <4>1. i \in 1 .. Len(heard) /\ j \in i .. Len(heard) /\ j \in 1 .. Len(alis)
        BY <3>1, <3>2
      <4>2. alis[i] = heard[i].weight /\ alis[j] = heard[j].weight
        BY <3>2, <4>1
      <4>3. QED
        BY <2>2, <4>1, <4>2 DEF Ordered
    <3>4. Len(alis) \in Nat /\ \A i \in 1 .. Len(alis) : i \in i .. Len(alis)
      BY <3>1, <3>2
    <3>5. QED
      BY <2>3, <3>2, <3>3, <3>4 DEF InOrder
  <2>5. ConvertTypes' /\ Held' /\ Missed' /\ AllTimed'
    BY <1>1, <2>3, <2>4
    DEF ConvertTypes, ConvertTyped, Held, Missed, AllTimed, Upto, InOrder, convert_vars
  <2>6. Fresh'
    BY <2>1, <2>3 DEF Fresh
  <2>7. QED
    BY <2>4, <2>5, <2>6
<1>4. QED
  BY <1>2, <1>3

LEMMA FormatStep == FInv /\ RunFormatter => FInv'
<1> SUFFICES ASSUME FInv, RunFormatter PROVE FInv'
  OBVIOUS
<1>1. InOrder' /\ ConvertTypes' /\ Held' /\ Missed' /\ AllTimed' /\ place' # "off"
  BY PathStep DEF RunFormatter
<1>2. Fresh'
  BY <1>1 DEF RunFormatter, FInv, Fresh, call_vars
<1>3. QED
  BY <1>1, <1>2 DEF FInv

LEMMA FInvStep == FInv /\ [Next]_vars => FInv'
<1> SUFFICES ASSUME FInv, [Next]_vars PROVE FInv'
  OBVIOUS
<1>1. CASE RunFormatter
  BY <1>1, FormatStep
<1>2. CASE FindPaths
  BY <1>2, StartsInOrder DEF FindPaths
<1>3. CASE FormatFails
  <2>1. /\ place = "before" /\ n_taken = 0 /\ word_alis = <<>> /\ place' = "off" /\ words' = <<>>
        /\ UNCHANGED <<n_taken, n_early, first_missed, convert_vars, call>> /\ stage' = "punctuate"
    BY <1>3 DEF FormatFails, call_vars
  <2>2. last_taken = <<>> /\ first_missed = 0
    BY <2>1 DEF FInv, ConvertTypes, ConvertTyped, Missed
  <2>3. InOrder' /\ ConvertTypes' /\ Missed' /\ AllTimed' /\ Fresh'
    BY <2>1, <2>2
    DEF FInv, InOrder, ConvertTypes, ConvertTyped, Missed, AllTimed, Fresh, convert_vars
  <2>4. Held'
    BY <2>1, <2>2 DEF FInv, Held, Upto, convert_vars
  <2>5. QED
    BY <2>3, <2>4 DEF FInv
<1>4. ASSUME ~RunFormatter, ~FindPaths, ~FormatFails
      PROVE  /\ UNCHANGED <<format_vars, call>>
             /\ stage' \in {"diarize", "paths"} => stage \in {"diarize", "paths"}
  BY <1>4
  DEF Next, Step, Finished, vars, call_vars, RunDiarizer, Diarized, FormatWords, NotPunctuated,
      PunctuateThrows, PunctuateBreaks, PunctuateWords, OtherTranscripts, Respond,
      GetResultsReturns
<1>5. CASE /\ UNCHANGED <<format_vars, call>>
           /\ stage' \in {"diarize", "paths"} => stage \in {"diarize", "paths"}
  <2>1. InOrder' /\ ConvertTypes' /\ Held' /\ Missed' /\ AllTimed'
    BY <1>5 DEF FInv, InOrder, ConvertTypes, ConvertTyped, Held, Missed, AllTimed, BeforeMissed,
                Timed, Upto, FirstOf, LastOf, Span, format_vars, path_vars, convert_vars
  <2>2. Fresh'
    BY <1>5 DEF FInv, Fresh, format_vars, path_vars, convert_vars
  <2>3. QED
    BY <2>1, <2>2 DEF FInv
<1>6. QED
  BY <1>1, <1>2, <1>3, <1>4, <1>5
-------------------------------------------------------------------------------
\* The theorems

\* What Convert() holds is the time of the words it has not put out yet, up to the first
\* that it cannot time; from there on it leaves the times of the words before alone.
THEOREM ConvertInvariance == Spec => []FInv
<1>1. Init => FInv
  <2> SUFFICES ASSUME Init PROVE FInv
    OBVIOUS
  <2>1. /\ words = <<>> /\ place = "off" /\ n_taken = 0 /\ word_alis = <<>> /\ current_ali = <<>>
        /\ last_ali_missing_time = FALSE /\ last_taken = <<>> /\ call \in Calls
        /\ first_missed = 0 /\ current_weight = One
    BY DEF Init, FormatInit
  <2>2. InOrder /\ AllTimed /\ Fresh /\ Missed
    BY <2>1 DEF InOrder, AllTimed, Fresh, Missed
  <2>3. ConvertTypes
    <3>1. \A T : <<>> \in Seq(T) /\ Len(<<>>) = 0
      OBVIOUS
    <3>2. Len(words) = 0 /\ Len(last_taken) = 0 /\ Len(word_alis) = 0
      BY <2>1, <3>1
    <3>3. n_taken \in 0 .. Len(words)
      BY <2>1, <3>2
    <3>4. QED
      BY <2>1, <3>1, <3>2, <3>3, ZeroAndOne DEF ConvertTypes, ConvertTyped
  <2>4. Held
    BY DEF Init, FormatInit, Held, Upto
  <2>5. QED
    BY <2>2, <2>3, <2>4 DEF FInv
<1>2. FInv /\ [Next]_vars => FInv'
  BY FInvStep
<1>3. QED
  BY <1>1, <1>2, PTL DEF Spec

\* For every grammar: a word that is put out has the time from the start of the first to the
\* end of the last recognized word that it is rewritten from, whether words are joined or
\* deleted or their spaces come early, up to the first recognized word that is split, or
\* ended early behind a joined one, where Convert() cannot time the parts.
THEOREM WordTimesCorrect == Spec => []TimesAreHulls
<1>1. FInv => TimesAreHulls
  BY DEF FInv, AllTimed, Timed, Span, TimesAreHulls
<1>2. QED
  BY <1>1, ConvertInvariance, PTL
===============================================================================
