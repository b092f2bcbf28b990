-------------------------- MODULE EventStudyProofs --------------------------
(***************************************************************************)
(* What the anchoring of a recommendation guarantees for every message and  *)
(* every set of bars.                                                       *)
(***************************************************************************)
EXTENDS EventStudy, FiniteSetTheorems, WellFoundedInduction, TLAPS

\* A set of days that is not empty has a first one: among the intervals that
\* start at 0 and end in it, one contains no other.
LEMMA FirstDay ==
  ASSUME NEW S \in SUBSET Nat, S # {}
  PROVE  \E d \in S : \A x \in S : d <= x
<1> DEFINE T == {0..d : d \in S}
<1>1. T \subseteq FiniteSubsetsOf(Nat)
  <2>1. \A d \in S : IsFiniteSet(0..d) /\ 0..d \subseteq Nat
    BY FS_Interval
  <2> QED BY <2>1 DEF FiniteSubsetsOf
<1>2. T # {}
  OBVIOUS
<1>3. IsWellFoundedOn(StrictSubsetOrdering(Nat), FiniteSubsetsOf(Nat))
  BY FS_StrictSubsetOrderingWellFounded
<1> HIDE DEF T
<1>4. PICK X \in T : \A Y \in T : ~(<<Y, X>> \in StrictSubsetOrdering(Nat))
  BY <1>1, <1>2, <1>3, WFMin, Zenon
<1>5. PICK d \in S : X = 0..d
  BY DEF T
<1>6. ASSUME NEW x \in S, ~(d <= x)
      PROVE  FALSE
  <2>1. 0..x \in T
    BY DEF T
  <2>2. 0..x \subseteq 0..d /\ 0..x # 0..d /\ 0..x \in SUBSET Nat /\ 0..d \in SUBSET Nat
    <3>1. d \in 0..d /\ d \notin 0..x
      BY <1>6
    <3> QED BY <1>6, <3>1
  <2>3. <<0..x, X>> \in StrictSubsetOrdering(Nat)
    BY <1>5, <2>2 DEF StrictSubsetOrdering
  <2> QED BY <1>4, <2>1, <2>3
<1> QED BY <1>6

\* A finite set of days that is not empty has a last one: among the sets of
\* the days after one of its days, one contains no other.
LEMMA LastDay ==
  ASSUME NEW S \in SUBSET Nat, S # {}, IsFiniteSet(S)
  PROVE  \E d \in S : \A x \in S : x <= d
<1> DEFINE After(d) == {x \in S : x > d}
           T == {After(d) : d \in S}
<1>1. T \subseteq FiniteSubsetsOf(Nat)
  <2>1. \A d \in S : IsFiniteSet(After(d)) /\ After(d) \subseteq Nat
    BY FS_Subset
  <2> QED BY <2>1 DEF FiniteSubsetsOf
<1>2. T # {}
  OBVIOUS
<1>3. IsWellFoundedOn(StrictSubsetOrdering(Nat), FiniteSubsetsOf(Nat))
  BY FS_StrictSubsetOrderingWellFounded
<1> HIDE DEF T
<1>4. PICK X \in T : \A Y \in T : ~(<<Y, X>> \in StrictSubsetOrdering(Nat))
  BY <1>1, <1>2, <1>3, WFMin, Zenon
<1>5. PICK d \in S : X = After(d)
  BY DEF T
<1>6. ASSUME NEW x \in S, ~(x <= d)
      PROVE  FALSE
  <2>1. After(x) \in T
    BY DEF T
  <2>2. After(x) \subseteq After(d) /\ After(x) # After(d)
        /\ After(x) \in SUBSET Nat /\ After(d) \in SUBSET Nat
    <3>1. x \in After(d) /\ x \notin After(x)
      BY <1>6
    <3>2. ASSUME NEW y \in After(x)
          PROVE  y \in After(d)
      <4>1. y \in Nat /\ x \in Nat /\ d \in Nat /\ y > x /\ x > d
        BY <1>6
      <4> QED BY <4>1
    <3> QED BY <3>1, <3>2
  <2>3. <<After(x), X>> \in StrictSubsetOrdering(Nat)
    BY <1>5, <2>2 DEF StrictSubsetOrdering
  <2> QED BY <1>4, <2>1, <2>3
<1> QED BY <1>6

\* The n-th of a finite set of days: the first that has n days up to it.
LEMMA NthDay ==
  ASSUME NEW S \in SUBSET Nat, IsFiniteSet(S), NEW n \in Nat, 1 <= n, n <= Cardinality(S)
  PROVE  \E d \in S : Cardinality({x \in S : x <= d}) = n
<1> DEFINE UpTo(d) == {x \in S : x <= d}
           D == {d \in S : n <= Cardinality(UpTo(d))}
<1>1. Cardinality(S) \in Nat /\ S # {}
  BY FS_CardinalityType, FS_EmptySet
<1>2. \A d \in S : IsFiniteSet(UpTo(d)) /\ Cardinality(UpTo(d)) \in Nat
  BY FS_Subset, FS_CardinalityType
<1>3. D # {}
  <2>1. PICK d \in S : \A x \in S : x <= d
    BY <1>1, LastDay
  <2>2. UpTo(d) = S
    BY <2>1
  <2> QED BY <2>2
<1>4. D \in SUBSET Nat
  OBVIOUS
<1> HIDE DEF D
<1>5. PICK d \in D : \A x \in D : d <= x
  BY <1>3, <1>4, FirstDay
<1>6. d \in S /\ d \in Nat /\ n <= Cardinality(UpTo(d))
  BY DEF D
<1>7. ASSUME Cardinality(UpTo(d)) # n
      PROVE  FALSE
  <2> DEFINE Before == UpTo(d) \ {d}
  <2>1. d \in UpTo(d)
    BY <1>6
  <2>2. IsFiniteSet(Before) /\ Cardinality(Before) = Cardinality(UpTo(d)) - 1
    BY <1>2, <1>6, <2>1, FS_RemoveElement
  <2>3. n <= Cardinality(Before) /\ Cardinality(Before) # 0
    BY <1>2, <1>6, <1>7, <2>2
  <2>4. Before # {} /\ Before \in SUBSET Nat
    BY <2>2, <2>3, FS_EmptySet
  <2>5. PICK e \in Before : \A x \in Before : x <= e
    BY <2>2, <2>4, LastDay
  <2>6. e \in S /\ e \in Nat /\ e <= d /\ e # d
    OBVIOUS
  <2>7. UpTo(e) = Before
    <3>1. ASSUME NEW x \in S
          PROVE  x <= e <=> x <= d /\ x # d
      <4>1. x \in Nat
        OBVIOUS
      <4>2. x <= d /\ x # d => x <= e
        BY <2>5
      <4> QED BY <1>6, <2>6, <4>1, <4>2
    <3> QED BY <3>1
  <2>8. e \in D
    BY <2>3, <2>6, <2>7 DEF D
  <2>9. d <= e
    BY <1>5, <2>8
  <2> QED BY <1>6, <2>6, <2>9
<1> QED BY <1>6, <1>7

\* The hour at which the price of a baseline is made: the open or the close.
MadeAt(b) == 24 * b.date + (IF b.rule = "open_next_day" THEN 9 ELSE MARKET_CLOSE)

\* A recommendation is measured from a price that was made after the message,
\* on the clock that the time is read from, and from the first such price: at
\* every earlier bar it was made before the message.
THEOREM BaselineIsNext ==
  ASSUME NEW symbol, NEW time \in Nat, NEW bars \in SUBSET Nat,
         Candidates(time, bars) # {}
  PROVE  LET b == anchor_baseline(symbol, time, bars) IN
         /\ b.date \in bars
         /\ MadeAt(b) > time
         /\ \A d \in bars : d < b.date => MadeAt([b EXCEPT !.date = d]) <= time
<1> DEFINE C == Candidates(time, bars)
           date == CHOOSE d \in C : \A x \in C : d <= x
           rule == IF AfterClose(time) THEN "open_next_day" ELSE "close_same_day"
           b == [symbol |-> symbol, date |-> date, rule |-> rule]
<1>1. C \subseteq bars /\ C \in SUBSET Nat
  BY DEF Candidates
<1>2. date \in C /\ \A x \in C : date <= x
  <2>1. \E d \in C : \A x \in C : d <= x
    BY <1>1, FirstDay
  <2> QED BY <2>1
<1>3. anchor_baseline(symbol, time, bars) = b
  BY DEF anchor_baseline
<1>4. /\ DateOf(time) \in Nat /\ (time % 24) \in 0..23
      /\ time = (24 * DateOf(time)) + (time % 24)
  BY SMT DEF DateOf
<1> HIDE DEF date
<1>5. date \in bars /\ date \in Nat
  BY <1>1, <1>2
<1>6. CASE AfterClose(time)
  <2>1. date > DateOf(time)
    BY <1>2, <1>6 DEF Candidates
  <2>2. \A d \in bars : d < date => d <= DateOf(time)
    BY <1>2, <1>4, <1>5, <1>6 DEF Candidates
  <2>3. time % 24 >= 15
    BY <1>6 DEF AfterClose, MARKET_CLOSE
  <2>4. \A d : MadeAt([b EXCEPT !.date = d]) = 24 * d + 9
    BY <1>6 DEF MadeAt
  <2>5. MadeAt(b) = 24 * date + 9
    BY <1>6 DEF MadeAt
  <2>6. MadeAt(b) > time
    BY <1>4, <1>5, <2>1, <2>5
  <2>7. \A d \in bars : d < date => 24 * d + 9 <= time
    BY <1>4, <2>2, <2>3
  <2> QED BY <1>3, <1>5, <2>4, <2>6, <2>7
<1>7. CASE ~AfterClose(time)
  <2>1. date >= DateOf(time)
    BY <1>2, <1>7 DEF Candidates
  <2>2. \A d \in bars : d < date => d < DateOf(time)
    BY <1>2, <1>4, <1>5, <1>7 DEF Candidates
  <2>3. time % 24 < 15
    BY <1>4, <1>7 DEF AfterClose, MARKET_CLOSE
  <2>4. \A d : MadeAt([b EXCEPT !.date = d]) = 24 * d + 15
    BY <1>7 DEF MadeAt, MARKET_CLOSE
  <2>5. MadeAt(b) = 24 * date + 15
    BY <1>7 DEF MadeAt, MARKET_CLOSE
  <2>6. MadeAt(b) > time
    BY <1>4, <1>5, <2>1, <2>3, <2>5
  <2>7. \A d \in bars : d < date => 24 * d + 15 <= time
    BY <1>4, <2>2
  <2> QED BY <1>3, <1>5, <2>4, <2>6, <2>7
<1> QED BY <1>6, <1>7

\* A window counts trading days, whatever days the stock was suspended: as
\* soon as there are enough bars it ends at the bar that has as many bars
\* between the baseline and itself as the window is long, and until then it
\* is empty and as old as the last bar.
THEOREM WindowCountsBars ==
  ASSUME NEW bars \in SUBSET Nat, IsFiniteSet(bars), NEW baseline, baseline.date \in bars,
         NEW w \in WINDOWS
  PROVE  LET window == compute_windows(baseline, bars)[w]
             after == {d \in bars : baseline.date < d}
         IN  /\ window.as_of \in bars /\ baseline.date <= window.as_of
             /\ window.complete <=> w <= Cardinality(after)
             /\ window.complete => Cardinality({d \in after : d <= window.as_of}) = w
             /\ ~window.complete => \A d \in bars : d <= window.as_of
<1> DEFINE first == baseline.date
           path == {d \in bars : d >= first}
           after == {d \in bars : first < d}
           Nth(n) == CHOOSE d \in path : Cardinality({x \in path : x <= d}) = n
           window == compute_windows(baseline, bars)[w]
<1>1. w \in Nat /\ first \in Nat /\ first \in path
  <2>1. first \in Nat /\ first \in bars
    OBVIOUS
  <2>2. first >= first
    BY <2>1
  <2> QED BY <2>1, <2>2, EventStudyAssumption
<1>2. IsFiniteSet(path) /\ IsFiniteSet(after) /\ path \in SUBSET Nat
      /\ Cardinality(path) \in Nat /\ Cardinality(after) \in Nat
  BY FS_Subset, FS_CardinalityType
<1>3. after = path \ {first}
  <2>1. ASSUME NEW d \in bars
        PROVE  first < d <=> d >= first /\ d # first
    <3>1. d \in Nat
      OBVIOUS
    <3> QED BY <1>1, <3>1
  <2> QED BY <2>1
<1>4. Cardinality(path) = Cardinality(after) + 1
  <2> HIDE DEF path, after
  <2>1. Cardinality(path \ {first}) = Cardinality(path) - 1
    BY <1>1, <1>2, FS_RemoveElement
  <2> QED BY <1>2, <1>3, <2>1
<1>5. window = IF Cardinality(path) <= w
               THEN [baseline |-> NoBaseline, complete |-> FALSE, as_of |-> Nth(Cardinality(path))]
               ELSE [baseline |-> baseline, complete |-> TRUE, as_of |-> Nth(w + 1)]
  BY DEF compute_windows
<1> HIDE DEF after, window
<1>6. \A n \in Nat : 1 <= n /\ n <= Cardinality(path) =>
        Nth(n) \in path /\ Cardinality({x \in path : x <= Nth(n)}) = n
  <2> SUFFICES ASSUME NEW n \in Nat, 1 <= n, n <= Cardinality(path)
               PROVE  Nth(n) \in path /\ Cardinality({x \in path : x <= Nth(n)}) = n
    OBVIOUS
  <2> HIDE DEF path
  <2>1. \E d \in path : Cardinality({x \in path : x <= d}) = n
    BY <1>2, NthDay
  <2> QED BY <2>1
<1>7. CASE Cardinality(path) <= w
  <2> DEFINE last == Nth(Cardinality(path))
  <2>1. last \in path /\ Cardinality({x \in path : x <= last}) = Cardinality(path)
    <3>1. 1 <= Cardinality(path) /\ Cardinality(path) <= Cardinality(path)
      BY <1>2, <1>4
    <3> HIDE DEF path, Nth
    <3> QED BY <1>2, <1>6, <3>1 DEF Nth
  <2>2. window.as_of = last /\ ~window.complete
    BY <1>5, <1>7
  <2> HIDE DEF last
  <2>3. {x \in path : x <= last} = path
    BY <1>2, <2>1, FS_Subset
  <2>4. \A d \in bars : d <= last
    <3> SUFFICES ASSUME NEW d \in bars PROVE d <= last
      OBVIOUS
    <3>1. CASE d \in path
      BY <2>3, <3>1
    <3>2. CASE d \notin path
      BY <1>1, <2>1, <3>2
    <3> QED BY <3>1, <3>2
  <2>5. ~(w <= Cardinality(after))
    BY <1>1, <1>2, <1>4, <1>7
  <2> QED BY <2>1, <2>2, <2>4, <2>5 DEF after, window
<1>8. CASE ~(Cardinality(path) <= w)
  <2> DEFINE end == Nth(w + 1)
  <2>1. w + 1 \in Nat /\ 1 <= w + 1 /\ w + 1 <= Cardinality(path)
    BY <1>1, <1>2, <1>8
  <2>2. end \in path /\ Cardinality({x \in path : x <= end}) = w + 1
    BY <1>6, <2>1
  <2>3. window.as_of = end /\ window.complete
    BY <1>5, <1>8
  <2> HIDE DEF end
  <2> DEFINE upTo == {x \in path : x <= end}
  <2>4. {d \in after : d <= end} = upTo \ {first} /\ first \in upTo
    BY <1>1, <1>3, <2>2
  <2>5. IsFiniteSet(upTo)
    BY <1>2, FS_Subset
  <2> HIDE DEF upTo
  <2>6. Cardinality({d \in after : d <= end}) = w
    <3>1. Cardinality(upTo) = w + 1
      BY <2>2 DEF upTo
    <3>2. Cardinality(upTo \ {first}) = Cardinality(upTo) - 1
      BY <2>4, <2>5, FS_RemoveElement
    <3> QED BY <1>1, <2>4, <3>1, <3>2
  <2>7. w <= Cardinality(after)
    BY <1>1, <1>2, <1>4, <2>1
  <2> QED BY <2>2, <2>3, <2>6, <2>7 DEF after, window
<1> QED BY <1>7, <1>8
=============================================================================
