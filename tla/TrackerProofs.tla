--------------------------- MODULE TrackerProofs ---------------------------
(***************************************************************************)
(* Proofs about the recommendation tracker, for any messages, imports,      *)
(* sessions, days and clocks.                                               *)
(***************************************************************************)
EXTENDS Tracker, EventStudyProofs, SequenceTheorems

(***************************************************************************)
(* Types.                                                                  *)
(***************************************************************************)

Baseline == [symbol : Symbols \cup {"none"}, date : 0..MaxDay,
             rule : {"none", "close_same_day", "open_next_day"}]

Window == [baseline : Baseline, complete : BOOLEAN, as_of : 0..MaxDay]

\* The loaded objects of a session, by their ids.
Objects == UNION {[I -> Recommendation] : I \in SUBSET Nat}

ImportType ==
  [pc : {"idle", "run", "done", "failed"}, todo : SUBSET Messages, msg : Messages,
   items : SUBSET Names, mine : Seq(Recommendation)]

RefreshType ==
  [pc : {"idle", "next", "write", "done"}, obj : Objects, id : Nat, bars : SUBSET (1..MaxDay)]

\* Only an active recommendation has a symbol, and each does.
ActiveIffResolved(table) ==
  \A i \in DOMAIN table : table[i].status = "active" <=> table[i].symbol # NoSymbol

ImportFits(p, j) ==
  /\ j.todo \subseteq Batch[p] /\ j.items \subseteq Items[j.msg]
  /\ ActiveIffResolved(j.mine)

RefreshFits(j, table, now) ==
  /\ DOMAIN j.obj \subseteq DOMAIN table
  /\ \A i \in DOMAIN j.obj : j.obj[i].symbol \in Symbols
  /\ j.pc = "write" => j.id \in DOMAIN j.obj
  /\ j.bars \subseteq 1..now

TypeInv ==
  /\ today \in 1..MaxDay
  /\ stored \in [Symbols -> SUBSET (1..today)]
  /\ recs \in Seq(Recommendation) /\ ActiveIffResolved(recs)
  /\ imp \in [Importers -> ImportType]
  /\ \A p \in Importers : ImportFits(p, imp[p])
  /\ ref \in [Refreshers \cup Resolvers -> RefreshType]
  /\ \A p \in Refreshers \cup Resolvers : RefreshFits(ref[p], recs, today)
  /\ overlapped \in BOOLEAN

LEMMA TypeInvImplies == TypeInv => TypeOK
<1> SUFFICES ASSUME TypeInv PROVE TypeOK
  OBVIOUS
<1>1. ASSUME NEW p \in Importers
      PROVE  /\ imp[p].pc \in {"idle", "run", "done", "failed"}
             /\ imp[p].todo \subseteq Batch[p]
             /\ imp[p].items \subseteq Items[imp[p].msg]
             /\ imp[p].mine \in Seq(Recommendation)
  BY DEF TypeInv, ImportFits, ImportType
<1>2. ASSUME NEW p \in Refreshers \cup Resolvers
      PROVE  /\ ref[p].pc \in {"idle", "next", "write", "done"}
             /\ DOMAIN ref[p].obj \subseteq Ids
             /\ \A i \in DOMAIN ref[p].obj : ref[p].obj[i] \in Recommendation
             /\ ref[p].bars \subseteq 1..today
  <2>1. ref[p] \in RefreshType /\ RefreshFits(ref[p], recs, today)
    BY DEF TypeInv
  <2>2. PICK I \in SUBSET Nat : ref[p].obj \in [I -> Recommendation]
    BY <2>1 DEF RefreshType, Objects
  <2> QED BY <2>1, <2>2 DEF RefreshType, RefreshFits, Ids
<1> QED BY <1>1, <1>2 DEF TypeInv, TypeOK, ActiveIffResolved, Ids

LEMMA RecommendationIs ==
  Recommendation = [msg : Messages, name : Names, symbol : Symbols \cup {NoSymbol},
                    status : {"pending", "active"}, time : Nat, baseline : Baseline,
                    perf : [WINDOWS -> Window]]
BY DEF Recommendation, Baseline, Window

LEMMA NoBaselineType == NoBaseline \in Baseline /\ NoPerf \in [WINDOWS -> Window]
<1>1. 0 \in 0..MaxDay
  BY TrackerAssumption
<1> QED BY <1>1 DEF NoBaseline, NoPerf, NoWindow, Baseline, Window

\* What is computed from stored bars has the types of the table.
LEMMA EvaluatedTypes ==
  ASSUME NEW rec \in Recommendation, rec.symbol \in Symbols, NEW time,
         NEW bars \in SUBSET (1..MaxDay), HasBaseline(rec.symbol, time, bars)
  PROVE  /\ Evaluated(rec, time, bars) \in Recommendation
         /\ Evaluated(rec, time, bars).baseline \in Baseline
         /\ Evaluated(rec, time, bars).perf \in [WINDOWS -> Window]
         /\ Evaluated(rec, time, bars).msg = rec.msg
         /\ Evaluated(rec, time, bars).symbol = rec.symbol
         /\ Evaluated(rec, time, bars).status = rec.status
         /\ Evaluated(rec, time, bars).time = rec.time
<1> DEFINE range == BarsInRange(time, bars)
           baseline == anchor_baseline(rec.symbol, time, range)
           perf == compute_windows(baseline, range)
<1>1. baseline # NoBaseline
  BY DEF HasBaseline
<1>2. MaxDay \in Nat /\ 1..MaxDay \subseteq Nat /\ 1..MaxDay \subseteq 0..MaxDay
      /\ IsFiniteSet(1..MaxDay)
  BY TrackerAssumption, FS_Interval
<1>3. range \subseteq 1..MaxDay /\ range \subseteq Nat /\ IsFiniteSet(range)
  <2>1. range \subseteq 1..MaxDay
    BY DEF BarsInRange
  <2> QED BY <1>2, <2>1, FS_Subset
<1> HIDE DEF range
<1>4. Candidates(time, range) # {} /\ Candidates(time, range) \subseteq range
  BY <1>1 DEF anchor_baseline, Candidates
<1>5. PICK d \in Candidates(time, range) : \A x \in Candidates(time, range) : d <= x
  BY <1>3, <1>4, FirstDay
<1>6. baseline = [symbol |-> rec.symbol,
                  date   |-> CHOOSE e \in Candidates(time, range) :
                               \A x \in Candidates(time, range) : e <= x,
                  rule   |-> IF AfterClose(time) THEN "open_next_day" ELSE "close_same_day"]
  BY <1>4 DEF anchor_baseline
<1>7. baseline.date \in range
  BY <1>4, <1>5, <1>6
<1>8. baseline \in Baseline
  <2>1. baseline.date \in 0..MaxDay
    BY <1>2, <1>3, <1>7
  <2>2. baseline = [symbol |-> rec.symbol, date |-> baseline.date,
                    rule |-> IF AfterClose(time) THEN "open_next_day" ELSE "close_same_day"]
    BY <1>6
  <2> HIDE DEF baseline
  <2> QED BY <2>1, <2>2 DEF Baseline
<1> HIDE DEF baseline
<1>9. ASSUME NEW w \in WINDOWS
      PROVE  perf[w] \in Window
  <2>1. perf[w].as_of \in range
    BY <1>3, <1>7, WindowCountsBars
  <2>2. perf[w].as_of \in 0..MaxDay
    BY <1>2, <1>3, <2>1
  <2>3. \E n : perf[w] \in {[baseline |-> NoBaseline, complete |-> FALSE, as_of |-> n],
                           [baseline |-> baseline, complete |-> TRUE, as_of |-> n]}
    BY DEF compute_windows
  <2> HIDE DEF perf
  <2>4. PICK n : perf[w] \in {[baseline |-> NoBaseline, complete |-> FALSE, as_of |-> n],
                              [baseline |-> baseline, complete |-> TRUE, as_of |-> n]}
    BY <2>3
  <2>5. n \in 0..MaxDay
    BY <2>2, <2>4
  <2>6. NoBaseline \in Baseline
    BY NoBaselineType
  <2> HIDE DEF baseline
  <2>7. CASE perf[w] = [baseline |-> NoBaseline, complete |-> FALSE, as_of |-> n]
    BY <2>5, <2>6, <2>7 DEF Window
  <2>8. CASE perf[w] = [baseline |-> baseline, complete |-> TRUE, as_of |-> n]
    BY <1>8, <2>5, <2>8 DEF Window
  <2> QED BY <2>4, <2>7, <2>8
<1>10. perf \in [WINDOWS -> Window]
  <2>1. perf = [w \in WINDOWS |-> perf[w]]
    BY DEF compute_windows
  <2> HIDE DEF perf
  <2> QED BY <1>9, <2>1
<1>11. Evaluated(rec, time, bars) = [rec EXCEPT !.baseline = baseline, !.perf = perf]
  BY DEF Evaluated, range, baseline
<1> HIDE DEF perf
<1> QED BY <1>8, <1>10, <1>11, RecommendationIs

LEMMA IdleTypes ==
  /\ NoImport \in ImportType /\ Idle \in RefreshType
  /\ \A pc \in {"done", "failed"} : [NoImport EXCEPT !.pc = pc] \in ImportType
  /\ [Idle EXCEPT !.pc = "done"] \in RefreshType
  /\ NoImport.todo = {} /\ NoImport.items = {} /\ NoImport.mine = <<>> /\ NoImport.pc = "idle"
  /\ DOMAIN Idle.obj = {} /\ Idle.bars = {} /\ Idle.pc = "idle"
<1>1. (CHOOSE m \in Messages : TRUE) \in Messages
  BY TrackerAssumption
<1>2. <<>> \in Seq(Recommendation)
  BY EmptySeq
<1>3. [i \in {} |-> {}] \in Objects /\ DOMAIN [i \in {} |-> {}] = {}
  <2>1. [i \in {} |-> {}] \in [{} -> Recommendation]
    OBVIOUS
  <2> QED BY <2>1 DEF Objects
<1>4. NoImport \in ImportType /\ \A pc \in {"done", "failed"} : [NoImport EXCEPT !.pc = pc] \in ImportType
  BY <1>1, <1>2 DEF NoImport, ImportType
<1>5. Idle \in RefreshType /\ [Idle EXCEPT !.pc = "done"] \in RefreshType
  BY <1>3 DEF Idle, RefreshType
<1> QED BY <1>3, <1>4, <1>5 DEF NoImport, Idle

\* What a step of an import must show.
LEMMA ImportChange ==
  ASSUME TypeInv, NEW p \in Importers, NEW j \in ImportType, ImportFits(p, j),
         imp' = [imp EXCEPT ![p] = j], UNCHANGED <<today, stored, ref>>,
         recs' \in Seq(Recommendation), ActiveIffResolved(recs'), DOMAIN recs \subseteq DOMAIN recs',
         overlapped' \in BOOLEAN
  PROVE  TypeInv'
<1>1. imp' \in [Importers -> ImportType] /\ \A q \in Importers : ImportFits(q, imp'[q])
  BY DEF TypeInv
<1>2. ASSUME NEW q \in Refreshers \cup Resolvers
      PROVE  RefreshFits(ref[q], recs', today)
  BY DEF TypeInv, RefreshFits
<1>3. \A q \in Refreshers \cup Resolvers : RefreshFits(ref'[q], recs', today')
  BY <1>2
<1> QED BY <1>1, <1>3 DEF TypeInv

\* What a step of a refresh must show.
LEMMA RefreshChange ==
  ASSUME TypeInv, NEW p \in Refreshers \cup Resolvers, NEW j \in RefreshType,
         RefreshFits(j, recs', today), ref' = [ref EXCEPT ![p] = j],
         UNCHANGED <<today, stored, imp, overlapped>>,
         recs' \in Seq(Recommendation), ActiveIffResolved(recs'), DOMAIN recs' = DOMAIN recs
  PROVE  TypeInv'
<1>1. ref' \in [Refreshers \cup Resolvers -> RefreshType]
  BY DEF TypeInv
<1>2. ASSUME NEW q \in Refreshers \cup Resolvers
      PROVE  RefreshFits(ref'[q], recs', today)
  <2>1. CASE q = p
    BY <2>1 DEF TypeInv
  <2>2. CASE q # p
    BY <2>2 DEF TypeInv, RefreshFits
  <2> QED BY <2>1, <2>2
<1>3. \A q \in Refreshers \cup Resolvers : RefreshFits(ref'[q], recs', today')
  BY <1>2
<1> QED BY <1>1, <1>3 DEF TypeInv

LEMMA TypeInvInit == Init => TypeInv
<1> SUFFICES ASSUME Init PROVE TypeInv
  OBVIOUS
<1>1. today \in 1..MaxDay /\ stored \in [Symbols -> SUBSET (1..today)]
  BY TrackerAssumption DEF Init
<1>2. recs \in Seq(Recommendation) /\ ActiveIffResolved(recs)
  BY EmptySeq DEF Init, ActiveIffResolved
<1>3. imp \in [Importers -> ImportType] /\ \A p \in Importers : ImportFits(p, imp[p])
  BY IdleTypes DEF Init, ImportFits, ActiveIffResolved
<1>4. ref \in [Refreshers \cup Resolvers -> RefreshType]
      /\ \A p \in Refreshers \cup Resolvers : RefreshFits(ref[p], recs, today)
  BY IdleTypes DEF Init, RefreshFits
<1> QED BY <1>1, <1>2, <1>3, <1>4 DEF TypeInv, Init

LEMMA NewDayTypes ==
  ASSUME TypeInv, NewDay
  PROVE  TypeInv'
<1>1. today' = today + 1 /\ today' \in 1..MaxDay /\ 1..today \subseteq 1..today' /\ today' \in 1..today'
  BY TrackerAssumption DEF TypeInv, NewDay
<1>2. stored' \in [Symbols -> SUBSET (1..today')]
  <2>1. PICK T \in SUBSET Symbols :
          stored' = [s \in Symbols |-> stored[s] \cup (IF s \in T THEN {today'} ELSE {})]
    BY DEF NewDay
  <2>2. \A s \in Symbols : stored[s] \cup (IF s \in T THEN {today'} ELSE {}) \subseteq 1..today'
    BY <1>1 DEF TypeInv
  <2> QED BY <2>1, <2>2
<1>3. ASSUME NEW q \in Refreshers \cup Resolvers
      PROVE  RefreshFits(ref[q], recs, today')
  BY <1>1 DEF TypeInv, RefreshFits
<1>4. UNCHANGED <<recs, imp, ref, overlapped>>
  BY DEF NewDay
<1>5. \A q \in Refreshers \cup Resolvers : RefreshFits(ref'[q], recs', today')
  BY <1>3, <1>4
<1> QED BY <1>1, <1>2, <1>4, <1>5 DEF TypeInv

LEMMA StartImportTypes ==
  ASSUME TypeInv, NEW p \in Importers, StartImport(p)
  PROVE  TypeInv'
<1> DEFINE k == imp[p]
           j == [k EXCEPT !.pc = "run", !.todo = Batch[p]]
<1>1. imp' = [imp EXCEPT ![p] = j]
  BY Zenon DEF StartImport, TypeInv
<1>2. k \in ImportType /\ ImportFits(p, k)
  BY DEF TypeInv
<1> HIDE DEF k
<1>3. j \in ImportType /\ ImportFits(p, j)
  BY <1>2, TrackerAssumption DEF ImportType, ImportFits
<1> HIDE DEF j
<1>4. overlapped' \in BOOLEAN
  BY DEF StartImport, TypeInv
<1> QED BY <1>1, <1>3, <1>4, ImportChange DEF StartImport, TypeInv

LEMMA ExtractTypes ==
  ASSUME TypeInv, NEW p \in Importers, NEW m \in Messages, Extract(p, m)
  PROVE  TypeInv'
<1> DEFINE k == imp[p]
           j == [k EXCEPT !.todo = k.todo \ {m}, !.msg = m, !.items = Items[m]]
<1>1. imp' = [imp EXCEPT ![p] = j]
  BY Zenon DEF Extract, TypeInv
<1>2. k \in ImportType /\ ImportFits(p, k)
  BY DEF TypeInv
<1> HIDE DEF k
<1>3. j \in ImportType /\ ImportFits(p, j)
  BY <1>2, TrackerAssumption DEF ImportType, ImportFits, Names
<1> HIDE DEF j
<1> QED BY <1>1, <1>3, ImportChange DEF Extract, TypeInv

\* The rows of a sequence of rows, of two in a row, and of one with a new row.
LEMMA ConcatRows ==
  ASSUME NEW S, NEW s \in Seq(S), NEW t \in Seq(S)
  PROVE  /\ s \o t \in Seq(S) /\ DOMAIN s \subseteq DOMAIN (s \o t)
         /\ \A i \in DOMAIN s : (s \o t)[i] = s[i]
         /\ \A k \in DOMAIN t : Len(s) + k \in DOMAIN (s \o t) /\ (s \o t)[Len(s) + k] = t[k]
         /\ \A i \in DOMAIN (s \o t) : i \in DOMAIN s \/ \E k \in DOMAIN t : i = Len(s) + k
<1>1. /\ s \o t \in Seq(S) /\ Len(s \o t) = Len(s) + Len(t)
      /\ \A i \in 1..(Len(s) + Len(t)) : (s \o t)[i] = IF i <= Len(s) THEN s[i] ELSE t[i - Len(s)]
  BY ConcatProperties
<1>2. /\ DOMAIN s = 1..Len(s) /\ DOMAIN t = 1..Len(t) /\ DOMAIN (s \o t) = 1..Len(s \o t)
      /\ Len(s) \in Nat /\ Len(t) \in Nat
  BY <1>1, LenProperties
<1> DEFINE u == s \o t
<1>3. DOMAIN u = 1..(Len(s) + Len(t)) /\ \A i \in 1..(Len(s) + Len(t)) :
        u[i] = IF i <= Len(s) THEN s[i] ELSE t[i - Len(s)]
  BY <1>1, <1>2
<1> HIDE DEF u
<1>4. \A i \in DOMAIN s : i \in DOMAIN u /\ u[i] = s[i]
  BY <1>2, <1>3
<1>5. ASSUME NEW k \in DOMAIN t
      PROVE  Len(s) + k \in DOMAIN u /\ u[Len(s) + k] = t[k]
  <2>1. Len(s) + k \in 1..(Len(s) + Len(t)) /\ ~(Len(s) + k <= Len(s)) /\ (Len(s) + k) - Len(s) = k
    BY <1>2
  <2> QED BY <1>3, <2>1
<1>6. ASSUME NEW i \in DOMAIN u
      PROVE  i \in DOMAIN s \/ \E k \in DOMAIN t : i = Len(s) + k
  <2>1. CASE i <= Len(s)
    BY <1>2, <1>3, <2>1
  <2>2. CASE ~(i <= Len(s))
    <3>1. i - Len(s) \in DOMAIN t /\ i = Len(s) + (i - Len(s))
      BY <1>2, <1>3, <2>2
    <3> QED BY <3>1
  <2> QED BY <2>1, <2>2
<1> QED BY <1>1, <1>4, <1>5, <1>6 DEF u

LEMMA AppendRows ==
  ASSUME NEW S, NEW s \in Seq(S), NEW x \in S
  PROVE  /\ Append(s, x) \in Seq(S) /\ DOMAIN s \subseteq DOMAIN Append(s, x)
         /\ \A i \in DOMAIN s : Append(s, x)[i] = s[i]
         /\ Len(s) + 1 \in DOMAIN Append(s, x) /\ Append(s, x)[Len(s) + 1] = x
         /\ \A i \in DOMAIN Append(s, x) : i \in DOMAIN s \/ i = Len(s) + 1
<1>1. DOMAIN s = 1..Len(s) /\ Len(s) \in Nat
  BY LenProperties
<1>2. /\ Append(s, x) \in Seq(S) /\ DOMAIN Append(s, x) = 1..(Len(s) + 1)
      /\ \A i \in 1..(Len(s) + 1) : Append(s, x)[i] = IF i = Len(s) + 1 THEN x ELSE s[i]
  BY <1>1
<1> DEFINE u == Append(s, x)
<1>3. /\ DOMAIN u = 1..(Len(s) + 1)
      /\ \A i \in 1..(Len(s) + 1) : u[i] = IF i = Len(s) + 1 THEN x ELSE s[i]
  BY <1>2
<1> HIDE DEF u
<1>4. \A i \in DOMAIN s : i \in DOMAIN u /\ u[i] = s[i]
  BY <1>1, <1>3
<1>5. Len(s) + 1 \in DOMAIN u /\ u[Len(s) + 1] = x
  BY <1>1, <1>3
<1>6. \A i \in DOMAIN u : i \in DOMAIN s \/ i = Len(s) + 1
  BY <1>1, <1>3
<1> QED BY <1>2, <1>4, <1>5, <1>6 DEF u

\* The rows that an import sees.
LEMMA VisibleTypes ==
  ASSUME TypeInv, NEW p \in Importers
  PROVE  /\ Visible(p) \in Seq(Recommendation) /\ ActiveIffResolved(Visible(p))
         /\ DOMAIN recs \subseteq DOMAIN Visible(p)
<1>1. PICK s \in Seq(Recommendation), t \in Seq(Recommendation) : s = recs /\ t = imp[p].mine
  BY DEF TypeInv, ImportType
<1>2. ActiveIffResolved(s) /\ ActiveIffResolved(t)
  BY <1>1 DEF TypeInv, ImportFits
<1>3. /\ s \o t \in Seq(Recommendation) /\ DOMAIN s \subseteq DOMAIN (s \o t)
      /\ \A i \in DOMAIN s : (s \o t)[i] = s[i]
      /\ \A k \in DOMAIN t : (s \o t)[Len(s) + k] = t[k]
      /\ \A i \in DOMAIN (s \o t) : i \in DOMAIN s \/ \E k \in DOMAIN t : i = Len(s) + k
  BY ConcatRows
<1> DEFINE u == s \o t
<1> HIDE DEF u
<1>4. ActiveIffResolved(u)
  BY <1>2, <1>3 DEF ActiveIffResolved, u
<1>5. Visible(p) = u
  BY <1>1 DEF Visible, u
<1> QED BY <1>1, <1>3, <1>4, <1>5 DEF u

LEMMA AppendResolved ==
  ASSUME NEW s \in Seq(Recommendation), NEW x \in Recommendation, ActiveIffResolved(s),
         x.status = "active" <=> x.symbol # NoSymbol
  PROVE  /\ Append(s, x) \in Seq(Recommendation) /\ ActiveIffResolved(Append(s, x))
         /\ DOMAIN s \subseteq DOMAIN Append(s, x)
<1>1. /\ Append(s, x) \in Seq(Recommendation) /\ DOMAIN s \subseteq DOMAIN Append(s, x)
      /\ \A i \in DOMAIN s : Append(s, x)[i] = s[i]
      /\ Append(s, x)[Len(s) + 1] = x
      /\ \A i \in DOMAIN Append(s, x) : i \in DOMAIN s \/ i = Len(s) + 1
  BY AppendRows
<1> DEFINE u == Append(s, x)
<1> HIDE DEF u
<1>2. ActiveIffResolved(u)
  BY <1>1 DEF ActiveIffResolved, u
<1> QED BY <1>1, <1>2 DEF u

\* What is inserted for an item.
LEMMA InsertedTypes ==
  ASSUME TypeInv, NEW m \in Messages, NEW n \in Names
  PROVE  /\ insert_recommendation(m, n) \in Recommendation
         /\ insert_recommendation(m, n).msg = m
         /\ insert_recommendation(m, n).symbol = SymbolOf[n]
         /\ insert_recommendation(m, n).status = "active" <=> SymbolOf[n] # NoSymbol
         /\ Time[m] # NoTime => insert_recommendation(m, n).time = Time[m]
<1>1. SymbolOf[n] \in Symbols \cup {NoSymbol} /\ Time[m] \in Nat \cup {NoTime}
  BY TrackerAssumption DEF Names
<1>2. 24 * today + ImportHour \in Nat
  BY TrackerAssumption DEF TypeInv
<1> QED BY <1>1, <1>2, NoBaselineType, RecommendationIs DEF insert_recommendation

\* The three ways an item can go: known, kept for the end, or committed with
\* what the session has inserted.
LEMMA ImportItemIs ==
  ASSUME TypeInv, NEW p \in Importers, NEW n \in Names, ImportItem(p, n)
  PROVE  /\ imp[p] \in ImportType /\ imp[p].pc = "run" /\ n \in imp[p].items
         /\ UNCHANGED <<today, stored, ref, overlapped>>
         /\ \/ /\ find_duplicate(p, imp[p].msg) /\ recs' = recs
               /\ imp' = [imp EXCEPT ![p] = [imp[p] EXCEPT !.items = imp[p].items \ {n}]]
            \/ /\ ~find_duplicate(p, imp[p].msg)
               /\ \E new \in Recommendation :
                    /\ new.msg = imp[p].msg /\ (new.status = "active" <=> new.symbol # NoSymbol)
                    /\ Time[new.msg] # NoTime => new.time = Time[new.msg]
                    /\ \/ /\ recs' = Append(Visible(p), new)
                          /\ imp' = [imp EXCEPT ![p] = [imp[p] EXCEPT !.items = imp[p].items \ {n},
                                                                      !.mine = <<>>]]
                       \/ /\ recs' = recs
                          /\ imp' = [imp EXCEPT ![p] = [imp[p] EXCEPT !.items = imp[p].items \ {n},
                                                                      !.mine = Append(imp[p].mine, new)]]
<1> DEFINE m == imp[p].msg
           rec == insert_recommendation(m, n)
           refreshed == n \in Explicit /\ HasBaseline(rec.symbol, rec.time, stored[rec.symbol])
           Fits(new) == /\ new \in Recommendation /\ new.msg = m
                        /\ new.status = "active" <=> new.symbol # NoSymbol
                        /\ Time[m] # NoTime => new.time = Time[m]
<1>1. /\ imp[p] \in ImportType /\ imp[p].pc = "run" /\ n \in imp[p].items
      /\ UNCHANGED <<today, stored, ref, overlapped>>
  BY DEF ImportItem, TypeInv
<1>2. m \in Messages
  BY <1>1 DEF ImportType
<1>3. Fits(rec) /\ rec.symbol = SymbolOf[n]
  BY <1>2, InsertedTypes
<1>4. CASE find_duplicate(p, m)
  <2>1. imp' = [imp EXCEPT ![p].items = @ \ {n}] /\ recs' = recs
    BY <1>4 DEF ImportItem
  <2>2. imp' = [imp EXCEPT ![p] = [imp[p] EXCEPT !.items = imp[p].items \ {n}]]
    BY <2>1, Zenon DEF TypeInv
  <2> QED BY <1>1, <1>4, <2>1, <2>2
<1>5. CASE ~find_duplicate(p, m) /\ refreshed
  <2> DEFINE new == Evaluated(rec, rec.time, stored[rec.symbol])
  <2>1. /\ recs' = Append(Visible(p), new)
        /\ imp' = [imp EXCEPT ![p].items = @ \ {n}, ![p].mine = <<>>]
    BY <1>5 DEF ImportItem
  <2>2. imp' = [imp EXCEPT ![p] = [imp[p] EXCEPT !.items = imp[p].items \ {n}, !.mine = <<>>]]
    BY <2>1, Zenon DEF TypeInv
  <2>3. rec.symbol \in Symbols
    BY <1>3, <1>5, RecommendationIs DEF HasBaseline
  <2>4. stored[rec.symbol] \in SUBSET (1..MaxDay)
    BY <2>3, TrackerAssumption DEF TypeInv
  <2>5. /\ new \in Recommendation /\ new.msg = rec.msg /\ new.symbol = rec.symbol
        /\ new.status = rec.status /\ new.time = rec.time
    BY <1>3, <1>5, <2>3, <2>4, EvaluatedTypes
  <2> HIDE DEF new, rec
  <2>6. Fits(new)
    BY <1>3, <2>5
  <2> QED BY <1>1, <1>5, <2>1, <2>2, <2>6
<1>6. CASE ~find_duplicate(p, m) /\ ~refreshed
  <2>1. /\ recs' = recs
        /\ imp' = [imp EXCEPT ![p].items = @ \ {n}, ![p].mine = Append(@, rec)]
    BY <1>6 DEF ImportItem
  <2>2. imp' = [imp EXCEPT ![p] = [imp[p] EXCEPT !.items = imp[p].items \ {n},
                                                 !.mine = Append(imp[p].mine, rec)]]
    BY <2>1, Zenon DEF TypeInv
  <2> HIDE DEF rec
  <2> QED BY <1>1, <1>3, <1>6, <2>1, <2>2
<1> QED BY <1>4, <1>5, <1>6

LEMMA ImportItemTypes ==
  ASSUME TypeInv, NEW p \in Importers, NEW n \in Names, ImportItem(p, n)
  PROVE  TypeInv'
<1> DEFINE k == imp[p]
           left == k.items \ {n}
<1>1. /\ k \in ImportType /\ ImportFits(p, k) /\ overlapped' \in BOOLEAN
      /\ UNCHANGED <<today, stored, ref>>
  BY ImportItemIs DEF TypeInv
<1>2. CASE recs' = recs /\ imp' = [imp EXCEPT ![p] = [k EXCEPT !.items = left]]
  <2> DEFINE j == [k EXCEPT !.items = left]
  <2> HIDE DEF k
  <2>1. j \in ImportType /\ ImportFits(p, j)
    BY <1>1 DEF ImportType, ImportFits
  <2> HIDE DEF j
  <2>2. imp' = [imp EXCEPT ![p] = j]
    BY <1>2 DEF j
  <2> QED BY <1>1, <1>2, <2>1, <2>2, ImportChange DEF TypeInv
<1>3. ASSUME NEW new \in Recommendation, new.status = "active" <=> new.symbol # NoSymbol,
             recs' = Append(Visible(p), new),
             imp' = [imp EXCEPT ![p] = [k EXCEPT !.items = left, !.mine = <<>>]]
      PROVE  TypeInv'
  <2> DEFINE j == [k EXCEPT !.items = left, !.mine = <<>>]
  <2>1. PICK s \in Seq(Recommendation) : s = Visible(p) /\ ActiveIffResolved(s)
                                         /\ DOMAIN recs \subseteq DOMAIN s
    BY VisibleTypes
  <2>2. /\ Append(s, new) \in Seq(Recommendation) /\ ActiveIffResolved(Append(s, new))
        /\ DOMAIN s \subseteq DOMAIN Append(s, new)
    BY <1>3, <2>1, AppendResolved
  <2>3. PICK u : u = Append(s, new)
    OBVIOUS
  <2>4. recs' = u
    BY <1>3, <2>1, <2>3
  <2> HIDE DEF k
  <2>5. <<>> \in Seq(Recommendation) /\ ActiveIffResolved(<<>>)
    BY EmptySeq DEF ActiveIffResolved
  <2>6. j \in ImportType /\ ImportFits(p, j)
    BY <1>1, <2>5 DEF ImportType, ImportFits
  <2> HIDE DEF j
  <2>7. imp' = [imp EXCEPT ![p] = j]
    BY <1>3 DEF j
  <2> QED BY <1>1, <2>1, <2>2, <2>3, <2>4, <2>6, <2>7, ImportChange
<1>4. ASSUME NEW new \in Recommendation, new.status = "active" <=> new.symbol # NoSymbol,
             recs' = recs,
             imp' = [imp EXCEPT ![p] = [k EXCEPT !.items = left, !.mine = Append(k.mine, new)]]
      PROVE  TypeInv'
  <2> DEFINE mine == Append(k.mine, new)
             j == [k EXCEPT !.items = left, !.mine = mine]
  <2>1. PICK s \in Seq(Recommendation) : s = k.mine /\ ActiveIffResolved(s)
    BY <1>1 DEF ImportType, ImportFits
  <2>2. Append(s, new) \in Seq(Recommendation) /\ ActiveIffResolved(Append(s, new))
    BY <1>4, <2>1, AppendResolved
  <2>3. mine \in Seq(Recommendation) /\ ActiveIffResolved(mine)
    BY <2>1, <2>2
  <2> HIDE DEF k, mine
  <2>4. j \in ImportType /\ ImportFits(p, j)
    BY <1>1, <2>3 DEF ImportType, ImportFits
  <2> HIDE DEF j
  <2>5. imp' = [imp EXCEPT ![p] = j]
    BY <1>4 DEF j, mine
  <2> QED BY <1>1, <1>4, <2>4, <2>5, ImportChange DEF TypeInv
<1> QED BY <1>2, <1>3, <1>4, ImportItemIs

LEMMA EndImportTypes ==
  ASSUME TypeInv, NEW p \in Importers, FinishImport(p) \/ FailImport(p)
  PROVE  TypeInv'
<1>1. PICK pc \in {"done", "failed"} :
        imp' = [imp EXCEPT ![p] = [NoImport EXCEPT !.pc = pc]] /\ recs' \in {recs, Visible(p)}
        /\ UNCHANGED <<today, stored, ref, overlapped>>
  BY DEF FinishImport, FailImport
<1> DEFINE j == [NoImport EXCEPT !.pc = pc]
<1>2. j \in ImportType /\ ImportFits(p, j)
  BY IdleTypes DEF ImportFits, ActiveIffResolved, NoImport
<1> HIDE DEF j
<1>3. imp' = [imp EXCEPT ![p] = j]
  BY <1>1 DEF j
<1>4. /\ recs' \in Seq(Recommendation) /\ ActiveIffResolved(recs')
      /\ DOMAIN recs \subseteq DOMAIN recs'
  BY <1>1, VisibleTypes DEF TypeInv
<1> QED BY <1>1, <1>2, <1>3, <1>4, ImportChange DEF TypeInv

\* The refreshes write rows and neither insert nor rename any.
RowsStay(new) ==
  /\ new \in Seq(Recommendation) /\ ActiveIffResolved(new) /\ DOMAIN new = DOMAIN recs
  /\ \A i \in DOMAIN recs : new[i].msg = recs[i].msg /\ new[i].time = recs[i].time

LEMMA RowTypes ==
  ASSUME TypeInv
  PROVE  /\ DOMAIN recs \subseteq Nat /\ recs = [i \in DOMAIN recs |-> recs[i]]
         /\ \A i \in DOMAIN recs : recs[i] \in Recommendation
         /\ RowsStay(recs)
<1>1. DOMAIN recs = 1..Len(recs) /\ Len(recs) \in Nat /\ recs \in [1..Len(recs) -> Recommendation]
  BY LenProperties DEF TypeInv
<1> QED BY <1>1 DEF TypeInv, RowsStay

\* One row is replaced by one of the same message.
LEMMA RowReplaced ==
  ASSUME TypeInv, NEW i \in DOMAIN recs, NEW x \in Recommendation,
         x.status = "active" <=> x.symbol # NoSymbol,
         x.msg = recs[i].msg, x.time = recs[i].time
  PROVE  RowsStay([recs EXCEPT ![i] = x])
<1>1. DOMAIN recs = 1..Len(recs)
  BY LenProperties DEF TypeInv
<1>2. [recs EXCEPT ![i] = x] \in Seq(Recommendation)
  BY <1>1, ExceptSeq DEF TypeInv
<1> QED BY <1>1, <1>2 DEF RowsStay, TypeInv, ActiveIffResolved

\* Objects that are loaded from a table.
LEMMA LoadedTypes ==
  ASSUME NEW table, DOMAIN table \subseteq Nat, NEW ids \in SUBSET DOMAIN table,
         \A i \in ids : table[i] \in Recommendation
  PROVE  /\ Loaded(table, ids) \in Objects /\ DOMAIN Loaded(table, ids) = ids
         /\ \A i \in ids : Loaded(table, ids)[i] = table[i]
<1>1. Loaded(table, ids) \in [ids -> Recommendation] /\ ids \in SUBSET Nat
  BY DEF Loaded
<1> QED BY <1>1 DEF Objects, Loaded

LEMMA ObjectTypes ==
  ASSUME NEW obj \in Objects
  PROVE  DOMAIN obj \subseteq Nat /\ \A i \in DOMAIN obj : obj[i] \in Recommendation
<1>1. PICK I \in SUBSET Nat : obj \in [I -> Recommendation]
  BY DEF Objects
<1> QED BY <1>1

LEMMA ListActiveTypes ==
  ASSUME TypeInv, NEW p \in Refreshers, ListActive(p)
  PROVE  TypeInv' /\ recs' = recs
<1> DEFINE ids == {i \in Ids : recs[i].status = "active" /\ recs[i].name \in Explicit}
           obj == Loaded(recs, ids)
           j == [Idle EXCEPT !.pc = "next", !.obj = obj]
<1>1. ref' = [ref EXCEPT ![p] = j] /\ UNCHANGED <<today, stored, recs, imp, overlapped>>
  BY DEF ListActive
<1>2. PICK table : table = recs
  OBVIOUS
<1>3. DOMAIN table \subseteq Nat /\ ids \in SUBSET DOMAIN table /\ \A i \in ids : table[i] \in Recommendation
  BY <1>2, RowTypes DEF Ids
<1>4. obj \in Objects /\ DOMAIN obj = ids /\ \A i \in ids : obj[i] = table[i]
  BY <1>2, <1>3, LoadedTypes
<1>5. \A i \in ids : table[i].symbol \in Symbols
  BY <1>2, <1>3, RecommendationIs DEF TypeInv, ActiveIffResolved, Ids
<1> HIDE DEF obj
<1>6. j \in RefreshType /\ j.pc = "next" /\ j.obj = obj /\ j.bars = {}
  BY <1>4, IdleTypes DEF RefreshType
<1> HIDE DEF j, ids
<1>7. RefreshFits(j, recs', today)
  BY <1>1, <1>2, <1>3, <1>4, <1>5, <1>6 DEF RefreshFits
<1> QED BY <1>1, <1>6, <1>7, RowTypes, RefreshChange DEF RowsStay

LEMMA ResolveTypes ==
  ASSUME TypeInv, NEW p \in Resolvers, NEW i \in Ids, NEW s \in Symbols, resolve_pending(p, i, s)
  PROVE  TypeInv' /\ RowsStay(recs')
<1> DEFINE row == [recs[i] EXCEPT !.symbol = s, !.status = "active"]
<1>1. /\ recs' = [recs EXCEPT ![i].symbol = s, ![i].status = "active"]
      /\ ref' = [ref EXCEPT ![p] = [Idle EXCEPT !.pc = "next", !.obj = Loaded(recs', {i})]]
      /\ UNCHANGED <<today, stored, imp, overlapped>>
  BY DEF resolve_pending
<1>2. recs' = [recs EXCEPT ![i] = row]
  <2>1. i \in DOMAIN recs
    BY DEF Ids
  <2> QED BY <1>1, <2>1, Zenon
<1>3. recs[i] \in Recommendation /\ i \in DOMAIN recs
  BY RowTypes DEF Ids
<1>4. /\ row \in Recommendation /\ row.symbol = s /\ row.status = "active"
      /\ row.msg = recs[i].msg /\ row.time = recs[i].time
  BY <1>3, RecommendationIs
<1> HIDE DEF row
<1>5. s # NoSymbol
  BY TrackerAssumption
<1>6. RowsStay(recs')
  BY <1>2, <1>3, <1>4, <1>5, RowReplaced
<1>7. recs'[i] = row /\ DOMAIN recs' = DOMAIN recs
  BY <1>2, <1>3
<1>8. PICK table : table = recs'
  OBVIOUS
<1> DEFINE obj == Loaded(table, {i})
           j == [Idle EXCEPT !.pc = "next", !.obj = obj]
<1>9. DOMAIN table \subseteq Nat /\ {i} \in SUBSET DOMAIN table /\ \A x \in {i} : table[x] \in Recommendation
  BY <1>3, <1>4, <1>7, <1>8, RowTypes
<1>10. obj \in Objects /\ DOMAIN obj = {i} /\ obj[i] = row
  BY <1>7, <1>8, <1>9, LoadedTypes
<1> HIDE DEF obj
<1>11. j \in RefreshType /\ j.pc = "next" /\ j.obj = obj /\ j.bars = {}
  BY <1>10, IdleTypes DEF RefreshType
<1>12. ref' = [ref EXCEPT ![p] = j]
  BY <1>1, <1>8 DEF obj
<1> HIDE DEF j
<1>13. RefreshFits(j, recs', today)
  BY <1>3, <1>4, <1>7, <1>10, <1>11 DEF RefreshFits
<1> QED BY <1>1, <1>6, <1>11, <1>12, <1>13, RefreshChange DEF RowsStay

LEMMA ReadBarsTypes ==
  ASSUME TypeInv, NEW p \in Refreshers \cup Resolvers, NEW i \in Ids, ReadBars(p, i)
  PROVE  TypeInv' /\ recs' = recs
<1> DEFINE k == ref[p]
           bars == stored[k.obj[i].symbol]
           j == [k EXCEPT !.pc = "write", !.id = i, !.bars = bars]
<1>1. i \in DOMAIN k.obj /\ UNCHANGED <<today, stored, recs, imp, overlapped>>
  BY DEF ReadBars
<1>2. ref' = [ref EXCEPT ![p] = j]
  BY Zenon DEF ReadBars, TypeInv
<1>3. k \in RefreshType /\ RefreshFits(k, recs, today)
  BY DEF TypeInv
<1>4. bars \in SUBSET (1..today) /\ 1..today \subseteq 1..MaxDay
  <2>1. k.obj[i].symbol \in Symbols
    BY <1>1, <1>3 DEF RefreshFits
  <2>2. 1..today \subseteq 1..MaxDay
    BY TrackerAssumption DEF TypeInv
  <2> QED BY <2>1, <2>2 DEF TypeInv
<1>5. i \in Nat
  BY RowTypes DEF Ids
<1> HIDE DEF k, bars
<1>6. j \in RefreshType /\ RefreshFits(j, recs, today)
  BY <1>1, <1>3, <1>4, <1>5 DEF RefreshType, RefreshFits
<1> HIDE DEF j
<1> QED BY <1>1, <1>2, <1>6, RowTypes, RefreshChange DEF RowsStay

LEMMA BaselinesMerge ==
  ASSUME NEW a \in Baseline, NEW b \in Baseline, NEW c \in Baseline
  PROVE  [f \in DOMAIN a |-> IF b[f] = c[f] THEN a[f] ELSE b[f]] \in Baseline
<1> DEFINE merged == [f \in DOMAIN a |-> IF b[f] = c[f] THEN a[f] ELSE b[f]]
<1>1. DOMAIN a = {"symbol", "date", "rule"}
  BY DEF Baseline
<1>2. /\ merged = [symbol |-> merged.symbol, date |-> merged.date, rule |-> merged.rule]
      /\ merged.symbol \in {a.symbol, b.symbol} /\ merged.date \in {a.date, b.date}
      /\ merged.rule \in {a.rule, b.rule}
  BY <1>1
<1> HIDE DEF merged
<1>3. merged \in Baseline
  BY <1>2 DEF Baseline
<1> QED BY <1>3 DEF merged

LEMMA RefreshTypes ==
  ASSUME TypeInv, NEW p \in Refreshers \cup Resolvers, refresh_recommendation(p)
  PROVE  TypeInv' /\ RowsStay(recs')
<1>1. PICK k \in RefreshType : k = ref[p] /\ RefreshFits(k, recs, today) /\ k.pc = "write"
  BY DEF TypeInv, refresh_recommendation
<1>2. PICK i \in DOMAIN k.obj : i = k.id
  BY <1>1 DEF RefreshFits
<1>3. /\ DOMAIN k.obj \subseteq Nat /\ i \in DOMAIN recs /\ \A x \in DOMAIN k.obj : k.obj[x] \in Recommendation
      /\ k.obj[i].symbol \in Symbols
  BY <1>1, <1>2, ObjectTypes DEF RefreshFits, RefreshType
<1>4. PICK old \in Recommendation : old = k.obj[i]
  BY <1>3
<1> DEFINE time == old.time - DbZone
           new == Evaluated(old, time, k.bars)
           base == [f \in DOMAIN recs[i].baseline |->
                      IF new.baseline[f] = old.baseline[f] THEN recs[i].baseline[f]
                                                           ELSE new.baseline[f]]
           row == [recs[i] EXCEPT !.baseline = base, !.perf = new.perf]
<1>5. \/ recs' = recs
      \/ HasBaseline(old.symbol, time, k.bars) /\ recs' = [recs EXCEPT ![i] = row]
  <2>1. CASE HasBaseline(old.symbol, time, k.bars)
    <3>1. recs' = [recs EXCEPT
            ![i].baseline = [f \in DOMAIN @ |->
               IF new.baseline[f] = old.baseline[f] THEN @[f] ELSE new.baseline[f]],
            ![i].perf = new.perf]
      BY <1>1, <1>2, <1>4, <2>1 DEF refresh_recommendation
    <3>2. recs' = [recs EXCEPT ![i] = row]
      BY <1>3, <3>1, Zenon
    <3> QED BY <2>1, <3>2
  <2>2. CASE ~HasBaseline(old.symbol, time, k.bars)
    BY <1>1, <1>2, <1>4, <2>2 DEF refresh_recommendation
  <2> QED BY <2>1, <2>2
<1>6. RowsStay(recs')
  <2>1. CASE recs' = recs
    BY <2>1, RowTypes
  <2>2. CASE HasBaseline(old.symbol, time, k.bars) /\ recs' = [recs EXCEPT ![i] = row]
    <3>1. k.bars \in SUBSET (1..MaxDay) /\ old.symbol \in Symbols
      BY <1>1, <1>3, <1>4 DEF RefreshType
    <3>2. new.baseline \in Baseline /\ new.perf \in [WINDOWS -> Window]
      BY <2>2, <3>1, EvaluatedTypes
    <3> HIDE DEF new
    <3>3. recs[i] \in Recommendation
      BY <1>3, RowTypes
    <3>4. recs[i].baseline \in Baseline /\ old.baseline \in Baseline
      BY <3>3, RecommendationIs
    <3>5. base \in Baseline
      <4>1. PICK a \in Baseline, b \in Baseline, c \in Baseline :
              a = recs[i].baseline /\ b = new.baseline /\ c = old.baseline
        BY <3>2, <3>4
      <4>2. [f \in DOMAIN a |-> IF b[f] = c[f] THEN a[f] ELSE b[f]] \in Baseline
        BY BaselinesMerge
      <4> QED BY <4>1, <4>2
    <3> HIDE DEF base
    <3>6. /\ row \in Recommendation /\ row.symbol = recs[i].symbol /\ row.status = recs[i].status
          /\ row.msg = recs[i].msg /\ row.time = recs[i].time
      BY <3>2, <3>3, <3>5, RecommendationIs
    <3>7. row.status = "active" <=> row.symbol # NoSymbol
      BY <1>3, <3>6 DEF TypeInv, ActiveIffResolved
    <3> HIDE DEF row
    <3> QED BY <1>3, <2>2, <3>6, <3>7, RowReplaced
  <2> QED BY <1>5, <2>1, <2>2
<1> HIDE DEF row, new, base
<1> DEFINE left == DOMAIN k.obj \ {i}
           obj == Loaded(k.obj, left)
           j == [Idle EXCEPT !.pc = "next", !.obj = obj]
<1>7. ref' = [ref EXCEPT ![p] = j] /\ UNCHANGED <<today, stored, imp, overlapped>>
  BY <1>1, <1>2 DEF refresh_recommendation
<1>8. obj \in Objects /\ DOMAIN obj = left /\ \A x \in left : obj[x] = k.obj[x]
  BY <1>3, LoadedTypes
<1> HIDE DEF obj
<1>9. j \in RefreshType /\ j.pc = "next" /\ j.obj = obj /\ j.bars = {}
  BY <1>8, IdleTypes DEF RefreshType
<1> HIDE DEF j
<1>10. RefreshFits(j, recs', today)
  BY <1>1, <1>6, <1>8, <1>9 DEF RefreshFits, RowsStay
<1> QED BY <1>6, <1>7, <1>9, <1>10, RefreshChange DEF RowsStay

LEMMA EndRefreshTypes ==
  ASSUME TypeInv, NEW p \in Refreshers \cup Resolvers, EndRefresh(p) \/ FailRefresh(p)
  PROVE  TypeInv' /\ recs' = recs
<1>1. ref' = [ref EXCEPT ![p] = Over(p)] /\ UNCHANGED <<today, stored, recs, imp, overlapped>>
  BY DEF EndRefresh, FailRefresh
<1> DEFINE j == Over(p)
<1>2. j \in RefreshType /\ DOMAIN j.obj = {} /\ j.bars = {} /\ j.pc # "write"
  <2>1. CASE Over(p) = Idle
    BY <2>1, IdleTypes
  <2>2. CASE Over(p) = [Idle EXCEPT !.pc = "done"]
    BY <2>2, IdleTypes DEF RefreshType
  <2> QED BY <2>1, <2>2 DEF Over
<1> HIDE DEF j
<1>3. RefreshFits(j, recs, today)
  BY <1>2 DEF RefreshFits
<1>4. ref' = [ref EXCEPT ![p] = j]
  BY <1>1 DEF j
<1> QED BY <1>1, <1>2, <1>3, <1>4, RowTypes, RefreshChange DEF RowsStay

\* Who moves: a day comes, an import takes a step, or sessions that insert
\* nothing.
LEMMA Steps ==
  ASSUME TypeInv, [Next]_vars
  PROVE  /\ TypeInv'
         /\ \/ UNCHANGED <<recs, imp, overlapped>>
            \/ RowsStay(recs') /\ UNCHANGED <<imp, overlapped>>
            \/ \E p \in Importers : Import(p)
<1>1. CASE NewDay
  BY <1>1, NewDayTypes DEF NewDay
<1>2. ASSUME NEW p \in Importers, Import(p)
      PROVE  TypeInv'
  BY <1>2, StartImportTypes, ExtractTypes, ImportItemTypes, EndImportTypes DEF Import
<1>3. ASSUME NEW p \in Refreshers, ListActive(p)
      PROVE  TypeInv' /\ RowsStay(recs') /\ UNCHANGED <<imp, overlapped>>
  BY <1>3, ListActiveTypes, RowTypes DEF ListActive
<1>4. ASSUME NEW p \in Resolvers, NEW i \in Ids, NEW s \in Symbols, resolve_pending(p, i, s)
      PROVE  TypeInv' /\ RowsStay(recs') /\ UNCHANGED <<imp, overlapped>>
  BY <1>4, ResolveTypes DEF resolve_pending
<1>5. ASSUME NEW p \in Refreshers \cup Resolvers, Refresh(p) \/ FailRefresh(p)
      PROVE  TypeInv' /\ RowsStay(recs') /\ UNCHANGED <<imp, overlapped>>
  <2>1. CASE \E i \in Ids : ReadBars(p, i)
    BY <2>1, ReadBarsTypes, RowTypes DEF ReadBars
  <2>2. CASE refresh_recommendation(p)
    BY <2>2, RefreshTypes DEF refresh_recommendation
  <2>3. CASE EndRefresh(p) \/ FailRefresh(p)
    BY <2>3, EndRefreshTypes, RowTypes DEF EndRefresh, FailRefresh
  <2> QED BY <1>5, <2>1, <2>2, <2>3 DEF Refresh
<1>6. CASE UNCHANGED vars
  <2>1. UNCHANGED <<today, stored, recs, imp, ref, overlapped>>
    BY <1>6 DEF vars
  <2>2. TypeInv'
    BY <2>1 DEF TypeInv
  <2> QED BY <2>1, <2>2
<1> QED BY <1>1, <1>2, <1>3, <1>4, <1>5, <1>6 DEF Next

\* The types of the tables and of the sessions; only an active recommendation
\* has a symbol, and each does.
THEOREM TrackerTypeCorrect == Spec => []TypeOK
<1>1. Init => TypeInv
  BY TypeInvInit
<1>2. TypeInv /\ [Next]_vars => TypeInv'
  BY Steps
<1>3. TypeInv => TypeOK
  BY TypeInvImplies
<1> QED BY <1>1, <1>2, <1>3, PTL DEF Spec

(***************************************************************************)
(* What an import leaves behind.                                           *)
(***************************************************************************)

\* The messages of the rows of a table.
Msgs(table) == {table[i].msg : i \in DOMAIN table}

LEMMA AppendMsgs ==
  ASSUME NEW s \in Seq(Recommendation), NEW new \in Recommendation
  PROVE  Msgs(Append(s, new)) = Msgs(s) \cup {new.msg}
<1> DEFINE u == Append(s, new)
<1>1. /\ DOMAIN s \subseteq DOMAIN u /\ \A i \in DOMAIN s : u[i] = s[i]
      /\ Len(s) + 1 \in DOMAIN u /\ u[Len(s) + 1] = new
      /\ \A i \in DOMAIN u : i \in DOMAIN s \/ i = Len(s) + 1
  BY AppendRows
<1> HIDE DEF u
<1>2. Msgs(u) \subseteq Msgs(s) \cup {new.msg}
  BY <1>1 DEF Msgs
<1>3. Msgs(s) \subseteq Msgs(u)
  BY <1>1 DEF Msgs
<1>4. new.msg \in Msgs(u)
  BY <1>1 DEF Msgs
<1> QED BY <1>2, <1>3, <1>4 DEF u

LEMMA VisibleMsgs ==
  ASSUME TypeInv, NEW p \in Importers
  PROVE  Msgs(Visible(p)) = Msgs(recs) \cup Msgs(imp[p].mine)
<1>1. PICK s \in Seq(Recommendation), t \in Seq(Recommendation) : s = recs /\ t = imp[p].mine
  BY DEF TypeInv, ImportType
<1> DEFINE u == s \o t
<1>2. /\ DOMAIN s \subseteq DOMAIN u /\ \A i \in DOMAIN s : u[i] = s[i]
      /\ \A k \in DOMAIN t : Len(s) + k \in DOMAIN u /\ u[Len(s) + k] = t[k]
      /\ \A i \in DOMAIN u : i \in DOMAIN s \/ \E k \in DOMAIN t : i = Len(s) + k
  BY ConcatRows
<1>3. Visible(p) = u
  BY <1>1 DEF Visible
<1> HIDE DEF u
<1>4. Msgs(u) \subseteq Msgs(s) \cup Msgs(t)
  <2> SUFFICES ASSUME NEW i \in DOMAIN u
               PROVE  u[i].msg \in Msgs(s) \cup Msgs(t)
    BY DEF Msgs
  <2>1. CASE i \in DOMAIN s
    BY <1>2, <2>1 DEF Msgs
  <2>2. CASE \E k \in DOMAIN t : i = Len(s) + k
    BY <1>2, <2>2 DEF Msgs
  <2> QED BY <1>2, <2>1, <2>2
<1>5. Msgs(s) \subseteq Msgs(u)
  BY <1>2 DEF Msgs
<1>6. Msgs(t) \subseteq Msgs(u)
  BY <1>2 DEF Msgs
<1> QED BY <1>1, <1>3, <1>4, <1>5, <1>6

LEMMA NoMsgs == Msgs(<<>>) = {}
BY DEF Msgs

LEMMA RowsStayMsgs ==
  ASSUME NEW new, RowsStay(new)
  PROVE  Msgs(new) = Msgs(recs)
BY DEF Msgs, RowsStay

\* A step of an import, from the session k to the session j.
Goes(p, k, j) ==
  \/ /\ k.pc = "idle" /\ j.pc = "run" /\ j.todo = Batch[p] /\ j.mine = k.mine /\ recs' = recs
     /\ overlapped' = (overlapped \/ \E q \in Importers : imp[q].pc = "run")
  \/ /\ k.pc = "run" /\ k.items = {} /\ j.pc = "run" /\ j.mine = k.mine
     /\ j.todo = k.todo \ {j.msg} /\ j.items = Items[j.msg]
     /\ recs' = recs /\ overlapped' = overlapped
  \/ /\ k.pc = "run" /\ j.pc = "run" /\ j.todo = k.todo /\ j.msg = k.msg
     /\ overlapped' = overlapped
     /\ \/ find_duplicate(p, k.msg) /\ recs' = recs /\ j.mine = k.mine
        \/ /\ ~find_duplicate(p, k.msg)
           /\ \E new \in Recommendation :
                /\ new.msg = k.msg
                /\ Time[new.msg] # NoTime => new.time = Time[new.msg]
                /\ \/ recs' = Append(Visible(p), new) /\ j.mine = <<>>
                   \/ recs' = recs /\ j.mine = Append(k.mine, new)
  \/ /\ k.pc = "run" /\ j.mine = <<>> /\ overlapped' = overlapped
     /\ \/ j.pc = "done" /\ k.items = {} /\ k.todo = {} /\ recs' = Visible(p)
        \/ j.pc = "failed" /\ recs' = recs

LEMMA ImportSteps ==
  ASSUME TypeInv, NEW p \in Importers, Import(p)
  PROVE  \E j : imp' = [imp EXCEPT ![p] = j] /\ Goes(p, imp[p], j)
<1>1. PICK k \in ImportType : k = imp[p]
  BY DEF TypeInv
<1>2. CASE StartImport(p)
  <2> DEFINE j == [k EXCEPT !.pc = "run", !.todo = Batch[p]]
  <2>1. imp' = [imp EXCEPT ![p] = [imp[p] EXCEPT !.pc = "run", !.todo = Batch[p]]]
    BY <1>2, Zenon DEF StartImport, TypeInv
  <2>2. imp' = [imp EXCEPT ![p] = j]
    BY <1>1, <2>1
  <2>3. j.pc = "run" /\ j.todo = Batch[p] /\ j.mine = k.mine
    BY DEF ImportType
  <2> HIDE DEF j
  <2>4. Goes(p, k, j)
    BY <1>1, <1>2, <2>3 DEF StartImport, Goes
  <2> QED BY <1>1, <2>2, <2>4
<1>3. ASSUME NEW m \in Messages, Extract(p, m)
      PROVE  \E j : imp' = [imp EXCEPT ![p] = j] /\ Goes(p, imp[p], j)
  <2> DEFINE j == [k EXCEPT !.todo = k.todo \ {m}, !.msg = m, !.items = Items[m]]
  <2>1. imp' = [imp EXCEPT ![p] = [imp[p] EXCEPT !.todo = imp[p].todo \ {m}, !.msg = m,
                                                 !.items = Items[m]]]
    BY <1>3, Zenon DEF Extract, TypeInv
  <2>2. imp' = [imp EXCEPT ![p] = j]
    BY <1>1, <2>1
  <2>3. /\ j.pc = k.pc /\ j.todo = k.todo \ {m} /\ j.msg = m /\ j.items = Items[m]
        /\ j.mine = k.mine
    BY DEF ImportType
  <2> HIDE DEF j
  <2>4. Goes(p, k, j)
    BY <1>1, <1>3, <2>3 DEF Extract, Goes
  <2> QED BY <1>1, <2>2, <2>4
<1>4. ASSUME NEW n \in Names, ImportItem(p, n)
      PROVE  \E j : imp' = [imp EXCEPT ![p] = j] /\ Goes(p, imp[p], j)
  <2> DEFINE left == k.items \ {n}
  <2>1. CASE /\ find_duplicate(p, k.msg) /\ recs' = recs
             /\ imp' = [imp EXCEPT ![p] = [k EXCEPT !.items = left]]
    <3> DEFINE j == [k EXCEPT !.items = left]
    <3>1. j.pc = k.pc /\ j.todo = k.todo /\ j.msg = k.msg /\ j.mine = k.mine
      BY DEF ImportType
    <3>2. imp' = [imp EXCEPT ![p] = j]
      BY <2>1
    <3> HIDE DEF j
    <3>3. Goes(p, k, j)
      BY <1>1, <1>4, <2>1, <3>1, ImportItemIs DEF Goes
    <3> QED BY <1>1, <3>2, <3>3
  <2>2. ASSUME NEW new \in Recommendation, new.msg = k.msg, ~find_duplicate(p, k.msg),
               Time[new.msg] # NoTime => new.time = Time[new.msg],
               recs' = Append(Visible(p), new),
               imp' = [imp EXCEPT ![p] = [k EXCEPT !.items = left, !.mine = <<>>]]
        PROVE  \E j : imp' = [imp EXCEPT ![p] = j] /\ Goes(p, imp[p], j)
    <3> DEFINE j == [k EXCEPT !.items = left, !.mine = <<>>]
    <3>1. j.pc = k.pc /\ j.todo = k.todo /\ j.msg = k.msg /\ j.mine = <<>>
      BY DEF ImportType
    <3>2. imp' = [imp EXCEPT ![p] = j]
      BY <2>2
    <3> HIDE DEF j
    <3>3. k.pc = "run" /\ overlapped' = overlapped
      BY <1>1, <1>4, ImportItemIs
    <3>4. Goes(p, k, j)
      BY <2>2, <3>1, <3>3 DEF Goes
    <3> QED BY <1>1, <3>2, <3>4
  <2>3. ASSUME NEW new \in Recommendation, new.msg = k.msg, ~find_duplicate(p, k.msg),
               Time[new.msg] # NoTime => new.time = Time[new.msg],
               recs' = recs,
               imp' = [imp EXCEPT ![p] = [k EXCEPT !.items = left, !.mine = Append(k.mine, new)]]
        PROVE  \E j : imp' = [imp EXCEPT ![p] = j] /\ Goes(p, imp[p], j)
    <3> DEFINE j == [k EXCEPT !.items = left, !.mine = Append(k.mine, new)]
    <3>1. j.pc = k.pc /\ j.todo = k.todo /\ j.msg = k.msg /\ j.mine = Append(k.mine, new)
      BY DEF ImportType
    <3>2. imp' = [imp EXCEPT ![p] = j]
      BY <2>3
    <3> HIDE DEF j
    <3>3. k.pc = "run" /\ overlapped' = overlapped
      BY <1>1, <1>4, ImportItemIs
    <3>4. Goes(p, k, j)
      BY <2>3, <3>1, <3>3 DEF Goes
    <3> QED BY <1>1, <3>2, <3>4
  <2> QED BY <1>1, <1>4, <2>1, <2>2, <2>3, ImportItemIs
<1>5. CASE FinishImport(p)
  <2> DEFINE j == [NoImport EXCEPT !.pc = "done"]
  <2>1. imp' = [imp EXCEPT ![p] = j] /\ recs' = Visible(p) /\ overlapped' = overlapped
        /\ k.pc = "run" /\ k.items = {} /\ k.todo = {}
    BY <1>1, <1>5 DEF FinishImport
  <2>2. j.pc = "done" /\ j.mine = <<>>
    BY DEF NoImport
  <2> HIDE DEF j
  <2> QED BY <1>1, <2>1, <2>2 DEF Goes
<1>6. CASE FailImport(p)
  <2> DEFINE j == [NoImport EXCEPT !.pc = "failed"]
  <2>1. imp' = [imp EXCEPT ![p] = j] /\ recs' = recs /\ overlapped' = overlapped /\ k.pc = "run"
    BY <1>1, <1>6 DEF FailImport
  <2>2. j.pc = "failed" /\ j.mine = <<>>
    BY DEF NoImport
  <2> HIDE DEF j
  <2> QED BY <1>1, <2>1, <2>2 DEF Goes
<1> QED BY <1>2, <1>3, <1>4, <1>5, <1>6 DEF Import

\* The messages an import is through with have a row, of its own or committed
\* by whom ever; and once it is done, all of its messages are.  The message it
\* is at has none as long as no item of it has been looked at.
KeptFor(p, k, table) ==
  /\ k.pc = "done" => \A m \in Batch[p] : Items[m] # {} => m \in Msgs(table)
  /\ k.pc = "run" => \A m \in Batch[p] \ k.todo : Items[m] # {} =>
       \/ m \in Msgs(table) \cup Msgs(k.mine)
       \/ m = k.msg /\ k.items = Items[m]

KeptInv == \A p \in Importers : KeptFor(p, imp[p], recs)

LEMMA KeptGrows ==
  ASSUME NEW p, NEW k, NEW s, NEW t, KeptFor(p, k, s), Msgs(s) \subseteq Msgs(t)
  PROVE  KeptFor(p, k, t)
BY DEF KeptFor

\* No step of an import loses a message that is recorded, and the import has
\* what it needs.
LEMMA KeptByImport ==
  ASSUME TypeInv, NEW p \in Importers, NEW j, Goes(p, imp[p], j), KeptFor(p, imp[p], recs)
  PROVE  Msgs(recs) \subseteq Msgs(recs') /\ KeptFor(p, j, recs')
<1>1. PICK k \in ImportType : k = imp[p]
  BY DEF TypeInv
<1>2. PICK v \in Seq(Recommendation) : v = Visible(p)
  BY VisibleTypes
<1>3. Msgs(v) = Msgs(recs) \cup Msgs(k.mine)
  BY <1>1, <1>2, VisibleMsgs
<1>4. KeptFor(p, k, recs) /\ Goes(p, k, j)
  BY <1>1
<1>5. find_duplicate(p, k.msg) => k.msg \in Msgs(v)
  BY <1>2 DEF find_duplicate, Msgs
<1>6. CASE j.todo = Batch[p] /\ j.pc = "run" /\ recs' = recs
  BY <1>6 DEF KeptFor
<1>7. CASE /\ k.pc = "run" /\ k.items = {} /\ j.pc = "run" /\ j.mine = k.mine
           /\ j.todo = k.todo \ {j.msg} /\ j.items = Items[j.msg] /\ recs' = recs
  BY <1>4, <1>7 DEF KeptFor
<1>8. ASSUME k.pc = "run", j.pc = "run", j.todo = k.todo, j.msg = k.msg,
             Msgs(recs') \cup Msgs(j.mine) = Msgs(v) \cup {k.msg}, Msgs(recs) \subseteq Msgs(recs')
      PROVE  KeptFor(p, j, recs')
  BY <1>3, <1>4, <1>8 DEF KeptFor
<1>9. CASE /\ k.pc = "run" /\ j.pc = "run" /\ j.todo = k.todo /\ j.msg = k.msg
           /\ find_duplicate(p, k.msg) /\ recs' = recs /\ j.mine = k.mine
  BY <1>3, <1>5, <1>8, <1>9
<1>10. ASSUME k.pc = "run", j.pc = "run", j.todo = k.todo, j.msg = k.msg,
              NEW new \in Recommendation, new.msg = k.msg,
              \/ recs' = Append(v, new) /\ j.mine = <<>>
              \/ recs' = recs /\ j.mine = Append(k.mine, new)
       PROVE  Msgs(recs) \subseteq Msgs(recs') /\ KeptFor(p, j, recs')
  <2>1. CASE recs' = Append(v, new) /\ j.mine = <<>>
    <3>1. Msgs(recs') = Msgs(v) \cup {k.msg} /\ Msgs(j.mine) = {}
      BY <1>10, <2>1, AppendMsgs, NoMsgs
    <3> QED BY <1>3, <1>8, <1>10, <3>1
  <2>2. CASE recs' = recs /\ j.mine = Append(k.mine, new)
    <3>1. Msgs(j.mine) = Msgs(k.mine) \cup {k.msg}
      BY <1>1, <1>10, <2>2, AppendMsgs DEF ImportType
    <3> QED BY <1>3, <1>8, <1>10, <2>2, <3>1
  <2> QED BY <1>10, <2>1, <2>2
<1>11. CASE j.pc = "done" /\ k.pc = "run" /\ k.items = {} /\ k.todo = {} /\ recs' = v
  BY <1>3, <1>4, <1>11 DEF KeptFor
<1>12. CASE j.pc = "failed" /\ recs' = recs
  BY <1>12 DEF KeptFor
<1> QED BY <1>2, <1>4, <1>6, <1>7, <1>9, <1>10, <1>11, <1>12 DEF Goes

LEMMA KeptNext ==
  ASSUME TypeInv, KeptInv, [Next]_vars
  PROVE  KeptInv'
<1>1. CASE UNCHANGED <<recs, imp, overlapped>>
  BY <1>1 DEF KeptInv
<1>2. CASE RowsStay(recs') /\ UNCHANGED <<imp, overlapped>>
  <2>1. Msgs(recs') = Msgs(recs)
    BY <1>2, RowsStayMsgs
  <2>2. \A p \in Importers : KeptFor(p, imp[p], recs')
    BY <2>1, KeptGrows DEF KeptInv
  <2> QED BY <1>2, <2>2 DEF KeptInv
<1>3. ASSUME NEW p \in Importers, Import(p)
      PROVE  KeptInv'
  <2>1. PICK j : imp' = [imp EXCEPT ![p] = j] /\ Goes(p, imp[p], j)
    BY <1>3, ImportSteps
  <2>2. Msgs(recs) \subseteq Msgs(recs') /\ KeptFor(p, j, recs')
    BY <2>1, KeptByImport DEF KeptInv
  <2>3. ASSUME NEW q \in Importers
        PROVE  KeptFor(q, imp'[q], recs')
    <3>1. CASE q = p
      BY <2>1, <2>2, <3>1 DEF TypeInv
    <3>2. CASE q # p
      BY <2>1, <2>2, <3>2, KeptGrows DEF KeptInv, TypeInv
    <3> QED BY <3>1, <3>2
  <2> QED BY <2>3 DEF KeptInv
<1> QED BY <1>1, <1>2, <1>3, Steps

\* An import that ended well has left a recommendation of every message that
\* has one, also where an import before it failed half way: the tracker finds
\* the rows that one has committed, and inserts the others.
THEOREM MessagesKept == Spec => []EveryMessageKept
<1>1. Init => TypeInv /\ KeptInv
  <2>1. Init => KeptInv
    BY IdleTypes DEF Init, KeptInv, KeptFor
  <2> QED BY <2>1, TypeInvInit
<1>2. TypeInv /\ KeptInv /\ [Next]_vars => TypeInv' /\ KeptInv'
  BY Steps, KeptNext
<1>3. KeptInv => EveryMessageKept
  BY DEF KeptInv, KeptFor, EveryMessageKept, Recorded, Msgs, Ids
<1> QED BY <1>1, <1>2, <1>3, PTL DEF Spec

(***************************************************************************)
(* One row of a text.                                                      *)
(***************************************************************************)

Once(table, m) ==
  \A i, x \in DOMAIN table : table[i].msg = m /\ table[x].msg = m => i = x

\* A text without a time, or with one that is read on one clock.
Clocked(m) == Time[m] = NoTime \/ DbZone = 0

\* The rows of a text with a time are stored with that time.
TimesRead(table) ==
  \A i \in DOMAIN table : Time[table[i].msg] # NoTime => table[i].time = Time[table[i].msg]

\* No row of m is in s and in t, nor two in one of them.
OnceIn(s, t, m) == Once(s, m) /\ Once(t, m) /\ ~(m \in Msgs(s) /\ m \in Msgs(t))

\* As long as imports have not overlapped, at most one of them is under way,
\* and the others have no rows of their own.
OnceInv ==
  /\ TimesRead(recs)
  /\ \A p \in Importers : /\ TimesRead(imp[p].mine)
                          /\ imp[p].pc # "run" => imp[p].mine = <<>>
  /\ ~overlapped => \A p, q \in Importers : imp[p].pc = "run" /\ imp[q].pc = "run" => p = q
  /\ ~overlapped => \A m \in Messages : Clocked(m) =>
       /\ Once(recs, m)
       /\ \A p \in Importers : OnceIn(recs, imp[p].mine, m)

LEMMA EmptyOnce == TimesRead(<<>>) /\ \A m : Once(<<>>, m)
BY DEF TimesRead, Once

LEMMA AppendOnce ==
  ASSUME NEW s \in Seq(Recommendation), NEW new \in Recommendation, TimesRead(s),
         Time[new.msg] # NoTime => new.time = Time[new.msg]
  PROVE  /\ TimesRead(Append(s, new))
         /\ \A m : Once(s, m) /\ (m = new.msg => m \notin Msgs(s)) => Once(Append(s, new), m)
<1> DEFINE u == Append(s, new)
<1>1. /\ \A i \in DOMAIN s : u[i] = s[i]
      /\ Len(s) + 1 \in DOMAIN u /\ u[Len(s) + 1] = new
      /\ \A i \in DOMAIN u : i \in DOMAIN s \/ i = Len(s) + 1
  BY AppendRows
<1> HIDE DEF u
<1>2. TimesRead(u)
  BY <1>1 DEF TimesRead
<1>3. ASSUME NEW m, Once(s, m), m = new.msg => m \notin Msgs(s)
      PROVE  Once(u, m)
  BY <1>1, <1>3 DEF Once, Msgs
<1> QED BY <1>2, <1>3 DEF u

LEMMA VisibleOnce ==
  ASSUME TypeInv, NEW p \in Importers, TimesRead(recs), TimesRead(imp[p].mine)
  PROVE  /\ TimesRead(Visible(p))
         /\ \A m : OnceIn(recs, imp[p].mine, m) => Once(Visible(p), m)
<1>1. PICK s \in Seq(Recommendation), t \in Seq(Recommendation) : s = recs /\ t = imp[p].mine
  BY DEF TypeInv, ImportType
<1> DEFINE u == s \o t
<1>2. /\ \A i \in DOMAIN s : u[i] = s[i]
      /\ \A k \in DOMAIN t : u[Len(s) + k] = t[k]
      /\ \A i \in DOMAIN u : i \in DOMAIN s \/ \E k \in DOMAIN t : i = Len(s) + k
  BY ConcatRows
<1>3. Visible(p) = u
  BY <1>1 DEF Visible
<1> HIDE DEF u
<1>4. TimesRead(s) /\ TimesRead(t)
  BY <1>1
<1>5. TimesRead(u)
  <2> SUFFICES ASSUME NEW i \in DOMAIN u, Time[u[i].msg] # NoTime
               PROVE  u[i].time = Time[u[i].msg]
    BY DEF TimesRead
  <2>1. CASE i \in DOMAIN s
    BY <1>2, <1>4, <2>1 DEF TimesRead
  <2>2. CASE \E k \in DOMAIN t : i = Len(s) + k
    BY <1>2, <1>4, <2>2 DEF TimesRead
  <2> QED BY <1>2, <2>1, <2>2
<1>6. ASSUME NEW m, OnceIn(s, t, m), NEW i \in DOMAIN u, NEW x \in DOMAIN u,
             u[i].msg = m, u[x].msg = m
      PROVE  i = x
  <2>1. CASE i \in DOMAIN s /\ x \in DOMAIN s
    BY <1>2, <1>6, <2>1 DEF OnceIn, Once
  <2>2. CASE i \in DOMAIN s /\ \E k \in DOMAIN t : x = Len(s) + k
    BY <1>2, <1>6, <2>2 DEF OnceIn, Msgs
  <2>3. CASE x \in DOMAIN s /\ \E k \in DOMAIN t : i = Len(s) + k
    BY <1>2, <1>6, <2>3 DEF OnceIn, Msgs
  <2>4. ASSUME NEW k \in DOMAIN t, NEW y \in DOMAIN t, i = Len(s) + k, x = Len(s) + y
        PROVE  i = x
    BY <1>2, <1>6, <2>4 DEF OnceIn, Once
  <2> QED BY <1>2, <2>1, <2>2, <2>3, <2>4
<1> QED BY <1>1, <1>3, <1>5, <1>6 DEF Once

\* What is no duplicate has no row that the session sees.
LEMMA NoDuplicate ==
  ASSUME TypeInv, NEW p \in Importers, NEW m \in Messages, Clocked(m), TimesRead(Visible(p)),
         ~find_duplicate(p, m)
  PROVE  m \notin Msgs(recs) /\ m \notin Msgs(imp[p].mine)
<1>1. m \notin Msgs(Visible(p))
  <2> SUFFICES ASSUME NEW i \in DOMAIN Visible(p), Visible(p)[i].msg = m
               PROVE  FALSE
    BY DEF Msgs
  <2>1. Time[m] # NoTime => Visible(p)[i].time = Time[m] /\ DbZone = 0 /\ Time[m] \in Nat
    BY TrackerAssumption DEF TimesRead, Clocked
  <2>2. Time[m] # NoTime => Visible(p)[i].time = Time[m] + DbZone
    BY <2>1
  <2> QED BY <2>2 DEF find_duplicate
<1> QED BY <1>1, VisibleMsgs

LEMMA RowsStayOnce ==
  ASSUME NEW new, RowsStay(new)
  PROVE  /\ TimesRead(recs) => TimesRead(new)
         /\ \A m : Once(recs, m) => Once(new, m)
BY DEF RowsStay, TimesRead, Once

\* A step of an import that is alone adds no second row of a text.
LEMMA OnceByImport ==
  ASSUME TypeInv, OnceInv, NEW p \in Importers, NEW j, Goes(p, imp[p], j)
  PROVE  /\ TimesRead(recs') /\ TimesRead(j.mine)
         /\ j.pc # "run" => j.mine = <<>>
         /\ ~overlapped => \A m \in Messages : Clocked(m) =>
              Once(recs', m) /\ OnceIn(recs', j.mine, m)
<1>1. PICK k \in ImportType : k = imp[p]
  BY DEF TypeInv
<1>2. PICK v \in Seq(Recommendation) : v = Visible(p)
  BY VisibleTypes
<1>3. /\ TimesRead(recs) /\ TimesRead(k.mine) /\ TimesRead(v)
      /\ \A m : OnceIn(recs, k.mine, m) => Once(v, m)
      /\ Goes(p, k, j)
      /\ Msgs(v) = Msgs(recs) \cup Msgs(k.mine)
  BY <1>1, <1>2, VisibleOnce, VisibleMsgs DEF OnceInv
<1>4. ~overlapped => \A m \in Messages : Clocked(m) => Once(recs, m) /\ OnceIn(recs, k.mine, m)
  BY <1>1 DEF OnceInv
<1>5. TimesRead(<<>>) /\ Msgs(<<>>) = {} /\ \A m : Once(<<>>, m)
  BY EmptyOnce, NoMsgs
<1>6. CASE recs' = recs /\ j.mine = k.mine /\ j.pc = "run"
  BY <1>3, <1>4, <1>6
<1>7. CASE recs' \in {recs, v} /\ j.mine = <<>>
  BY <1>3, <1>4, <1>5, <1>7 DEF OnceIn
<1>8. ASSUME j.pc = "run", ~find_duplicate(p, k.msg), NEW new \in Recommendation,
             new.msg = k.msg, Time[new.msg] # NoTime => new.time = Time[new.msg],
             \/ recs' = Append(v, new) /\ j.mine = <<>>
             \/ recs' = recs /\ j.mine = Append(k.mine, new)
      PROVE  /\ TimesRead(recs') /\ TimesRead(j.mine)
             /\ ~overlapped => \A m \in Messages : Clocked(m) =>
                  Once(recs', m) /\ OnceIn(recs', j.mine, m)
  <2>1. \A m \in Messages : Clocked(m) /\ m = new.msg => m \notin Msgs(v)
    BY <1>1, <1>2, <1>3, <1>8, NoDuplicate
  <2>2. CASE recs' = Append(v, new) /\ j.mine = <<>>
    <3>1. /\ TimesRead(Append(v, new))
          /\ \A m : Once(v, m) /\ (m = new.msg => m \notin Msgs(v)) => Once(Append(v, new), m)
      BY <1>3, <1>8, AppendOnce
    <3> QED BY <1>3, <1>4, <1>5, <2>1, <2>2, <3>1 DEF OnceIn
  <2>3. CASE recs' = recs /\ j.mine = Append(k.mine, new)
    <3>1. PICK t \in Seq(Recommendation) : t = k.mine
      BY DEF ImportType
    <3>2. /\ TimesRead(Append(t, new)) /\ Msgs(Append(t, new)) = Msgs(t) \cup {new.msg}
          /\ \A m : Once(t, m) /\ (m = new.msg => m \notin Msgs(t)) => Once(Append(t, new), m)
      BY <1>3, <1>8, <3>1, AppendOnce, AppendMsgs
    <3>3. ASSUME ~overlapped, NEW m \in Messages, Clocked(m)
          PROVE  Once(recs, m) /\ OnceIn(recs, Append(t, new), m)
      <4>1. Once(recs, m) /\ OnceIn(recs, t, m)
        BY <1>4, <3>1, <3>3
      <4>2. m = new.msg => m \notin Msgs(recs) /\ m \notin Msgs(t)
        BY <1>3, <2>1, <3>1, <3>3
      <4> QED BY <3>2, <4>1, <4>2 DEF OnceIn
    <3> QED BY <1>3, <2>3, <3>1, <3>2, <3>3
  <2> QED BY <1>8, <2>2, <2>3
<1> QED BY <1>2, <1>3, <1>6, <1>7, <1>8 DEF Goes

\* When an import takes a step and none has overlapped, no other is under way.
LEMMA Alone ==
  ASSUME OnceInv, NEW p \in Importers, NEW j, Goes(p, imp[p], j), ~overlapped'
  PROVE  ~overlapped /\ \A q \in Importers : q # p => imp[q].pc # "run"
<1>1. CASE overlapped' = (overlapped \/ \E q \in Importers : imp[q].pc = "run")
  BY <1>1
<1>2. CASE imp[p].pc = "run" /\ overlapped' = overlapped
  BY <1>2 DEF OnceInv
<1> QED BY <1>1, <1>2 DEF Goes

LEMMA OnceNext ==
  ASSUME TypeInv, OnceInv, [Next]_vars
  PROVE  OnceInv'
<1>1. CASE UNCHANGED <<recs, imp, overlapped>>
  BY <1>1 DEF OnceInv
<1>2. CASE RowsStay(recs') /\ UNCHANGED <<imp, overlapped>>
  <2>1. PICK new : new = recs'
    OBVIOUS
  <2>2. /\ TimesRead(recs) => TimesRead(new)
        /\ \A m : Once(recs, m) => Once(new, m)
        /\ Msgs(new) = Msgs(recs)
    BY <1>2, <2>1, RowsStayOnce, RowsStayMsgs
  <2>3. \A m, p : OnceIn(recs, imp[p].mine, m) => OnceIn(new, imp[p].mine, m)
    BY <2>2 DEF OnceIn
  <2> QED BY <1>2, <2>1, <2>2, <2>3 DEF OnceInv
<1>3. ASSUME NEW p \in Importers, Import(p)
      PROVE  OnceInv'
  <2>1. PICK j : imp' = [imp EXCEPT ![p] = j] /\ Goes(p, imp[p], j)
    BY <1>3, ImportSteps
  <2>2. /\ TimesRead(recs') /\ TimesRead(j.mine)
        /\ j.pc # "run" => j.mine = <<>>
        /\ ~overlapped => \A m \in Messages : Clocked(m) =>
             Once(recs', m) /\ OnceIn(recs', j.mine, m)
    BY <2>1, OnceByImport
  <2>3. imp'[p] = j /\ \A q \in Importers : q # p => imp'[q] = imp[q]
    BY <2>1 DEF TypeInv
  <2>4. ASSUME ~overlapped'
        PROVE  ~overlapped /\ \A q \in Importers : q # p => imp[q].pc # "run" /\ imp[q].mine = <<>>
    BY <2>1, <2>4, Alone DEF OnceInv
  <2>5. \A q \in Importers : /\ TimesRead(imp'[q].mine)
                             /\ imp'[q].pc # "run" => imp'[q].mine = <<>>
    BY <2>2, <2>3 DEF OnceInv
  <2>6. ~overlapped' => \A q, r \in Importers :
          imp'[q].pc = "run" /\ imp'[r].pc = "run" => q = r
    BY <2>3, <2>4
  <2>7. ASSUME ~overlapped', NEW m \in Messages, Clocked(m)
        PROVE  Once(recs', m) /\ \A q \in Importers : OnceIn(recs', imp'[q].mine, m)
    <3>1. Once(recs', m) /\ OnceIn(recs', j.mine, m)
      BY <2>2, <2>4, <2>7
    <3>2. ASSUME NEW q \in Importers, q # p
          PROVE  OnceIn(recs', imp'[q].mine, m)
      <4>1. imp'[q].mine = <<>>
        BY <2>3, <2>4, <2>7, <3>2
      <4> QED BY <3>1, <4>1, EmptyOnce, NoMsgs DEF OnceIn
    <3> QED BY <2>3, <3>1, <3>2
  <2> QED BY <2>2, <2>5, <2>6, <2>7 DEF OnceInv, Clocked
<1> QED BY <1>1, <1>2, <1>3, Steps

\* A text that is imported again doubles none of its recommendations, failed
\* imports included, as long as imports do not overlap and its time is read on
\* one clock.
THEOREM ItemsOnce == Spec => []ItemOnce
<1>1. Init => TypeInv /\ OnceInv
  <2>1. Init => OnceInv
    BY IdleTypes, EmptyOnce, NoMsgs DEF Init, OnceInv, OnceIn
  <2> QED BY <2>1, TypeInvInit
<1>2. TypeInv /\ OnceInv /\ [Next]_vars => TypeInv' /\ OnceInv'
  BY Steps, OnceNext
<1>3. TypeInv /\ OnceInv => ItemOnce
  <2> SUFFICES ASSUME TypeInv, OnceInv, NEW i \in Ids, NEW x \in Ids, ~overlapped,
                      recs[i].msg = recs[x].msg, Clocked(recs[i].msg)
               PROVE  i = x
    BY DEF ItemOnce, Clocked
  <2>1. recs[i].msg \in Messages
    <3>1. recs[i] \in Recommendation
      BY DEF TypeInv, Ids
    <3> QED BY <3>1, RecommendationIs
  <2>2. Once(recs, recs[i].msg)
    BY <2>1 DEF OnceInv
  <2> QED BY <2>2 DEF Once, Ids
<1> QED BY <1>1, <1>2, <1>3, PTL DEF Spec

(***************************************************************************)
(* Why the refreshes heal.                                                 *)
(***************************************************************************)

\* UpToDate and Current of a row and of the sessions that are given.
Right(row, days) ==
  row.status = "active" /\ row.name \in Explicit
      /\ HasBaseline(row.symbol, row.time - DbZone, days[row.symbol])
    => row = Evaluated(row, row.time - DbZone, days[row.symbol])

CurrentCopy(i, k, row, days) ==
  i \in DOMAIN k.obj =>
    /\ k.obj[i].symbol = row.symbol
    /\ k.obj[i].baseline = row.baseline \/ Right(row, days)
    /\ k.pc = "write" /\ k.id = i => k.bars = days[row.symbol]

LEMMA RightAndCurrent ==
  ASSUME NEW i
  PROVE  /\ UpToDate(recs[i]) <=> Right(recs[i], stored)
         /\ UpToDate(recs[i])' <=> Right(recs'[i], stored')
         /\ Current(i) <=> \A p \in Refreshers \cup Resolvers :
                             CurrentCopy(i, ref[p], recs[i], stored)
         /\ Current(i)' <=> \A p \in Refreshers \cup Resolvers :
                              CurrentCopy(i, ref'[p], recs'[i], stored')
<1>1. UpToDate(recs[i]) <=> Right(recs[i], stored)
  BY DEF UpToDate, Right
<1>2. UpToDate(recs[i])' <=> Right(recs'[i], stored')
  BY DEF UpToDate, Right
<1>3. Current(i) <=> \A p \in Refreshers \cup Resolvers : CurrentCopy(i, ref[p], recs[i], stored)
  BY <1>1 DEF Current, CurrentCopy
<1>4. Current(i)' <=> \A p \in Refreshers \cup Resolvers : CurrentCopy(i, ref'[p], recs'[i], stored')
  BY <1>2 DEF Current, CurrentCopy
<1> QED BY <1>1, <1>2, <1>3, <1>4

\* What refresh_recommendation writes over the row, from the copy old.
Written(row, old, bars) ==
  LET new == Evaluated(old, old.time - DbZone, bars)
  IN  [row EXCEPT
         !.baseline = [f \in DOMAIN row.baseline |->
                         IF new.baseline[f] = old.baseline[f] THEN row.baseline[f]
                                                              ELSE new.baseline[f]],
         !.perf = new.perf]

\* Writing only the fields that differ from the copy makes the row right: the
\* fields that are passed over have the right value, since the copy has the
\* baseline of the row, or the row was right.
LEMMA WrittenIsRight ==
  ASSUME NEW row \in Recommendation, NEW old \in Recommendation, NEW days,
         row.symbol \in Symbols, days[row.symbol] \in SUBSET (1..MaxDay),
         old.symbol = row.symbol, old.time = row.time,
         old.baseline = row.baseline \/ Right(row, days),
         HasBaseline(old.symbol, old.time - DbZone, days[row.symbol])
  PROVE  Right(Written(row, old, days[row.symbol]), days)
<1> DEFINE time == row.time - DbZone
           bars == days[row.symbol]
           range == BarsInRange(time, bars)
           b == anchor_baseline(row.symbol, time, range)
           perf == compute_windows(b, range)
           new == Evaluated(old, time, bars)
           base == [f \in DOMAIN row.baseline |->
                      IF new.baseline[f] = old.baseline[f] THEN row.baseline[f] ELSE new.baseline[f]]
           x == [row EXCEPT !.baseline = base, !.perf = new.perf]
<1>1. Written(row, old, bars) = x
  BY DEF Written
<1>2. row.baseline \in Baseline /\ old.baseline \in Baseline /\ new.baseline \in Baseline
      /\ new.perf \in [WINDOWS -> Window]
  BY EvaluatedTypes, RecommendationIs
<1>3. new = [old EXCEPT !.baseline = b, !.perf = perf]
  BY DEF Evaluated
<1>4. new.baseline = b /\ new.perf = perf
  <2> HIDE DEF b, perf, new
  <2> QED BY <1>3, RecommendationIs
<1>5. Right(row, days) /\ row.status = "active" /\ row.name \in Explicit => row.baseline = b
  <2> SUFFICES ASSUME Right(row, days), row.status = "active", row.name \in Explicit
               PROVE  row.baseline = b
    OBVIOUS
  <2>1. row = Evaluated(row, time, bars)
    BY DEF Right
  <2>2. row = [row EXCEPT !.baseline = b, !.perf = perf]
    BY <2>1 DEF Evaluated
  <2> HIDE DEF b, perf
  <2> QED BY <2>2, RecommendationIs
<1> HIDE DEF new
<1>6. /\ x.symbol = row.symbol /\ x.time = row.time /\ x.status = row.status /\ x.name = row.name
      /\ x = [row EXCEPT !.baseline = base, !.perf = perf]
  <2> HIDE DEF base, b, perf
  <2> QED BY <1>4, RecommendationIs
<1>7. ASSUME row.status = "active", row.name \in Explicit
      PROVE  base = b
  <2>1. old.baseline = row.baseline \/ row.baseline = b
    BY <1>5, <1>7
  <2>2. \A f \in DOMAIN row.baseline : base[f] = new.baseline[f]
    <3> HIDE DEF b
    <3> QED BY <1>4, <2>1
  <2>3. DOMAIN base = DOMAIN row.baseline
    OBVIOUS
  <2>4. DOMAIN row.baseline = {"symbol", "date", "rule"}
    BY <1>2 DEF Baseline
  <2>5. base = [symbol |-> base["symbol"], date |-> base["date"], rule |-> base["rule"]]
    BY <2>4
  <2> HIDE DEF base, b
  <2>6. base = [symbol |-> new.baseline["symbol"], date |-> new.baseline["date"],
                rule |-> new.baseline["rule"]]
    BY <2>2, <2>4, <2>5
  <2>7. new.baseline = base
    BY <1>2, <2>6 DEF Baseline
  <2> QED BY <1>4, <2>7
<1>8. ASSUME row.status = "active", row.name \in Explicit
      PROVE  x = Evaluated(x, x.time - DbZone, days[x.symbol])
  <2>1. x = [row EXCEPT !.baseline = b, !.perf = perf]
    BY <1>6, <1>7, <1>8
  <2>2. Evaluated(x, x.time - DbZone, days[x.symbol]) = [x EXCEPT !.baseline = b, !.perf = perf]
    <3> HIDE DEF x
    <3> QED BY <1>6 DEF Evaluated
  <2> HIDE DEF x, b, perf
  <2> QED BY <2>1, <2>2, RecommendationIs
<1> HIDE DEF x
<1> QED BY <1>1, <1>6, <1>8 DEF Right

\* A step of a session, from k to j, and what it does to the rows.
Copies(k, j, table) ==
  \A x \in DOMAIN j.obj : x \in DOMAIN k.obj /\ j.obj[x] = k.obj[x]

Moves(k, j) ==
  \/ /\ k.pc # "write" /\ j.pc = "next"
     /\ \A x \in DOMAIN j.obj : j.obj[x] = recs'[x]
     /\ \A x \in DOMAIN recs : recs'[x] = recs[x] \/ recs'[x].symbol # recs[x].symbol
  \/ /\ k.pc # "write" /\ j.obj = k.obj /\ j.pc = "write" /\ j.id \in DOMAIN k.obj
     /\ j.bars = stored[k.obj[j.id].symbol] /\ recs' = recs
  \/ /\ k.pc = "write" /\ k.id \in DOMAIN k.obj /\ k.id \in DOMAIN recs
     /\ j.pc = "next" /\ k.obj[k.id] \in Recommendation
     /\ DOMAIN j.obj = DOMAIN k.obj \ {k.id} /\ \A x \in DOMAIN j.obj : j.obj[x] = k.obj[x]
     /\ IF HasBaseline(k.obj[k.id].symbol, k.obj[k.id].time - DbZone, k.bars)
        THEN recs' = [recs EXCEPT ![k.id] = Written(recs[k.id], k.obj[k.id], k.bars)]
        ELSE recs' = recs
  \/ j.pc # "next" /\ DOMAIN j.obj = {} /\ recs' = recs

LEMMA ListActiveMoves ==
  ASSUME TypeInv, NEW p \in Refreshers, ListActive(p)
  PROVE  \E j : ref' = [ref EXCEPT ![p] = j] /\ Moves(ref[p], j)
<1> DEFINE ids == {i \in Ids : recs[i].status = "active" /\ recs[i].name \in Explicit}
           j == [Idle EXCEPT !.pc = "next", !.obj = Loaded(recs, ids)]
<1>1. ref' = [ref EXCEPT ![p] = j] /\ recs' = recs /\ ref[p].pc = "idle"
  BY DEF ListActive
<1>2. j.pc = "next" /\ j.obj = Loaded(recs, ids)
  BY DEF Idle
<1>3. \A x \in DOMAIN Loaded(recs, ids) : Loaded(recs, ids)[x] = recs[x]
  BY DEF Loaded
<1> HIDE DEF j, ids
<1>4. Moves(ref[p], j)
  BY <1>1, <1>2, <1>3 DEF Moves
<1> QED BY <1>1, <1>4

LEMMA ResolveMoves ==
  ASSUME TypeInv, NEW p \in Resolvers, NEW i \in Ids, NEW s \in Symbols, resolve_pending(p, i, s)
  PROVE  \E j : ref' = [ref EXCEPT ![p] = j] /\ Moves(ref[p], j)
<1> DEFINE j == [Idle EXCEPT !.pc = "next", !.obj = Loaded(recs', {i})]
           row == [recs[i] EXCEPT !.symbol = s, !.status = "active"]
<1>1. ref' = [ref EXCEPT ![p] = j] /\ ref[p].pc = "idle"
      /\ recs' = [recs EXCEPT ![i].symbol = s, ![i].status = "active"]
  BY DEF resolve_pending
<1>2. recs' = [recs EXCEPT ![i] = row] /\ i \in DOMAIN recs
  <2>1. i \in DOMAIN recs
    BY DEF Ids
  <2> QED BY <1>1, <2>1, Zenon
<1>3. recs[i] \in Recommendation /\ (recs[i].status = "active" <=> recs[i].symbol # NoSymbol)
  BY <1>2, RowTypes DEF TypeInv, ActiveIffResolved
<1>4. recs[i].symbol = s => row = recs[i]
  <2> SUFFICES ASSUME recs[i].symbol = s PROVE row = recs[i]
    OBVIOUS
  <2>1. recs[i].status = "active"
    BY <1>3, TrackerAssumption
  <2> QED BY <1>3, <2>1, RecommendationIs
<1>5. row.symbol = s
  BY <1>3, RecommendationIs
<1> HIDE DEF row
<1>6. \A x \in DOMAIN recs : recs'[x] = recs[x] \/ recs'[x].symbol # recs[x].symbol
  BY <1>2, <1>4, <1>5
<1>7. j.pc = "next" /\ j.obj = Loaded(recs', {i})
  BY DEF Idle
<1>8. \A x \in DOMAIN Loaded(recs', {i}) : Loaded(recs', {i})[x] = recs'[x]
  BY DEF Loaded
<1> HIDE DEF j
<1>9. Moves(ref[p], j)
  BY <1>1, <1>6, <1>7, <1>8 DEF Moves
<1> QED BY <1>1, <1>9

LEMMA ReadBarsMoves ==
  ASSUME TypeInv, NEW p \in Refreshers \cup Resolvers, NEW i \in Ids, ReadBars(p, i)
  PROVE  \E j : ref' = [ref EXCEPT ![p] = j] /\ Moves(ref[p], j)
<1>1. PICK k \in RefreshType : k = ref[p]
  BY DEF TypeInv
<1> DEFINE bars == stored[k.obj[i].symbol]
           j == [k EXCEPT !.pc = "write", !.id = i, !.bars = bars]
<1>2. k.pc = "next" /\ i \in DOMAIN k.obj /\ recs' = recs
  BY <1>1 DEF ReadBars
<1>3. ref' = [ref EXCEPT ![p] = [ref[p] EXCEPT !.pc = "write", !.id = i,
                                               !.bars = stored[ref[p].obj[i].symbol]]]
  BY Zenon DEF ReadBars, TypeInv
<1>4. ref' = [ref EXCEPT ![p] = j]
  BY <1>1, <1>3
<1>5. j.pc = "write" /\ j.id = i /\ j.bars = stored[k.obj[j.id].symbol] /\ j.obj = k.obj
  BY DEF RefreshType
<1> HIDE DEF j
<1>6. Moves(k, j)
  BY <1>2, <1>5 DEF Moves
<1> QED BY <1>1, <1>4, <1>6

LEMMA RefreshMoves ==
  ASSUME TypeInv, NEW p \in Refreshers \cup Resolvers, refresh_recommendation(p)
  PROVE  \E j : ref' = [ref EXCEPT ![p] = j] /\ Moves(ref[p], j)
<1>1. PICK k \in RefreshType : k = ref[p] /\ RefreshFits(k, recs, today) /\ k.pc = "write"
  BY DEF TypeInv, refresh_recommendation
<1>2. PICK i \in DOMAIN k.obj : i = k.id
  BY <1>1 DEF RefreshFits
<1>3. i \in DOMAIN recs /\ k.obj[i] \in Recommendation
  BY <1>1, <1>2, ObjectTypes DEF RefreshFits, RefreshType
<1>4. PICK old \in Recommendation : old = k.obj[i]
  BY <1>3
<1> DEFINE time == old.time - DbZone
           new == Evaluated(old, time, k.bars)
           left == DOMAIN k.obj \ {i}
           j == [Idle EXCEPT !.pc = "next", !.obj = Loaded(k.obj, left)]
<1>5. IF HasBaseline(old.symbol, time, k.bars)
      THEN recs' = [recs EXCEPT ![i] = Written(recs[i], old, k.bars)]
      ELSE recs' = recs
  <2>1. CASE HasBaseline(old.symbol, time, k.bars)
    <3>1. recs' = [recs EXCEPT
            ![i].baseline = [f \in DOMAIN @ |->
               IF new.baseline[f] = old.baseline[f] THEN @[f] ELSE new.baseline[f]],
            ![i].perf = new.perf]
      BY <1>1, <1>2, <1>4, <2>1 DEF refresh_recommendation
    <3>2. recs' = [recs EXCEPT ![i] = [recs[i] EXCEPT
            !.baseline = [f \in DOMAIN recs[i].baseline |->
               IF new.baseline[f] = old.baseline[f] THEN recs[i].baseline[f]
                                                    ELSE new.baseline[f]],
            !.perf = new.perf]]
      BY <1>3, <3>1, Zenon
    <3> QED BY <2>1, <3>2 DEF Written
  <2>2. CASE ~HasBaseline(old.symbol, time, k.bars)
    BY <1>1, <1>2, <1>4, <2>2 DEF refresh_recommendation
  <2> QED BY <2>1, <2>2
<1>6. ref' = [ref EXCEPT ![p] = j]
  BY <1>1, <1>2 DEF refresh_recommendation
<1>7. j.pc = "next" /\ j.obj = Loaded(k.obj, left)
  BY DEF Idle
<1>8. DOMAIN Loaded(k.obj, left) = left /\ \A x \in left : Loaded(k.obj, left)[x] = k.obj[x]
  BY DEF Loaded
<1> HIDE DEF j
<1>9. Moves(k, j)
  BY <1>1, <1>2, <1>3, <1>4, <1>5, <1>7, <1>8 DEF Moves
<1>10. Moves(ref[p], j)
  BY <1>1, <1>9
<1> QED BY <1>6, <1>10

LEMMA EndRefreshMoves ==
  ASSUME TypeInv, NEW p \in Refreshers \cup Resolvers, EndRefresh(p) \/ FailRefresh(p)
  PROVE  \E j : ref' = [ref EXCEPT ![p] = j] /\ Moves(ref[p], j)
<1>1. ref' = [ref EXCEPT ![p] = Over(p)] /\ recs' = recs
  BY DEF EndRefresh, FailRefresh
<1> DEFINE j == Over(p)
<1>2. j.pc # "next" /\ DOMAIN j.obj = {}
  BY DEF Over, Idle
<1> HIDE DEF j
<1>3. Moves(ref[p], j)
  BY <1>1, <1>2 DEF Moves
<1> QED BY <1>1, <1>3 DEF j

\* The rows that an import sees begin with those of the table.
LEMMA ImportLeavesRows ==
  ASSUME TypeInv, NEW p \in Importers, Import(p)
  PROVE  /\ ref' = ref
         /\ DOMAIN recs \subseteq DOMAIN recs' /\ \A i \in DOMAIN recs : recs'[i] = recs[i]
<1>1. ref' = ref
  BY DEF Import, StartImport, Extract, ImportItem, FinishImport, FailImport
<1>2. PICK s \in Seq(Recommendation), t \in Seq(Recommendation) : s = recs /\ t = imp[p].mine
  BY DEF TypeInv, ImportType
<1> DEFINE u == s \o t
<1>3. DOMAIN s \subseteq DOMAIN u /\ \A i \in DOMAIN s : u[i] = s[i]
  BY ConcatRows
<1>4. Visible(p) = u /\ u \in Seq(Recommendation)
  BY <1>2 DEF Visible
<1> HIDE DEF u
<1>5. recs' = recs \/ recs' = u \/ \E new \in Recommendation : recs' = Append(u, new)
  BY <1>4, ImportSteps DEF Goes
<1>6. ASSUME NEW new \in Recommendation
      PROVE  DOMAIN u \subseteq DOMAIN Append(u, new) /\ \A i \in DOMAIN u : Append(u, new)[i] = u[i]
  BY <1>4, AppendRows
<1>7. ASSUME NEW new \in Recommendation, recs' = Append(u, new)
      PROVE  DOMAIN s \subseteq DOMAIN recs' /\ \A i \in DOMAIN s : recs'[i] = s[i]
  BY <1>3, <1>6, <1>7
<1> QED BY <1>1, <1>2, <1>3, <1>5, <1>7

\* Either one session moves, or the rows there are and the sessions stay.
LEMMA SessionSteps ==
  ASSUME TypeInv, [Next]_vars
  PROVE  /\ \A i \in DOMAIN recs : i \in DOMAIN recs' /\ recs'[i].time = recs[i].time
         /\ \/ ref' = ref /\ \A i \in DOMAIN recs : recs'[i] = recs[i]
            \/ \E p \in Refreshers \cup Resolvers : \E j :
                 ref' = [ref EXCEPT ![p] = j] /\ Moves(ref[p], j)
<1>1. CASE NewDay \/ UNCHANGED vars
  BY <1>1 DEF NewDay, vars
<1>2. CASE \E p \in Importers : Import(p)
  BY <1>2, ImportLeavesRows
<1>3. ASSUME NEW p \in Refreshers, ListActive(p)
      PROVE  /\ \A i \in DOMAIN recs : i \in DOMAIN recs' /\ recs'[i].time = recs[i].time
             /\ \E j : ref' = [ref EXCEPT ![p] = j] /\ Moves(ref[p], j)
  <2>1. recs' = recs
    BY <1>3 DEF ListActive
  <2> QED BY <1>3, <2>1, ListActiveMoves
<1>4. ASSUME NEW p \in Resolvers, NEW i \in Ids, NEW s \in Symbols, resolve_pending(p, i, s)
      PROVE  /\ \A x \in DOMAIN recs : x \in DOMAIN recs' /\ recs'[x].time = recs[x].time
             /\ \E j : ref' = [ref EXCEPT ![p] = j] /\ Moves(ref[p], j)
  BY <1>4, ResolveMoves, ResolveTypes DEF RowsStay
<1>5. ASSUME NEW p \in Refreshers \cup Resolvers, Refresh(p) \/ FailRefresh(p)
      PROVE  /\ \A x \in DOMAIN recs : x \in DOMAIN recs' /\ recs'[x].time = recs[x].time
             /\ \E j : ref' = [ref EXCEPT ![p] = j] /\ Moves(ref[p], j)
  <2>1. CASE \E i \in Ids : ReadBars(p, i)
    <3>1. recs' = recs
      BY <2>1 DEF ReadBars
    <3> QED BY <2>1, <3>1, ReadBarsMoves
  <2>2. CASE refresh_recommendation(p)
    BY <2>2, RefreshMoves, RefreshTypes DEF RowsStay
  <2>3. CASE EndRefresh(p) \/ FailRefresh(p)
    BY <2>3, EndRefreshMoves DEF EndRefresh, FailRefresh
  <2> QED BY <1>5, <2>1, <2>2, <2>3 DEF Refresh
<1> QED BY <1>1, <1>2, <1>3, <1>4, <1>5 DEF Next

\* A copy has the time of its row, which nothing changes.
CopyInv ==
  \A p \in Refreshers \cup Resolvers : \A i \in DOMAIN ref[p].obj :
    i \in DOMAIN recs /\ ref[p].obj[i].time = recs[i].time

LEMMA CopyNext ==
  ASSUME TypeInv, CopyInv, [Next]_vars
  PROVE  CopyInv'
<1>0. TypeInv'
  BY Steps
<1>1. \A q \in Refreshers \cup Resolvers : DOMAIN ref'[q].obj \subseteq DOMAIN recs'
  BY <1>0 DEF TypeInv, RefreshFits
<1>2. CASE ref' = ref /\ \A i \in DOMAIN recs : recs'[i] = recs[i]
  BY <1>1, <1>2 DEF CopyInv
<1>3. ASSUME NEW p \in Refreshers \cup Resolvers, NEW j,
             ref' = [ref EXCEPT ![p] = j], Moves(ref[p], j)
      PROVE  CopyInv'
  <2>1. \A i \in DOMAIN recs : i \in DOMAIN recs' /\ recs'[i].time = recs[i].time
    BY SessionSteps
  <2>2. ref'[p] = j /\ \A q \in Refreshers \cup Resolvers : q # p => ref'[q] = ref[q]
    BY <1>3 DEF TypeInv
  <2>3. \A i \in DOMAIN j.obj : j.obj[i].time = recs'[i].time
    <3>1. \A i \in DOMAIN ref[p].obj : ref[p].obj[i].time = recs'[i].time
      BY <2>1 DEF CopyInv
    <3> QED BY <1>3, <3>1 DEF Moves
  <2> QED BY <1>1, <2>1, <2>2, <2>3 DEF CopyInv
<1> QED BY <1>2, <1>3, SessionSteps

HealInv == TypeInv /\ CopyInv

\* What RefreshHeals says of one row, for the rows and sessions that are given.
LEMMA RowHeals ==
  ASSUME HealInv, [Next]_vars, stored' = stored, NEW i \in DOMAIN recs,
         recs'[i].symbol = recs[i].symbol,
         \A p \in Refreshers \cup Resolvers : CurrentCopy(i, ref[p], recs[i], stored)
  PROVE  /\ \A p \in Refreshers \cup Resolvers : CurrentCopy(i, ref'[p], recs'[i], stored)
         /\ Right(recs[i], stored) => Right(recs'[i], stored)
         /\ \A p \in Refreshers \cup Resolvers :
              ref[p].pc = "write" /\ ref[p].id = i /\ ref'[p].pc = "next" => Right(recs'[i], stored)
<1>1. CASE ref' = ref /\ recs'[i] = recs[i]
  BY <1>1
<1>2. ASSUME NEW p \in Refreshers \cup Resolvers, NEW k, NEW j, k = ref[p],
             ref' = [ref EXCEPT ![p] = j], Moves(k, j)
      PROVE  /\ \A q \in Refreshers \cup Resolvers : CurrentCopy(i, ref'[q], recs'[i], stored)
             /\ Right(recs[i], stored) => Right(recs'[i], stored)
             /\ \A q \in Refreshers \cup Resolvers :
                  ref[q].pc = "write" /\ ref[q].id = i /\ ref'[q].pc = "next"
                    => Right(recs'[i], stored)
  <2>1. ref'[p] = j /\ \A q \in Refreshers \cup Resolvers : q # p => ref'[q] = ref[q]
    BY <1>2 DEF HealInv, TypeInv
  <2>2. CurrentCopy(i, k, recs[i], stored)
    BY <1>2
  <2>3. CASE recs'[i] = recs[i] /\ CurrentCopy(i, j, recs[i], stored)
             /\ ~(k.pc = "write" /\ k.id = i /\ j.pc = "next")
    BY <1>2, <2>1, <2>3
  <2>4. CASE Right(recs'[i], stored) /\ i \notin DOMAIN j.obj
    <3>1. ASSUME NEW q \in Refreshers \cup Resolvers
          PROVE  CurrentCopy(i, ref'[q], recs'[i], stored)
      <4>1. CASE q = p
        BY <2>1, <2>4, <4>1 DEF CurrentCopy
      <4>2. CASE q # p
        <5>1. CurrentCopy(i, ref[q], recs[i], stored) /\ ref'[q] = ref[q]
          BY <2>1, <4>2
        <5> QED BY <2>4, <5>1 DEF CurrentCopy
      <4> QED BY <4>1, <4>2
    <3> QED BY <2>4, <3>1
  <2>5. CASE /\ k.pc # "write" /\ j.pc = "next"
             /\ \A x \in DOMAIN j.obj : j.obj[x] = recs'[x]
             /\ \A x \in DOMAIN recs : recs'[x] = recs[x] \/ recs'[x].symbol # recs[x].symbol
    <3>1. recs'[i] = recs[i]
      BY <2>5
    <3>2. CurrentCopy(i, j, recs[i], stored)
      BY <2>5, <3>1 DEF CurrentCopy
    <3> QED BY <2>3, <2>5, <3>1, <3>2
  <2>6. CASE /\ k.pc # "write" /\ j.obj = k.obj /\ j.pc = "write" /\ j.id \in DOMAIN k.obj
             /\ j.bars = stored[k.obj[j.id].symbol] /\ recs' = recs
    <3>1. CurrentCopy(i, j, recs[i], stored)
      BY <2>2, <2>6 DEF CurrentCopy
    <3> QED BY <2>3, <2>6, <3>1
  <2>7. CASE /\ k.pc = "write" /\ k.id \in DOMAIN k.obj /\ k.id \in DOMAIN recs
             /\ j.pc = "next" /\ k.obj[k.id] \in Recommendation
             /\ DOMAIN j.obj = DOMAIN k.obj \ {k.id} /\ \A x \in DOMAIN j.obj : j.obj[x] = k.obj[x]
             /\ IF HasBaseline(k.obj[k.id].symbol, k.obj[k.id].time - DbZone, k.bars)
                THEN recs' = [recs EXCEPT ![k.id] = Written(recs[k.id], k.obj[k.id], k.bars)]
                ELSE recs' = recs
    <3>1. CASE k.id # i
      <4>1. recs'[i] = recs[i]
        BY <2>7, <3>1
      <4>2. CurrentCopy(i, j, recs[i], stored)
        BY <2>2, <2>7 DEF CurrentCopy
      <4> QED BY <2>3, <3>1, <4>1, <4>2
    <3>2. CASE k.id = i
      <4>1. PICK old \in Recommendation : old = k.obj[i]
        BY <2>7, <3>2
      <4>2. PICK row \in Recommendation : row = recs[i]
        BY RowTypes DEF HealInv
      <4>3. /\ old.symbol = row.symbol /\ k.bars = stored[row.symbol]
            /\ old.baseline = row.baseline \/ Right(row, stored)
        BY <2>2, <2>7, <3>2, <4>1, <4>2 DEF CurrentCopy
      <4>4. old.time = row.time
        BY <1>2, <2>7, <3>2, <4>1, <4>2 DEF HealInv, CopyInv
      <4>5. row.symbol \in Symbols /\ k.bars \in SUBSET (1..MaxDay)
        <5>1. RefreshFits(k, recs, today) /\ stored \in [Symbols -> SUBSET (1..today)]
              /\ today \in 1..MaxDay
          BY <1>2 DEF HealInv, TypeInv
        <5>2. row.symbol \in Symbols
          BY <2>7, <3>2, <4>1, <4>3, <5>1 DEF RefreshFits
        <5>3. 1..today \subseteq 1..MaxDay
          BY <5>1, TrackerAssumption
        <5> QED BY <4>3, <5>1, <5>2, <5>3
      <4>6. CASE HasBaseline(old.symbol, old.time - DbZone, k.bars)
        <5>1. recs' = [recs EXCEPT ![i] = Written(row, old, k.bars)]
          BY <2>7, <3>2, <4>1, <4>2, <4>6
        <5>2. recs'[i] = Written(row, old, stored[row.symbol])
          BY <4>3, <5>1
        <5>3. Right(Written(row, old, stored[row.symbol]), stored)
          BY <4>3, <4>4, <4>5, <4>6, WrittenIsRight
        <5>4. Right(recs'[i], stored)
          BY <5>2, <5>3
        <5> QED BY <2>4, <2>7, <3>2, <5>4
      <4>7. CASE ~HasBaseline(old.symbol, old.time - DbZone, k.bars)
        <5>1. recs'[i] = row
          BY <2>7, <3>2, <4>1, <4>2, <4>7
        <5>2. Right(row, stored)
          BY <4>3, <4>4, <4>7 DEF Right
        <5> QED BY <2>4, <2>7, <3>2, <5>1, <5>2
      <4> QED BY <4>6, <4>7
    <3> QED BY <3>1, <3>2
  <2>8. CASE j.pc # "next" /\ DOMAIN j.obj = {} /\ recs' = recs
    <3>1. CurrentCopy(i, j, recs[i], stored)
      BY <2>8 DEF CurrentCopy
    <3> QED BY <2>3, <2>8, <3>1
  <2> QED BY <1>2, <2>5, <2>6, <2>7, <2>8 DEF Moves
<1>3. \/ ref' = ref /\ recs'[i] = recs[i]
      \/ \E p \in Refreshers \cup Resolvers : \E j : ref' = [ref EXCEPT ![p] = j] /\ Moves(ref[p], j)
  BY SessionSteps DEF HealInv
<1> QED BY <1>1, <1>2, <1>3

\* Refreshes that overlap do not undo each other: as long as the bars and the
\* symbol of a row stay and the copies of it are current, they remain current,
\* the row remains right if it is, and its refresh makes it right.
THEOREM RefreshCorrect == Spec => RefreshHeals
<1>1. Init => HealInv
  BY TypeInvInit, IdleTypes DEF Init, HealInv, CopyInv
<1>2. HealInv /\ [Next]_vars => HealInv'
  BY Steps, CopyNext DEF HealInv
<1> DEFINE Step ==
      \A i \in Ids :
        Current(i) /\ stored' = stored /\ recs'[i].symbol = recs[i].symbol =>
          /\ Current(i)'
          /\ UpToDate(recs[i]) => UpToDate(recs[i])'
          /\ \A p \in Refreshers \cup Resolvers :
               ref[p].pc = "write" /\ ref[p].id = i /\ ref'[p].pc = "next"
                 => UpToDate(recs[i])'
<1>3. HealInv /\ [Next]_vars => [Step]_vars
  <2> SUFFICES ASSUME HealInv, [Next]_vars, NEW i \in Ids, Current(i), stored' = stored,
                      recs'[i].symbol = recs[i].symbol
               PROVE  /\ Current(i)'
                      /\ UpToDate(recs[i]) => UpToDate(recs[i])'
                      /\ \A p \in Refreshers \cup Resolvers :
                           ref[p].pc = "write" /\ ref[p].id = i /\ ref'[p].pc = "next"
                             => UpToDate(recs[i])'
    OBVIOUS
  <2>1. i \in DOMAIN recs
    BY DEF Ids
  <2> QED BY <2>1, RightAndCurrent, RowHeals
<1> QED BY <1>1, <1>2, <1>3, PTL DEF Spec, RefreshHeals
=============================================================================
