---------------------------- MODULE StrategyStore ----------------------------
(***************************************************************************)
(* What the research side computes from the table of bars for a strategy:  *)
(* the independent check of its package (handle_artifact,                  *)
(* independent_verify) and its signals of a day (generate_signals,         *)
(* generate_signals_for_date, upsert_strategy_signals).  Both read the     *)
(* bars symbol by symbol, each in a session of its own, while the table    *)
(* receives commits; requests for signals run on threads and may meet.     *)
(*                                                                         *)
(* The expression of the factor is given by the constants Score and Ic:    *)
(* its value on the last day of a window, and the sign of its correlation  *)
(* with the returns that follow.                                           *)
(***************************************************************************)
EXTENDS BarStore, Integers, FiniteSets

CONSTANTS
  Callers,     \* the threads that may serve a request, one each
  Universe,    \* list_universe_symbols: the first active instruments
  Claims,      \* the ICs that packages claim: their signs, 0 for nearly none
  Dates,       \* the days for which signals are asked
  Lookback,    \* how many days back a request reads (90, for an upload 120)
  MaxRows,     \* the rows of a window that count for a signal (60)
  MinRows,     \* a window with fewer gives no score (5)
  MinSample,   \* a window with fewer gives no IC (10)
  TopN,        \* how many symbols are bought, and sold (5)
  NoValue,     \* NaN, or an expression that cannot be evaluated
  Score(_, _), \* Score(s, window)
  Ic(_, _)     \* Ic(s, window)

\* All rows of a window are adjusted for more days, which come after it.
Rebased(w, later) == [d \in DOMAIN w |-> w[d] \cup later]

\* The days in later come after the window.
After(later, w) == \A d \in DOMAIN w, e \in later : d < e /\ e \notin w[d]

ASSUME StrategyAssumption ==
  Universe \subseteq Symbols /\ Dates \subseteq Days /\ Lookback \in Nat

\* A factor made of ratios of prices does not see the anchor of its window, and
\* the IC, a correlation of ranks, not even for $close itself.  Neither is
\* required of an expression: eval_expression takes any of the fields as they
\* are.
ScoreForgetsAnchor ==
  \A s \in Symbols, w \in Series, later \in SUBSET Days :
    After(later, w) => Score(s, Rebased(w, later)) = Score(s, w)
IcForgetsAnchor ==
  \A s \in Symbols, w \in Series, later \in SUBSET Days :
    After(later, w) => Ic(s, Rebased(w, later)) = Ic(s, w)

VARIABLES
  calc,      \* calc[c]: the locals of the request that c serves
  strategy,  \* table strategies: how the package was verified, or "none"
  signals,   \* table strategy_signals: signals[d] maps symbols to rows
  answers    \* history: the answers that were committed for a day

strategyVars == <<calc, strategy, signals, answers>>

NoCalc == [pc |-> "idle", kind |-> "none", claim |-> 0, day |-> 0, todo |-> {},
           frames |-> Empty, sound |-> FALSE, verdict |-> "none", rows |-> Empty,
           loaded |-> Empty]
Over == [NoCalc EXCEPT !.pc = "done"]

(***************************************************************************)
(* The computations.                                                       *)
(***************************************************************************)

\* The days a request for day reads.
InWindow(day) == {d \in Days : d <= day /\ day <= d + Lookback}

\* Mistake: prices as they were quoted.
get_qfq_bars_Raw(s, day) == [d \in DOMAIN bars[s] \cap InWindow(day) |-> {}]

\* get_qfq_bars up to the day; generate_signals_for_date cuts there once more.
get_qfq_bars(s, day) == [d \in DOMAIN bars[s] \cap InWindow(day) |-> bars[s][d]]

Newest(w) == [d \in {x \in DOMAIN w : Cardinality({y \in DOMAIN w : x <= y}) <= MaxRows} |-> w[d]]

\* The symbols that have a score.
Scored(frames) ==
  {s \in DOMAIN frames : /\ Cardinality(DOMAIN Newest(frames[s])) >= MinRows
                         /\ Score(s, Newest(frames[s])) # NoValue}

\* The orders the sort may leave: symbols with equal scores stay in the order
\* in which the database has listed them, which is any.
Orders(frames) ==
  LET S == Scored(frames) IN
  {q \in [1..Cardinality(S) -> S] :
     \A i, j \in DOMAIN q : i < j =>
       q[i] # q[j] /\ Score(q[i], Newest(frames[q[i]])) >= Score(q[j], Newest(frames[q[j]]))}

\* The first TopN are bought; of the last TopN, those not bought are sold.
generate_signals_for_date(frames, q) ==
  LET n == Cardinality(DOMAIN q)
      buys == {q[i] : i \in {x \in DOMAIN q : x <= TopN}}
      sells == {q[i] : i \in {x \in DOMAIN q : n > TopN /\ x > n - TopN}} \ buys
  IN  [s \in buys \cup sells |-> [score |-> Score(s, Newest(frames[s])),
                                  action |-> IF s \in buys THEN "buy" ELSE "sell"]]

\* The symbols with an IC that go with the returns, and those that go against.
Measured(frames, signs) ==
  {s \in DOMAIN frames : Cardinality(DOMAIN frames[s]) >= MinSample /\ Ic(s, frames[s]) \in signs}

\* independent_verify: no bars at all, only the syntax is checked; otherwise
\* the mean IC must have the sign of the claim, unless the claim is nearly 0.
\* The ICs count by their signs here.  (min_ic is -1: never reached.)  The
\* expression is one that can be evaluated: another is refused in any case.
independent_verify(frames, claim) ==
  LET for == Cardinality(Measured(frames, {1}))
      against == Cardinality(Measured(frames, {-1}))
  IN  IF DOMAIN frames = {} THEN "skipped"
      ELSE IF Measured(frames, {-1, 0, 1}) = {} THEN "refused"
      ELSE IF claim = 0 \/ (claim > 0 <=> for >= against) THEN "verified"
      ELSE "refused"

(***************************************************************************)
(* Requests.                                                               *)
(***************************************************************************)

\* POST /strategies/{id}/signals for a day, a coming one as well.
StartSignals(c, day) ==
  /\ calc[c] = NoCalc
  /\ strategy # "none"
  /\ calc' = [calc EXCEPT ![c] =
       [NoCalc EXCEPT !.pc = "read", !.kind = "signals", !.day = day, !.todo = Universe,
                      !.sound = day <= today]]
  /\ UNCHANGED <<storeVars, strategy, signals, answers>>

\* PUT /jobs/{id}/artifact: on the event loop, so one at a time.
StartUpload(c, claim) ==
  /\ calc[c] = NoCalc
  /\ \A x \in Callers : calc[x].kind # "upload"
  /\ calc' = [calc EXCEPT ![c] =
       [NoCalc EXCEPT !.pc = "read", !.kind = "upload", !.claim = claim, !.day = today,
                      !.todo = Universe, !.sound = TRUE]]
  /\ UNCHANGED <<storeVars, strategy, signals, answers>>

\* What is traded in the window is stored, and on one basis.
Complete(s, day) ==
  /\ DOMAIN bars[s] \cap InWindow(day) = traded[s] \cap InWindow(day)
  /\ OneBasis(s, [d \in DOMAIN bars[s] \cap InWindow(day) |-> bars[s][d]])

\* The bars of the next symbol, in a session of their own; an empty frame is
\* left out.
ReadFrame(c, s) ==
  LET j == calc[c]
      frame == get_qfq_bars(s, j.day)
  IN
  /\ j.pc = "read"
  /\ s \in j.todo
  /\ calc' = [calc EXCEPT ![c] =
       [j EXCEPT !.todo = j.todo \ {s}, !.sound = j.sound /\ Complete(s, j.day),
                 !.frames = IF DOMAIN frame = {} THEN j.frames
                            ELSE [t \in DOMAIN j.frames \cup {s} |->
                                    IF t = s THEN frame ELSE j.frames[t]]]]
  /\ UNCHANGED <<storeVars, strategy, signals, answers>>

Verify(c) ==
  LET j == calc[c] IN
  /\ j.pc = "read" /\ j.todo = {} /\ j.kind = "upload"
  /\ calc' = [calc EXCEPT ![c].pc = "import", ![c].verdict = independent_verify(j.frames, j.claim)]
  /\ UNCHANGED <<storeVars, strategy, signals, answers>>

\* insert_strategy: a package that is there stays as it is.
Import(c) ==
  LET j == calc[c] IN
  /\ j.pc = "import"
  /\ strategy' = IF strategy = "none" /\ j.verdict # "refused" THEN j.verdict ELSE strategy
  /\ calc' = [calc EXCEPT ![c] = Over]
  /\ UNCHANGED <<storeVars, signals, answers>>

Rank(c) ==
  LET j == calc[c] IN
  /\ j.pc = "read" /\ j.todo = {} /\ j.kind = "signals"
  /\ \E q \in Orders(j.frames) :
       LET rows == generate_signals_for_date(j.frames, q) IN
       calc' = [calc EXCEPT ![c].pc = "lookup", ![c].rows = rows, ![c].todo = DOMAIN rows]
  /\ UNCHANGED <<storeVars, strategy, signals, answers>>

\* upsert_strategy_signals asks for the row of each symbol of the answer.
Lookup(c, s) ==
  LET j == calc[c]
      found == DOMAIN signals[j.day] \cap {s}
  IN
  /\ j.pc = "lookup"
  /\ s \in j.todo
  /\ calc' = [calc EXCEPT ![c].todo = j.todo \ {s},
                          ![c].loaded = [t \in DOMAIN j.loaded \cup found |->
                                           IF t = s THEN signals[j.day][s] ELSE j.loaded[t]]]
  /\ UNCHANGED <<storeVars, strategy, signals, answers>>

\* A session writes the columns it has changed.
Column(new, loaded, stored) == IF new = loaded THEN stored ELSE new

\* The table after a commit: new rows are inserted, known ones updated, and
\* those of an earlier answer that are not in this one stay.
Upserted(table, rows, loaded) ==
  [s \in DOMAIN table \cup DOMAIN rows |->
     IF s \notin DOMAIN rows THEN table[s]
     ELSE IF s \notin DOMAIN loaded THEN rows[s]
     ELSE [score |-> Column(rows[s].score, loaded[s].score, table[s].score),
           action |-> Column(rows[s].action, loaded[s].action, table[s].action)]]

\* Mistake: the rows that do not collide stay.
Commit_NoRollback(c) ==
  LET j == calc[c]
      free == {s \in DOMAIN j.rows : s \in DOMAIN j.loaded \/ s \notin DOMAIN signals[j.day]}
  IN
  /\ j.pc = "lookup" /\ j.todo = {}
  /\ calc' = [calc EXCEPT ![c] = Over]
  /\ signals' = [signals EXCEPT ![j.day] =
                   Upserted(signals[j.day], [s \in free |-> j.rows[s]], j.loaded)]
  /\ answers' = IF free # DOMAIN j.rows THEN answers
                ELSE [answers EXCEPT ![j.day] = answers[j.day] \cup {j.rows}]
  /\ UNCHANGED <<storeVars, strategy>>

\* A row to be inserted is there by now (uq_strategy_signal): the commit
\* fails as a whole.
Commit(c) ==
  LET j == calc[c]
      collides == \E s \in DOMAIN j.rows \ DOMAIN j.loaded : s \in DOMAIN signals[j.day]
  IN
  /\ j.pc = "lookup" /\ j.todo = {}
  /\ calc' = [calc EXCEPT ![c] = Over]
  /\ IF collides THEN UNCHANGED <<signals, answers>>
     ELSE /\ signals' = [signals EXCEPT ![j.day] = Upserted(signals[j.day], j.rows, j.loaded)]
          /\ answers' = [answers EXCEPT ![j.day] = answers[j.day] \cup {j.rows}]
  /\ UNCHANGED <<storeVars, strategy>>

\* The database fails, or the process dies: the session is rolled back.
AbandonCalc(c) ==
  /\ calc[c].pc \in {"read", "import", "lookup"}
  /\ calc' = [calc EXCEPT ![c] = Over]
  /\ UNCHANGED <<storeVars, strategy, signals, answers>>

StrategyInit ==
  /\ calc = [c \in Callers |-> NoCalc]
  /\ strategy \in {"none", "verified"}
  /\ signals = [d \in Days |-> Empty]
  /\ answers = [d \in Days |-> {}]

CalcStep(c) ==
  \/ \E s \in Universe : ReadFrame(c, s) \/ Lookup(c, s)
  \/ Verify(c)
  \/ Import(c)
  \/ Rank(c)
  \/ Commit(c)
  \/ AbandonCalc(c)

(***************************************************************************)
(* Properties.                                                             *)
(***************************************************************************)

\* The series as they are in truth, each adjusted to its anchor.
TrueFrames(day, anchor) ==
  LET seen == {s \in Universe : traded[s] \cap InWindow(day) # {}}
  IN  [s \in seen |-> [d \in traded[s] \cap InWindow(day) |-> Adjusted(s, d, anchor[s])]]

\* The anchors an answer may rest on: the day itself, as if nobody knew what
\* came later, or a later one for each symbol, where the expression sees it.
Anchors(forgotten, day) ==
  IF forgotten THEN {[s \in Universe |-> day]} ELSE [Universe -> day..today]

\* Whatever is committed between the reads of two symbols, and however far
\* the table has come since the day: signals and verdicts that were computed
\* from complete windows without a jump are those of the true series up to
\* the day.  Of what came later they show the anchor at most, one for each
\* symbol, and not even that when the expression is made of ratios.
AnswersAreTrue ==
  \A c \in Callers : LET j == calc[c] IN j.sound =>
    /\ j.pc = "lookup" =>
         \E a \in Anchors(ScoreForgetsAnchor, j.day) :
           LET truth == TrueFrames(j.day, a)
           IN  \E q \in Orders(truth) : j.rows = generate_signals_for_date(truth, q)
    /\ j.pc = "import" =>
         \E a \in Anchors(IcForgetsAnchor, j.day) :
           j.verdict = independent_verify(TrueFrames(j.day, a), j.claim)

\* Requests for one day may meet, fail in the middle and be repeated: as long
\* as all that succeed have the same answer, the table holds that answer, and
\* nothing of a request that failed.
TableIsTheAnswer ==
  \A d \in Days : \A rows \in answers[d] : answers[d] = {rows} => signals[d] = rows
=============================================================================
