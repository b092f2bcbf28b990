------------------------------- MODULE Tracker -------------------------------
(***************************************************************************)
(* The recommendation tracker (packages/tracker): chat messages are         *)
(* imported, a language model extracts recommendations from them, names are *)
(* resolved to symbols, and the performance of each recommendation is       *)
(* computed, when it is made and again every night.                         *)
(*                                                                          *)
(* Imports (POST /tracker/import), the nightly refresh of all (the cron and *)
(* POST /tracker/refresh) and the resolution of a name by hand run in       *)
(* sessions of their own, at READ COMMITTED.  A session does not see the    *)
(* rows another one has not committed, and keeps an object it has loaded as *)
(* it was, commits included (expire_on_commit=False).                       *)
(***************************************************************************)
EXTENDS EventStudy, Integers, Sequences

CONSTANTS
  Messages,     \* the messages that are imported, each with its text
  Batch,        \* Batch[p]: the messages of an import
  Items,        \* Items[m]: the names that are extracted from m
  Explicit,     \* the names whose confidence is "explicit"
  SymbolOf,     \* SymbolOf[n]: the symbol a name resolves to, or NoSymbol
  Symbols,
  NoSymbol,
  Time,         \* Time[m]: the time in the text, Shanghai clock, or NoTime
  NoTime,
  DbZone,       \* hours that the clock of the database is behind Shanghai's
  ImportHour,   \* the hour of the day at which messages are imported
  MaxDay,       \* bound: the last day of the model
  Importers,    \* one element for each import: the texts may be the same
  Refreshers,   \* the sessions that refresh all, again and again
  Resolvers     \* one element for each resolution by hand

ASSUME TrackerAssumption ==
  /\ Messages # {} /\ Batch \in [Importers -> SUBSET Messages]
  /\ Items \in [Messages -> SUBSET DOMAIN SymbolOf]
  /\ SymbolOf \in [DOMAIN SymbolOf -> Symbols \cup {NoSymbol}] /\ NoSymbol \notin Symbols
  /\ Time \in [Messages -> Nat \cup {NoTime}]
  /\ DbZone \in Nat /\ ImportHour \in Nat /\ MaxDay \in Nat /\ MaxDay >= 1

VARIABLES
  today,        \* the last day whose bars are published
  stored,       \* stored[s]: the days of s in daily_bars
  recs,         \* table recommendations, with the rows of rec_performance
  imp,          \* imp[p]: the session of an import
  ref,          \* ref[p]: the session of a refresh
  overlapped    \* history: two imports have been under way at a time

vars == <<today, stored, recs, imp, ref, overlapped>>

Names == DOMAIN SymbolOf
Ids == DOMAIN recs
NoPerf == [w \in WINDOWS |-> NoWindow]

(***************************************************************************)
(* Performance.                                                            *)
(***************************************************************************)

\* What refresh_recommendation computes from an object and the bars, when it
\* reads the time of the message on a clock that is zone hours behind.  With
\* no bar to start from it returns early and the rows stay as they are.
HasBaseline(symbol, time, bars) ==
  symbol # NoSymbol /\ anchor_baseline(symbol, time, BarsInRange(time, bars)) # NoBaseline

Evaluated(rec, time, bars) ==
  LET baseline == anchor_baseline(rec.symbol, time, BarsInRange(time, bars))
  IN  [rec EXCEPT !.baseline = baseline,
                  !.perf = compute_windows(baseline, BarsInRange(time, bars))]

(***************************************************************************)
(* The market: a day is published and stored for the symbols that traded    *)
(* and whose synchronisation went well.                                     *)
(***************************************************************************)

NewDay ==
  /\ today < MaxDay
  /\ today' = today + 1
  /\ \E T \in SUBSET Symbols :
       stored' = [s \in Symbols |-> stored[s] \cup (IF s \in T THEN {today'} ELSE {})]
  /\ UNCHANGED <<recs, imp, ref, overlapped>>

(***************************************************************************)
(* import_messages.                                                        *)
(***************************************************************************)

NoImport == [pc |-> "idle", todo |-> {}, msg |-> CHOOSE m \in Messages : TRUE,
             items |-> {}, mine |-> <<>>]

\* The rows that the session of an import sees.
Visible(p) == recs \o imp[p].mine

\* Mistake: only what the session itself has inserted is compared.
find_duplicate_Session(p, m) ==
  \E i \in DOMAIN imp[p].mine :
    /\ imp[p].mine[i].msg = m
    /\ Time[m] # NoTime => imp[p].mine[i].time = Time[m] + DbZone

\* Same source and same text; and the same time, if the text has one.  The
\* stored time is aware of its zone; the one of the parser is not, and the
\* database reads it on its own clock.
find_duplicate(p, m) ==
  \E i \in DOMAIN Visible(p) :
    /\ Visible(p)[i].msg = m
    /\ Time[m] # NoTime => Visible(p)[i].time = Time[m] + DbZone

\* Mistake: a name that is not resolved makes an active recommendation, too.
insert_recommendation_Active(m, n) ==
  [msg |-> m, name |-> n, symbol |-> SymbolOf[n], status |-> "active",
   time |-> IF Time[m] = NoTime THEN 24 * today + ImportHour ELSE Time[m],
   baseline |-> NoBaseline, perf |-> NoPerf]

insert_recommendation(m, n) ==
  [msg |-> m, name |-> n, symbol |-> SymbolOf[n],
   status |-> IF SymbolOf[n] = NoSymbol THEN "pending" ELSE "active",
   time |-> IF Time[m] = NoTime THEN 24 * today + ImportHour ELSE Time[m],
   baseline |-> NoBaseline, perf |-> NoPerf]

StartImport(p) ==
  /\ imp[p].pc = "idle"
  /\ imp' = [imp EXCEPT ![p].pc = "run", ![p].todo = Batch[p]]
  /\ overlapped' = (overlapped \/ \E q \in Importers : imp[q].pc = "run")
  /\ UNCHANGED <<today, stored, recs, ref>>

\* The next message; the extractor is asked and answers.
Extract(p, m) ==
  /\ imp[p].pc = "run" /\ imp[p].items = {}
  /\ m \in imp[p].todo
  /\ imp' = [imp EXCEPT ![p].todo = @ \ {m}, ![p].msg = m, ![p].items = Items[m]]
  /\ UNCHANGED <<today, stored, recs, ref, overlapped>>

\* One item: skipped as a duplicate, or inserted, and refreshed if it is
\* explicit and its name is resolved.  A refresh that gets as far as the bars
\* commits, and with it what the session has inserted before.
ImportItem(p, n) ==
  LET m == imp[p].msg
      rec == insert_recommendation(m, n)
      refreshed == n \in Explicit /\ HasBaseline(rec.symbol, rec.time, stored[rec.symbol])
  IN
  /\ imp[p].pc = "run"
  /\ n \in imp[p].items
  /\ IF find_duplicate(p, m)
     THEN /\ imp' = [imp EXCEPT ![p].items = @ \ {n}]
          /\ UNCHANGED recs
     ELSE IF refreshed
     THEN /\ recs' = Append(Visible(p), Evaluated(rec, rec.time, stored[rec.symbol]))
          /\ imp' = [imp EXCEPT ![p].items = @ \ {n}, ![p].mine = <<>>]
     ELSE /\ imp' = [imp EXCEPT ![p].items = @ \ {n}, ![p].mine = Append(@, rec)]
          /\ UNCHANGED recs
  /\ UNCHANGED <<today, stored, ref, overlapped>>

\* Mistake: the refreshes are relied on to commit.
FinishImport_NoCommit(p) ==
  /\ imp[p].pc = "run" /\ imp[p].items = {} /\ imp[p].todo = {}
  /\ imp' = [imp EXCEPT ![p] = [NoImport EXCEPT !.pc = "done"]]
  /\ UNCHANGED <<today, stored, recs, ref, overlapped>>

FinishImport(p) ==
  /\ imp[p].pc = "run" /\ imp[p].items = {} /\ imp[p].todo = {}
  /\ recs' = Visible(p)
  /\ imp' = [imp EXCEPT ![p] = [NoImport EXCEPT !.pc = "done"]]
  /\ UNCHANGED <<today, stored, ref, overlapped>>

\* An exception or a crash: what is not committed is lost.
FailImport(p) ==
  /\ imp[p].pc = "run"
  /\ imp' = [imp EXCEPT ![p] = [NoImport EXCEPT !.pc = "failed"]]
  /\ UNCHANGED <<today, stored, recs, ref, overlapped>>

(***************************************************************************)
(* refresh_all_active and resolve_pending.  obj holds the objects that the  *)
(* session has loaded.                                                      *)
(***************************************************************************)

Idle == [pc |-> "idle", obj |-> [i \in {} |-> {}], id |-> 0, bars |-> {}]

Loaded(table, ids) == [i \in ids |-> table[i]]

\* Mistake: what has a baseline is taken to be finished.
ListActive_Unanchored(p) ==
  /\ ref[p].pc = "idle"
  /\ ref' = [ref EXCEPT ![p] = [Idle EXCEPT !.pc = "next", !.obj = Loaded(recs,
                {i \in Ids : /\ recs[i].status = "active" /\ recs[i].name \in Explicit
                             /\ recs[i].baseline = NoBaseline})]]
  /\ UNCHANGED <<today, stored, recs, imp, overlapped>>

\* list_recommendations loads the active recommendations; those that are not
\* explicit are passed over.
ListActive(p) ==
  /\ ref[p].pc = "idle"
  /\ ref' = [ref EXCEPT ![p] = [Idle EXCEPT !.pc = "next", !.obj = Loaded(recs,
                {i \in Ids : recs[i].status = "active" /\ recs[i].name \in Explicit})]]
  /\ UNCHANGED <<today, stored, recs, imp, overlapped>>

\* The symbol is set by hand and committed; the same session goes on to
\* refresh the recommendation.
resolve_pending(p, i, s) ==
  /\ ref[p].pc = "idle"
  /\ recs' = [recs EXCEPT ![i].symbol = s, ![i].status = "active"]
  /\ ref' = [ref EXCEPT ![p] = [Idle EXCEPT !.pc = "next", !.obj = Loaded(recs', {i})]]
  /\ UNCHANGED <<today, stored, imp, overlapped>>

\* The latest message first; the bars of the symbol that the loaded object has.
ReadBars(p, i) ==
  LET obj == ref[p].obj IN
  /\ ref[p].pc = "next"
  /\ i \in DOMAIN obj /\ \A x \in DOMAIN obj : obj[x].time <= obj[i].time
  /\ ref' = [ref EXCEPT ![p].pc = "write", ![p].id = i, ![p].bars = stored[obj[i].symbol]]
  /\ UNCHANGED <<today, stored, recs, imp, overlapped>>

\* Mistake: a baseline that the object has is kept.
refresh_recommendation_KeepBaseline(p) ==
  LET i == ref[p].id
      old == ref[p].obj[i]
      time == old.time - DbZone
      new == Evaluated(old, time, ref[p].bars)
  IN
  /\ ref[p].pc = "write"
  /\ IF HasBaseline(old.symbol, time, ref[p].bars)
     THEN recs' = [recs EXCEPT
            ![i].baseline = IF old.baseline = NoBaseline THEN new.baseline ELSE @,
            ![i].perf = new.perf]
     ELSE UNCHANGED recs
  /\ ref' = [ref EXCEPT ![p] =
       [Idle EXCEPT !.pc = "next", !.obj = Loaded(ref[p].obj, DOMAIN ref[p].obj \ {i})]]
  /\ UNCHANGED <<today, stored, imp, overlapped>>

\* The baseline is an attribute of the object: a field is written if it is not
\* what the object had.  The windows are upserted whole.
refresh_recommendation(p) ==
  LET i == ref[p].id
      old == ref[p].obj[i]
      time == old.time - DbZone
      new == Evaluated(old, time, ref[p].bars)
  IN
  /\ ref[p].pc = "write"
  /\ IF HasBaseline(old.symbol, time, ref[p].bars)
     THEN recs' = [recs EXCEPT
            ![i].baseline = [f \in DOMAIN @ |->
               IF new.baseline[f] = old.baseline[f] THEN @[f] ELSE new.baseline[f]],
            ![i].perf = new.perf]
     ELSE UNCHANGED recs
  /\ ref' = [ref EXCEPT ![p] =
       [Idle EXCEPT !.pc = "next", !.obj = Loaded(ref[p].obj, DOMAIN ref[p].obj \ {i})]]
  /\ UNCHANGED <<today, stored, imp, overlapped>>

\* The session of a cron is over; the next night brings another one.
Over(p) == IF p \in Refreshers THEN Idle ELSE [Idle EXCEPT !.pc = "done"]

EndRefresh(p) ==
  /\ ref[p].pc = "next" /\ DOMAIN ref[p].obj = {}
  /\ ref' = [ref EXCEPT ![p] = Over(p)]
  /\ UNCHANGED <<today, stored, recs, imp, overlapped>>

\* The session fails, and leaves what it has committed.  (Bound: the cron does
\* not fail any more after the last day.)
FailRefresh(p) ==
  /\ DOMAIN ref[p].obj # {}
  /\ p \in Refreshers => today < MaxDay
  /\ ref' = [ref EXCEPT ![p] = Over(p)]
  /\ UNCHANGED <<today, stored, recs, imp, overlapped>>

Init ==
  /\ today = 1
  /\ stored = [s \in Symbols |-> {1}]
  /\ recs = <<>>
  /\ imp = [p \in Importers |-> NoImport]
  /\ ref = [p \in Refreshers \cup Resolvers |-> Idle]
  /\ overlapped = FALSE

Import(p) ==
  \/ StartImport(p)
  \/ \E m \in Messages : Extract(p, m)
  \/ \E n \in Names : ImportItem(p, n)
  \/ FinishImport(p)
  \/ FailImport(p)

Refresh(p) ==
  \/ \E i \in Ids : ReadBars(p, i)
  \/ refresh_recommendation(p)
  \/ EndRefresh(p)

Next ==
  \/ NewDay
  \/ \E p \in Importers : Import(p)
  \/ \E p \in Refreshers : ListActive(p)
  \/ \E p \in Resolvers, i \in Ids, s \in Symbols : resolve_pending(p, i, s)
  \/ \E p \in Refreshers \cup Resolvers : Refresh(p) \/ FailRefresh(p)

Spec == Init /\ [][Next]_vars

\* Days pass, and the cron calls refresh_all_active on each of them.
Fairness ==
  /\ WF_vars(NewDay)
  /\ \A p \in Refreshers : WF_vars(ListActive(p) \/ Refresh(p))

FairSpec == Spec /\ Fairness

(***************************************************************************)
(* Properties.                                                             *)
(***************************************************************************)

Recommendation ==
  [msg : Messages, name : Names, symbol : Symbols \cup {NoSymbol},
   status : {"pending", "active"}, time : Nat,
   baseline : [symbol : Symbols \cup {"none"}, date : 0..MaxDay,
               rule : {"none", "close_same_day", "open_next_day"}],
   perf : [WINDOWS -> [baseline : [symbol : Symbols \cup {"none"}, date : 0..MaxDay,
                                   rule : {"none", "close_same_day", "open_next_day"}],
                       complete : BOOLEAN, as_of : 0..MaxDay]]]

\* The types; only an active recommendation has a symbol, and each does.
TypeOK ==
  /\ today \in 1..MaxDay
  /\ stored \in [Symbols -> SUBSET (1..today)]
  /\ recs \in Seq(Recommendation)
  /\ \A i \in Ids : recs[i].status = "active" <=> recs[i].symbol # NoSymbol
  /\ \A p \in Importers :
       /\ imp[p].pc \in {"idle", "run", "done", "failed"}
       /\ imp[p].todo \subseteq Batch[p]
       /\ imp[p].items \subseteq Items[imp[p].msg]
       /\ imp[p].mine \in Seq(Recommendation)
  /\ \A p \in Refreshers \cup Resolvers :
       /\ ref[p].pc \in {"idle", "next", "write", "done"}
       /\ DOMAIN ref[p].obj \subseteq Ids
       /\ \A i \in DOMAIN ref[p].obj : ref[p].obj[i] \in Recommendation
       /\ ref[p].bars \subseteq 1..today
  /\ overlapped \in BOOLEAN

Recorded(m) == {i \in Ids : recs[i].msg = m}

\* An import that ended well has left a recommendation of every message that
\* has one, whether it was inserted now or skipped as known: also when an
\* earlier import of the text failed half way, after one of its commits.
EveryMessageKept ==
  \A p \in Importers : imp[p].pc = "done" =>
    \A m \in Batch[p] : Items[m] # {} => Recorded(m) # {}

\* What the prompt of the extractor asks for: all the stocks of a message are
\* listed; so an import that ended well has left all of them.
EveryItemKept ==
  \A p \in Importers : imp[p].pc = "done" =>
    \A m \in Batch[p] : \A n \in Items[m] :
      \E i \in Recorded(m) : recs[i].name = n

\* A text that is imported again doubles none of its recommendations, failed
\* imports included, as long as imports do not overlap and its time is read on
\* one clock: of each stock that is named in it there is one row at most.
ItemOnce ==
  \A i, x \in Ids :
    /\ ~overlapped
    /\ recs[i].msg = recs[x].msg /\ recs[i].name = recs[x].name
    /\ Time[recs[i].msg] = NoTime \/ DbZone = 0
    => i = x

\* The stored performance is that of the symbol and of the bars there are.
UpToDate(rec) ==
  LET time == rec.time - DbZone IN
  rec.status = "active" /\ rec.name \in Explicit /\ HasBaseline(rec.symbol, time, stored[rec.symbol])
    => rec = Evaluated(rec, time, stored[rec.symbol])

\* What the sessions hold of row i is current: its symbol and, where one is
\* about to write, its bars.  A copy may have an older baseline only if the
\* row has got the right one since.
Current(i) ==
  \A p \in Refreshers \cup Resolvers : i \in DOMAIN ref[p].obj =>
    /\ ref[p].obj[i].symbol = recs[i].symbol
    /\ ref[p].obj[i].baseline = recs[i].baseline \/ UpToDate(recs[i])
    /\ ref[p].pc = "write" /\ ref[p].id = i => ref[p].bars = stored[recs[i].symbol]

\* Refreshes that overlap do not undo each other, although each writes only
\* the fields that differ from its own copy: as long as the bars and the
\* symbol stay and the copies are current, they remain current, a row that is
\* right remains right, and the refresh of a row makes it right.
RefreshHeals ==
  [][\A i \in Ids :
       Current(i) /\ stored' = stored /\ recs'[i].symbol = recs[i].symbol =>
         /\ Current(i)'
         /\ UpToDate(recs[i]) => UpToDate(recs[i])'
         /\ \A p \in Refreshers \cup Resolvers :
              ref[p].pc = "write" /\ ref[p].id = i /\ ref'[p].pc = "next"
                => UpToDate(recs[i])']_vars

\* Whatever refreshes and resolutions by hand do to each other, computing from
\* symbols and bars they have read before: the nightly refresh heals it.  When
\* nothing new happens, every performance that counts becomes right and stays.
PerformanceConverges == <>[](\A i \in Ids : UpToDate(recs[i]))
=============================================================================
