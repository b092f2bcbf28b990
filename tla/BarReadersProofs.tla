-------------------------- MODULE BarReadersProofs --------------------------
(***************************************************************************)
(* Proofs about the readers of the table of bars, for any symbols, days,   *)
(* requests, threads and factors.                                          *)
(***************************************************************************)
EXTENDS BarReaders, FiniteSetTheorems, WellFoundedInduction, TLAPS

(***************************************************************************)
(* The table.                                                              *)
(***************************************************************************)

\* The ex-rights days after d, up to hi.
UpTo(rights, d, hi) == {e \in rights : d < e /\ e <= hi}

\* A factor accounts for the ex-rights days of its symbol from its own day up
\* to a day that was published: its anchor.
Anchored ==
  \A s \in Symbols : \A d \in DOMAIN bars[s] :
    \E hi \in 0..today : bars[s][d] = UpTo(ex[s], d, hi)

StoreInv == StoreTypeOK /\ Anchored

\* What a series is.
LEMMA SeriesTypes ==
  /\ \A D \in SUBSET Days : [D -> SUBSET Days] \subseteq Series
  /\ \A w \in Series : /\ DOMAIN w \in SUBSET Days
                       /\ w \in [DOMAIN w -> SUBSET Days]
                       /\ \A d \in DOMAIN w : w[d] \subseteq Days
<1>1. \A D \in SUBSET Days : [D -> SUBSET Days] \subseteq Series
  BY DEF Series
<1>2. ASSUME NEW w \in Series
      PROVE  /\ DOMAIN w \in SUBSET Days
             /\ w \in [DOMAIN w -> SUBSET Days]
             /\ \A d \in DOMAIN w : w[d] \subseteq Days
  <2>1. PICK D \in SUBSET Days : w \in [D -> SUBSET Days]
    BY DEF Series
  <2> QED BY <2>1
<1> QED BY <1>1, <1>2

LEMMA EmptyIsSeries == Empty \in Series /\ DOMAIN Empty = {}
<1>1. Empty \in [{} -> SUBSET Days] /\ DOMAIN Empty = {}
  BY DEF Empty
<1> QED BY <1>1, SeriesTypes

\* The numbers of the days.
LEMMA DayTypes ==
  ASSUME StoreTypeOK
  PROVE  /\ today \in Nat /\ today <= MaxDay /\ MaxDay \in Nat
         /\ 1..today \subseteq Days /\ Days \subseteq Nat
         /\ \A d \in 1..today : 1 <= d /\ d <= today
         /\ \A s \in Symbols : traded[s] \subseteq 1..today /\ ex[s] \subseteq 1..today
BY RangesAssumption DEF StoreTypeOK, Days

\* A new day adds itself to some symbols and leaves the others as they were.
LEMMA NewDayAdds ==
  ASSUME StoreTypeOK, NewDay
  PROVE  /\ today' = today + 1 /\ today' \in 0..MaxDay /\ bars' = bars
         /\ traded' \in [Symbols -> SUBSET (1..today')]
         /\ ex' \in [Symbols -> SUBSET (1..today')]
         /\ \A s \in Symbols : /\ ex'[s] \subseteq traded'[s]
                               /\ traded'[s] \in {traded[s], traded[s] \cup {today'}}
                               /\ ex'[s] \in {ex[s], ex[s] \cup {today'}}
<1>1. PICK x \in Sessions :
        /\ traded' = [s \in Symbols |-> IF s \in x.traded THEN traded[s] \cup {today'} ELSE traded[s]]
        /\ ex' = [s \in Symbols |-> IF s \in x.ex THEN ex[s] \cup {today'} ELSE ex[s]]
  BY DEF NewDay
<1>2. x.ex \subseteq x.traded
  BY SessionsAssumption
<1>3. today' = today + 1 /\ today' \in 0..MaxDay /\ bars' = bars /\ today \in Nat
  BY RangesAssumption DEF NewDay, StoreTypeOK
<1>4. 1..today \subseteq 1..today' /\ today' \in 1..today'
  BY <1>3
<1>5. ASSUME NEW s \in Symbols
      PROVE  /\ traded'[s] \subseteq 1..today' /\ ex'[s] \subseteq 1..today'
             /\ ex'[s] \subseteq traded'[s]
             /\ traded'[s] \in {traded[s], traded[s] \cup {today'}}
             /\ ex'[s] \in {ex[s], ex[s] \cup {today'}}
  BY <1>1, <1>2, <1>4 DEF StoreTypeOK
<1>6. /\ traded' \in [Symbols -> SUBSET (1..today')]
      /\ ex' \in [Symbols -> SUBSET (1..today')]
  BY <1>1, <1>5
<1> QED BY <1>3, <1>5, <1>6

LEMMA StoreInvInit == StoreInit => StoreInv
BY EmptyIsSeries, RangesAssumption DEF StoreInit, StoreInv, StoreTypeOK, Anchored

\* Rows that arrive are of published days, and adjusted for later ones only.
LEMMA UpsertKeeps ==
  ASSUME StoreInv, NEW s \in Symbols, NEW lo \in Nat, NEW hi \in Nat, Upsert(s, lo, hi)
  PROVE  StoreInv'
<1> DEFINE rows == {d \in traded[s] : lo <= d /\ d <= hi}
           new == [d \in DOMAIN bars[s] \cup rows |->
                     IF d \in rows THEN Adjusted(s, d, hi) ELSE bars[s][d]]
<1>1. bars' = [bars EXCEPT ![s] = new] /\ UNCHANGED <<today, traded, ex>>
  BY DEF Upsert
<1>2. DOMAIN new \subseteq traded[s] /\ DOMAIN new = DOMAIN bars[s] \cup rows
  BY DEF StoreInv, StoreTypeOK
<1>3. ASSUME NEW d \in DOMAIN new
      PROVE  \E a \in 0..today : new[d] = UpTo(ex[s], d, a)
  <2>1. hi \in 0..today
    BY DayTypes DEF StoreInv, Upsert
  <2>2. CASE d \in rows
    BY <2>1, <2>2 DEF Adjusted, UpTo
  <2>3. CASE d \notin rows
    <3>1. d \in DOMAIN bars[s] /\ new[d] = bars[s][d]
      BY <2>3
    <3> QED BY <3>1 DEF StoreInv, Anchored
  <2> QED BY <2>2, <2>3
<1>4. /\ traded[s] \subseteq Days /\ ex[s] \subseteq Days
      /\ \A d \in DOMAIN new : new[d] \subseteq ex[s]
  <2>1. traded[s] \subseteq Days /\ ex[s] \subseteq Days
    BY DayTypes DEF StoreInv
  <2> HIDE DEF new
  <2> QED BY <1>3, <2>1 DEF UpTo
<1>5. new \in Series
  <2>1. new \in [DOMAIN new -> SUBSET Days] /\ DOMAIN new \in SUBSET Days
    BY <1>2, <1>4
  <2> HIDE DEF new
  <2> QED BY <2>1, SeriesTypes
<1> HIDE DEF new, rows
<1>6. bars \in [Symbols -> Series]
  BY DEF StoreInv, StoreTypeOK
<1>7. bars' \in [Symbols -> Series] /\ bars'[s] = new /\ \A t \in Symbols \ {s} : bars'[t] = bars[t]
  BY <1>1, <1>5, <1>6
<1> QED BY <1>1, <1>2, <1>3, <1>7 DEF StoreInv, StoreTypeOK, Anchored

LEMMA StoreInvNext == StoreInv /\ [StoreNext]_storeVars => StoreInv'
<1> SUFFICES ASSUME StoreInv, [StoreNext]_storeVars PROVE StoreInv'
  OBVIOUS
<1>1. CASE NewDay
  <2>1. StoreTypeOK'
    BY <1>1, NewDayAdds DEF StoreInv, StoreTypeOK
  <2>2. ASSUME NEW s \in Symbols, NEW d \in DOMAIN bars'[s]
        PROVE  \E hi \in 0..today' : bars'[s][d] = UpTo(ex'[s], d, hi)
    <3>1. PICK hi \in 0..today : bars[s][d] = UpTo(ex[s], d, hi)
      BY <1>1, <2>2, NewDayAdds DEF StoreInv, Anchored
    <3>2. /\ today \in Nat /\ today' = today + 1 /\ bars' = bars
          /\ ex'[s] = ex[s] \/ ex'[s] = ex[s] \cup {today'}
      BY <1>1, DayTypes, NewDayAdds DEF StoreInv
    <3>3. hi \in 0..today' /\ ~(today' <= hi)
      BY <3>2
    <3>4. UpTo(ex'[s], d, hi) = UpTo(ex[s], d, hi)
      BY <3>2, <3>3 DEF UpTo
    <3> QED BY <3>1, <3>2, <3>3, <3>4
  <2> QED BY <2>1, <2>2 DEF StoreInv, Anchored
<1>2. ASSUME NEW r \in Ranges, Upsert(r[1], r[2], r[3])
      PROVE  StoreInv'
  <2>1. r \in Symbols \X Nat \X Nat
    BY RangesAssumption
  <2>2. PICK s \in Symbols, lo \in Nat, hi \in Nat : s = r[1] /\ lo = r[2] /\ hi = r[3]
    BY <2>1
  <2> QED BY <1>2, <2>2, UpsertKeeps
<1>3. CASE UNCHANGED storeVars
  BY <1>3 DEF storeVars, StoreInv, StoreTypeOK, Anchored
<1> QED BY <1>1, <1>2, <1>3 DEF StoreNext

(***************************************************************************)
(* Positions in calendars.                                                 *)
(***************************************************************************)

LEMMA CalendarsFinite ==
  ASSUME NEW n \in Nat, NEW cal \in SUBSET (1..n)
  PROVE  IsFiniteSet(cal)
<1>1. 1 \in Int /\ n \in Int
  OBVIOUS
<1>2. IsFiniteSet(1..n)
  BY <1>1, FS_Interval
<1> QED BY <1>2, FS_Subset

LEMMA IndexType ==
  ASSUME NEW cal, IsFiniteSet(cal), NEW d
  PROVE  IndexOf(cal, d) \in Nat
<1>1. {x \in cal : x < d} \in SUBSET cal
  OBVIOUS
<1> QED BY <1>1, FS_Subset, FS_CardinalityType DEF IndexOf

\* Two days of a calendar have two positions.
LEMMA IndexInjective ==
  ASSUME NEW cal \in SUBSET Nat, IsFiniteSet(cal), NEW d \in cal, NEW e \in cal,
         IndexOf(cal, d) = IndexOf(cal, e)
  PROVE  d = e
<1> DEFINE below(z) == {u \in cal : u < z}
<1>1. ASSUME NEW x \in cal, NEW y \in cal, x < y, IndexOf(cal, x) = IndexOf(cal, y)
      PROVE  FALSE
  <2>1. x \in Nat /\ y \in Nat
    OBVIOUS
  <2>a. \A u \in cal : u < x => u < y
    BY <1>1, <2>1
  <2>2. below(x) \in SUBSET below(y) /\ below(y) \in SUBSET cal
    BY <2>a
  <2>3. IsFiniteSet(below(y))
    BY <2>2, FS_Subset
  <2>4. x \in below(y) /\ x \notin below(x)
    BY <1>1, <2>1
  <2>5. Cardinality(below(x)) = Cardinality(below(y))
    BY <1>1 DEF IndexOf
  <2> HIDE DEF below
  <2>6. below(x) = below(y)
    BY <2>2, <2>3, <2>5, FS_Subset
  <2> QED BY <2>4, <2>6
<1>2. d \in Nat /\ e \in Nat
  OBVIOUS
<1>3. d < e \/ e < d \/ d = e
  BY <1>2
<1> QED BY <1>1, <1>3

\* A calendar that goes on further gives its days the same positions.
LEMMA IndexOfBeginning ==
  ASSUME NEW c1 \in SUBSET Nat, NEW c2 \in SUBSET Nat,
         c1 \subseteq c2, \A d \in c2 \ c1, e \in c1 : e < d,
         NEW d \in c1
  PROVE  IndexOf(c1, d) = IndexOf(c2, d)
<1>1. ASSUME NEW x \in c2, x < d
      PROVE  x \in c1
  <2>1. x \in Nat /\ d \in Nat
    OBVIOUS
  <2> QED BY <1>1, <2>1
<1>2. {x \in c1 : x < d} = {x \in c2 : x < d}
  BY <1>1
<1> QED BY <1>2 DEF IndexOf

\* So a position means one day in comparable calendars.
LEMMA IndexAgrees ==
  ASSUME NEW c1 \in SUBSET Nat, NEW c2 \in SUBSET Nat, IsFiniteSet(c1), IsFiniteSet(c2),
         Comparable(c1, c2), NEW d \in c1, NEW e \in c2, IndexOf(c1, d) = IndexOf(c2, e)
  PROVE  d = e
<1>1. CASE c1 \subseteq c2 /\ \A x \in c2 \ c1, y \in c1 : y < x
  <2>1. IndexOf(c1, d) = IndexOf(c2, d) /\ d \in c2
    BY <1>1, IndexOfBeginning
  <2> QED BY <2>1, IndexInjective
<1>2. CASE c2 \subseteq c1 /\ \A x \in c1 \ c2, y \in c2 : y < x
  <2>1. IndexOf(c2, e) = IndexOf(c1, e) /\ e \in c1
    BY <1>2, IndexOfBeginning
  <2> QED BY <2>1, IndexInjective
<1> QED BY <1>1, <1>2 DEF Comparable

(***************************************************************************)
(* The exports.  Every bin in the directory was cut on one of the          *)
(* calendars that were read: it says so itself only by its start.          *)
(***************************************************************************)

Taken == UNION {[S -> Series] : S \in SUBSET Symbols}

DumpType ==
  [pc : {"idle", "done", "calendar", "day"} \cup Writing, todo : SUBSET Symbols,
   start : Nat, end : Nat, universe : SUBSET Symbols, cal : SUBSET Days,
   sym : Symbols \cup {0}, rows : Series, fields : SUBSET Fields, taken : Taken]

SlotRow == [day : Days, factor : SUBSET Days]
BinType == [start : Nat, slots : UNION {[0..n -> SUBSET SlotRow] : n \in Int}]

\* The rows of a bin stand where the calendar puts them.
CutOn(cal, bin) ==
  \A k \in DOMAIN bin.slots : \A v \in bin.slots[k] :
    v.day \in cal /\ IndexOf(cal, v.day) = bin.start + k

LocalsFit(c) ==
  /\ dump[c].cal \in calendars \cup {{}}
  /\ dump[c].pc \in {"day"} \cup Writing => dump[c].cal \in calendars
  /\ DOMAIN dump[c].rows \subseteq dump[c].cal
  /\ dump[c].pc = "bins" => dump[c].sym \in Symbols
  /\ dump[c].pc # "bins" => dump[c].rows = Empty

FilesFit ==
  /\ files = [cal |-> files.cal, bins |-> files.bins, all |-> files.all, csi300 |-> files.csi300]
  /\ files.cal \in calendars \cup {{}}
  /\ files.bins \in [Symbols -> [Fields -> BinType]]
  /\ \A s \in Symbols, f \in Fields :
       \/ DOMAIN files.bins[s][f].slots = {}
       \/ \E cal \in calendars : CutOn(cal, files.bins[s][f])

DumpInv ==
  /\ dump \in [Exporters -> DumpType]
  /\ calendars \subseteq SUBSET (1..today)
  /\ \A c \in Exporters : LocalsFit(c)
  /\ FilesFit
  /\ contested \in [Exporters -> BOOLEAN]
  /\ sealed \in BOOLEAN

LEMMA NoDumpType == NoDump \in DumpType /\ DumpOver \in DumpType
<1>1. Empty \in Taken
  <2>1. Empty \in [{} -> Series]
    BY DEF Empty
  <2> QED BY <2>1 DEF Taken
<1>2. NoDump \in DumpType
  BY <1>1, EmptyIsSeries DEF NoDump, DumpType, Writing
<1> QED BY <1>2 DEF DumpOver, DumpType

LEMMA DumpInvInit == Init => DumpInv
<1> SUFFICES ASSUME Init PROVE DumpInv
  OBVIOUS
<1>1. dump = [c \in Exporters |-> NoDump] /\ calendars = {}
  BY DEF Init, DumpInit
<1>2. dump \in [Exporters -> DumpType]
  BY <1>1, NoDumpType
<1>3. NoDump.cal = {} /\ NoDump.pc = "idle" /\ NoDump.rows = Empty
  BY DEF NoDump
<1>4. \A c \in Exporters : LocalsFit(c)
  BY <1>1, <1>3, EmptyIsSeries DEF LocalsFit, Writing
<1>5. NoFile \in BinType /\ DOMAIN NoFile.slots = {}
  <2>1. Empty \in [0..(-1) -> SUBSET SlotRow]
    BY DEF Empty
  <2>2. Empty \in UNION {[0..n -> SUBSET SlotRow] : n \in Int}
    BY <2>1
  <2> QED BY <2>2, EmptyIsSeries DEF NoFile, BinType
<1>6. files = [cal |-> {}, bins |-> [s \in Symbols |-> [f \in Fields |-> NoFile]],
               all |-> Empty, csi300 |-> Empty]
  BY DEF Init, DumpInit
<1>7. files.cal = {} /\ files.bins = [s \in Symbols |-> [f \in Fields |-> NoFile]]
  BY <1>6
<1>8. FilesFit
  BY <1>5, <1>6, <1>7 DEF FilesFit
<1> QED BY <1>1, <1>2, <1>4, <1>8 DEF DumpInv, Init, DumpInit

\* The directory fits as long as no calendar is forgotten.
LEMMA FilesStay ==
  ASSUME FilesFit, files' = files, calendars \subseteq calendars'
  PROVE  FilesFit'
<1>1. ASSUME NEW s \in Symbols, NEW f \in Fields
      PROVE  \/ DOMAIN files.bins[s][f].slots = {}
             \/ \E cal \in calendars' : CutOn(cal, files.bins[s][f])
  BY DEF FilesFit
<1> QED BY <1>1 DEF FilesFit

\* What a step of one export must show.
LEMMA LocalStep ==
  ASSUME DumpInv, today' = today, NEW c \in Exporters, NEW j \in DumpType,
         dump' = [dump EXCEPT ![c] = j],
         calendars \subseteq calendars', calendars' \subseteq SUBSET (1..today),
         j.cal \in calendars' \cup {{}},
         j.pc \in {"day"} \cup Writing => j.cal \in calendars',
         DOMAIN j.rows \subseteq j.cal,
         j.pc = "bins" => j.sym \in Symbols,
         j.pc # "bins" => j.rows = Empty,
         FilesFit', contested' \in [Exporters -> BOOLEAN], sealed' \in BOOLEAN
  PROVE  DumpInv'
<1>1. dump' \in [Exporters -> DumpType] /\ dump'[c] = j
      /\ \A x \in Exporters \ {c} : dump'[x] = dump[x]
  BY DEF DumpInv
<1>2. LocalsFit(c)'
  BY <1>1 DEF LocalsFit
<1>3. ASSUME NEW x \in Exporters \ {c}
      PROVE  LocalsFit(x)'
  BY <1>1 DEF LocalsFit, DumpInv
<1> QED BY <1>1, <1>2, <1>3 DEF DumpInv

\* What Write does to the histories.
LEMMA WriteTypes ==
  ASSUME DumpInv, NEW c \in Exporters, NEW new, Write(c, new)
  PROVE  /\ files' = new /\ today' = today /\ calendars' = calendars
         /\ contested' \in [Exporters -> BOOLEAN] /\ sealed' \in BOOLEAN
BY DEF Write, DumpInv, storeVars

LEMMA StartDumpKeeps ==
  ASSUME StoreInv, DumpInv, NEW c \in Exporters, NEW q \in Requests, StartDump(c, q)
  PROVE  DumpInv'
<1> DEFINE syms == list_symbols_with_bars(q)
           j == [NoDump EXCEPT !.pc = "calendar", !.todo = syms, !.start = q.start,
                               !.end = q.end, !.universe = q.universe]
<1>1. /\ dump' = [dump EXCEPT ![c] = j]
      /\ UNCHANGED <<storeVars, files, calendars, contested, sealed>>
  BY DEF StartDump
<1>2. syms \in SUBSET Symbols /\ q.start \in Nat /\ q.end \in Nat /\ q.universe \in SUBSET Symbols
  BY RequestsAssumption DEF list_symbols_with_bars
<1> HIDE DEF syms
<1>3. j \in DumpType
  BY <1>2, NoDumpType DEF DumpType
<1>4. j.cal = {} /\ j.pc = "calendar" /\ j.rows = Empty
  BY DEF NoDump
<1> HIDE DEF j
<1>5. FilesFit'
  BY <1>1, FilesStay DEF DumpInv
<1> QED BY <1>1, <1>3, <1>4, <1>5, EmptyIsSeries, LocalStep DEF DumpInv, storeVars, Writing

LEMMA ReadCalendarKeeps ==
  ASSUME StoreInv, DumpInv, NEW c \in Exporters, ReadCalendar(c)
  PROVE  DumpInv'
<1> DEFINE cal == list_trade_dates(dump[c].todo, dump[c].start, dump[c].end)
           j == [dump[c] EXCEPT !.pc = "day", !.cal = cal]
<1>1. /\ dump[c].pc = "calendar" /\ dump' = [dump EXCEPT ![c] = j] /\ calendars' = calendars \cup {cal}
      /\ UNCHANGED <<storeVars, files, contested, sealed>>
  BY DEF ReadCalendar
<1>2. dump[c] \in DumpType /\ LocalsFit(c)
  BY DEF DumpInv
<1>3. cal \subseteq 1..today /\ cal \in SUBSET Days
  <2>1. dump[c].todo \subseteq Symbols
    BY <1>2 DEF DumpType
  <2>2. \A s \in Symbols : DOMAIN bars[s] \subseteq 1..today
    BY DayTypes DEF StoreInv, StoreTypeOK
  <2>3. cal \subseteq 1..today
    BY <2>1, <2>2 DEF list_trade_dates, InRange
  <2> QED BY <2>3, DayTypes DEF StoreInv
<1> HIDE DEF cal
<1>4. j \in DumpType /\ j.pc = "day" /\ j.cal = cal /\ j.rows = dump[c].rows
  BY <1>2, <1>3 DEF DumpType
<1> HIDE DEF j
<1>5. dump[c].rows = Empty
  BY <1>1, <1>2 DEF LocalsFit
<1>6. FilesFit'
  BY <1>1, FilesStay DEF DumpInv
<1> QED BY <1>1, <1>3, <1>4, <1>5, <1>6, EmptyIsSeries, LocalStep, ZenonT(30) DEF DumpInv, storeVars, Writing

LEMMA WriteCalendarKeeps ==
  ASSUME StoreInv, DumpInv, NEW c \in Exporters, WriteCalendar(c)
  PROVE  DumpInv'
<1> DEFINE j == [dump[c] EXCEPT !.pc = "bars"]
           new == [files EXCEPT !.cal = dump[c].cal]
<1>1. dump[c].pc = "day" /\ dump' = [dump EXCEPT ![c] = j] /\ Write(c, new)
  BY DEF WriteCalendar
<1>2. dump[c] \in DumpType /\ LocalsFit(c)
  BY DEF DumpInv
<1>3. j \in DumpType /\ j.pc = "bars" /\ j.cal = dump[c].cal /\ j.rows = dump[c].rows
  BY <1>2 DEF DumpType, Writing
<1>4. dump[c].cal \in calendars /\ dump[c].rows = Empty
  BY <1>1, <1>2 DEF LocalsFit
<1>5. new = [cal |-> dump[c].cal, bins |-> files.bins, all |-> files.all, csi300 |-> files.csi300]
  BY DEF DumpInv, FilesFit
<1> HIDE DEF j, new
<1>6. FilesFit'
  <2>1. files' = new /\ calendars' = calendars
    BY <1>1, WriteTypes
  <2>2. files'.cal = dump[c].cal /\ files'.bins = files.bins
    BY <1>5, <2>1
  <2> QED BY <1>4, <1>5, <2>1, <2>2 DEF DumpInv, FilesFit
<1> QED BY <1>1, <1>3, <1>4, <1>6, WriteTypes, EmptyIsSeries, LocalStep DEF DumpInv, Writing

LEMMA ReadBarsKeeps ==
  ASSUME StoreInv, DumpInv, NEW c \in Exporters, NEW s \in Symbols, ReadBars(c, s)
  PROVE  DumpInv'
<1> DEFINE rows == get_bars(s, dump[c].cal)
           rest == dump[c].todo \ {s}
           taken == [t \in DOMAIN dump[c].taken \cup {s} |-> IF t = s THEN rows ELSE dump[c].taken[t]]
           skip == [dump[c] EXCEPT !.todo = rest]
           take == [dump[c] EXCEPT !.pc = "bins", !.todo = rest, !.sym = s, !.rows = rows,
                                   !.fields = Fields, !.taken = taken]
           j == IF rows = Empty THEN skip ELSE take
<1>1. dump[c].pc = "bars" /\ dump' = [dump EXCEPT ![c] = j]
      /\ UNCHANGED <<storeVars, files, calendars, contested, sealed>>
  BY DEF ReadBars
<1>2. dump[c] \in DumpType /\ LocalsFit(c)
  BY DEF DumpInv
<1>3. rows \in Series /\ DOMAIN rows \subseteq dump[c].cal
  <2>1. bars[s] \in Series
    BY DEF StoreInv, StoreTypeOK
  <2>2. DOMAIN rows \in SUBSET Days /\ rows \in [DOMAIN rows -> SUBSET Days]
    BY <2>1, SeriesTypes DEF get_bars
  <2>3. DOMAIN rows \subseteq dump[c].cal
    BY DEF get_bars
  <2> HIDE DEF rows
  <2> QED BY <2>2, <2>3, SeriesTypes
<1>4. taken \in Taken
  <2>1. PICK S \in SUBSET Symbols : dump[c].taken \in [S -> Series]
    BY <1>2 DEF DumpType, Taken
  <2>2. taken \in [S \cup {s} -> Series]
    <3> HIDE DEF rows
    <3> QED BY <1>3, <2>1
  <2> HIDE DEF taken
  <2> QED BY <2>2 DEF Taken
<1>5. rest \in SUBSET Symbols /\ Fields \in SUBSET Fields
  BY <1>2 DEF DumpType
<1>6. dump[c].cal \in calendars /\ dump[c].rows = Empty
  BY <1>1, <1>2 DEF LocalsFit, Writing
<1> HIDE DEF rows, taken, rest
<1>7. skip \in DumpType /\ skip.pc = "bars" /\ skip.cal = dump[c].cal /\ skip.rows = Empty
  BY <1>1, <1>2, <1>5, <1>6 DEF DumpType
<1>8. take \in DumpType /\ take.pc = "bins" /\ take.cal = dump[c].cal /\ take.rows = rows
      /\ take.sym = s
  BY <1>2, <1>3, <1>4, <1>5 DEF DumpType, Writing
<1> HIDE DEF skip, take
<1>9. /\ j \in DumpType /\ j.cal = dump[c].cal /\ DOMAIN j.rows \subseteq dump[c].cal
      /\ j.pc = "bins" => j.sym \in Symbols
      /\ j.pc # "bins" => j.rows = Empty
  BY <1>3, <1>7, <1>8, EmptyIsSeries
<1> HIDE DEF j
<1>10. FilesFit'
  BY <1>1, FilesStay DEF DumpInv
<1> QED BY <1>1, <1>6, <1>9, <1>10, LocalStep DEF DumpInv, storeVars

\* A bin that is cut on a calendar stands on it.
LEMMA BinFits ==
  ASSUME NEW cal, IsFiniteSet(cal), NEW rows \in Series, DOMAIN rows \subseteq cal
  PROVE  Bin(cal, rows) \in BinType /\ CutOn(cal, Bin(cal, rows))
<1> DEFINE start == IndexOf(cal, Span(rows).first)
           end == IndexOf(cal, Span(rows).last)
           slot(k) == {[day |-> d, factor |-> rows[d]] :
                        d \in {x \in DOMAIN rows : IndexOf(cal, x) = start + k}}
           slots == [k \in 0..(end - start) |-> slot(k)]
<1>1. Bin(cal, rows) = [start |-> start, slots |-> slots]
  BY DEF Bin
<1>2. start \in Nat /\ end \in Nat
  BY IndexType
<1> HIDE DEF start, end
<1>3. ASSUME NEW k
      PROVE  slot(k) \in SUBSET SlotRow
  BY SeriesTypes DEF SlotRow
<1>4. ASSUME NEW k, NEW v \in slot(k)
      PROVE  v.day \in cal /\ IndexOf(cal, v.day) = start + k
  OBVIOUS
<1>5. slots \in UNION {[0..n -> SUBSET SlotRow] : n \in Int}
  <2>1. end - start \in Int
    BY <1>2
  <2>2. slots \in [0..(end - start) -> SUBSET SlotRow]
    BY <1>3
  <2> QED BY <2>1, <2>2
<1>6. \A k \in DOMAIN slots : slots[k] = slot(k)
  OBVIOUS
<1> HIDE DEF slot, slots
<1>7. Bin(cal, rows).start = start /\ Bin(cal, rows).slots = slots
  BY <1>1
<1>8. Bin(cal, rows) \in BinType
  BY <1>1, <1>2, <1>5 DEF BinType
<1> QED BY <1>4, <1>6, <1>7, <1>8 DEF CutOn

LEMMA WriteBinKeeps ==
  ASSUME StoreInv, DumpInv, NEW c \in Exporters, NEW f \in Fields, WriteBin(c, f)
  PROVE  DumpInv'
<1> DEFINE bin == Bin(dump[c].cal, dump[c].rows)
           sym == dump[c].sym
           new == [files EXCEPT !.bins[sym][f] = bin]
           rest == dump[c].fields \ {f}
           more == [dump[c] EXCEPT !.fields = rest]
           last == [dump[c] EXCEPT !.pc = "bars", !.fields = {}, !.sym = 0, !.rows = Empty]
           j == IF dump[c].fields # {f} THEN more ELSE last
<1>1. dump[c].pc = "bins" /\ dump' = [dump EXCEPT ![c] = j] /\ Write(c, new)
  BY DEF WriteBin
<1>2. dump[c] \in DumpType /\ LocalsFit(c)
  BY DEF DumpInv
<1>3. /\ dump[c].cal \in calendars /\ DOMAIN dump[c].rows \subseteq dump[c].cal
      /\ sym \in Symbols /\ dump[c].rows \in Series
  BY <1>1, <1>2 DEF LocalsFit, Writing, DumpType
<1>4. bin \in BinType /\ CutOn(dump[c].cal, bin)
  <2>1. dump[c].cal \in SUBSET (1..today) /\ today \in Nat
    BY <1>3, DayTypes DEF DumpInv, StoreInv
  <2>2. IsFiniteSet(dump[c].cal)
    BY <2>1, CalendarsFinite
  <2> QED BY <1>3, <2>2, BinFits
<1>5. rest \in SUBSET Fields
  BY <1>2 DEF DumpType
<1> HIDE DEF rest
<1>6. more \in DumpType /\ more.pc = "bins" /\ more.cal = dump[c].cal /\ more.rows = dump[c].rows
      /\ more.sym = dump[c].sym
  BY <1>1, <1>2, <1>5 DEF DumpType, Writing
<1>7. last \in DumpType /\ last.pc = "bars" /\ last.cal = dump[c].cal /\ last.rows = Empty
  BY <1>2, EmptyIsSeries DEF DumpType, Writing
<1> HIDE DEF more, last
<1>8. /\ j \in DumpType /\ j.cal = dump[c].cal /\ DOMAIN j.rows \subseteq dump[c].cal
      /\ j.pc = "bins" => j.sym \in Symbols
      /\ j.pc # "bins" => j.rows = Empty
  BY <1>3, <1>6, <1>7, EmptyIsSeries
<1> HIDE DEF j, bin, sym
<1>9. new = [cal |-> files.cal, bins |-> [files.bins EXCEPT ![sym][f] = bin],
             all |-> files.all, csi300 |-> files.csi300]
  <2>1. new = [files EXCEPT !.bins = [files.bins EXCEPT ![sym][f] = bin]]
    BY Zenon
  <2>2. files = [cal |-> files.cal, bins |-> files.bins, all |-> files.all,
                 csi300 |-> files.csi300]
    BY DEF DumpInv, FilesFit
  <2> HIDE DEF new
  <2> QED BY <2>1, <2>2
<1> HIDE DEF new
<1>10. FilesFit'
  <2>1. files' = new /\ calendars' = calendars
    BY <1>1, WriteTypes
  <2>2. files'.cal = files.cal /\ files'.bins = [files.bins EXCEPT ![sym][f] = bin]
        /\ files' = [cal |-> files'.cal, bins |-> files'.bins, all |-> files'.all,
                     csi300 |-> files'.csi300]
    BY <1>9, <2>1
  <2>3. files.bins \in [Symbols -> [Fields -> BinType]]
    BY DEF DumpInv, FilesFit
  <2>4. files'.bins \in [Symbols -> [Fields -> BinType]]
    BY <1>3, <1>4, <2>2, <2>3
  <2>5. ASSUME NEW s \in Symbols, NEW g \in Fields
        PROVE  \/ DOMAIN files'.bins[s][g].slots = {}
               \/ \E cal \in calendars : CutOn(cal, files'.bins[s][g])
    <3>1. CASE s = sym /\ g = f
      BY <1>3, <1>4, <2>2, <2>3, <3>1
    <3>2. CASE ~(s = sym /\ g = f)
      <4>1. files'.bins[s][g] = files.bins[s][g]
        BY <1>3, <2>2, <2>3, <3>2
      <4> QED BY <4>1 DEF DumpInv, FilesFit
    <3> QED BY <3>1, <3>2
  <2> QED BY <2>1, <2>2, <2>4, <2>5 DEF DumpInv, FilesFit, CutOn
<1> QED BY <1>1, <1>3, <1>8, <1>10, WriteTypes, LocalStep DEF DumpInv

\* The lists name symbols and spans; the bins and the calendar stay.
LEMMA ListsKeep ==
  ASSUME DumpInv, NEW c \in Exporters, WriteAll(c) \/ WriteUniverse(c)
  PROVE  DumpInv'
<1>2. dump[c] \in DumpType /\ LocalsFit(c)
  BY DEF DumpInv
<1>3. PICK pc \in {"csi300", "meta"} : dump' = [dump EXCEPT ![c] = [dump[c] EXCEPT !.pc = pc]]
  BY DEF WriteAll, WriteUniverse
<1> DEFINE j == [dump[c] EXCEPT !.pc = pc]
<1>4. j \in DumpType /\ j.pc = pc /\ j.cal = dump[c].cal /\ j.rows = dump[c].rows
  BY <1>2 DEF DumpType, Writing
<1> HIDE DEF j
<1>5. dump[c].pc \in {"bars", "csi300"}
  BY DEF WriteAll, WriteUniverse
<1>6. dump[c].cal \in calendars /\ dump[c].rows = Empty
  BY <1>2, <1>5 DEF LocalsFit, Writing
<1>7. /\ files'.cal = files.cal /\ files'.bins = files.bins
      /\ files' = [cal |-> files'.cal, bins |-> files'.bins, all |-> files'.all,
                   csi300 |-> files'.csi300]
  <2>1. files = [cal |-> files.cal, bins |-> files.bins, all |-> files.all, csi300 |-> files.csi300]
    BY DEF DumpInv, FilesFit
  <2>2. CASE WriteAll(c)
    <3>1. files' = [files EXCEPT !.all = Lines(dump[c].taken)]
      BY <2>2 DEF WriteAll, Write
    <3> QED BY <2>1, <3>1
  <2>3. CASE WriteUniverse(c)
    <3>1. files' = [files EXCEPT !.csi300 = [s \in dump[c].universe \cap DOMAIN dump[c].taken |->
                                               Span(dump[c].taken[s])]]
      BY <2>3 DEF WriteUniverse, Write
    <3> QED BY <2>1, <3>1
  <2> QED BY <2>2, <2>3
<1>8. /\ UNCHANGED <<storeVars, calendars>>
      /\ contested' \in [Exporters -> BOOLEAN] /\ sealed' \in BOOLEAN
  BY DEF WriteAll, WriteUniverse, Write, DumpInv
<1>10. FilesFit'
  BY <1>7, <1>8 DEF DumpInv, FilesFit
<1>9. dump' = [dump EXCEPT ![c] = j]
  BY <1>3 DEF j
<1> QED BY <1>4, <1>6, <1>8, <1>9, <1>10, EmptyIsSeries, LocalStep DEF DumpInv, storeVars

LEMMA EndKeeps ==
  ASSUME DumpInv, NEW c \in Exporters, FinishDump(c) \/ AbandonDump(c)
  PROVE  DumpInv'
<1>1. /\ dump' = [dump EXCEPT ![c] = DumpOver]
      /\ UNCHANGED <<storeVars, files, calendars>>
      /\ contested' \in [Exporters -> BOOLEAN] /\ sealed' \in BOOLEAN
  BY DEF FinishDump, AbandonDump, DumpInv
<1>2. DumpOver.cal = {} /\ DumpOver.rows = Empty /\ DumpOver.pc = "done"
  BY DEF DumpOver, NoDump
<1>3. FilesFit'
  BY <1>1, FilesStay DEF DumpInv
<1> QED BY <1>1, <1>2, <1>3, NoDumpType, EmptyIsSeries, LocalStep DEF DumpInv, storeVars, Writing

\* The days that come do not touch the exports.
LEMMA DumpUntouched ==
  ASSUME StoreInv, StoreInv', DumpInv, today' \in {today, today + 1}, UNCHANGED dumpVars
  PROVE  DumpInv'
<1>1. UNCHANGED <<dump, files, calendars, contested, sealed>>
  BY DEF dumpVars
<1>2. 1..today \subseteq 1..today'
  BY DayTypes DEF StoreInv
<1>3. FilesFit'
  BY <1>1, FilesStay DEF DumpInv
<1> QED BY <1>1, <1>2, <1>3 DEF DumpInv, LocalsFit

LEMMA TodaySteps ==
  [StoreNext]_storeVars => today' \in {today, today + 1}
BY DEF StoreNext, NewDay, Upsert, storeVars

\* Requests leave the table alone.
LEMMA RequestsReadOnly ==
  /\ \A c \in Exporters : ExportStep(c) => UNCHANGED <<storeVars, strategyVars>>
  /\ \A c \in Callers : StrategyStep(c) => UNCHANGED <<storeVars, dumpVars>>
<1>1. ASSUME NEW c \in Exporters, ExportStep(c)
      PROVE  UNCHANGED <<storeVars, strategyVars>>
  BY <1>1 DEF ExportStep, StartDump, DumpStep, ReadCalendar, WriteCalendar, ReadBars, WriteBin,
              WriteAll, WriteUniverse, FinishDump, AbandonDump, Write
<1>2. ASSUME NEW c \in Callers, StrategyStep(c)
      PROVE  UNCHANGED <<storeVars, dumpVars>>
  BY <1>2 DEF StrategyStep, StartSignals, StartUpload, CalcStep, ReadFrame, Lookup, Verify, Import,
              Rank, Commit, AbandonCalc
<1> QED BY <1>1, <1>2

LEMMA StoreInvStep == StoreInv /\ [Next]_vars => StoreInv' /\ [StoreNext]_storeVars
BY StoreInvNext, RequestsReadOnly DEF Next, Table, vars

LEMMA DumpInvNext == StoreInv /\ DumpInv /\ [Next]_vars => DumpInv'
<1> SUFFICES ASSUME StoreInv, DumpInv, [Next]_vars PROVE DumpInv'
  OBVIOUS
<1>0. StoreInv' /\ today' \in {today, today + 1}
  BY StoreInvStep, TodaySteps
<1>1. CASE UNCHANGED dumpVars
  BY <1>0, <1>1, DumpUntouched
<1>2. ASSUME NEW c \in Exporters, ExportStep(c)
      PROVE  DumpInv'
  BY <1>2, StartDumpKeeps, ReadCalendarKeeps, WriteCalendarKeeps, ReadBarsKeeps, WriteBinKeeps,
     ListsKeep, EndKeeps DEF ExportStep, DumpStep
<1>3. CASE Table \/ UNCHANGED vars
  BY <1>1, <1>3 DEF Table, vars, readerVars
<1>4. ASSUME NEW c \in Callers, StrategyStep(c)
      PROVE  DumpInv'
  BY <1>1, <1>4, RequestsReadOnly
<1> QED BY <1>2, <1>3, <1>4 DEF Next

LEMMA StandsWhereItWasCut ==
  ASSUME StoreInv, DumpInv
  PROVE  ValuesStandAtTheirDay
<1> SUFFICES ASSUME \A c1, c2 \in calendars : Comparable(c1, c2),
                    NEW s \in Symbols, NEW f \in Fields
             PROVE  StandsAtItsDay(files.cal, files.bins[s][f])
  BY DEF ValuesStandAtTheirDay
<1> DEFINE bin == files.bins[s][f]
<1> SUFFICES ASSUME NEW k \in DOMAIN bin.slots, NEW d \in files.cal,
                    IndexOf(files.cal, d) = bin.start + k, NEW v \in bin.slots[k]
             PROVE  v.day = d
  BY DEF StandsAtItsDay
<1>1. files.cal \in calendars
  BY DEF DumpInv, FilesFit
<1>2. PICK cal \in calendars : CutOn(cal, bin)
  BY DEF DumpInv, FilesFit
<1> HIDE DEF bin
<1>3. PICK here \in calendars : here = files.cal
  BY <1>1
<1>4. v.day \in cal /\ d \in here /\ IndexOf(cal, v.day) = IndexOf(here, d)
  BY <1>2, <1>3 DEF CutOn
<1>5. today \in Nat /\ 1..today \subseteq Nat /\ here \in SUBSET (1..today) /\ cal \in SUBSET (1..today)
  BY DayTypes DEF DumpInv, StoreInv
<1>6. IsFiniteSet(here) /\ IsFiniteSet(cal) /\ here \in SUBSET Nat /\ cal \in SUBSET Nat
  BY <1>5, CalendarsFinite
<1>7. Comparable(here, cal)
  OBVIOUS
<1>8. PICK e : e = v.day
  OBVIOUS
<1>9. e \in cal /\ IndexOf(cal, e) = IndexOf(here, d)
  BY <1>4, <1>8
<1>10. d = e
  BY <1>4, <1>6, <1>7, <1>9, IndexAgrees
<1> QED BY <1>8, <1>10

\* While exports overlap in one directory, break off and meet commits, no
\* value is read as that of another day, as long as the calendars differ only
\* in how far they go.
THEOREM ValuesCorrect == Spec => []ValuesStandAtTheirDay
<1>1. Init => StoreInv /\ DumpInv
  BY StoreInvInit, DumpInvInit DEF Init
<1>2. StoreInv /\ DumpInv /\ [Next]_vars => StoreInv' /\ DumpInv'
  BY StoreInvStep, DumpInvNext
<1>3. StoreInv /\ DumpInv => ValuesStandAtTheirDay
  BY StandsWhereItWasCut
<1> QED BY <1>1, <1>2, <1>3, PTL DEF Spec

(***************************************************************************)
(* The requests of the strategies: types.                                  *)
(***************************************************************************)

Scores == {Score(s, w) : s \in Universe, w \in Series}

Row == [score : Scores, action : {"buy", "sell"}]

Rows == UNION {[S -> Row] : S \in SUBSET Universe}

Frames == UNION {[S -> Series] : S \in SUBSET Universe}

CalcType ==
  [pc : {"idle", "read", "import", "lookup", "done"}, kind : {"none", "signals", "upload"},
   claim : Claims \cup {0}, day : Nat, todo : SUBSET Universe, frames : Frames, sound : BOOLEAN,
   verdict : {"none", "skipped", "verified", "refused"}, rows : Rows, loaded : Rows]

\* Signals are asked for a day; only an answer that is being stored has rows
\* of the table, and rows are never taken from the table.
CalcFits(j, table) ==
  /\ j.kind = "signals" => j.day \in Dates
  /\ j.pc = "lookup" => j.kind = "signals" /\ DOMAIN j.loaded \subseteq DOMAIN table[j.day]
  /\ j.pc # "lookup" => j.loaded = Empty

CalcInv ==
  /\ calc \in [Callers -> CalcType]
  /\ signals \in [Days -> Rows]
  /\ answers \in [Days -> SUBSET Rows]
  /\ strategy \in {"none", "skipped", "verified"}
  /\ \A c \in Callers : CalcFits(calc[c], signals)

LEMMA RowsTypes ==
  /\ \A S \in SUBSET Universe : [S -> Row] \subseteq Rows
  /\ \A r \in Rows : /\ DOMAIN r \in SUBSET Universe
                     /\ r \in [DOMAIN r -> Row]
                     /\ \A s \in DOMAIN r : r[s] \in Row
<1>1. \A S \in SUBSET Universe : [S -> Row] \subseteq Rows
  BY DEF Rows
<1>2. ASSUME NEW r \in Rows
      PROVE  /\ DOMAIN r \in SUBSET Universe
             /\ r \in [DOMAIN r -> Row]
             /\ \A s \in DOMAIN r : r[s] \in Row
  <2>1. PICK S \in SUBSET Universe : r \in [S -> Row]
    BY DEF Rows
  <2> QED BY <2>1
<1> QED BY <1>1, <1>2

LEMMA FramesTypes ==
  /\ \A S \in SUBSET Universe : [S -> Series] \subseteq Frames
  /\ \A r \in Frames : /\ DOMAIN r \in SUBSET Universe
                       /\ r \in [DOMAIN r -> Series]
                       /\ \A s \in DOMAIN r : r[s] \in Series
<1>1. \A S \in SUBSET Universe : [S -> Series] \subseteq Frames
  BY DEF Frames
<1>2. ASSUME NEW r \in Frames
      PROVE  /\ DOMAIN r \in SUBSET Universe
             /\ r \in [DOMAIN r -> Series]
             /\ \A s \in DOMAIN r : r[s] \in Series
  <2>1. PICK S \in SUBSET Universe : r \in [S -> Series]
    BY DEF Frames
  <2> QED BY <2>1
<1> QED BY <1>1, <1>2

LEMMA EmptyTypes == Empty \in Rows /\ Empty \in Frames /\ DOMAIN Empty = {}
<1>1. Empty \in [{} -> Row] /\ Empty \in [{} -> Series] /\ DOMAIN Empty = {}
  BY DEF Empty
<1> QED BY <1>1, RowsTypes, FramesTypes

\* Part of a series is a series.
LEMMA PartOfSeries ==
  ASSUME NEW w \in Series, NEW D
  PROVE  [d \in DOMAIN w \cap D |-> w[d]] \in Series
<1>1. DOMAIN w \in SUBSET Days /\ \A d \in DOMAIN w : w[d] \subseteq Days
  BY SeriesTypes
<1>2. [d \in DOMAIN w \cap D |-> w[d]] \in [DOMAIN w \cap D -> SUBSET Days]
  BY <1>1
<1> QED BY <1>1, <1>2, SeriesTypes

LEMMA NewestIsSeries ==
  ASSUME NEW w \in Series
  PROVE  Newest(w) \in Series
<1> DEFINE D == {x \in DOMAIN w : Cardinality({y \in DOMAIN w : x <= y}) <= MaxRows}
<1>1. D = DOMAIN w \cap D
  OBVIOUS
<1>2. Newest(w) = [d \in D |-> w[d]]
  BY DEF Newest
<1> HIDE DEF D
<1> QED BY <1>1, <1>2, PartOfSeries

LEMMA NoCalcType ==
  /\ NoCalc \in CalcType /\ Over \in CalcType
  /\ \A table : CalcFits(NoCalc, table) /\ CalcFits(Over, table)
BY EmptyTypes DEF NoCalc, Over, CalcType, CalcFits

LEMMA CalcInvInit == StrategyInit => CalcInv
BY NoCalcType, EmptyTypes DEF StrategyInit, CalcInv

\* What a step of one request must show, if the table of signals stays.
LEMMA CalcLocal ==
  ASSUME CalcInv, NEW c \in Callers, NEW j \in CalcType, calc' = [calc EXCEPT ![c] = j],
         UNCHANGED <<signals, answers>>, strategy' \in {"none", "skipped", "verified"},
         CalcFits(j, signals)
  PROVE  CalcInv'
<1>1. /\ calc' \in [Callers -> CalcType] /\ calc'[c] = j
      /\ \A x \in Callers \ {c} : calc'[x] = calc[x]
  BY DEF CalcInv
<1>2. ASSUME NEW x \in Callers
      PROVE  CalcFits(calc'[x], signals)
  BY <1>1, <1>2 DEF CalcInv
<1>3. \A x \in Callers : CalcFits(calc'[x], signals')
  BY <1>2
<1> QED BY <1>1, <1>3 DEF CalcInv

LEMMA StartKeeps ==
  ASSUME StoreInv, CalcInv, NEW c \in Callers,
         (\E day \in Dates : StartSignals(c, day)) \/ (\E claim \in Claims : StartUpload(c, claim))
  PROVE  CalcInv'
<1>1. today \in Nat /\ Dates \subseteq Nat
  BY DayTypes, StrategyAssumption DEF StoreInv
<1>2. CASE \E day \in Dates : StartSignals(c, day)
  <2>1. PICK day \in Dates : StartSignals(c, day)
    BY <1>2
  <2> DEFINE j == [NoCalc EXCEPT !.pc = "read", !.kind = "signals", !.day = day, !.todo = Universe,
                                 !.sound = day <= today]
  <2>2. calc' = [calc EXCEPT ![c] = j] /\ UNCHANGED <<strategy, signals, answers>>
    BY <2>1 DEF StartSignals
  <2>3. (day <= today) \in BOOLEAN
    BY <1>1
  <2>4. j \in CalcType /\ CalcFits(j, signals)
    BY <1>1, <2>3, NoCalcType, ZenonT(30) DEF NoCalc, CalcType, CalcFits
  <2> HIDE DEF j
  <2> QED BY <2>2, <2>4, CalcLocal DEF CalcInv
<1>3. CASE \E claim \in Claims : StartUpload(c, claim)
  <2>1. PICK claim \in Claims : StartUpload(c, claim)
    BY <1>3
  <2> DEFINE j == [NoCalc EXCEPT !.pc = "read", !.kind = "upload", !.claim = claim, !.day = today,
                                 !.todo = Universe, !.sound = TRUE]
  <2>2. calc' = [calc EXCEPT ![c] = j] /\ UNCHANGED <<strategy, signals, answers>>
    BY <2>1 DEF StartUpload
  <2>3. j \in CalcType /\ CalcFits(j, signals)
    BY <1>1, NoCalcType DEF NoCalc, CalcType, CalcFits
  <2> HIDE DEF j
  <2> QED BY <2>2, <2>3, CalcLocal DEF CalcInv
<1> QED BY <1>2, <1>3

\* A frame that was read is a series, and so are all frames then.
LEMMA FrameTypes ==
  ASSUME StoreInv, NEW s \in Universe, NEW day, NEW frames \in Frames
  PROVE  /\ get_qfq_bars(s, day) \in Series
         /\ [t \in DOMAIN frames \cup {s} |->
               IF t = s THEN get_qfq_bars(s, day) ELSE frames[t]] \in Frames
<1>1. bars[s] \in Series
  BY StrategyAssumption DEF StoreInv, StoreTypeOK
<1>2. get_qfq_bars(s, day) \in Series
  BY <1>1, PartOfSeries DEF get_qfq_bars
<1> DEFINE new == [t \in DOMAIN frames \cup {s} |->
                     IF t = s THEN get_qfq_bars(s, day) ELSE frames[t]]
<1>3. DOMAIN frames \cup {s} \in SUBSET Universe /\ \A t \in DOMAIN frames : frames[t] \in Series
  BY FramesTypes
<1>4. new \in [DOMAIN frames \cup {s} -> Series]
  BY <1>2, <1>3
<1> HIDE DEF new
<1>5. new \in Frames
  BY <1>3, <1>4, FramesTypes
<1> QED BY <1>2, <1>5 DEF new

LEMMA ReadFrameKeeps ==
  ASSUME StoreInv, CalcInv, NEW c \in Callers, NEW s \in Universe, ReadFrame(c, s)
  PROVE  CalcInv'
<1> DEFINE k == calc[c]
           frame == get_qfq_bars(s, k.day)
           all == IF DOMAIN frame = {} THEN k.frames
                  ELSE [t \in DOMAIN k.frames \cup {s} |-> IF t = s THEN frame ELSE k.frames[t]]
           sound == k.sound /\ Complete(s, k.day)
           j == [k EXCEPT !.todo = k.todo \ {s}, !.sound = sound, !.frames = all]
<1>1. calc' = [calc EXCEPT ![c] = j] /\ UNCHANGED <<strategy, signals, answers>>
      /\ k.pc = "read"
  BY DEF ReadFrame
<1>2. k \in CalcType /\ CalcFits(k, signals)
  BY DEF CalcInv
<1>3. k.frames \in Frames
  BY <1>2 DEF CalcType
<1>4. all \in Frames
  BY <1>3, FrameTypes
<1>5. sound \in BOOLEAN
  OBVIOUS
<1> HIDE DEF k, all, sound
<1>6. j \in CalcType /\ CalcFits(j, signals)
  BY <1>1, <1>2, <1>4, <1>5 DEF CalcType, CalcFits
<1> HIDE DEF j
<1> QED BY <1>1, <1>6, CalcLocal DEF CalcInv

LEMMA VerdictTypes ==
  ASSUME NEW frames, NEW claim
  PROVE  independent_verify(frames, claim) \in {"skipped", "verified", "refused"}
BY DEF independent_verify

LEMMA VerifyKeeps ==
  ASSUME CalcInv, NEW c \in Callers, Verify(c)
  PROVE  CalcInv'
<1> DEFINE k == calc[c]
           verdict == independent_verify(k.frames, k.claim)
           j == [k EXCEPT !.pc = "import", !.verdict = verdict]
<1>1. calc' = [calc EXCEPT ![c].pc = "import", ![c].verdict = verdict]
      /\ UNCHANGED <<strategy, signals, answers>> /\ k.pc = "read"
  BY DEF Verify
<1>2. verdict \in {"skipped", "verified", "refused"}
  BY VerdictTypes
<1>3. k \in CalcType /\ CalcFits(k, signals)
  BY DEF CalcInv
<1>4. calc' = [calc EXCEPT ![c] = j]
  BY <1>1, Zenon DEF CalcInv
<1> HIDE DEF k, verdict
<1>5. j \in CalcType /\ CalcFits(j, signals)
  BY <1>1, <1>2, <1>3 DEF CalcType, CalcFits
<1> HIDE DEF j
<1> QED BY <1>1, <1>4, <1>5, CalcLocal DEF CalcInv

LEMMA OverKeeps ==
  ASSUME CalcInv, NEW c \in Callers, Import(c) \/ AbandonCalc(c)
  PROVE  CalcInv'
<1>1. calc' = [calc EXCEPT ![c] = Over] /\ UNCHANGED <<signals, answers>>
  BY DEF Import, AbandonCalc
<1>2. calc[c].verdict \in {"none", "skipped", "verified", "refused"}
  BY DEF CalcInv, CalcType
<1>3. CASE AbandonCalc(c)
  BY <1>1, <1>3, NoCalcType, CalcLocal DEF AbandonCalc, CalcInv
<1>4. CASE Import(c)
  <2>1. strategy' \in {"none", "skipped", "verified"}
    BY <1>2, <1>4 DEF Import, CalcInv
  <2> QED BY <1>1, <2>1, NoCalcType, CalcLocal
<1> QED BY <1>3, <1>4

\* Whoever has no score is not in an order, and the rows of an answer are of
\* the symbols of an order.
LEMMA AnswerTypes ==
  ASSUME NEW frames \in Frames, NEW q \in Orders(frames)
  PROVE  generate_signals_for_date(frames, q) \in Rows
<1> DEFINE rows == generate_signals_for_date(frames, q)
           n == Cardinality(DOMAIN q)
           buys == {q[i] : i \in {x \in DOMAIN q : x <= TopN}}
           sells == {q[i] : i \in {x \in DOMAIN q : n > TopN /\ x > n - TopN}} \ buys
           row == [s \in buys \cup sells |-> [score |-> Score(s, Newest(frames[s])),
                                              action |-> IF s \in buys THEN "buy" ELSE "sell"]]
<1>1. rows = row
  BY DEF generate_signals_for_date
<1>2. q \in [1..Cardinality(Scored(frames)) -> Scored(frames)]
  BY DEF Orders
<1>3. \A i \in DOMAIN q : q[i] \in DOMAIN frames
  BY <1>2 DEF Scored
<1>4. buys \cup sells \in SUBSET DOMAIN frames
  BY <1>3
<1>5. DOMAIN frames \in SUBSET Universe /\ \A s \in DOMAIN frames : frames[s] \in Series
  BY FramesTypes
<1> DEFINE chosen == buys \cup sells
<1>6. \A s \in chosen : Score(s, Newest(frames[s])) \in Scores
  BY <1>4, <1>5, NewestIsSeries DEF Scores
<1>7. row \in [chosen -> Row]
  BY <1>6 DEF Row
<1>8. chosen \in SUBSET Universe
  BY <1>4, <1>5
<1> HIDE DEF rows, row, chosen
<1>9. row \in Rows
  BY <1>7, <1>8, RowsTypes
<1> QED BY <1>1, <1>9 DEF rows

LEMMA RankKeeps ==
  ASSUME CalcInv, NEW c \in Callers, Rank(c)
  PROVE  CalcInv'
<1> DEFINE k == calc[c]
<1>1. PICK q \in Orders(k.frames) :
        calc' = [calc EXCEPT ![c].pc = "lookup",
                             ![c].rows = generate_signals_for_date(k.frames, q),
                             ![c].todo = DOMAIN generate_signals_for_date(k.frames, q)]
  BY DEF Rank
<1> DEFINE rows == generate_signals_for_date(k.frames, q)
           j == [k EXCEPT !.pc = "lookup", !.rows = rows, !.todo = DOMAIN rows]
<1>2. calc' = [calc EXCEPT ![c] = j]
  BY <1>1, Zenon DEF CalcInv
<1>3. k \in CalcType /\ CalcFits(k, signals)
  BY DEF CalcInv
<1>4. UNCHANGED <<strategy, signals, answers>> /\ k.pc = "read" /\ k.kind = "signals"
  BY DEF Rank
<1>5. k.frames \in Frames
  BY <1>3 DEF CalcType
<1>6. PICK frames \in Frames : frames = k.frames
  BY <1>5
<1>7. PICK order \in Orders(frames) : order = q
  BY <1>6
<1>8. rows \in Rows
  BY <1>6, <1>7, AnswerTypes
<1> HIDE DEF k, rows
<1>9. DOMAIN rows \in SUBSET Universe
  BY <1>8, RowsTypes
<1>10. j \in CalcType /\ CalcFits(j, signals)
  BY <1>3, <1>4, <1>8, <1>9, EmptyTypes DEF CalcType, CalcFits
<1> HIDE DEF j
<1> QED BY <1>2, <1>4, <1>10, CalcLocal DEF CalcInv

LEMMA LookupKeeps ==
  ASSUME CalcInv, NEW c \in Callers, NEW s \in Universe, Lookup(c, s)
  PROVE  CalcInv'
<1> DEFINE k == calc[c]
           table == signals[k.day]
           found == DOMAIN table \cap {s}
           loaded == [t \in DOMAIN k.loaded \cup found |->
                        IF t = s THEN table[s] ELSE k.loaded[t]]
           j == [k EXCEPT !.todo = k.todo \ {s}, !.loaded = loaded]
<1>1. calc' = [calc EXCEPT ![c].todo = k.todo \ {s}, ![c].loaded = loaded]
      /\ UNCHANGED <<strategy, signals, answers>> /\ k.pc = "lookup"
  BY DEF Lookup
<1>2. calc' = [calc EXCEPT ![c] = j]
  BY <1>1, Zenon DEF CalcInv
<1>3. k \in CalcType /\ CalcFits(k, signals)
  BY DEF CalcInv
<1>4. k.day \in Days /\ k.loaded \in Rows /\ DOMAIN k.loaded \subseteq DOMAIN table
  BY <1>1, <1>3, StrategyAssumption DEF CalcFits, CalcType
<1>5. table \in Rows
  BY <1>4 DEF CalcInv
<1> HIDE DEF k, table
<1>6. /\ DOMAIN k.loaded \cup found \in SUBSET Universe
      /\ \A t \in DOMAIN table : table[t] \in Row
      /\ \A t \in DOMAIN k.loaded : k.loaded[t] \in Row
  BY <1>4, <1>5, RowsTypes
<1>7. loaded \in [DOMAIN k.loaded \cup found -> Row] /\ DOMAIN loaded \subseteq DOMAIN table
  <2>1. ASSUME NEW t \in DOMAIN k.loaded \cup found
        PROVE  loaded[t] \in Row
    <3>1. CASE t = s
      <4>1. s \in DOMAIN table
        BY <1>4, <3>1
      <4>2. table[s] \in Row
        BY <1>6, <4>1
      <4>3. loaded[t] = table[s]
        BY <3>1
      <4> QED BY <4>2, <4>3
    <3>2. CASE t # s
      <4>1. t \in DOMAIN k.loaded
        BY <3>2, Zenon
      <4>2. loaded[t] = k.loaded[t]
        BY <3>2
      <4>3. k.loaded[t] \in Row
        BY <1>6, <4>1
      <4> QED BY <4>2, <4>3
    <3> QED BY <3>1, <3>2
  <2>2. DOMAIN k.loaded \cup found \subseteq DOMAIN table
    BY <1>4
  <2>3. DOMAIN loaded = DOMAIN k.loaded \cup found /\ loaded = [t \in DOMAIN loaded |-> loaded[t]]
    OBVIOUS
  <2> HIDE DEF loaded, found
  <2> QED BY <2>1, <2>2, <2>3
<1> HIDE DEF found, loaded
<1>8. loaded \in Rows
  BY <1>6, <1>7, RowsTypes
<1>9. DOMAIN loaded \subseteq DOMAIN signals[k.day]
  BY <1>7 DEF table
<1>10. j \in CalcType /\ CalcFits(j, signals)
  BY <1>1, <1>3, <1>8, <1>9 DEF CalcType, CalcFits
<1> HIDE DEF j
<1> QED BY <1>1, <1>2, <1>10, CalcLocal DEF CalcInv

\* The rows of a commit are rows, and none is lost.
LEMMA UpsertedTypes ==
  ASSUME NEW table \in Rows, NEW rows \in Rows, NEW loaded \in Rows,
         DOMAIN loaded \subseteq DOMAIN table
  PROVE  /\ Upserted(table, rows, loaded) \in Rows
         /\ DOMAIN Upserted(table, rows, loaded) = DOMAIN table \cup DOMAIN rows
<1> DEFINE new == Upserted(table, rows, loaded)
<1>1. /\ DOMAIN table \in SUBSET Universe /\ \A s \in DOMAIN table : table[s] \in Row
      /\ DOMAIN rows \in SUBSET Universe /\ \A s \in DOMAIN rows : rows[s] \in Row
  BY RowsTypes
<1>2. DOMAIN new = DOMAIN table \cup DOMAIN rows
      /\ new = [s \in DOMAIN new |-> new[s]]
  BY DEF Upserted
<1>3. ASSUME NEW s \in DOMAIN new
      PROVE  new[s] \in Row
  <2>1. CASE s \notin DOMAIN rows
    BY <1>1, <1>2, <2>1 DEF Upserted
  <2>2. CASE s \in DOMAIN rows /\ s \notin DOMAIN loaded
    BY <1>1, <1>2, <2>2 DEF Upserted
  <2>3. CASE s \in DOMAIN rows /\ s \in DOMAIN loaded
    <3>1. table[s] \in Row /\ rows[s] \in Row
      BY <1>1, <2>3
    <3>2. new[s] = [score |-> Column(rows[s].score, loaded[s].score, table[s].score),
                    action |-> Column(rows[s].action, loaded[s].action, table[s].action)]
      BY <1>2, <2>3 DEF Upserted
    <3> QED BY <3>1, <3>2 DEF Row, Column
  <2> QED BY <2>1, <2>2, <2>3
<1> HIDE DEF new
<1>4. DOMAIN new \in SUBSET Universe /\ new \in [DOMAIN new -> Row]
  BY <1>1, <1>2, <1>3
<1>5. new \in Rows
  BY <1>4, RowsTypes
<1> QED BY <1>2, <1>5 DEF new

\* What a commit does to the table.
LEMMA CommitWrites ==
  ASSUME CalcInv, NEW c \in Callers, Commit(c)
  PROVE  /\ calc[c].day \in Days /\ calc[c].rows \in Rows /\ calc[c].loaded \in Rows
         /\ DOMAIN calc[c].loaded \subseteq DOMAIN signals[calc[c].day]
         /\ calc' = [calc EXCEPT ![c] = Over] /\ strategy' = strategy
         /\ \/ UNCHANGED <<signals, answers>>
            \/ /\ signals' = [signals EXCEPT ![calc[c].day] =
                                Upserted(signals[calc[c].day], calc[c].rows, calc[c].loaded)]
               /\ answers' = [answers EXCEPT ![calc[c].day] = answers[calc[c].day] \cup {calc[c].rows}]
<1>1. calc[c] \in CalcType /\ CalcFits(calc[c], signals) /\ calc[c].pc = "lookup"
  BY DEF CalcInv, Commit
<1>2. calc[c].day \in Days
  BY <1>1, StrategyAssumption DEF CalcFits
<1> QED BY <1>1, <1>2 DEF CalcType, CalcFits, Commit

LEMMA CommitKeeps ==
  ASSUME CalcInv, NEW c \in Callers, Commit(c)
  PROVE  CalcInv'
<1>1. CASE UNCHANGED <<signals, answers>>
  BY <1>1, CommitWrites, NoCalcType, CalcLocal DEF CalcInv
<1>2. CASE ~UNCHANGED <<signals, answers>>
  <2>1. PICK day \in Days, rows \in Rows, loaded \in Rows :
          day = calc[c].day /\ rows = calc[c].rows /\ loaded = calc[c].loaded
    BY CommitWrites
  <2>2. PICK table \in Rows : table = signals[day]
    BY <2>1 DEF CalcInv
  <2>3. DOMAIN loaded \subseteq DOMAIN table
    BY <2>1, <2>2, CommitWrites
  <2>4. PICK new \in Rows : new = Upserted(table, rows, loaded)
                            /\ DOMAIN new = DOMAIN table \cup DOMAIN rows
    BY <2>3, UpsertedTypes
  <2>5. /\ signals' = [signals EXCEPT ![day] = new]
        /\ answers' = [answers EXCEPT ![day] = answers[day] \cup {rows}]
        /\ calc' = [calc EXCEPT ![c] = Over] /\ strategy' = strategy
    BY <1>2, <2>1, <2>2, <2>4, CommitWrites
  <2>6. signals' \in [Days -> Rows] /\ answers' \in [Days -> SUBSET Rows]
    BY <2>5 DEF CalcInv
  <2>7. \A d \in Days : DOMAIN signals[d] \subseteq DOMAIN signals'[d]
    BY <2>2, <2>4, <2>5 DEF CalcInv
  <2>8. calc' \in [Callers -> CalcType] /\ calc'[c] = Over
        /\ \A x \in Callers \ {c} : calc'[x] = calc[x]
    BY <2>5, NoCalcType DEF CalcInv
  <2>9. ASSUME NEW x \in Callers
        PROVE  CalcFits(calc'[x], signals')
    <3>1. CASE x = c
      BY <2>8, <3>1, NoCalcType
    <3>2. CASE x # c
      <4>1. CalcFits(calc[x], signals)
        BY DEF CalcInv
      <4>2. calc[x].pc = "lookup" => calc[x].day \in Days
        BY <4>1, StrategyAssumption DEF CalcFits
      <4>3. CalcFits(calc[x], signals')
        BY <2>7, <4>1, <4>2 DEF CalcFits
      <4> QED BY <2>8, <3>2, <4>3
    <3> QED BY <3>1, <3>2
  <2> QED BY <2>5, <2>6, <2>8, <2>9 DEF CalcInv
<1> QED BY <1>1, <1>2

LEMMA CalcInvNext == StoreInv /\ CalcInv /\ [Next]_vars => CalcInv'
<1> SUFFICES ASSUME StoreInv, CalcInv, [Next]_vars PROVE CalcInv'
  OBVIOUS
<1>1. CASE UNCHANGED strategyVars
  BY <1>1 DEF strategyVars, CalcInv
<1>2. ASSUME NEW c \in Callers, StrategyStep(c)
      PROVE  CalcInv'
  BY <1>2, StartKeeps, ReadFrameKeeps, VerifyKeeps, OverKeeps, RankKeeps, LookupKeeps, CommitKeeps
     DEF StrategyStep, CalcStep
<1>3. CASE Table \/ UNCHANGED vars
  BY <1>1, <1>3 DEF Table, vars, readerVars
<1>4. ASSUME NEW c \in Exporters, ExportStep(c)
      PROVE  CalcInv'
  BY <1>1, <1>4, RequestsReadOnly
<1> QED BY <1>2, <1>3, <1>4 DEF Next

(***************************************************************************)
(* The table of the signals.                                               *)
(***************************************************************************)

\* An answer that is being stored knows rows of the only answer there is.
Agrees(j, stored) ==
  j.pc = "lookup" =>
    \A rows \in Rows :
      stored[j.day] \subseteq {rows} =>
        \A s \in DOMAIN j.loaded : rows \in stored[j.day] /\ s \in DOMAIN rows
                                   /\ j.loaded[s] = rows[s]

TableInv ==
  /\ \A d \in Days : answers[d] = {} => signals[d] = Empty
  /\ TableIsTheAnswer
  /\ \A c \in Callers : Agrees(calc[c], answers)

LEMMA TableInvInit == StrategyInit => TableInv
BY EmptyTypes DEF StrategyInit, TableInv, TableIsTheAnswer, Agrees, NoCalc

\* What a step of one request must show, if the table of signals stays.
LEMMA TableLocal ==
  ASSUME TableInv, NEW c \in Callers, UNCHANGED <<signals, answers>>, Agrees(calc'[c], answers),
         \A x \in Callers \ {c} : calc'[x] = calc[x]
  PROVE  TableInv'
<1>1. ASSUME NEW x \in Callers
      PROVE  Agrees(calc'[x], answers)
  BY DEF TableInv
<1>2. \A x \in Callers : Agrees(calc'[x], answers')
  BY <1>1
<1>3. TableIsTheAnswer'
  BY DEF TableInv, TableIsTheAnswer
<1> QED BY <1>2, <1>3 DEF TableInv

\* Steps before and after the rows are looked up.
LEMMA TableOther ==
  ASSUME CalcInv, CalcInv', TableInv, NEW c \in Callers, UNCHANGED <<signals, answers>>,
         calc'[c].pc = "lookup" => calc'[c].loaded = Empty,
         \A x \in Callers \ {c} : calc'[x] = calc[x]
  PROVE  TableInv'
<1>1. Agrees(calc'[c], answers)
  BY EmptyTypes DEF Agrees
<1> QED BY <1>1, TableLocal

LEMMA LookupAgrees ==
  ASSUME CalcInv, TableInv, NEW c \in Callers, NEW s \in Universe, Lookup(c, s)
  PROVE  TableInv'
<1> DEFINE k == calc[c]
           table == signals[k.day]
           found == DOMAIN table \cap {s}
           loaded == [t \in DOMAIN k.loaded \cup found |->
                        IF t = s THEN table[s] ELSE k.loaded[t]]
<1>1. k \in CalcType /\ CalcFits(k, signals) /\ k.pc = "lookup" /\ Agrees(k, answers)
  BY DEF CalcInv, Lookup, TableInv
<1>2. k.day \in Days /\ DOMAIN k.loaded \subseteq DOMAIN table
  BY <1>1, StrategyAssumption DEF CalcFits
<1>3. /\ calc'[c].pc = "lookup" /\ calc'[c].day = k.day /\ calc'[c].loaded = loaded
      /\ \A x \in Callers \ {c} : calc'[x] = calc[x]
      /\ UNCHANGED <<signals, answers>>
  <2> DEFINE j == [k EXCEPT !.todo = k.todo \ {s}, !.loaded = loaded]
  <2>1. calc' = [calc EXCEPT ![c].todo = k.todo \ {s}, ![c].loaded = loaded]
        /\ UNCHANGED <<signals, answers>>
    BY DEF Lookup
  <2>2. calc' = [calc EXCEPT ![c] = j]
    BY <2>1, Zenon DEF CalcInv
  <2> HIDE DEF k, loaded
  <2>3. j.pc = "lookup" /\ j.day = k.day /\ j.loaded = loaded
    BY <1>1 DEF CalcType
  <2> HIDE DEF j
  <2> QED BY <2>1, <2>2, <2>3 DEF CalcInv
<1>4. \A rows \in answers[k.day] : answers[k.day] = {rows} => table = rows
  BY <1>2 DEF TableInv, TableIsTheAnswer
<1>5. answers[k.day] = {} => table = Empty
  BY <1>2 DEF TableInv
<1>6. Agrees(calc'[c], answers)
  <2> SUFFICES ASSUME NEW rows \in Rows, answers[k.day] \subseteq {rows}, NEW t \in DOMAIN loaded
               PROVE  rows \in answers[k.day] /\ t \in DOMAIN rows /\ loaded[t] = rows[t]
    BY <1>3 DEF Agrees
  <2>1. t \in DOMAIN table
    BY <1>2
  <2>2. answers[k.day] = {rows} /\ table = rows
    BY <1>4, <1>5, <2>1, EmptyTypes
  <2>3. CASE t = s
    <3>1. loaded[t] = table[s]
      BY <2>3
    <3> QED BY <2>1, <2>2, <2>3, <3>1
  <2>4. CASE t # s
    <3>1. t \in DOMAIN k.loaded
      BY <2>4, Zenon
    <3>2. loaded[t] = k.loaded[t]
      BY <2>4
    <3>3. k.loaded[t] = rows[t]
      BY <1>1, <2>2, <3>1 DEF Agrees
    <3> QED BY <2>1, <2>2, <3>2, <3>3
  <2> QED BY <2>3, <2>4
<1> HIDE DEF k, table, loaded, found
<1> QED BY <1>3, <1>6, TableLocal

\* A first answer is stored as it is; one that is stored already changes
\* nothing, whatever part of it has been looked up.
LEMMA SameAnswer ==
  ASSUME NEW rows \in Rows, NEW loaded \in Rows
  PROVE  /\ DOMAIN loaded = {} => Upserted(Empty, rows, loaded) = rows
         /\ (\A s \in DOMAIN loaded : s \in DOMAIN rows /\ loaded[s] = rows[s])
              => Upserted(rows, rows, loaded) = rows
<1>1. rows = [s \in DOMAIN rows |-> rows[s]]
      /\ \A s \in DOMAIN rows : rows[s] = [score |-> rows[s].score, action |-> rows[s].action]
  BY RowsTypes DEF Row
<1>2. ASSUME DOMAIN loaded = {}
      PROVE  Upserted(Empty, rows, loaded) = rows
  BY <1>1, <1>2, EmptyTypes DEF Upserted
<1>3. ASSUME \A s \in DOMAIN loaded : s \in DOMAIN rows /\ loaded[s] = rows[s]
      PROVE  Upserted(rows, rows, loaded) = rows
  <2> DEFINE new == Upserted(rows, rows, loaded)
  <2>1. DOMAIN new = DOMAIN rows /\ new = [s \in DOMAIN new |-> new[s]]
    BY DEF Upserted
  <2>2. ASSUME NEW s \in DOMAIN rows
        PROVE  new[s] = rows[s]
    <3>1. CASE s \in DOMAIN loaded
      <4>1. new[s] = [score |-> rows[s].score, action |-> rows[s].action]
        BY <1>3, <3>1 DEF Upserted, Column
      <4> QED BY <1>1, <4>1
    <3>2. CASE s \notin DOMAIN loaded
      BY <3>2 DEF Upserted
    <3> QED BY <3>1, <3>2
  <2> HIDE DEF new
  <2>3. new = rows
    BY <1>1, <2>1, <2>2
  <2> QED BY <2>3 DEF new
<1> QED BY <1>2, <1>3

LEMMA CommitAgrees ==
  ASSUME CalcInv, CalcInv', TableInv, NEW c \in Callers, Commit(c)
  PROVE  TableInv'
<1>1. calc' = [calc EXCEPT ![c] = Over]
  BY DEF Commit
<1>2. calc'[c] = Over /\ \A x \in Callers \ {c} : calc'[x] = calc[x]
  BY <1>1 DEF CalcInv
<1>3. CASE UNCHANGED <<signals, answers>>
  BY <1>2, <1>3, TableOther DEF Over, NoCalc
<1>4. CASE ~UNCHANGED <<signals, answers>>
  <2>1. PICK day \in Days, rows \in Rows, loaded \in Rows :
          day = calc[c].day /\ rows = calc[c].rows /\ loaded = calc[c].loaded
    BY CommitWrites
  <2>2. PICK table \in Rows : table = signals[day]
    BY <2>1 DEF CalcInv
  <2>3. /\ signals' = [signals EXCEPT ![day] = Upserted(table, rows, loaded)]
        /\ answers' = [answers EXCEPT ![day] = answers[day] \cup {rows}]
        /\ DOMAIN loaded \subseteq DOMAIN table
    BY <1>4, <2>1, <2>2, CommitWrites
  <2>4. /\ signals'[day] = Upserted(table, rows, loaded)
        /\ answers'[day] = answers[day] \cup {rows}
        /\ \A d \in Days \ {day} : signals'[d] = signals[d] /\ answers'[d] = answers[d]
    BY <2>3 DEF CalcInv
  <2>5. Agrees(calc[c], answers) /\ calc[c].pc = "lookup"
    BY DEF TableInv, Commit
  <2>6. ASSUME answers'[day] = {rows}
        PROVE  signals'[day] = rows
    <3>1. answers[day] \subseteq {rows}
      BY <2>4, <2>6
    <3>2. \A s \in DOMAIN loaded : s \in DOMAIN rows /\ loaded[s] = rows[s]
      BY <2>1, <2>5, <3>1 DEF Agrees
    <3>3. CASE answers[day] = {}
      <4>1. table = Empty /\ DOMAIN loaded = {}
        BY <2>2, <2>3, <3>3, EmptyTypes DEF TableInv
      <4> QED BY <2>4, <4>1, SameAnswer
    <3>4. CASE answers[day] = {rows}
      <4>1. table = rows
        BY <2>2, <3>4 DEF TableInv, TableIsTheAnswer
      <4> QED BY <2>4, <3>2, <4>1, SameAnswer
    <3> QED BY <3>1, <3>3, <3>4
  <2>7. TableIsTheAnswer'
    <3> SUFFICES ASSUME NEW d \in Days, NEW r \in answers'[d], answers'[d] = {r}
                 PROVE  signals'[d] = r
      BY DEF TableIsTheAnswer
    <3>1. CASE d = day
      BY <2>4, <2>6, <3>1
    <3>2. CASE d # day
      BY <2>4, <3>2 DEF TableInv, TableIsTheAnswer
    <3> QED BY <3>1, <3>2
  <2>8. \A d \in Days : answers'[d] = {} => signals'[d] = Empty
    BY <2>4 DEF TableInv
  <2>9. ASSUME NEW x \in Callers
        PROVE  Agrees(calc'[x], answers')
    <3>1. CASE x = c
      BY <1>2, <3>1 DEF Agrees, Over, NoCalc
    <3>2. CASE x # c
      <4>1. Agrees(calc[x], answers) /\ CalcFits(calc[x], signals)
        BY DEF TableInv, CalcInv
      <4>2. calc[x].pc = "lookup" => calc[x].day \in Days
        BY <4>1, StrategyAssumption DEF CalcFits
      <4>3. \A d \in Days : answers[d] \subseteq answers'[d]
        BY <2>4
      <4>4. Agrees(calc[x], answers')
        BY <4>1, <4>2, <4>3 DEF Agrees
      <4> QED BY <1>2, <3>2, <4>4
    <3> QED BY <3>1, <3>2
  <2> QED BY <2>7, <2>8, <2>9 DEF TableInv
<1> QED BY <1>3, <1>4

\* What the steps leave that only compute.
LEMMA ComputeOnly ==
  ASSUME CalcInv, CalcInv', NEW c \in Callers,
         \/ \E day \in Dates : StartSignals(c, day)
         \/ \E claim \in Claims : StartUpload(c, claim)
         \/ \E s \in Universe : ReadFrame(c, s)
         \/ Verify(c) \/ Import(c) \/ Rank(c) \/ AbandonCalc(c)
  PROVE  /\ UNCHANGED <<signals, answers>>
         /\ \A x \in Callers \ {c} : calc'[x] = calc[x]
         /\ calc'[c].pc = "lookup" => calc'[c].loaded = Empty
<1>1. UNCHANGED <<signals, answers>>
  BY DEF StartSignals, StartUpload, ReadFrame, Verify, Import, Rank, AbandonCalc
<1>2. CASE Import(c) \/ AbandonCalc(c)
  <2>1. calc' = [calc EXCEPT ![c] = Over]
    BY <1>2 DEF Import, AbandonCalc
  <2> QED BY <1>1, <2>1 DEF CalcInv, Over, NoCalc
<1>3. CASE (\E day \in Dates : StartSignals(c, day)) \/ (\E claim \in Claims : StartUpload(c, claim))
  <2>1. CASE \E day \in Dates : StartSignals(c, day)
    <3>1. calc'[c].pc = "read" /\ \A x \in Callers \ {c} : calc'[x] = calc[x]
      BY <2>1 DEF StartSignals, CalcInv, NoCalc
    <3> QED BY <1>1, <3>1
  <2>2. CASE \E claim \in Claims : StartUpload(c, claim)
    <3>1. calc'[c].pc = "read" /\ \A x \in Callers \ {c} : calc'[x] = calc[x]
      BY <2>2 DEF StartUpload, CalcInv, NoCalc
    <3> QED BY <1>1, <3>1
  <2> QED BY <1>3, <2>1, <2>2
<1>4. CASE \E s \in Universe : ReadFrame(c, s)
  <2>1. calc[c] \in CalcType /\ calc[c].pc = "read"
    BY <1>4 DEF ReadFrame, CalcInv
  <2>2. PICK s \in Universe : ReadFrame(c, s)
    BY <1>4
  <2> DEFINE todo == calc[c].todo \ {s}
             sound == calc[c].sound /\ Complete(s, calc[c].day)
             frame == get_qfq_bars(s, calc[c].day)
             frames == IF DOMAIN frame = {} THEN calc[c].frames
                       ELSE [t \in DOMAIN calc[c].frames \cup {s} |->
                               IF t = s THEN frame ELSE calc[c].frames[t]]
             j == [calc[c] EXCEPT !.todo = todo, !.sound = sound, !.frames = frames]
  <2>3. calc' = [calc EXCEPT ![c] = j]
    BY <2>2 DEF ReadFrame
  <2> HIDE DEF todo, sound, frames
  <2>4. j.pc = "read"
    BY <2>1 DEF CalcType
  <2> HIDE DEF j
  <2> QED BY <1>1, <2>3, <2>4 DEF CalcInv
<1>5. CASE Verify(c)
  <2>1. calc'[c].pc = "import" /\ \A x \in Callers \ {c} : calc'[x] = calc[x]
    BY <1>5 DEF Verify, CalcInv, CalcType
  <2> QED BY <1>1, <2>1
<1>6. CASE Rank(c)
  <2>1. PICK rows :
          calc' = [calc EXCEPT ![c].pc = "lookup", ![c].rows = rows, ![c].todo = DOMAIN rows]
    BY <1>6 DEF Rank
  <2>2. calc' = [calc EXCEPT ![c] = [calc[c] EXCEPT !.pc = "lookup", !.rows = rows,
                                                    !.todo = DOMAIN rows]]
    BY <2>1, Zenon DEF CalcInv
  <2>3. calc[c] \in CalcType /\ calc[c].loaded = Empty
    BY <1>6 DEF Rank, CalcInv, CalcFits
  <2>4. calc'[c].loaded = Empty /\ \A x \in Callers \ {c} : calc'[x] = calc[x]
    BY <2>2, <2>3 DEF CalcInv, CalcType
  <2> QED BY <1>1, <2>4
<1> QED BY <1>2, <1>3, <1>4, <1>5, <1>6

LEMMA TableInvNext == StoreInv /\ CalcInv /\ TableInv /\ [Next]_vars => TableInv'
<1> SUFFICES ASSUME StoreInv, CalcInv, TableInv, [Next]_vars PROVE TableInv'
  OBVIOUS
<1>0. CalcInv'
  BY CalcInvNext
<1>1. CASE UNCHANGED strategyVars
  <2>1. TableIsTheAnswer'
    BY <1>1 DEF TableInv, TableIsTheAnswer, strategyVars
  <2>2. \A c \in Callers : Agrees(calc'[c], answers')
    BY <1>1 DEF TableInv, strategyVars
  <2> QED BY <1>1, <2>1, <2>2 DEF TableInv, strategyVars
<1>2. ASSUME NEW c \in Callers, StrategyStep(c)
      PROVE  TableInv'
  <2>1. CASE Commit(c)
    BY <1>0, <2>1, CommitAgrees
  <2>2. CASE \E s \in Universe : Lookup(c, s)
    BY <2>2, LookupAgrees
  <2>3. CASE ~Commit(c) /\ ~(\E s \in Universe : Lookup(c, s))
    <3>1. \/ \E day \in Dates : StartSignals(c, day)
          \/ \E claim \in Claims : StartUpload(c, claim)
          \/ \E s \in Universe : ReadFrame(c, s)
          \/ Verify(c) \/ Import(c) \/ Rank(c) \/ AbandonCalc(c)
      BY <1>2, <2>3 DEF StrategyStep, CalcStep
    <3>2. /\ UNCHANGED <<signals, answers>>
          /\ \A x \in Callers \ {c} : calc'[x] = calc[x]
          /\ calc'[c].pc = "lookup" => calc'[c].loaded = Empty
      BY <1>0, <3>1, ComputeOnly
    <3> QED BY <1>0, <3>2, TableOther
  <2> QED BY <2>1, <2>2, <2>3
<1>3. CASE Table \/ UNCHANGED vars
  BY <1>1, <1>3 DEF Table, vars, readerVars
<1>4. ASSUME NEW c \in Exporters, ExportStep(c)
      PROVE  TableInv'
  BY <1>1, <1>4, RequestsReadOnly
<1> QED BY <1>2, <1>3, <1>4 DEF Next

\* Requests for the signals of one day may meet, fail in the middle and be
\* repeated: as long as all that succeed have the same answer, the table
\* holds that answer and nothing else.
THEOREM TableHoldsTheAnswer == Spec => []TableIsTheAnswer
<1>1. Init => StoreInv /\ CalcInv /\ TableInv
  BY StoreInvInit, CalcInvInit, TableInvInit DEF Init
<1>2. StoreInv /\ CalcInv /\ TableInv /\ [Next]_vars => (StoreInv /\ CalcInv /\ TableInv)'
  BY StoreInvStep, CalcInvNext, TableInvNext
<1>3. TableInv => TableIsTheAnswer
  BY DEF TableInv
<1> QED BY <1>1, <1>2, <1>3, PTL DEF Spec

(***************************************************************************)
(* What was computed is true.                                              *)
(***************************************************************************)

\* One series in truth: its traded days in the window, adjusted to the day hi;
\* and the frames of all, as functions of the history.
SeriesOf(days, rights, day, hi) == [d \in days \cap InWindow(day) |-> UpTo(rights, d, hi)]

FramesOf(tr, x, day, anchor) ==
  [s \in {u \in Universe : tr[u] \cap InWindow(day) # {}} |->
     SeriesOf(tr[s], x[s], day, anchor[s])]

AnchorsUpTo(forgotten, day, now) ==
  IF forgotten THEN {[s \in Universe |-> day]} ELSE [Universe -> day..now]

FramesMatch(frames, tr, x, todo, day, now) ==
  /\ DOMAIN frames \cap todo = {}
  /\ \A s \in Universe \ todo : s \in DOMAIN frames <=> tr[s] \cap InWindow(day) # {}
  /\ \A s \in DOMAIN frames : \E hi \in day..now : frames[s] = SeriesOf(tr[s], x[s], day, hi)

VerdictFits(j, tr, x, now) ==
  \E a \in AnchorsUpTo(IcForgetsAnchor, j.day, now) :
    j.verdict = independent_verify(FramesOf(tr, x, j.day, a), j.claim)

RowsFit(j, tr, x, now) ==
  \E a \in AnchorsUpTo(ScoreForgetsAnchor, j.day, now) :
    \E q \in Orders(FramesOf(tr, x, j.day, a)) :
      j.rows = generate_signals_for_date(FramesOf(tr, x, j.day, a), q)

SoundFits(j, tr, x, now) ==
  j.sound =>
    /\ j.pc \in {"read", "import", "lookup"} => j.day <= now
    /\ j.pc = "read" => FramesMatch(j.frames, tr, x, j.todo, j.day, now)
    /\ j.pc = "import" => VerdictFits(j, tr, x, now)
    /\ j.pc = "lookup" => RowsFit(j, tr, x, now)

SoundInv == \A c \in Callers : SoundFits(calc[c], traded, ex, today)

LEMMA TruthIs ==
  /\ \A day, a : TrueFrames(day, a) = FramesOf(traded, ex, day, a)
  /\ \A forgotten, day : Anchors(forgotten, day) = AnchorsUpTo(forgotten, day, today)
<1>1. \A day, a : TrueFrames(day, a) = FramesOf(traded, ex, day, a)
  BY DEF TrueFrames, FramesOf, SeriesOf, Adjusted, UpTo
<1>2. \A forgotten, day : Anchors(forgotten, day) = AnchorsUpTo(forgotten, day, today)
  BY DEF Anchors, AnchorsUpTo
<1> QED BY <1>1, <1>2

\* On a later anchor, a series is adjusted for days that come after it.
LEMMA LaterAnchor ==
  ASSUME NEW days, NEW rights \in SUBSET Days, NEW day \in Nat, NEW hi \in Nat, day <= hi
  PROVE  /\ SeriesOf(days, rights, day, day) \in Series
         /\ UpTo(rights, day, hi) \in SUBSET Days
         /\ After(UpTo(rights, day, hi), SeriesOf(days, rights, day, day))
         /\ SeriesOf(days, rights, day, hi) =
              Rebased(SeriesOf(days, rights, day, day), UpTo(rights, day, hi))
<1> DEFINE D == days \cap InWindow(day)
           w == SeriesOf(days, rights, day, day)
           later == UpTo(rights, day, hi)
<1>1. Days \subseteq Nat /\ D \in SUBSET Days /\ \A d \in D : d <= day
  BY DEF InWindow, Days
<1>2. w = [d \in D |-> UpTo(rights, d, day)] /\ DOMAIN w = D
  BY DEF SeriesOf
<1>3. \A d \in D : UpTo(rights, d, day) \in SUBSET Days
  BY DEF UpTo
<1>4. later \in SUBSET Days /\ \A e \in later : day < e
  BY DEF UpTo
<1> HIDE DEF D, w
<1>5. w \in [D -> SUBSET Days]
  BY <1>2, <1>3
<1>6. w \in Series
  BY <1>1, <1>5, SeriesTypes
<1>7. ASSUME NEW d \in D
      PROVE  /\ UpTo(rights, d, hi) = UpTo(rights, d, day) \cup later
             /\ \A e \in later : d < e /\ e \notin UpTo(rights, d, day)
  <2>1. d \in Nat /\ d <= day /\ \A e \in rights : e \in Nat
    BY <1>1
  <2> QED BY <2>1 DEF UpTo
<1>8. After(later, w)
  BY <1>2, <1>7 DEF After
<1>9. SeriesOf(days, rights, day, hi) = Rebased(w, later)
  BY <1>2, <1>7 DEF SeriesOf, Rebased, D
<1> QED BY <1>4, <1>6, <1>8, <1>9 DEF w

\* The newest rows of a series that is adjusted further.
LEMMA NewestRebased ==
  ASSUME NEW w \in Series, NEW later \in SUBSET Days, After(later, w)
  PROVE  /\ Newest(Rebased(w, later)) = Rebased(Newest(w), later)
         /\ DOMAIN Newest(Rebased(w, later)) = DOMAIN Newest(w)
         /\ After(later, Newest(w))
<1>1. DOMAIN Rebased(w, later) = DOMAIN w /\ \A d \in DOMAIN w : Rebased(w, later)[d] = w[d] \cup later
  BY DEF Rebased
<1>2. /\ DOMAIN Newest(w) = {x \in DOMAIN w : Cardinality({y \in DOMAIN w : x <= y}) <= MaxRows}
      /\ \A d \in DOMAIN Newest(w) : d \in DOMAIN w /\ Newest(w)[d] = w[d]
  BY DEF Newest
<1>3. Newest(Rebased(w, later)) = Rebased(Newest(w), later)
  BY <1>1, <1>2 DEF Newest, Rebased
<1>4. After(later, Newest(w))
  BY <1>2 DEF After
<1>5. DOMAIN Newest(Rebased(w, later)) = DOMAIN Newest(w)
  BY <1>3 DEF Rebased
<1> QED BY <1>3, <1>4, <1>5

\* Frames with the same scores, and frames with the same ICs.
SameScores(f, g) ==
  /\ DOMAIN f = DOMAIN g
  /\ \A s \in DOMAIN f : /\ DOMAIN Newest(f[s]) = DOMAIN Newest(g[s])
                         /\ Score(s, Newest(f[s])) = Score(s, Newest(g[s]))
SameIcs(f, g) ==
  /\ DOMAIN f = DOMAIN g
  /\ \A s \in DOMAIN f : DOMAIN f[s] = DOMAIN g[s] /\ Ic(s, f[s]) = Ic(s, g[s])

\* What forgets the anchor sees the series as of the day.
LEMMA ForgottenAnchors ==
  ASSUME NEW tr, NEW x, \A s \in Universe : x[s] \subseteq Days, NEW day \in Nat, NEW now \in Nat,
         NEW a \in [Universe -> day..now], NEW b, b = [s \in Universe |-> day]
  PROVE  /\ ScoreForgetsAnchor => SameScores(FramesOf(tr, x, day, a), FramesOf(tr, x, day, b))
         /\ IcForgetsAnchor => SameIcs(FramesOf(tr, x, day, a), FramesOf(tr, x, day, b))
<1> DEFINE f == FramesOf(tr, x, day, a)
           g == FramesOf(tr, x, day, b)
           seen == {u \in Universe : tr[u] \cap InWindow(day) # {}}
<1>1. DOMAIN f = seen /\ DOMAIN g = seen
  BY DEF FramesOf
<1>2. ASSUME NEW s \in seen
      PROVE  /\ ScoreForgetsAnchor => /\ DOMAIN Newest(f[s]) = DOMAIN Newest(g[s])
                                      /\ Score(s, Newest(f[s])) = Score(s, Newest(g[s]))
             /\ IcForgetsAnchor => DOMAIN f[s] = DOMAIN g[s] /\ Ic(s, f[s]) = Ic(s, g[s])
  <2>1. s \in Universe /\ s \in Symbols /\ x[s] \in SUBSET Days
    BY StrategyAssumption
  <2>2. a[s] \in Nat /\ day <= a[s] /\ b[s] = day
    BY <2>1
  <2>3. PICK hi \in Nat : hi = a[s] /\ day <= hi
    BY <2>2
  <2> DEFINE w == SeriesOf(tr[s], x[s], day, day)
             later == UpTo(x[s], day, hi)
  <2>4. f[s] = SeriesOf(tr[s], x[s], day, hi) /\ g[s] = w
    BY <2>2, <2>3 DEF FramesOf
  <2> HIDE DEF f, g
  <2>5. PICK rights \in SUBSET Days : rights = x[s]
    BY <2>1
  <2>6. w \in Series /\ later \in SUBSET Days /\ After(later, w) /\ f[s] = Rebased(w, later)
    BY <2>3, <2>4, <2>5, LaterAnchor
  <2> HIDE DEF w, later
  <2>7. /\ Newest(f[s]) = Rebased(Newest(w), later) /\ DOMAIN Newest(f[s]) = DOMAIN Newest(w)
        /\ After(later, Newest(w)) /\ Newest(w) \in Series
    BY <2>6, NewestRebased, NewestIsSeries
  <2>8. ScoreForgetsAnchor => Score(s, Newest(f[s])) = Score(s, Newest(w))
    BY <2>1, <2>6, <2>7 DEF ScoreForgetsAnchor
  <2>9. IcForgetsAnchor => Ic(s, f[s]) = Ic(s, w)
    BY <2>1, <2>6 DEF IcForgetsAnchor
  <2>10. DOMAIN f[s] = DOMAIN w
    BY <2>6 DEF Rebased
  <2> QED BY <2>4, <2>7, <2>8, <2>9, <2>10
<1> HIDE DEF f, g, seen
<1>3. ScoreForgetsAnchor => SameScores(f, g)
  BY <1>1, <1>2 DEF SameScores
<1>4. IcForgetsAnchor => SameIcs(f, g)
  BY <1>1, <1>2 DEF SameIcs
<1> QED BY <1>3, <1>4 DEF f, g

LEMMA SameVerdict ==
  ASSUME NEW f, NEW g, SameIcs(f, g), NEW claim
  PROVE  independent_verify(f, claim) = independent_verify(g, claim)
<1>1. DOMAIN f = DOMAIN g
  BY DEF SameIcs
<1>2. ASSUME NEW signs
      PROVE  Measured(f, signs) = Measured(g, signs)
  BY DEF SameIcs, Measured
<1> QED BY <1>1, <1>2 DEF independent_verify

\* A complete window without a jump is the true series up to its day, on an
\* anchor no earlier than the day.
LEMMA CompleteIsTrue ==
  ASSUME StoreInv, NEW s \in Universe, NEW day \in Nat, day <= today, Complete(s, day)
  PROVE  /\ DOMAIN get_qfq_bars(s, day) = traded[s] \cap InWindow(day)
         /\ DOMAIN get_qfq_bars(s, day) # {} =>
              \E hi \in day..today : get_qfq_bars(s, day) = SeriesOf(traded[s], ex[s], day, hi)
<1> DEFINE D == traded[s] \cap InWindow(day)
           w == get_qfq_bars(s, day)
<1>1. s \in Symbols /\ Lookback \in Nat /\ Days \subseteq Nat
  BY StrategyAssumption DEF Days
<1>2. DOMAIN bars[s] \cap InWindow(day) = D
  BY DEF Complete
<1>3. w = [d \in D |-> bars[s][d]] /\ DOMAIN w = D
  BY <1>2 DEF get_qfq_bars
<1>4. OneBasis(s, w)
  BY <1>2, <1>3 DEF Complete
<1>0. \A d \in D : \E hi \in 0..today : w[d] = UpTo(ex[s], d, hi)
  BY <1>1, <1>2, <1>3 DEF StoreInv, Anchored
<1>5. \A d \in D : w[d] \subseteq {e \in ex[s] : d < e}
  BY <1>0 DEF UpTo
<1>6. ex[s] \subseteq traded[s] /\ ex[s] \subseteq Days /\ D \subseteq Days /\ D \subseteq traded[s]
  BY <1>1, DayTypes DEF StoreInv, StoreTypeOK, InWindow
<1>7. \A d \in D : d <= day /\ day <= d + Lookback
  BY DEF InWindow
<1>8. \A d \in D, e \in ex[s] : d < e /\ e <= day => e \in D
  <2> SUFFICES ASSUME NEW d \in D, NEW e \in ex[s], d < e, e <= day
               PROVE  e \in D
    OBVIOUS
  <2>1. d \in Nat /\ e \in Days /\ e \in Nat /\ e \in traded[s]
    BY <1>1, <1>6
  <2>2. day <= e + Lookback
    BY <1>1, <1>7, <2>1
  <2> QED BY <2>1, <2>2 DEF InWindow
<1>9. \A d, e \in D : d < e => w[d] = {x \in ex[s] : d < x /\ x <= e} \cup w[e]
  BY <1>3, <1>4 DEF OneBasis
<1> HIDE DEF D, w
<1>10. ASSUME NEW basis \in D
       PROVE  \E hi \in day..today : w = SeriesOf(traded[s], ex[s], day, hi)
  <2> DEFINE later == {e \in w[basis] : day < e}
             truth == [d \in D |-> {e \in ex[s] : d < e /\ e <= day}]
  <2>1. later \in SUBSET Days /\ \A e \in later : day < e
    BY <1>5, <1>6
  <2>3. ASSUME NEW d \in D, NEW e \in w[d]
        PROVE  e \in {x \in ex[s] : d < x /\ x <= day} \cup later
    <3>1. e \in ex[s] /\ d < e /\ e \in Nat /\ d \in Nat /\ basis \in Nat
      BY <1>1, <1>5, <1>6
    <3>2. CASE e <= day
      BY <3>1, <3>2
    <3>3. CASE day < e
      <4>1. basis <= day /\ d <= day
        BY <1>7
      <4>2. e \in w[basis]
        <5>1. CASE d = basis
          BY <5>1
        <5>2. CASE d < basis
          <6>1. w[d] = {x \in ex[s] : d < x /\ x <= basis} \cup w[basis]
            BY <1>9, <5>2
          <6>2. ~(e <= basis)
            BY <3>1, <3>3, <4>1
          <6> QED BY <6>1, <6>2
        <5>3. CASE basis < d
          <6>1. w[basis] = {x \in ex[s] : basis < x /\ x <= d} \cup w[d]
            BY <1>9, <5>3
          <6> QED BY <6>1
        <5> QED BY <3>1, <5>1, <5>2, <5>3
      <4> QED BY <3>3, <4>2
    <3> QED BY <3>1, <3>2, <3>3
  <2>4. ASSUME NEW d \in D, NEW e \in later
        PROVE  e \in w[d]
    <3>1. e \in w[basis] /\ day < e /\ e \in Nat /\ d \in Nat /\ basis \in Nat
      BY <1>1, <1>5, <1>6
    <3>2. basis <= day /\ d <= day
      BY <1>7
    <3>3. CASE d = basis
      BY <3>1, <3>3
    <3>4. CASE d < basis
      <4>1. w[d] = {x \in ex[s] : d < x /\ x <= basis} \cup w[basis]
        BY <1>9, <3>4
      <4> QED BY <3>1, <4>1
    <3>5. CASE basis < d
      <4>1. w[basis] = {x \in ex[s] : basis < x /\ x <= d} \cup w[d]
        BY <1>9, <3>5
      <4>2. ~(e <= d)
        BY <3>1, <3>2
      <4> QED BY <3>1, <4>1, <4>2
    <3> QED BY <3>1, <3>3, <3>4, <3>5
  <2>5. ASSUME NEW d \in D, NEW e \in ex[s], d < e, e <= day
        PROVE  e \in w[d]
    <3>1. e \in D
      BY <1>8, <2>5
    <3>2. w[d] = {x \in ex[s] : d < x /\ x <= e} \cup w[e]
      BY <1>9, <2>5, <3>1
    <3>3. e <= e
      <4>1. e \in Nat
        BY <1>1, <1>6
      <4> QED BY <4>1
    <3>4. e \in {x \in ex[s] : d < x /\ x <= e}
      BY <2>5, <3>3, Zenon
    <3> QED BY <3>2, <3>4, Zenon
  <2>6. \A d \in D : w[d] = truth[d] \cup later
    <3> SUFFICES ASSUME NEW d \in D PROVE w[d] = truth[d] \cup later
      OBVIOUS
    <3>1. \A e : e \in truth[d] <=> e \in ex[s] /\ d < e /\ e <= day
      OBVIOUS
    <3>2. \A e \in w[d] : e \in truth[d] \/ e \in later
      BY <2>3, <3>1
    <3>3. \A e \in later : e \in w[d]
      BY <2>4
    <3>4. \A e \in truth[d] : e \in w[d]
      BY <2>5, <3>1
    <3> HIDE DEF truth, later
    <3> QED BY <3>2, <3>3, <3>4
  <2>7. PICK last \in 0..today : w[basis] = UpTo(ex[s], basis, last)
    BY <1>0
  <2> DEFINE hi == IF last <= day THEN day ELSE last
  <2>8. today \in Nat /\ hi \in day..today /\ hi \in Nat
    BY DayTypes DEF StoreInv
  <2>9. \A e : e \in later <=> e \in ex[s] /\ day < e /\ e <= hi
    <3>1. basis \in Nat /\ basis <= day /\ \A e \in ex[s] : e \in Nat
      BY <1>1, <1>6, <1>7
    <3> QED BY <2>7, <2>8, <3>1 DEF UpTo
  <2>10. \A d \in D : w[d] = UpTo(ex[s], d, hi)
    <3> SUFFICES ASSUME NEW d \in D PROVE w[d] = UpTo(ex[s], d, hi)
      OBVIOUS
    <3>1. d \in Nat /\ d <= day /\ day <= hi /\ \A e \in ex[s] : e \in Nat
      <4>1. d \in Nat /\ d <= day /\ \A e \in ex[s] : e \in Nat
        BY <1>1, <1>6, <1>7
      <4> HIDE DEF hi
      <4>2. day <= hi
        BY <2>8
      <4> QED BY <4>1, <4>2
    <3>2. \A e : e \in w[d] <=> e \in ex[s] /\ d < e /\ e <= hi
      <4>1. \A e : e \in w[d] <=> (e \in ex[s] /\ d < e /\ e <= day) \/ e \in later
        BY <2>6
      <4> HIDE DEF later, truth, hi
      <4> QED BY <2>8, <2>9, <3>1, <4>1
    <3> QED BY <3>2 DEF UpTo
  <2>11. w = [d \in D |-> w[d]]
    BY <1>3
  <2> HIDE DEF truth, later, hi
  <2>12. w = SeriesOf(traded[s], ex[s], day, hi)
    BY <2>10, <2>11 DEF SeriesOf, D
  <2> QED BY <2>8, <2>12
<1> QED BY <1>3, <1>10 DEF D, w

LEMMA SameAnswers ==
  ASSUME NEW f, NEW g, SameScores(f, g), NEW q \in Orders(f)
  PROVE  /\ q \in Orders(g)
         /\ generate_signals_for_date(f, q) = generate_signals_for_date(g, q)
<1>1. Scored(f) = Scored(g)
  BY DEF SameScores, Scored
<1>2. q \in [1..Cardinality(Scored(f)) -> Scored(f)]
  BY DEF Orders
<1>3. \A i \in DOMAIN q : q[i] \in DOMAIN f
  BY <1>2 DEF Scored
<1>4. \A i \in DOMAIN q : Score(q[i], Newest(f[q[i]])) = Score(q[i], Newest(g[q[i]]))
  BY <1>3 DEF SameScores
<1>5. q \in Orders(g)
  <2>1. \A i, j \in DOMAIN q : i < j =>
          q[i] # q[j] /\ Score(q[i], Newest(f[q[i]])) >= Score(q[j], Newest(f[q[j]]))
    BY DEF Orders
  <2>2. \A i, j \in DOMAIN q : i < j =>
          q[i] # q[j] /\ Score(q[i], Newest(g[q[i]])) >= Score(q[j], Newest(g[q[j]]))
    BY <1>4, <2>1
  <2> QED BY <1>1, <1>2, <2>2 DEF Orders
<1> DEFINE n == Cardinality(DOMAIN q)
           buys == {q[i] : i \in {x \in DOMAIN q : x <= TopN}}
           sells == {q[i] : i \in {x \in DOMAIN q : n > TopN /\ x > n - TopN}} \ buys
           chosen == buys \cup sells
<1>6. /\ generate_signals_for_date(f, q) =
           [s \in chosen |-> [score |-> Score(s, Newest(f[s])),
                              action |-> IF s \in buys THEN "buy" ELSE "sell"]]
      /\ generate_signals_for_date(g, q) =
           [s \in chosen |-> [score |-> Score(s, Newest(g[s])),
                              action |-> IF s \in buys THEN "buy" ELSE "sell"]]
  BY DEF generate_signals_for_date
<1>7. \A s \in chosen : s \in DOMAIN f
  BY <1>3
<1> HIDE DEF chosen, buys
<1>8. \A s \in chosen : Score(s, Newest(f[s])) = Score(s, Newest(g[s]))
  BY <1>7 DEF SameScores
<1>9. generate_signals_for_date(f, q) = generate_signals_for_date(g, q)
  BY <1>6, <1>8
<1> QED BY <1>5, <1>9

LEMMA SoundInvInit == StrategyInit => SoundInv
BY DEF StrategyInit, SoundInv, SoundFits, NoCalc

\* A day that comes changes nothing of the series up to an earlier day, on any
\* anchor there was.
LEMMA HistoryStays ==
  ASSUME StoreInv, [StoreNext]_storeVars, NEW day \in Nat, day <= today
  PROVE  /\ today' \in Nat /\ today \in Nat /\ today <= today'
         /\ \A s \in Universe :
              /\ traded'[s] \cap InWindow(day) = traded[s] \cap InWindow(day)
              /\ \A hi \in day..today : SeriesOf(traded'[s], ex'[s], day, hi) =
                                        SeriesOf(traded[s], ex[s], day, hi)
<1>1. today \in Nat
  BY DayTypes DEF StoreInv
<1>2. CASE NewDay
  <2>1. today' = today + 1
        /\ \A s \in Symbols : /\ traded'[s] \in {traded[s], traded[s] \cup {today'}}
                              /\ ex'[s] \in {ex[s], ex[s] \cup {today'}}
    BY <1>2, NewDayAdds DEF StoreInv
  <2>2. ASSUME NEW s \in Universe
        PROVE  /\ traded'[s] \cap InWindow(day) = traded[s] \cap InWindow(day)
               /\ \A hi \in day..today : SeriesOf(traded'[s], ex'[s], day, hi) =
                                         SeriesOf(traded[s], ex[s], day, hi)
    <3>1. s \in Symbols /\ today' \notin InWindow(day)
      BY <1>1, <2>1, StrategyAssumption DEF InWindow, Days
    <3>2. traded'[s] \cap InWindow(day) = traded[s] \cap InWindow(day)
      BY <2>1, <3>1
    <3>3. \A hi \in day..today : \A d : UpTo(ex'[s], d, hi) = UpTo(ex[s], d, hi)
      <4>1. ex'[s] = ex[s] \/ ex'[s] = ex[s] \cup {today'}
        BY <2>1, <3>1
      <4>2. \A hi \in day..today : ~(today' <= hi)
        BY <1>1, <2>1
      <4> QED BY <4>1, <4>2 DEF UpTo
    <3> QED BY <3>2, <3>3 DEF SeriesOf
  <2>3. today' \in Nat /\ today <= today'
    BY <1>1, <2>1
  <2> QED BY <1>1, <2>2, <2>3, Zenon
<1>3. CASE UNCHANGED <<today, traded, ex>>
  <2>1. today' = today /\ traded' = traded /\ ex' = ex
    BY <1>3
  <2>2. today' \in Nat /\ today <= today'
    BY <1>1, <2>1
  <2>3. ASSUME NEW s \in Universe
        PROVE  /\ traded'[s] \cap InWindow(day) = traded[s] \cap InWindow(day)
               /\ \A hi \in day..today : SeriesOf(traded'[s], ex'[s], day, hi) =
                                         SeriesOf(traded[s], ex[s], day, hi)
    <3>1. traded'[s] = traded[s] /\ ex'[s] = ex[s]
      BY <2>1
    <3> QED BY <3>1
  <2> QED BY <1>1, <2>2, <2>3
<1> QED BY <1>2, <1>3 DEF StoreNext, Upsert, storeVars

\* What fitted the history fits it for ever.
LEMMA FitsStay ==
  ASSUME StoreInv, [StoreNext]_storeVars, NEW j, j.day \in Nat, j.frames \in Frames, j.day <= today,
         NEW tr, NEW x, NEW now, tr = traded', x = ex', now = today'
  PROVE  /\ FramesMatch(j.frames, traded, ex, j.todo, j.day, today) =>
              FramesMatch(j.frames, tr, x, j.todo, j.day, now)
         /\ VerdictFits(j, traded, ex, today) => VerdictFits(j, tr, x, now)
         /\ RowsFit(j, traded, ex, today) => RowsFit(j, tr, x, now)
<1>1. PICK day \in Nat : day = j.day /\ day <= today
  OBVIOUS
<1>2. /\ now \in Nat /\ today \in Nat /\ today <= now
      /\ \A s \in Universe :
           /\ tr[s] \cap InWindow(day) = traded[s] \cap InWindow(day)
           /\ \A hi \in day..today : SeriesOf(tr[s], x[s], day, hi) = SeriesOf(traded[s], ex[s], day, hi)
  BY <1>1, HistoryStays
<1>3. day..today \subseteq day..now
  BY <1>1, <1>2
<1>4. DOMAIN j.frames \in SUBSET Universe
  BY FramesTypes
<1>5. FramesMatch(j.frames, traded, ex, j.todo, day, today) => FramesMatch(j.frames, tr, x, j.todo, day, now)
  BY <1>2, <1>3, <1>4 DEF FramesMatch
<1>6. ASSUME NEW forgotten, NEW a \in AnchorsUpTo(forgotten, day, today)
      PROVE  a \in AnchorsUpTo(forgotten, day, now) /\ FramesOf(tr, x, day, a) = FramesOf(traded, ex, day, a)
  <2>1. a \in [Universe -> day..today]
    <3>1. day \in day..today
      BY <1>1, <1>2
    <3> QED BY <3>1 DEF AnchorsUpTo
  <2>2. a \in AnchorsUpTo(forgotten, day, now)
    BY <1>3, <1>6, <2>1 DEF AnchorsUpTo
  <2>3. {u \in Universe : tr[u] \cap InWindow(day) # {}} = {u \in Universe : traded[u] \cap InWindow(day) # {}}
    BY <1>2
  <2>4. \A s \in Universe : SeriesOf(tr[s], x[s], day, a[s]) = SeriesOf(traded[s], ex[s], day, a[s])
    BY <1>2, <2>1
  <2>5. FramesOf(tr, x, day, a) = FramesOf(traded, ex, day, a)
    BY <2>3, <2>4 DEF FramesOf
  <2> QED BY <2>2, <2>5
<1>7. VerdictFits(j, traded, ex, today) => VerdictFits(j, tr, x, now)
  BY <1>1, <1>6 DEF VerdictFits
<1>8. RowsFit(j, traded, ex, today) => RowsFit(j, tr, x, now)
  <2> SUFFICES ASSUME RowsFit(j, traded, ex, today) PROVE RowsFit(j, tr, x, now)
    OBVIOUS
  <2>1. PICK a \in AnchorsUpTo(ScoreForgetsAnchor, j.day, today) :
          \E q \in Orders(FramesOf(traded, ex, j.day, a)) :
            j.rows = generate_signals_for_date(FramesOf(traded, ex, j.day, a), q)
    BY DEF RowsFit
  <2>2. /\ a \in AnchorsUpTo(ScoreForgetsAnchor, j.day, now)
        /\ FramesOf(tr, x, j.day, a) = FramesOf(traded, ex, j.day, a)
    BY <1>1, <1>6, <2>1
  <2> QED BY <2>1, <2>2 DEF RowsFit
<1> QED BY <1>1, <1>5, <1>7, <1>8

\* While no request of a strategy takes a step.
LEMMA SoundStays ==
  ASSUME StoreInv, CalcInv, SoundInv, [StoreNext]_storeVars, NEW c \in Callers, calc'[c] = calc[c]
  PROVE  SoundFits(calc'[c], traded', ex', today')
<1>1. PICK k \in CalcType : k = calc[c]
  BY DEF CalcInv
<1>2. SoundFits(k, traded, ex, today)
  BY <1>1 DEF SoundInv
<1>3. CASE k.sound /\ k.pc \in {"read", "import", "lookup"}
  <2>1. k.day \in Nat /\ k.frames \in Frames /\ k.day <= today
    BY <1>2, <1>3 DEF SoundFits, CalcType
  <2>2. today \in Nat /\ today' \in Nat /\ today <= today'
    BY <2>1, HistoryStays
  <2>3. k.day <= today'
    BY <2>1, <2>2
  <2>4. /\ FramesMatch(k.frames, traded, ex, k.todo, k.day, today) =>
             FramesMatch(k.frames, traded', ex', k.todo, k.day, today')
        /\ VerdictFits(k, traded, ex, today) => VerdictFits(k, traded', ex', today')
        /\ RowsFit(k, traded, ex, today) => RowsFit(k, traded', ex', today')
    BY <2>1, FitsStay
  <2>5. SoundFits(k, traded', ex', today')
    BY <1>2, <2>3, <2>4 DEF SoundFits
  <2> QED BY <1>1, <2>5
<1>4. CASE ~(k.sound /\ k.pc \in {"read", "import", "lookup"})
  <2>1. SoundFits(k, traded', ex', today')
    BY <1>4 DEF SoundFits
  <2> QED BY <1>1, <2>1
<1> QED BY <1>3, <1>4

\* What a step of one request must show.
LEMMA SoundLocal ==
  ASSUME StoreInv, CalcInv, SoundInv, NEW c \in Callers, UNCHANGED storeVars,
         SoundFits(calc'[c], traded, ex, today),
         \A x \in Callers \ {c} : calc'[x] = calc[x]
  PROVE  SoundInv'
<1>1. ASSUME NEW x \in Callers
      PROVE  SoundFits(calc'[x], traded', ex', today')
  <2>1. CASE x = c
    BY <2>1 DEF storeVars
  <2>2. CASE x # c
    BY <2>2, SoundStays
  <2> QED BY <2>1, <2>2
<1> QED BY <1>1 DEF SoundInv

LEMMA StartSound ==
  ASSUME StoreInv, CalcInv, CalcInv', SoundInv, NEW c \in Callers, UNCHANGED storeVars,
         (\E day \in Dates : StartSignals(c, day)) \/ (\E claim \in Claims : StartUpload(c, claim))
  PROVE  SoundInv'
<1>1. today \in Nat
  BY DayTypes DEF StoreInv
<1>2. /\ calc'[c].pc = "read" /\ calc'[c].todo = Universe /\ calc'[c].frames = Empty
      /\ calc'[c].sound => calc'[c].day <= today
      /\ \A x \in Callers \ {c} : calc'[x] = calc[x]
  <2>1. CASE \E day \in Dates : StartSignals(c, day)
    <3>1. PICK day \in Dates : StartSignals(c, day)
      BY <2>1
    <3> DEFINE sound == day <= today
               j == [NoCalc EXCEPT !.pc = "read", !.kind = "signals", !.day = day,
                                   !.todo = Universe, !.sound = sound]
    <3>2. calc' = [calc EXCEPT ![c] = j]
      BY <3>1 DEF StartSignals
    <3>3. sound => day <= today
      OBVIOUS
    <3> HIDE DEF sound
    <3>4. j.pc = "read" /\ j.todo = Universe /\ j.frames = Empty /\ j.day = day /\ j.sound = sound
      BY DEF NoCalc
    <3> HIDE DEF j
    <3> QED BY <3>2, <3>3, <3>4 DEF CalcInv
  <2>2. CASE \E claim \in Claims : StartUpload(c, claim)
    <3>1. PICK claim \in Claims : StartUpload(c, claim)
      BY <2>2
    <3> DEFINE j == [NoCalc EXCEPT !.pc = "read", !.kind = "upload", !.claim = claim,
                                   !.day = today, !.todo = Universe, !.sound = TRUE]
    <3>2. calc' = [calc EXCEPT ![c] = j]
      BY <3>1 DEF StartUpload
    <3>3. j.pc = "read" /\ j.todo = Universe /\ j.frames = Empty /\ j.day = today
      BY DEF NoCalc
    <3>4. today <= today
      BY <1>1
    <3> HIDE DEF j
    <3> QED BY <3>2, <3>3, <3>4 DEF CalcInv
  <2> QED BY <2>1, <2>2
<1>3. SoundFits(calc'[c], traded, ex, today)
  BY <1>2, EmptyTypes DEF SoundFits, FramesMatch
<1> QED BY <1>2, <1>3, SoundLocal

LEMMA OverSound ==
  ASSUME StoreInv, CalcInv, SoundInv, NEW c \in Callers, UNCHANGED storeVars,
         calc' = [calc EXCEPT ![c] = Over]
  PROVE  SoundInv'
<1>1. calc'[c] = Over /\ \A x \in Callers \ {c} : calc'[x] = calc[x]
  BY DEF CalcInv
<1>2. SoundFits(calc'[c], traded, ex, today)
  BY <1>1 DEF SoundFits, Over, NoCalc
<1> QED BY <1>1, <1>2, SoundLocal

LEMMA ReadFrameSound ==
  ASSUME StoreInv, CalcInv, SoundInv, NEW c \in Callers, NEW s \in Universe, ReadFrame(c, s),
         UNCHANGED storeVars
  PROVE  SoundInv'
<1>1. PICK k \in CalcType : k = calc[c]
  BY DEF CalcInv
<1> DEFINE frame == get_qfq_bars(s, k.day)
           grown == [t \in DOMAIN k.frames \cup {s} |-> IF t = s THEN frame ELSE k.frames[t]]
           frames == IF DOMAIN frame = {} THEN k.frames ELSE grown
           sound == k.sound /\ Complete(s, k.day)
           j == [k EXCEPT !.todo = k.todo \ {s}, !.sound = sound, !.frames = frames]
<1>2. calc' = [calc EXCEPT ![c] = j] /\ k.pc = "read" /\ s \in k.todo
  BY <1>1 DEF ReadFrame
<1>3. SoundFits(k, traded, ex, today)
  BY <1>1 DEF SoundInv
<1>4. ASSUME sound
      PROVE  FramesMatch(frames, traded, ex, k.todo \ {s}, k.day, today)
  <2>1. FramesMatch(k.frames, traded, ex, k.todo, k.day, today) /\ k.day <= today
    BY <1>2, <1>3, <1>4 DEF SoundFits
  <2>2. k.day \in Nat
    BY DEF CalcType
  <2>3. /\ DOMAIN frame = traded[s] \cap InWindow(k.day)
        /\ DOMAIN frame # {} =>
             \E hi \in k.day..today : frame = SeriesOf(traded[s], ex[s], k.day, hi)
    BY <1>4, <2>1, <2>2, CompleteIsTrue
  <2> HIDE DEF frame
  <2>4. CASE DOMAIN frame = {}
    <3>1. frames = k.frames
      BY <2>4
    <3> QED BY <1>2, <2>1, <2>3, <2>4, <3>1 DEF FramesMatch
  <2>5. CASE DOMAIN frame # {}
    <3>1. frames = grown
      BY <2>5
    <3>2. DOMAIN grown = DOMAIN k.frames \cup {s} /\ grown[s] = frame
          /\ \A t \in DOMAIN k.frames \ {s} : grown[t] = k.frames[t]
      OBVIOUS
    <3> HIDE DEF grown, frames
    <3>3. DOMAIN frames \cap (k.todo \ {s}) = {}
      BY <2>1, <3>1, <3>2 DEF FramesMatch
    <3>4. \A t \in Universe \ (k.todo \ {s}) :
            t \in DOMAIN frames <=> traded[t] \cap InWindow(k.day) # {}
      BY <2>1, <2>3, <2>5, <3>1, <3>2 DEF FramesMatch
    <3>5. ASSUME NEW t \in DOMAIN frames
          PROVE  \E hi \in k.day..today : frames[t] = SeriesOf(traded[t], ex[t], k.day, hi)
      <4>1. CASE t = s
        BY <2>3, <2>5, <3>1, <3>2, <4>1
      <4>2. CASE t # s
        BY <2>1, <3>1, <3>2, <4>2 DEF FramesMatch
      <4> QED BY <4>1, <4>2
    <3> QED BY <3>3, <3>4, <3>5 DEF FramesMatch
  <2> QED BY <2>4, <2>5
<1>5. sound => k.sound
  OBVIOUS
<1> HIDE DEF sound, frames
<1>6. /\ j.pc = "read" /\ j.day = k.day /\ j.sound = sound /\ j.frames = frames
      /\ j.todo = k.todo \ {s}
  BY <1>2 DEF CalcType
<1> HIDE DEF j
<1>7. SoundFits(j, traded, ex, today)
  BY <1>2, <1>3, <1>4, <1>5, <1>6 DEF SoundFits
<1>8. calc'[c] = j /\ \A x \in Callers \ {c} : calc'[x] = calc[x]
  BY <1>2 DEF CalcInv
<1> QED BY <1>6, <1>7, <1>8, SoundLocal

\* When all symbols are read, the frames are the true ones, each on an anchor
\* of its own.
LEMMA ReadFramesAreTrue ==
  ASSUME StoreInv, CalcInv, SoundInv, NEW k \in CalcType, NEW c \in Callers, k = calc[c],
         k.sound, k.pc = "read", k.todo = {}
  PROVE  /\ k.day \in Nat /\ k.day <= today /\ today \in Nat
         /\ \E a \in [Universe -> k.day..today] : k.frames = FramesOf(traded, ex, k.day, a)
<1>1. k.frames \in Frames /\ k.day \in Nat /\ today \in Nat
  BY DayTypes DEF CalcType, StoreInv
<1>2. SoundFits(k, traded, ex, today)
  BY DEF SoundInv
<1>3. FramesMatch(k.frames, traded, ex, {}, k.day, today) /\ k.day <= today
  BY <1>2 DEF SoundFits
<1> DEFINE f == k.frames
           day == k.day
           fits(s, hi) == f[s] = SeriesOf(traded[s], ex[s], day, hi)
           a == [s \in Universe |-> IF s \in DOMAIN f THEN CHOOSE hi \in day..today : fits(s, hi)
                                                      ELSE day]
<1>4. DOMAIN f \in SUBSET Universe
  BY <1>1, FramesTypes
<1>5. DOMAIN f = {u \in Universe : traded[u] \cap InWindow(day) # {}}
  BY <1>3, <1>4 DEF FramesMatch
<1>6. \A s \in DOMAIN f : a[s] \in day..today /\ fits(s, a[s])
  <2>1. \A s \in DOMAIN f : \E hi \in day..today : fits(s, hi)
    BY <1>3 DEF FramesMatch
  <2> HIDE DEF fits, f
  <2> QED BY <1>4, <2>1 DEF f
<1>7. a \in [Universe -> day..today]
  <2>1. day \in day..today
    BY <1>1, <1>3
  <2>2. \A s \in Universe : a[s] \in day..today
    BY <1>6, <2>1
  <2> QED BY <2>2
<1>8. f = [s \in DOMAIN f |-> f[s]]
  BY <1>1, FramesTypes
<1> HIDE DEF a, f
<1>9. f = FramesOf(traded, ex, day, a)
  BY <1>5, <1>6, <1>8 DEF FramesOf
<1> QED BY <1>1, <1>3, <1>7, <1>9 DEF f

\* The same answer on the anchors the property names.
LEMMA AnchoredAnswers ==
  ASSUME StoreInv, NEW day \in Nat, day <= today, today \in Nat, NEW a \in [Universe -> day..today],
         NEW f, f = FramesOf(traded, ex, day, a)
  PROVE  /\ \A claim : \E b \in AnchorsUpTo(IcForgetsAnchor, day, today) :
              independent_verify(f, claim) = independent_verify(FramesOf(traded, ex, day, b), claim)
         /\ \A q \in Orders(f) : \E b \in AnchorsUpTo(ScoreForgetsAnchor, day, today) :
              LET g == FramesOf(traded, ex, day, b)
              IN  q \in Orders(g) /\ generate_signals_for_date(f, q) = generate_signals_for_date(g, q)
<1>1. \A s \in Universe : ex[s] \subseteq Days
  BY DayTypes, StrategyAssumption DEF StoreInv
<1>2. PICK b : b = [s \in Universe |-> day]
  OBVIOUS
<1>3. PICK g : g = FramesOf(traded, ex, day, b)
  OBVIOUS
<1>4. /\ ScoreForgetsAnchor => SameScores(f, g)
      /\ IcForgetsAnchor => SameIcs(f, g)
  BY <1>1, <1>2, <1>3, ForgottenAnchors
<1>5. \A forgotten : AnchorsUpTo(forgotten, day, today) = IF forgotten THEN {b} ELSE [Universe -> day..today]
  BY <1>2 DEF AnchorsUpTo
<1>6. ASSUME NEW claim
      PROVE  \E e \in AnchorsUpTo(IcForgetsAnchor, day, today) :
               independent_verify(f, claim) = independent_verify(FramesOf(traded, ex, day, e), claim)
  <2>1. CASE IcForgetsAnchor
    BY <1>3, <1>4, <1>5, <2>1, SameVerdict
  <2>2. CASE ~IcForgetsAnchor
    BY <1>5, <2>2
  <2> QED BY <2>1, <2>2
<1>7. ASSUME NEW q \in Orders(f)
      PROVE  \E e \in AnchorsUpTo(ScoreForgetsAnchor, day, today) :
               LET h == FramesOf(traded, ex, day, e)
               IN  q \in Orders(h) /\ generate_signals_for_date(f, q) = generate_signals_for_date(h, q)
  <2>1. CASE ScoreForgetsAnchor
    <3>1. q \in Orders(g) /\ generate_signals_for_date(f, q) = generate_signals_for_date(g, q)
      BY <1>4, <2>1, SameAnswers
    <3> QED BY <1>3, <1>5, <2>1, <3>1
  <2>2. CASE ~ScoreForgetsAnchor
    BY <1>5, <2>2
  <2> QED BY <2>1, <2>2
<1> QED BY <1>6, <1>7

LEMMA VerifySound ==
  ASSUME StoreInv, CalcInv, SoundInv, NEW c \in Callers, Verify(c), UNCHANGED storeVars
  PROVE  SoundInv'
<1>1. PICK k \in CalcType : k = calc[c]
  BY DEF CalcInv
<1> DEFINE verdict == independent_verify(k.frames, k.claim)
           j == [k EXCEPT !.pc = "import", !.verdict = verdict]
<1>2. calc' = [calc EXCEPT ![c].pc = "import", ![c].verdict = verdict]
      /\ k.pc = "read" /\ k.todo = {}
  BY <1>1 DEF Verify
<1>3. calc' = [calc EXCEPT ![c] = j]
  BY <1>1, <1>2, Zenon DEF CalcInv
<1>4. ASSUME k.sound
      PROVE  /\ k.day <= today
             /\ \E a \in AnchorsUpTo(IcForgetsAnchor, k.day, today) :
                  verdict = independent_verify(FramesOf(traded, ex, k.day, a), k.claim)
  <2>1. /\ k.day \in Nat /\ k.day <= today /\ today \in Nat
        /\ \E a \in [Universe -> k.day..today] : k.frames = FramesOf(traded, ex, k.day, a)
    BY <1>1, <1>2, <1>4, ReadFramesAreTrue
  <2> QED BY <2>1, AnchoredAnswers
<1> HIDE DEF verdict
<1>5. /\ j.pc = "import" /\ j.day = k.day /\ j.sound = k.sound /\ j.verdict = verdict
      /\ j.claim = k.claim
  BY DEF CalcType
<1> HIDE DEF j
<1>6. SoundFits(j, traded, ex, today)
  BY <1>4, <1>5 DEF SoundFits, VerdictFits
<1>7. calc'[c] = j /\ \A x \in Callers \ {c} : calc'[x] = calc[x]
  BY <1>3 DEF CalcInv
<1> QED BY <1>5, <1>6, <1>7, SoundLocal

LEMMA RankSound ==
  ASSUME StoreInv, CalcInv, SoundInv, NEW c \in Callers, Rank(c), UNCHANGED storeVars
  PROVE  SoundInv'
<1>1. PICK k \in CalcType : k = calc[c]
  BY DEF CalcInv
<1>2. k.pc = "read" /\ k.todo = {}
  BY <1>1 DEF Rank
<1>3. PICK q \in Orders(k.frames) :
        calc' = [calc EXCEPT ![c].pc = "lookup",
                             ![c].rows = generate_signals_for_date(k.frames, q),
                             ![c].todo = DOMAIN generate_signals_for_date(k.frames, q)]
  BY <1>1 DEF Rank
<1> DEFINE rows == generate_signals_for_date(k.frames, q)
           j == [k EXCEPT !.pc = "lookup", !.rows = rows, !.todo = DOMAIN rows]
<1>4. calc' = [calc EXCEPT ![c] = j]
  BY <1>1, <1>3, Zenon DEF CalcInv
<1>5. ASSUME k.sound
      PROVE  /\ k.day <= today
             /\ \E a \in AnchorsUpTo(ScoreForgetsAnchor, k.day, today) :
                  \E o \in Orders(FramesOf(traded, ex, k.day, a)) :
                    rows = generate_signals_for_date(FramesOf(traded, ex, k.day, a), o)
  <2>1. /\ k.day \in Nat /\ k.day <= today /\ today \in Nat
        /\ \E a \in [Universe -> k.day..today] : k.frames = FramesOf(traded, ex, k.day, a)
    BY <1>1, <1>2, <1>5, ReadFramesAreTrue
  <2>2. \E a \in AnchorsUpTo(ScoreForgetsAnchor, k.day, today) :
          /\ q \in Orders(FramesOf(traded, ex, k.day, a))
          /\ rows = generate_signals_for_date(FramesOf(traded, ex, k.day, a), q)
    BY <2>1, AnchoredAnswers
  <2> QED BY <2>1, <2>2
<1> HIDE DEF rows
<1>6. /\ j.pc = "lookup" /\ j.day = k.day /\ j.sound = k.sound /\ j.rows = rows
  BY DEF CalcType
<1> HIDE DEF j
<1>7. SoundFits(j, traded, ex, today)
  BY <1>5, <1>6 DEF SoundFits, RowsFit
<1>8. calc'[c] = j /\ \A x \in Callers \ {c} : calc'[x] = calc[x]
  BY <1>4 DEF CalcInv
<1> QED BY <1>6, <1>7, <1>8, SoundLocal

LEMMA LookupSound ==
  ASSUME StoreInv, CalcInv, SoundInv, NEW c \in Callers, NEW s \in Universe, Lookup(c, s),
         UNCHANGED storeVars
  PROVE  SoundInv'
<1>1. PICK k \in CalcType : k = calc[c]
  BY DEF CalcInv
<1> DEFINE found == DOMAIN signals[k.day] \cap {s}
           loaded == [t \in DOMAIN k.loaded \cup found |->
                        IF t = s THEN signals[k.day][s] ELSE k.loaded[t]]
           j == [k EXCEPT !.todo = k.todo \ {s}, !.loaded = loaded]
<1>2. calc' = [calc EXCEPT ![c].todo = k.todo \ {s}, ![c].loaded = loaded]
      /\ k.pc = "lookup"
  BY <1>1 DEF Lookup
<1>3. calc' = [calc EXCEPT ![c] = j]
  BY <1>1, <1>2, Zenon DEF CalcInv
<1> HIDE DEF loaded
<1>4. /\ j.pc = k.pc /\ j.day = k.day /\ j.sound = k.sound /\ j.rows = k.rows
  BY DEF CalcType
<1> HIDE DEF j
<1>5. SoundFits(k, traded, ex, today)
  BY <1>1 DEF SoundInv
<1>6. SoundFits(j, traded, ex, today)
  BY <1>2, <1>4, <1>5 DEF SoundFits, RowsFit
<1>7. calc'[c] = j /\ \A x \in Callers \ {c} : calc'[x] = calc[x]
  BY <1>3 DEF CalcInv
<1> QED BY <1>4, <1>6, <1>7, SoundLocal

LEMMA SoundInvNext == StoreInv /\ CalcInv /\ SoundInv /\ [Next]_vars => SoundInv'
<1> SUFFICES ASSUME StoreInv, CalcInv, SoundInv, [Next]_vars PROVE SoundInv'
  OBVIOUS
<1>0. CalcInv' /\ [StoreNext]_storeVars
  BY CalcInvNext, StoreInvStep
<1>1. CASE UNCHANGED strategyVars
  <2>1. ASSUME NEW c \in Callers
        PROVE  SoundFits(calc'[c], traded', ex', today')
    <3>1. calc'[c] = calc[c]
      BY <1>1 DEF strategyVars
    <3> QED BY <1>0, <3>1, SoundStays
  <2> QED BY <2>1 DEF SoundInv
<1>2. ASSUME NEW c \in Callers, StrategyStep(c)
      PROVE  SoundInv'
  <2>1. UNCHANGED storeVars
    BY <1>2, RequestsReadOnly
  <2>2. CASE Commit(c) \/ Import(c) \/ AbandonCalc(c)
    <3>1. calc' = [calc EXCEPT ![c] = Over]
      BY <2>2 DEF Commit, Import, AbandonCalc
    <3> QED BY <2>1, <3>1, OverSound
  <2>3. CASE ~(Commit(c) \/ Import(c) \/ AbandonCalc(c))
    BY <1>0, <1>2, <2>1, <2>3, StartSound, ReadFrameSound, VerifySound, RankSound, LookupSound
       DEF StrategyStep, CalcStep
  <2> QED BY <2>2, <2>3
<1>3. CASE Table \/ UNCHANGED vars
  BY <1>1, <1>3 DEF Table, vars, readerVars
<1>4. ASSUME NEW c \in Exporters, ExportStep(c)
      PROVE  SoundInv'
  BY <1>1, <1>4, RequestsReadOnly
<1> QED BY <1>2, <1>3, <1>4 DEF Next

\* Whatever is committed between the reads of two symbols, and however far
\* the table has come since the day: signals and verdicts that were computed
\* from complete windows without a jump are those of the true series up to
\* the day, each on one anchor; on the day itself when the expression, any
\* that can be evaluated, does not see the anchor.
THEOREM AnswersCorrect == Spec => []AnswersAreTrue
<1>1. Init => StoreInv /\ CalcInv /\ SoundInv
  BY StoreInvInit, CalcInvInit, SoundInvInit DEF Init
<1>2. StoreInv /\ CalcInv /\ SoundInv /\ [Next]_vars => (StoreInv /\ CalcInv /\ SoundInv)'
  BY StoreInvStep, CalcInvNext, SoundInvNext
<1>3. SoundInv => AnswersAreTrue
  BY TruthIs DEF SoundInv, SoundFits, VerdictFits, RowsFit, AnswersAreTrue
<1> QED BY <1>1, <1>2, <1>3, PTL DEF Spec

\* The types of the table, of the directory and of the strategy's rows.
THEOREM TypeCorrect == Spec => []TypeOK
<1>1. Init => StoreInv /\ DumpInv /\ CalcInv
  BY StoreInvInit, DumpInvInit, CalcInvInit DEF Init
<1>2. StoreInv /\ DumpInv /\ CalcInv /\ [Next]_vars => (StoreInv /\ DumpInv /\ CalcInv)'
  BY StoreInvStep, DumpInvNext, CalcInvNext
<1>3. StoreInv /\ DumpInv /\ CalcInv => TypeOK
  <2> SUFFICES ASSUME StoreInv, DumpInv, CalcInv PROVE TypeOK
    OBVIOUS
  <2>1. ASSUME NEW c \in Exporters
        PROVE  /\ dump[c].cal \subseteq 1..today /\ dump[c].todo \subseteq Symbols
               /\ dump[c].rows \in Series /\ dump[c].fields \subseteq Fields
    <3>1. dump[c] \in DumpType /\ LocalsFit(c)
      BY DEF DumpInv
    <3>2. dump[c].cal \subseteq 1..today
      BY <3>1 DEF LocalsFit, DumpInv
    <3> QED BY <3>1, <3>2 DEF DumpType
  <2>2. files.cal \subseteq 1..today
    BY DEF DumpInv, FilesFit
  <2>3. ASSUME NEW s \in Symbols, NEW f \in Fields, NEW k \in DOMAIN files.bins[s][f].slots,
               NEW v \in files.bins[s][f].slots[k]
        PROVE  v \in [day : 1..today, factor : SUBSET Days]
    <3>1. files.bins[s][f] \in BinType
      BY DEF DumpInv, FilesFit
    <3>2. PICK n \in Int : files.bins[s][f].slots \in [0..n -> SUBSET SlotRow]
      BY <3>1 DEF BinType
    <3>3. v \in SlotRow
      BY <3>2
    <3>4. PICK cal \in calendars : CutOn(cal, files.bins[s][f])
      BY DEF DumpInv, FilesFit
    <3>5. v.day \in 1..today
      BY <3>4 DEF CutOn, DumpInv
    <3> QED BY <3>3, <3>5 DEF SlotRow
  <2>4. \A d \in Days : DOMAIN signals[d] \subseteq Universe
    BY RowsTypes DEF CalcInv
  <2>5. ASSUME NEW c \in Callers, NEW s \in DOMAIN calc[c].frames
        PROVE  calc[c].frames[s] \in Series
    <3>1. calc[c].frames \in Frames
      BY DEF CalcInv, CalcType
    <3> QED BY <3>1, FramesTypes
  <2>6. StoreTypeOK /\ contested \in [Exporters -> BOOLEAN] /\ sealed \in BOOLEAN
        /\ strategy \in {"none", "skipped", "verified"}
    BY DEF StoreInv, DumpInv, CalcInv
  <2> QED BY <2>1, <2>2, <2>3, <2>4, <2>5, <2>6 DEF TypeOK
<1> QED BY <1>1, <1>2, <1>3, PTL DEF Spec

(***************************************************************************)
(* The directory of an undisturbed export shows what it has taken.         *)
(***************************************************************************)

\* A finite set has an element that comes first in a strict order.
LEMMA Extreme ==
  ASSUME NEW S, IsFiniteSet(S), S # {}, NEW Before \in SUBSET (S \X S),
         \A x \in S : <<x, x>> \notin Before,
         \A x, y, z \in S : <<x, y>> \in Before /\ <<y, z>> \in Before => <<x, z>> \in Before
  PROVE  \E d \in S : \A x \in S : <<x, d>> \notin Before
<1> DEFINE Ahead(d) == {x \in S : <<x, d>> \in Before}
           T == {Ahead(d) : d \in S}
<1>1. T \subseteq FiniteSubsetsOf(S)
  <2>1. \A d \in S : IsFiniteSet(Ahead(d)) /\ Ahead(d) \subseteq S
    BY FS_Subset
  <2> HIDE DEF Ahead
  <2> QED BY <2>1 DEF FiniteSubsetsOf
<1>2. T # {}
  <2> HIDE DEF Ahead
  <2> QED OBVIOUS
<1>3. IsWellFoundedOn(StrictSubsetOrdering(S), FiniteSubsetsOf(S))
  BY FS_StrictSubsetOrderingWellFounded
<1> HIDE DEF T
<1>4. PICK X \in T : \A Y \in T : ~(<<Y, X>> \in StrictSubsetOrdering(S))
  BY <1>1, <1>2, <1>3, WFMin, Zenon
<1>5. PICK d \in S : X = Ahead(d)
  BY DEF T
<1>6. ASSUME NEW x \in S, <<x, d>> \in Before
      PROVE  FALSE
  <2>1. Ahead(x) \in T
    BY DEF T
  <2>2. x \in Ahead(d) /\ x \notin Ahead(x) /\ Ahead(x) \subseteq Ahead(d)
    BY <1>6
  <2>3. Ahead(x) \in SUBSET S /\ Ahead(d) \in SUBSET S
    OBVIOUS
  <2>4. <<Ahead(x), X>> \in StrictSubsetOrdering(S)
    <3> HIDE DEF Ahead
    <3> QED BY <1>5, <2>2, <2>3 DEF StrictSubsetOrdering
  <2> QED BY <1>4, <2>1, <2>4
<1> QED BY <1>6

\* The span of a frame that is not empty.
LEMMA SpanTypes ==
  ASSUME NEW rows \in Series, rows # Empty
  PROVE  /\ Span(rows).first \in DOMAIN rows /\ Span(rows).last \in DOMAIN rows
         /\ \A d \in DOMAIN rows : Span(rows).first <= d /\ d <= Span(rows).last
<1> DEFINE S == DOMAIN rows
<1>1. S \in SUBSET Days /\ rows \in [S -> SUBSET Days]
  BY SeriesTypes
<1>2. S # {}
  <2> SUFFICES ASSUME S = {} PROVE rows = Empty
    OBVIOUS
  <2> QED BY <1>1 DEF Empty
<1>3. IsFiniteSet(S) /\ S \subseteq Nat
  <2>1. MaxDay \in Nat
    BY RangesAssumption
  <2> QED BY <1>1, <2>1, CalendarsFinite DEF Days
<1> HIDE DEF S
<1>4. PICK f \in S : \A x \in S : f <= x
  <2> DEFINE B == {p \in S \X S : p[1] < p[2]}
  <2>1. \A x, y \in S : <<x, y>> \in B <=> x < y
    OBVIOUS
  <2>2. B \in SUBSET (S \X S)
    OBVIOUS
  <2> HIDE DEF B
  <2>3. \A x \in S : <<x, x>> \notin B
    BY <1>3, <2>1
  <2>4. \A x, y, z \in S : <<x, y>> \in B /\ <<y, z>> \in B => <<x, z>> \in B
    BY <1>3, <2>1
  <2>5. PICK d \in S : \A x \in S : <<x, d>> \notin B
    BY <1>2, <1>3, <2>2, <2>3, <2>4, Extreme
  <2>6. ASSUME NEW x \in S
        PROVE  d <= x
    <3>1. x \in Nat /\ d \in Nat
      BY <1>3
    <3>2. <<x, d>> \notin B
      BY <2>5
    <3>3. ~(x < d)
      BY <2>1, <3>2
    <3> QED BY <3>1, <3>3
  <2> QED BY <2>6
<1>5. PICK l \in S : \A x \in S : x <= l
  <2> DEFINE B == {p \in S \X S : p[1] > p[2]}
  <2>1. \A x, y \in S : <<x, y>> \in B <=> x > y
    OBVIOUS
  <2>2. B \in SUBSET (S \X S)
    OBVIOUS
  <2> HIDE DEF B
  <2>3. \A x \in S : <<x, x>> \notin B
    BY <1>3, <2>1
  <2>4. \A x, y, z \in S : <<x, y>> \in B /\ <<y, z>> \in B => <<x, z>> \in B
    BY <1>3, <2>1
  <2>5. PICK d \in S : \A x \in S : <<x, d>> \notin B
    BY <1>2, <1>3, <2>2, <2>3, <2>4, Extreme
  <2>6. ASSUME NEW x \in S
        PROVE  x <= d
    <3>1. x \in Nat /\ d \in Nat
      BY <1>3
    <3>2. <<x, d>> \notin B
      BY <2>5
    <3>3. ~(x > d)
      BY <2>1, <3>2
    <3> QED BY <3>1, <3>3
  <2> QED BY <2>6
<1>6. Span(rows).first = CHOOSE d \in S : \A e \in S : d <= e
  BY DEF Span, S
<1>7. Span(rows).last = CHOOSE d \in S : \A e \in S : e <= d
  BY DEF Span, S
<1>8. Span(rows).first \in S /\ \A e \in S : Span(rows).first <= e
  BY <1>4, <1>6
<1>9. Span(rows).last \in S /\ \A e \in S : e <= Span(rows).last
  BY <1>5, <1>7
<1> QED BY <1>8, <1>9 DEF S

LEMMA IndexMonotone ==
  ASSUME NEW cal \in SUBSET Nat, IsFiniteSet(cal), NEW d \in Nat, NEW e \in Nat, d <= e
  PROVE  IndexOf(cal, d) <= IndexOf(cal, e)
<1> DEFINE below(z) == {u \in cal : u < z}
<1>1. \A u \in cal : u < d => u < e
  OBVIOUS
<1>2. below(d) \in SUBSET below(e) /\ below(e) \in SUBSET cal
  BY <1>1
<1> HIDE DEF below
<1>3. IsFiniteSet(below(e))
  BY <1>2, FS_Subset
<1>4. Cardinality(below(d)) <= Cardinality(below(e))
  BY <1>2, <1>3, FS_Subset
<1> QED BY <1>4 DEF IndexOf, below

\* What is read from a bin of rows on the calendar they were cut on.
LEMMA ShownIsTaken ==
  ASSUME NEW cal \in SUBSET Nat, IsFiniteSet(cal), NEW rows \in Series, rows # Empty,
         DOMAIN rows \subseteq cal, NEW s, NEW f,
         files.cal = cal, files.bins[s][f] = Bin(cal, rows), files.all[s] = Span(rows)
  PROVE  Shown(s, f) = rows
<1> DEFINE first == Span(rows).first
           last == Span(rows).last
           start == IndexOf(cal, first)
           end == IndexOf(cal, last)
           Cell(d) == [day |-> d, factor |-> rows[d]]
           slot(k) == {Cell(d) : d \in {x \in DOMAIN rows : IndexOf(cal, x) = start + k}}
           slots == [k \in 0..(end - start) |-> slot(k)]
           At(d) == IndexOf(cal, d) - start
           days == {d \in cal : /\ first <= d /\ d <= last
                                /\ At(d) \in DOMAIN slots /\ slots[At(d)] # {}}
<1>1. Bin(cal, rows).start = start /\ Bin(cal, rows).slots = slots
  BY DEF Bin
<1>2. Shown(s, f) = [d \in days |-> (CHOOSE v \in slots[At(d)] : TRUE).factor]
  <2> HIDE DEF slots, start, first, last
  <2> QED BY <1>1 DEF Shown, first, last
<1>3. /\ first \in DOMAIN rows /\ last \in DOMAIN rows
      /\ \A d \in DOMAIN rows : first <= d /\ d <= last
  BY SpanTypes
<1>4. \A d \in cal : d \in Nat /\ IndexOf(cal, d) \in Nat
  BY IndexType
<1>5. ASSUME NEW d \in cal, first <= d, d <= last
      PROVE  /\ At(d) \in 0..(end - start)
             /\ slots[At(d)] = IF d \in DOMAIN rows THEN {Cell(d)} ELSE {}
  <2>1. first \in cal /\ last \in cal
    BY <1>3
  <2>2. start <= IndexOf(cal, d) /\ IndexOf(cal, d) <= end
    BY <1>4, <1>5, <2>1, IndexMonotone
  <2>3. start \in Nat /\ end \in Nat /\ IndexOf(cal, d) \in Nat
    BY <1>4, <2>1
  <2>4. At(d) \in 0..(end - start) /\ start + At(d) = IndexOf(cal, d)
    <3> HIDE DEF start, end
    <3> QED BY <2>2, <2>3
  <2>5. slots[At(d)] = slot(At(d))
    <3> HIDE DEF At, slot, start, end
    <3> QED BY <2>4
  <2>6. {x \in DOMAIN rows : IndexOf(cal, x) = start + At(d)}
          = IF d \in DOMAIN rows THEN {d} ELSE {}
    <3>1. \A x \in DOMAIN rows : IndexOf(cal, x) = IndexOf(cal, d) => x = d
      BY IndexInjective
    <3> HIDE DEF At, start
    <3> QED BY <2>4, <3>1
  <2>7. slot(At(d)) = IF d \in DOMAIN rows THEN {Cell(d)} ELSE {}
    <3> HIDE DEF At, start
    <3> QED BY <2>6
  <2> QED BY <2>4, <2>5, <2>7
<1>6. DOMAIN slots = 0..(end - start)
  OBVIOUS
<1> HIDE DEF slots, At, Cell, first, last, start, end
<1>7. days = DOMAIN rows
  <2>1. ASSUME NEW d \in DOMAIN rows
        PROVE  d \in days
    BY <1>3, <1>5, <1>6, <2>1
  <2>2. ASSUME NEW d \in days
        PROVE  d \in DOMAIN rows
    BY <1>5, <2>2
  <2> QED BY <2>1, <2>2
<1>8. ASSUME NEW d \in DOMAIN rows
      PROVE  (CHOOSE v \in slots[At(d)] : TRUE).factor = rows[d]
  <2>1. slots[At(d)] = {Cell(d)}
    BY <1>3, <1>5
  <2>2. (CHOOSE v \in {Cell(d)} : TRUE) = Cell(d)
    OBVIOUS
  <2> QED BY <2>1, <2>2 DEF Cell
<1> HIDE DEF days
<1>9. rows = [d \in DOMAIN rows |-> rows[d]]
  BY SeriesTypes
<1> QED BY <1>2, <1>7, <1>8, <1>9

\* What one export knows: j are its locals, fs is the directory.
Holds(j, disturbed, fs) ==
  /\ j.pc \in {"idle", "calendar", "day", "done"} => j.taken = Empty
  /\ j.pc \in {"idle", "calendar", "done"} => j.cal = {}
  /\ \A s \in DOMAIN j.taken : j.taken[s] # Empty /\ DOMAIN j.taken[s] \subseteq j.cal
  /\ j.pc = "bins" => j.sym \in DOMAIN j.taken /\ j.taken[j.sym] = j.rows
  /\ j.pc \in Writing /\ ~disturbed =>
       /\ fs.cal = j.cal
       /\ \A s \in DOMAIN j.taken, f \in Fields :
            \/ j.pc = "bins" /\ s = j.sym /\ f \in j.fields
            \/ fs.bins[s][f] = Bin(j.cal, j.taken[s])
       /\ j.pc \in {"csi300", "meta"} => fs.all = Lines(j.taken)

ExportInv == \A c \in Exporters : Holds(dump[c], contested[c], files)

LEMMA NoDumpHolds ==
  \A disturbed, fs : Holds(NoDump, disturbed, fs) /\ Holds(DumpOver, disturbed, fs)
<1>1. /\ NoDump.pc = "idle" /\ NoDump.taken = Empty /\ NoDump.cal = {}
      /\ DumpOver.pc = "done" /\ DumpOver.taken = Empty /\ DumpOver.cal = {}
  BY DEF NoDump, DumpOver
<1> QED BY <1>1, EmptyIsSeries DEF Holds, Writing

LEMMA ExportInvInit == DumpInit => ExportInv
BY NoDumpHolds DEF DumpInit, ExportInv

\* A step of one export: the others are not disturbed, or no longer promise
\* anything.
LEMMA OneStep ==
  ASSUME DumpInv, ExportInv, NEW c \in Exporters, NEW j, dump' = [dump EXCEPT ![c] = j],
         Holds(j, contested'[c], files'),
         \A x \in Exporters \ {c} : dump[x].pc \in Writing /\ ~contested'[x] =>
           ~contested[x] /\ files' = files
  PROVE  ExportInv'
<1>1. dump'[c] = j /\ \A x \in Exporters \ {c} : dump'[x] = dump[x]
  BY DEF DumpInv
<1>2. ASSUME NEW x \in Exporters \ {c}
      PROVE  Holds(dump[x], contested'[x], files')
  BY DEF ExportInv, Holds
<1> QED BY <1>1, <1>2 DEF ExportInv

\* One that writes disturbs all others that are writing.
LEMMA WriteDisturbs ==
  ASSUME DumpInv, NEW c \in Exporters, NEW new, Write(c, new)
  PROVE  /\ contested'[c] = contested[c]
         /\ \A x \in Exporters \ {c} : dump[x].pc \in Writing => contested'[x]
         /\ files' = new /\ sealed' = FALSE /\ UNCHANGED storeVars
BY DEF Write, DumpInv

LEMMA StartExport ==
  ASSUME DumpInv, ExportInv, NEW c \in Exporters, NEW q \in Requests, StartDump(c, q)
  PROVE  ExportInv'
<1> DEFINE j == [NoDump EXCEPT !.pc = "calendar", !.todo = list_symbols_with_bars(q),
                               !.start = q.start, !.end = q.end, !.universe = q.universe]
<1>1. dump' = [dump EXCEPT ![c] = j] /\ UNCHANGED <<files, contested>>
  BY DEF StartDump
<1>2. j.pc = "calendar" /\ j.taken = Empty /\ j.cal = {}
  BY DEF NoDump
<1> HIDE DEF j
<1>3. Holds(j, contested'[c], files')
  BY <1>2, EmptyIsSeries DEF Holds, Writing
<1> QED BY <1>1, <1>3, OneStep

LEMMA CalendarExport ==
  ASSUME DumpInv, ExportInv, NEW c \in Exporters, ReadCalendar(c)
  PROVE  ExportInv'
<1> DEFINE cal == list_trade_dates(dump[c].todo, dump[c].start, dump[c].end)
           j == [dump[c] EXCEPT !.pc = "day", !.cal = cal]
<1>1. dump[c].pc = "calendar" /\ dump' = [dump EXCEPT ![c] = j] /\ UNCHANGED <<files, contested>>
  BY DEF ReadCalendar
<1>2. dump[c] \in DumpType /\ Holds(dump[c], contested[c], files)
  BY DEF DumpInv, ExportInv
<1> HIDE DEF cal
<1>3. j.pc = "day" /\ j.taken = Empty
  BY <1>1, <1>2 DEF DumpType, Holds
<1> HIDE DEF j
<1>4. Holds(j, contested'[c], files')
  BY <1>3, EmptyIsSeries DEF Holds, Writing
<1> QED BY <1>1, <1>4, OneStep

LEMMA WriteCalendarExport ==
  ASSUME DumpInv, ExportInv, NEW c \in Exporters, WriteCalendar(c)
  PROVE  ExportInv'
<1> DEFINE j == [dump[c] EXCEPT !.pc = "bars"]
           new == [files EXCEPT !.cal = dump[c].cal]
<1>1. dump[c].pc = "day" /\ dump' = [dump EXCEPT ![c] = j] /\ Write(c, new)
  BY DEF WriteCalendar
<1>2. dump[c] \in DumpType /\ Holds(dump[c], contested[c], files)
  BY DEF DumpInv, ExportInv
<1>3. j.pc = "bars" /\ j.taken = Empty /\ j.cal = dump[c].cal
  BY <1>1, <1>2 DEF DumpType, Holds
<1>4. new.cal = dump[c].cal
  BY DEF DumpInv, FilesFit
<1> HIDE DEF j, new
<1>5. files' = new
  BY <1>1, WriteDisturbs
<1>6. Holds(j, contested'[c], files')
  BY <1>3, <1>4, <1>5, EmptyIsSeries DEF Holds
<1> QED BY <1>1, <1>6, OneStep, WriteDisturbs

LEMMA ReadBarsExport ==
  ASSUME StoreInv, DumpInv, ExportInv, NEW c \in Exporters, NEW s \in Symbols, ReadBars(c, s)
  PROVE  ExportInv'
<1> DEFINE rows == get_bars(s, dump[c].cal)
           rest == dump[c].todo \ {s}
           taken == [t \in DOMAIN dump[c].taken \cup {s} |-> IF t = s THEN rows ELSE dump[c].taken[t]]
           skip == [dump[c] EXCEPT !.todo = rest]
           take == [dump[c] EXCEPT !.pc = "bins", !.todo = rest, !.sym = s, !.rows = rows,
                                   !.fields = Fields, !.taken = taken]
           j == IF rows = Empty THEN skip ELSE take
<1>1. dump[c].pc = "bars" /\ dump' = [dump EXCEPT ![c] = j] /\ UNCHANGED <<files, contested>>
  BY DEF ReadBars
<1>2. dump[c] \in DumpType /\ Holds(dump[c], contested[c], files)
  BY DEF DumpInv, ExportInv
<1>3. DOMAIN rows \subseteq dump[c].cal
  BY DEF get_bars
<1>4. DOMAIN taken = DOMAIN dump[c].taken \cup {s} /\ taken[s] = rows
      /\ \A t \in DOMAIN taken : t # s => t \in DOMAIN dump[c].taken /\ taken[t] = dump[c].taken[t]
  OBVIOUS
<1> HIDE DEF rows, taken, rest
<1>5. /\ skip.pc = "bars" /\ skip.cal = dump[c].cal /\ skip.taken = dump[c].taken
      /\ take.pc = "bins" /\ take.cal = dump[c].cal /\ take.taken = taken /\ take.sym = s
      /\ take.rows = rows /\ take.fields = Fields
  BY <1>1, <1>2 DEF DumpType
<1> HIDE DEF skip, take
<1>6. CASE rows = Empty
  <2>1. Holds(skip, contested[c], files)
    BY <1>1, <1>2, <1>5 DEF Holds
  <2> QED BY <1>1, <1>6, <2>1, OneStep
<1>7. CASE rows # Empty
  <2>1. \A t \in DOMAIN taken : taken[t] # Empty /\ DOMAIN taken[t] \subseteq dump[c].cal
    BY <1>2, <1>3, <1>4, <1>7 DEF Holds
  <2>2. ~contested[c] =>
          /\ files.cal = dump[c].cal
          /\ \A t \in DOMAIN taken, f \in Fields :
               t = s \/ files.bins[t][f] = Bin(dump[c].cal, taken[t])
    BY <1>1, <1>2, <1>4 DEF Holds, Writing
  <2>3. Holds(take, contested[c], files)
    BY <1>4, <1>5, <2>1, <2>2 DEF Holds
  <2> QED BY <1>1, <1>7, <2>3, OneStep
<1> QED BY <1>6, <1>7

LEMMA WriteBinExport ==
  ASSUME DumpInv, ExportInv, NEW c \in Exporters, NEW f \in Fields, WriteBin(c, f)
  PROVE  ExportInv'
<1> DEFINE bin == Bin(dump[c].cal, dump[c].rows)
           sym == dump[c].sym
           new == [files EXCEPT !.bins[sym][f] = bin]
           rest == dump[c].fields \ {f}
           more == [dump[c] EXCEPT !.fields = rest]
           last == [dump[c] EXCEPT !.pc = "bars", !.fields = {}, !.sym = 0, !.rows = Empty]
           j == IF dump[c].fields # {f} THEN more ELSE last
<1>1. dump[c].pc = "bins" /\ dump' = [dump EXCEPT ![c] = j] /\ Write(c, new)
  BY DEF WriteBin
<1>2. dump[c] \in DumpType /\ Holds(dump[c], contested[c], files) /\ sym \in Symbols
  BY <1>1 DEF DumpInv, ExportInv, LocalsFit
<1>3. files' = new /\ contested'[c] = contested[c]
  BY <1>1, WriteDisturbs
<1>4. files'.cal = files.cal /\ files'.bins = [files.bins EXCEPT ![sym][f] = bin]
  <2>1. files = [cal |-> files.cal, bins |-> files.bins, all |-> files.all, csi300 |-> files.csi300]
    BY DEF DumpInv, FilesFit
  <2>2. new = [files EXCEPT !.bins = [files.bins EXCEPT ![sym][f] = bin]]
    BY Zenon
  <2> HIDE DEF new
  <2> QED BY <1>3, <2>1, <2>2
<1>5. /\ files'.bins[sym][f] = bin
      /\ \A t \in Symbols, g \in Fields : ~(t = sym /\ g = f) => files'.bins[t][g] = files.bins[t][g]
  <2>1. files.bins \in [Symbols -> [Fields -> BinType]]
    BY DEF DumpInv, FilesFit
  <2> HIDE DEF bin, sym
  <2> QED BY <1>2, <1>4, <2>1
<1>6. DOMAIN dump[c].taken \subseteq Symbols
  BY <1>2 DEF DumpType, Taken
<1>7. \A t \in DOMAIN dump[c].taken : dump[c].taken[t] # Empty /\ DOMAIN dump[c].taken[t] \subseteq dump[c].cal
  BY <1>2 DEF Holds
<1>8. sym \in DOMAIN dump[c].taken /\ dump[c].taken[sym] = dump[c].rows
  BY <1>1, <1>2 DEF Holds
<1>9. ASSUME ~contested[c]
      PROVE  /\ files'.cal = dump[c].cal
             /\ \A t \in DOMAIN dump[c].taken, g \in Fields :
                  \/ t = sym /\ g \in rest
                  \/ files'.bins[t][g] = Bin(dump[c].cal, dump[c].taken[t])
  <2>1. /\ files.cal = dump[c].cal
        /\ \A t \in DOMAIN dump[c].taken, g \in Fields :
             \/ t = sym /\ g \in dump[c].fields
             \/ files.bins[t][g] = Bin(dump[c].cal, dump[c].taken[t])
    BY <1>1, <1>2, <1>9 DEF Holds, Writing
  <2>2. ASSUME NEW t \in DOMAIN dump[c].taken, NEW g \in Fields
        PROVE  \/ t = sym /\ g \in rest
               \/ files'.bins[t][g] = Bin(dump[c].cal, dump[c].taken[t])
    <3>1. CASE t = sym /\ g = f
      BY <1>5, <1>8, <3>1
    <3>2. CASE ~(t = sym /\ g = f)
      <4>1. files'.bins[t][g] = files.bins[t][g]
        BY <1>5, <1>6, <3>2
      <4> QED BY <2>1, <3>2, <4>1
    <3> QED BY <3>1, <3>2
  <2> QED BY <1>4, <2>1, <2>2
<1>10. /\ more.pc = "bins" /\ more.cal = dump[c].cal /\ more.taken = dump[c].taken
       /\ more.sym = sym /\ more.rows = dump[c].rows /\ more.fields = rest
       /\ last.pc = "bars" /\ last.cal = dump[c].cal /\ last.taken = dump[c].taken
  BY <1>1, <1>2 DEF DumpType
<1>11. j = last => rest = {}
  <2>1. CASE dump[c].fields = {f}
    BY <2>1
  <2>2. CASE dump[c].fields # {f}
    BY <1>10, <2>2
  <2> QED BY <2>1, <2>2
<1>12. j \in {more, last}
  OBVIOUS
<1> HIDE DEF more, last, rest, new, bin, sym
<1>13. Holds(j, contested'[c], files')
  <2>1. CASE j = more
    BY <1>3, <1>7, <1>8, <1>9, <1>10, <2>1 DEF Holds
  <2>2. CASE j = last
    BY <1>3, <1>7, <1>9, <1>10, <1>11, <2>2 DEF Holds
  <2> QED BY <1>12, <2>1, <2>2
<1> QED BY <1>1, <1>13, OneStep, WriteDisturbs

LEMMA ListsExport ==
  ASSUME DumpInv, ExportInv, NEW c \in Exporters, WriteAll(c) \/ WriteUniverse(c)
  PROVE  ExportInv'
<1>1. dump[c] \in DumpType /\ Holds(dump[c], contested[c], files)
  BY DEF DumpInv, ExportInv
<1>2. PICK pc \in {"csi300", "meta"} : dump' = [dump EXCEPT ![c] = [dump[c] EXCEPT !.pc = pc]]
  BY DEF WriteAll, WriteUniverse
<1> DEFINE j == [dump[c] EXCEPT !.pc = pc]
<1>3. j.pc = pc /\ j.cal = dump[c].cal /\ j.taken = dump[c].taken
  BY <1>1 DEF DumpType
<1>4. dump' = [dump EXCEPT ![c] = j]
  BY <1>2
<1> HIDE DEF j
<1>5. /\ contested'[c] = contested[c]
      /\ \A x \in Exporters \ {c} : dump[x].pc \in Writing => contested'[x]
  BY WriteDisturbs DEF WriteAll, WriteUniverse
<1>6. /\ files'.cal = files.cal /\ files'.bins = files.bins
      /\ ~contested[c] => files'.all = Lines(dump[c].taken)
  <2>1. files = [cal |-> files.cal, bins |-> files.bins, all |-> files.all, csi300 |-> files.csi300]
    BY DEF DumpInv, FilesFit
  <2>2. CASE WriteAll(c)
    <3>1. files' = [files EXCEPT !.all = Lines(dump[c].taken)]
      BY <2>2 DEF WriteAll, Write
    <3> QED BY <2>1, <3>1
  <2>3. CASE WriteUniverse(c)
    <3>1. files' = [files EXCEPT !.csi300 = [s \in dump[c].universe \cap DOMAIN dump[c].taken |->
                                               Span(dump[c].taken[s])]]
      BY <2>3 DEF WriteUniverse, Write
    <3>2. dump[c].pc = "csi300"
      BY <2>3 DEF WriteUniverse
    <3>3. ~contested[c] => files.all = Lines(dump[c].taken)
      BY <1>1, <3>2 DEF Holds, Writing
    <3> QED BY <2>1, <3>1, <3>3
  <2> QED BY <2>2, <2>3
<1>7. dump[c].pc \in {"bars", "csi300"}
  BY DEF WriteAll, WriteUniverse
<1>8. ~contested[c] => /\ files.cal = dump[c].cal
                       /\ \A s \in DOMAIN dump[c].taken, f \in Fields :
                            files.bins[s][f] = Bin(dump[c].cal, dump[c].taken[s])
  BY <1>1, <1>7 DEF Holds, Writing
<1>9. \A s \in DOMAIN dump[c].taken : dump[c].taken[s] # Empty /\ DOMAIN dump[c].taken[s] \subseteq dump[c].cal
  BY <1>1 DEF Holds
<1>10. Holds(j, contested'[c], files')
  BY <1>3, <1>5, <1>6, <1>8, <1>9 DEF Holds
<1> QED BY <1>4, <1>5, <1>10, OneStep

LEMMA EndExport ==
  ASSUME DumpInv, ExportInv, NEW c \in Exporters, FinishDump(c) \/ AbandonDump(c)
  PROVE  ExportInv'
<1>1. dump' = [dump EXCEPT ![c] = DumpOver] /\ files' = files
  BY DEF FinishDump, AbandonDump
<1>2. \A x \in Exporters \ {c} : dump[x].pc \in Writing /\ ~contested'[x] => ~contested[x]
  BY DEF FinishDump, AbandonDump, DumpInv
<1> QED BY <1>1, <1>2, NoDumpHolds, OneStep

LEMMA ExportInvNext == StoreInv /\ DumpInv /\ ExportInv /\ [Next]_vars => ExportInv'
<1> SUFFICES ASSUME StoreInv, DumpInv, ExportInv, [Next]_vars PROVE ExportInv'
  OBVIOUS
<1>1. CASE UNCHANGED dumpVars
  BY <1>1 DEF dumpVars, ExportInv
<1>2. ASSUME NEW c \in Exporters, ExportStep(c)
      PROVE  ExportInv'
  BY <1>2, StartExport, CalendarExport, WriteCalendarExport, ReadBarsExport, WriteBinExport,
     ListsExport, EndExport DEF ExportStep, DumpStep
<1>3. CASE Table \/ UNCHANGED vars
  BY <1>1, <1>3 DEF Table, vars, readerVars
<1>4. ASSUME NEW c \in Callers, StrategyStep(c)
      PROVE  ExportInv'
  BY <1>1, <1>4, RequestsReadOnly
<1> QED BY <1>2, <1>3, <1>4 DEF Next

(***************************************************************************)
(* The steps of an export are those of SnapshotExport.                     *)
(***************************************************************************)

Drafts == [c \in Exporters |-> [days |-> dump[c].cal, series |-> dump[c].taken]]

LEMMA DraftsAre ==
  ASSUME DumpInv, NEW c \in Exporters, NEW j, dump' = [dump EXCEPT ![c] = j]
  PROVE  Drafts' = [Drafts EXCEPT ![c] = [days |-> j.cal, series |-> j.taken]]
<1>1. dump'[c] = j /\ \A x \in Exporters \ {c} : dump'[x] = dump[x]
  BY DEF DumpInv
<1> QED BY <1>1 DEF Drafts

LEMMA DraftsStay ==
  ASSUME DumpInv, NEW c \in Exporters, NEW j, dump' = [dump EXCEPT ![c] = j],
         j.cal = dump[c].cal, j.taken = dump[c].taken
  PROVE  Drafts' = Drafts
<1>1. dump'[c] = j /\ \A x \in Exporters \ {c} : dump'[x] = dump[x]
  BY DEF DumpInv
<1> QED BY <1>1 DEF Drafts

\* While the directory is not sealed it promises nothing.
LEMMA NothingPromised ==
  /\ sealed = FALSE => Decoded = Export!NoPromise
  /\ sealed' = FALSE => Decoded' = Export!NoPromise
BY DEF Decoded, NoPromise, Export!NoPromise, Empty

LEMMA SameDirectory ==
  ASSUME UNCHANGED <<files, sealed>>
  PROVE  Decoded' = Decoded
BY DEF Decoded, Shown, NoPromise, Empty

\* A file is written: what the directory promised is withdrawn.
LEMMA WriteWithdraws ==
  ASSUME DumpInv, NEW c \in Exporters, NEW new, Write(c, new), Drafts' = Drafts
  PROVE  Export!Withdraw
<1>1. sealed' = FALSE /\ bars' = bars
  BY WriteDisturbs DEF storeVars
<1> QED BY <1>1, NothingPromised DEF Export!Withdraw, Drafts

LEMMA StartStutters ==
  ASSUME DumpInv, ExportInv, NEW c \in Exporters, NEW q \in Requests, StartDump(c, q)
  PROVE  UNCHANGED <<bars, Drafts, Decoded>>
<1> DEFINE j == [NoDump EXCEPT !.pc = "calendar", !.todo = list_symbols_with_bars(q),
                               !.start = q.start, !.end = q.end, !.universe = q.universe]
<1>1. dump[c] = NoDump /\ dump' = [dump EXCEPT ![c] = j] /\ UNCHANGED <<storeVars, files, sealed>>
  BY DEF StartDump
<1>2. j.cal = dump[c].cal /\ j.taken = dump[c].taken
  BY <1>1 DEF NoDump
<1> HIDE DEF j
<1> QED BY <1>1, <1>2, DraftsStay, SameDirectory DEF storeVars

LEMMA CalendarOpens ==
  ASSUME StoreInv, DumpInv, ExportInv, NEW c \in Exporters, ReadCalendar(c)
  PROVE  \E days \in SUBSET UNION {DOMAIN bars[s] : s \in DOMAIN bars} : Export!Open(c, days)
<1> DEFINE cal == list_trade_dates(dump[c].todo, dump[c].start, dump[c].end)
           j == [dump[c] EXCEPT !.pc = "day", !.cal = cal]
<1>1. /\ dump[c].pc = "calendar" /\ dump' = [dump EXCEPT ![c] = j]
      /\ UNCHANGED <<storeVars, files, sealed>>
  BY DEF ReadCalendar
<1>2. dump[c] \in DumpType /\ Holds(dump[c], contested[c], files)
  BY DEF DumpInv, ExportInv
<1>3. cal \subseteq UNION {DOMAIN bars[s] : s \in DOMAIN bars}
  <2>1. dump[c].todo \subseteq DOMAIN bars
    BY <1>2 DEF DumpType, StoreInv, StoreTypeOK
  <2> QED BY <2>1 DEF list_trade_dates, InRange
<1> HIDE DEF cal
<1>4. j.cal = cal /\ j.taken = Empty
  BY <1>1, <1>2 DEF DumpType, Holds
<1> HIDE DEF j
<1>5. Drafts' = [Drafts EXCEPT ![c] = [days |-> cal, series |-> Empty]]
  BY <1>1, <1>4, DraftsAre
<1>6. [Export!NoDraft EXCEPT !.days = cal] = [days |-> cal, series |-> Empty]
  BY DEF Export!NoDraft, Empty
<1>7. UNCHANGED <<bars, Decoded>>
  BY <1>1, SameDirectory DEF storeVars
<1>8. PICK days : days = cal
  OBVIOUS
<1>9. days \in SUBSET UNION {DOMAIN bars[s] : s \in DOMAIN bars}
  BY <1>3, <1>8
<1>10. Export!Open(c, days)
  BY <1>5, <1>6, <1>7, <1>8, <1>9 DEF Export!Open, Drafts
<1> QED BY <1>9, <1>10

LEMMA ReadBarsTakes ==
  ASSUME StoreInv, DumpInv, ExportInv, NEW c \in Exporters, NEW s \in Symbols, ReadBars(c, s)
  PROVE  Export!Take(c, s) \/ UNCHANGED <<bars, Drafts, Decoded>>
<1> DEFINE rows == get_bars(s, dump[c].cal)
           rest == dump[c].todo \ {s}
           taken == [t \in DOMAIN dump[c].taken \cup {s} |-> IF t = s THEN rows ELSE dump[c].taken[t]]
           skip == [dump[c] EXCEPT !.todo = rest]
           take == [dump[c] EXCEPT !.pc = "bins", !.todo = rest, !.sym = s, !.rows = rows,
                                   !.fields = Fields, !.taken = taken]
           j == IF rows = Empty THEN skip ELSE take
<1>1. dump' = [dump EXCEPT ![c] = j] /\ UNCHANGED <<storeVars, files, sealed>>
  BY DEF ReadBars
<1>2. dump[c] \in DumpType
  BY DEF DumpInv
<1>3. UNCHANGED <<bars, Decoded>>
  BY <1>1, SameDirectory DEF storeVars
<1>4. rows = Export!OnDays(bars[s], dump[c].cal)
  BY DEF get_bars, Export!OnDays
<1> HIDE DEF rows
<1>5. taken = [t \in DOMAIN Drafts[c].series \cup {s} |->
                 IF t = s THEN Export!OnDays(bars[s], Drafts[c].days) ELSE Drafts[c].series[t]]
  <2>1. Drafts[c].series = dump[c].taken /\ Drafts[c].days = dump[c].cal
    BY DEF Drafts
  <2> QED BY <1>4, <2>1
<1> HIDE DEF taken, rest
<1>6. /\ skip.cal = dump[c].cal /\ skip.taken = dump[c].taken
      /\ take.cal = dump[c].cal /\ take.taken = taken
  BY <1>2 DEF DumpType
<1> HIDE DEF skip, take
<1>7. CASE rows = Empty
  BY <1>1, <1>3, <1>6, <1>7, DraftsStay
<1>8. CASE rows # Empty
  <2>1. Drafts' = [Drafts EXCEPT ![c] = [days |-> dump[c].cal, series |-> taken]]
    BY <1>1, <1>6, <1>8, DraftsAre
  <2>2. Drafts[c] = [days |-> dump[c].cal, series |-> dump[c].taken]
    BY DEF Drafts
  <2>3. [Drafts[c] EXCEPT !.series = taken] = [days |-> dump[c].cal, series |-> taken]
    BY <2>2
  <2>4. Drafts' = [Drafts EXCEPT ![c].series = taken]
    BY <2>1, <2>3
  <2> QED BY <1>3, <1>5, <2>4 DEF Export!Take, Drafts
<1> QED BY <1>7, <1>8

LEMMA WritesWithdraw ==
  ASSUME DumpInv, NEW c \in Exporters,
         \/ WriteCalendar(c)
         \/ \E f \in Fields : WriteBin(c, f)
         \/ WriteAll(c)
         \/ WriteUniverse(c)
  PROVE  Export!Withdraw
<1>0. dump[c] \in DumpType
  BY DEF DumpInv
<1>1. CASE WriteCalendar(c)
  <2> DEFINE j == [dump[c] EXCEPT !.pc = "bars"]
  <2>1. j.cal = dump[c].cal /\ j.taken = dump[c].taken
    BY <1>0 DEF DumpType
  <2>2. dump' = [dump EXCEPT ![c] = j]
    BY <1>1 DEF WriteCalendar
  <2> HIDE DEF j
  <2>3. Drafts' = Drafts
    BY <2>1, <2>2, DraftsStay
  <2> QED BY <1>1, <2>3, WriteWithdraws DEF WriteCalendar
<1>2. ASSUME NEW f \in Fields, WriteBin(c, f)
      PROVE  Export!Withdraw
  <2> DEFINE more == [dump[c] EXCEPT !.fields = dump[c].fields \ {f}]
             last == [dump[c] EXCEPT !.pc = "bars", !.fields = {}, !.sym = 0, !.rows = Empty]
             j == IF dump[c].fields # {f} THEN more ELSE last
  <2>1. more.cal = dump[c].cal /\ more.taken = dump[c].taken
        /\ last.cal = dump[c].cal /\ last.taken = dump[c].taken
    BY <1>0 DEF DumpType
  <2>2. dump' = [dump EXCEPT ![c] = j]
    BY <1>2 DEF WriteBin
  <2> HIDE DEF more, last
  <2>3. j.cal = dump[c].cal /\ j.taken = dump[c].taken
    BY <2>1
  <2> HIDE DEF j
  <2>4. Drafts' = Drafts
    BY <2>2, <2>3, DraftsStay
  <2> QED BY <1>2, <2>4, WriteWithdraws DEF WriteBin
<1>3. CASE WriteAll(c) \/ WriteUniverse(c)
  <2>1. PICK pc \in {"csi300", "meta"} : dump' = [dump EXCEPT ![c] = [dump[c] EXCEPT !.pc = pc]]
    BY <1>3 DEF WriteAll, WriteUniverse
  <2> DEFINE j == [dump[c] EXCEPT !.pc = pc]
  <2>2. j.cal = dump[c].cal /\ j.taken = dump[c].taken
    BY <1>0 DEF DumpType
  <2>3. dump' = [dump EXCEPT ![c] = j]
    BY <2>1
  <2> HIDE DEF j
  <2>4. Drafts' = Drafts
    BY <2>2, <2>3, DraftsStay
  <2> QED BY <1>3, <2>4, WriteWithdraws DEF WriteAll, WriteUniverse
<1> QED BY <1>1, <1>2, <1>3

LEMMA EndDrafts ==
  ASSUME DumpInv, NEW c \in Exporters, FinishDump(c) \/ AbandonDump(c)
  PROVE  /\ Drafts' = [Drafts EXCEPT ![c] = Export!NoDraft]
         /\ files' = files /\ bars' = bars
<1>1. dump' = [dump EXCEPT ![c] = DumpOver] /\ files' = files /\ bars' = bars
  BY DEF FinishDump, AbandonDump, storeVars
<1>2. [days |-> DumpOver.cal, series |-> DumpOver.taken] = Export!NoDraft
  BY DEF DumpOver, NoDump, Export!NoDraft, Empty
<1>3. Drafts' = [Drafts EXCEPT ![c] = [days |-> DumpOver.cal, series |-> DumpOver.taken]]
  BY <1>1, DraftsAre
<1> QED BY <1>1, <1>2, <1>3

\* The end of an export that nobody disturbed publishes what it took.
LEMMA FinishPublishes ==
  ASSUME StoreInv, DumpInv, ExportInv, NEW c \in Exporters, FinishDump(c), ~contested[c]
  PROVE  Export!Publish(c)
<1> DEFINE j == dump[c]
<1>1. j.pc = "meta" /\ sealed' = TRUE
  BY DEF FinishDump
<1>2. j \in DumpType /\ Holds(j, contested[c], files) /\ LocalsFit(c)
  BY DEF DumpInv, ExportInv
<1>3. /\ files.cal = j.cal /\ files.all = Lines(j.taken)
      /\ \A s \in DOMAIN j.taken, f \in Fields : files.bins[s][f] = Bin(j.cal, j.taken[s])
      /\ \A s \in DOMAIN j.taken : j.taken[s] # Empty /\ DOMAIN j.taken[s] \subseteq j.cal
  BY <1>1, <1>2 DEF Holds, Writing
<1>4. j.cal \in SUBSET Nat /\ IsFiniteSet(j.cal)
  <2>1. j.cal \in SUBSET (1..today) /\ today \in Nat /\ 1..today \subseteq Nat
    BY <1>1, <1>2, DayTypes DEF LocalsFit, Writing, DumpInv, StoreInv
  <2> QED BY <2>1, CalendarsFinite
<1>5. PICK S \in SUBSET Symbols : j.taken \in [S -> Series]
  BY <1>2 DEF DumpType, Taken
<1>6. DOMAIN files.all = DOMAIN j.taken
      /\ \A s \in DOMAIN j.taken : files.all[s] = Span(j.taken[s])
  BY <1>3 DEF Lines
<1>7. \A s \in DOMAIN j.taken, f \in Fields : Shown(s, f) = j.taken[s]
  BY <1>3, <1>4, <1>5, <1>6, ShownIsTaken
<1>8. files' = files /\ bars' = bars /\ Drafts' = [Drafts EXCEPT ![c] = Export!NoDraft]
  BY EndDrafts
<1>9. Decoded' = [days |-> files.cal,
                  series |-> [s \in DOMAIN files.all |-> [f \in Fields |-> Shown(s, f)]]]
  BY <1>1, <1>8 DEF Decoded, Shown
<1>10. Decoded' = [days |-> j.cal, series |-> [s \in DOMAIN j.taken |-> [f \in Fields |-> j.taken[s]]]]
  BY <1>3, <1>6, <1>7, <1>9
<1>11. Drafts[c].days = j.cal /\ Drafts[c].series = j.taken
  BY DEF Drafts
<1> HIDE DEF j
<1>12. Decoded' = [days |-> Drafts[c].days,
                   series |-> [s \in DOMAIN Drafts[c].series |->
                                [f \in Fields |-> Drafts[c].series[s]]]]
  BY <1>10, <1>11
<1> QED BY <1>8, <1>12 DEF Export!Publish, Drafts

LEMMA EndGivesUp ==
  ASSUME DumpInv, NEW c \in Exporters,
         \/ FinishDump(c) /\ contested[c]
         \/ AbandonDump(c)
  PROVE  Export!GiveUp(c)
<1>1. files' = files /\ bars' = bars /\ Drafts' = [Drafts EXCEPT ![c] = Export!NoDraft]
  BY EndDrafts
<1>2. Decoded' \in {Decoded, Export!NoPromise}
  <2>1. CASE FinishDump(c) /\ contested[c]
    <3>1. sealed' = FALSE
      BY <2>1 DEF FinishDump
    <3> QED BY <3>1, NothingPromised
  <2>2. CASE AbandonDump(c)
    <3>1. UNCHANGED <<files, sealed>>
      BY <2>2 DEF AbandonDump
    <3> QED BY <3>1, SameDirectory
  <2> QED BY <2>1, <2>2
<1> QED BY <1>1, <1>2 DEF Export!GiveUp, Drafts

LEMMA ExportMaps ==
  ASSUME StoreInv, DumpInv, ExportInv, NEW c \in Exporters, ExportStep(c)
  PROVE  Export!Next \/ UNCHANGED <<bars, Drafts, Decoded>>
<1>1. ASSUME NEW q \in Requests, StartDump(c, q)
      PROVE  UNCHANGED <<bars, Drafts, Decoded>>
  BY <1>1, StartStutters
<1>2. CASE ReadCalendar(c)
  BY <1>2, CalendarOpens DEF Export!Next
<1>3. ASSUME NEW s \in Symbols, ReadBars(c, s)
      PROVE  Export!Next \/ UNCHANGED <<bars, Drafts, Decoded>>
  <2>1. s \in DOMAIN bars
    BY DEF StoreInv, StoreTypeOK
  <2> QED BY <1>3, <2>1, ReadBarsTakes DEF Export!Next
<1>4. CASE WriteCalendar(c) \/ (\E f \in Fields : WriteBin(c, f)) \/ WriteAll(c) \/ WriteUniverse(c)
  BY <1>4, WritesWithdraw DEF Export!Next
<1>5. CASE FinishDump(c) /\ ~contested[c]
  BY <1>5, FinishPublishes DEF Export!Next
<1>6. CASE (FinishDump(c) /\ contested[c]) \/ AbandonDump(c)
  BY <1>6, EndGivesUp DEF Export!Next
<1> QED BY <1>1, <1>2, <1>3, <1>4, <1>5, <1>6 DEF ExportStep, DumpStep

LEMMA SnapshotStep ==
  StoreInv /\ DumpInv /\ ExportInv /\ [Next]_vars => [Export!Next]_(Export!vars)
<1> SUFFICES ASSUME StoreInv, DumpInv, ExportInv, [Next]_vars
             PROVE  Export!Next \/ UNCHANGED <<bars, Drafts, Decoded>>
  BY DEF Export!vars, Drafts
<1>1. CASE Table
  <2>1. UNCHANGED <<dump, files, sealed>> /\ StoreNext
    BY <1>1 DEF Table, readerVars, dumpVars
  <2>2. Drafts' = Drafts /\ Decoded' = Decoded
    BY <2>1, SameDirectory DEF Drafts
  <2>3. bars \in [Symbols -> Series]
    BY DEF StoreInv, StoreTypeOK
  <2>4. \A s \in DOMAIN bars : DOMAIN bars[s] \subseteq DOMAIN bars'[s]
    <3>1. CASE NewDay
      BY <3>1 DEF NewDay
    <3>2. ASSUME NEW r \in Ranges, Upsert(r[1], r[2], r[3])
          PROVE  \A s \in DOMAIN bars : DOMAIN bars[s] \subseteq DOMAIN bars'[s]
      <4>1. PICK rows, g : bars' = [bars EXCEPT ![r[1]] = [d \in DOMAIN bars[r[1]] \cup rows |-> g[d]]]
        <5> DEFINE rows == {d \in traded[r[1]] : r[2] <= d /\ d <= r[3]}
                   g == [d \in DOMAIN bars[r[1]] \cup rows |->
                           IF d \in rows THEN Adjusted(r[1], d, r[3]) ELSE bars[r[1]][d]]
        <5>1. bars' = [bars EXCEPT ![r[1]] = g]
          BY <3>2 DEF Upsert
        <5>2. g = [d \in DOMAIN bars[r[1]] \cup rows |-> g[d]]
          OBVIOUS
        <5> HIDE DEF rows, g
        <5> QED BY <5>1, <5>2
      <4> QED BY <2>3, <4>1
    <3> QED BY <2>1, <3>1, <3>2 DEF StoreNext
  <2> QED BY <2>2, <2>4 DEF Export!Next, Export!Change, Drafts
<1>2. ASSUME NEW c \in Exporters, ExportStep(c)
      PROVE  Export!Next \/ UNCHANGED <<bars, Drafts, Decoded>>
  BY <1>2, ExportMaps
<1>3. CASE UNCHANGED <<bars, dump, files, sealed>>
  BY <1>3, SameDirectory DEF Drafts
<1>4. ASSUME NEW c \in Callers, StrategyStep(c)
      PROVE  UNCHANGED <<bars, dump, files, sealed>>
  BY <1>4, RequestsReadOnly DEF storeVars, dumpVars
<1>5. CASE UNCHANGED vars
  BY <1>3, <1>5 DEF vars, storeVars, readerVars, dumpVars
<1> QED BY <1>1, <1>2, <1>3, <1>4, <1>5 DEF Next

\* The exports implement SnapshotExport: the directory an undisturbed export
\* leaves shows, of each symbol and in all fields, what the table held of it
\* at one moment, whatever is committed meanwhile and whatever other exports
\* have left in the directory.
THEOREM ExportCorrect == Spec => ImplementsExport
<1>1. Init => StoreInv /\ DumpInv /\ ExportInv
  BY StoreInvInit, DumpInvInit, ExportInvInit DEF Init
<1>2. StoreInv /\ DumpInv /\ ExportInv /\ [Next]_vars => (StoreInv /\ DumpInv /\ ExportInv)'
  BY StoreInvStep, DumpInvNext, ExportInvNext
<1>3. Init => Export!Init
  <2> SUFFICES ASSUME Init PROVE Export!Init
    OBVIOUS
  <2>1. sealed = FALSE /\ dump = [c \in Exporters |-> NoDump]
    BY DEF Init, DumpInit
  <2>2. Drafts = [c \in Exporters |-> Export!NoDraft]
    BY <2>1 DEF Drafts, NoDump, Export!NoDraft, Empty
  <2> QED BY <2>1, <2>2, NothingPromised DEF Export!Init, Drafts
<1> QED BY <1>1, <1>2, <1>3, SnapshotStep, PTL DEF Spec, ImplementsExport, Export!Spec
=============================================================================
