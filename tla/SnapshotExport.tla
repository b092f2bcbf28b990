--------------------------- MODULE SnapshotExport ---------------------------
(***************************************************************************)
(* What an export of the bars promises: what it publishes of a symbol is   *)
(* what the table held of it at one moment, on the days of one calendar,   *)
(* and all fields of a symbol are of the same moment.  While an export is  *)
(* under way, and after one that failed or met another, nothing is         *)
(* promised.  QlibSnapshot implements it.                                  *)
(***************************************************************************)
EXTENDS Naturals

CONSTANTS
  Clients,   \* those who export
  Fields     \* what is exported of a bar

VARIABLES
  bars,      \* the table: bars[s] maps the stored days of s to factors
  draft,     \* draft[c]: the calendar and the series c has taken
  published  \* the series of the exported symbols, or NoPromise

vars == <<bars, draft, published>>

NoPromise == [days |-> {}, series |-> [s \in {} |-> {}]]
NoDraft == [days |-> {}, series |-> [s \in {} |-> {}]]

\* The part of a series that falls on the days of a calendar.
OnDays(series, days) == [d \in DOMAIN series \cap days |-> series[d]]

Init ==
  /\ draft = [c \in Clients |-> NoDraft]
  /\ published = NoPromise

\* Rows come and change; none is taken away.
Change ==
  /\ \A s \in DOMAIN bars : DOMAIN bars[s] \subseteq DOMAIN bars'[s]
  /\ UNCHANGED <<draft, published>>

\* The calendar: some of the days for which there are bars.
Open(c, days) ==
  /\ days \subseteq UNION {DOMAIN bars[s] : s \in DOMAIN bars}
  /\ draft' = [draft EXCEPT ![c] = [NoDraft EXCEPT !.days = days]]
  /\ UNCHANGED <<bars, published>>

Take(c, s) ==
  /\ draft' = [draft EXCEPT ![c].series =
       [t \in DOMAIN @ \cup {s} |-> IF t = s THEN OnDays(bars[s], draft[c].days) ELSE @[t]]]
  /\ UNCHANGED <<bars, published>>

\* The directory is about to change.
Withdraw ==
  /\ published' = NoPromise
  /\ UNCHANGED <<bars, draft>>

Publish(c) ==
  /\ published' = [days |-> draft[c].days,
                   series |-> [s \in DOMAIN draft[c].series |->
                                [f \in Fields |-> draft[c].series[s]]]]
  /\ draft' = [draft EXCEPT ![c] = NoDraft]
  /\ UNCHANGED bars

\* An export that failed or met another ends, its last file written or not.
GiveUp(c) ==
  /\ draft' = [draft EXCEPT ![c] = NoDraft]
  /\ published' \in {published, NoPromise}
  /\ UNCHANGED bars

Next ==
  \/ Change
  \/ Withdraw
  \/ \E c \in Clients :
       \/ \E days \in SUBSET UNION {DOMAIN bars[s] : s \in DOMAIN bars} : Open(c, days)
       \/ \E s \in DOMAIN bars : Take(c, s)
       \/ Publish(c)
       \/ GiveUp(c)

Spec == Init /\ [][Next]_vars
=============================================================================
