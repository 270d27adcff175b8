-------------------------------- MODULE Deals --------------------------------
(***************************************************************************)
(* How closed positions come into trades.db.  On its timer the EA compares *)
(* the number of deals in the account's history with the number it had     *)
(* seen (SyncClosedDeals in src/mql5/Experts/SocketBridgeEA.mq5), counts   *)
(* the new ones as seen, and then sends one deal_closed for each deal that *)
(* closes a position or a part of one.  The message adds up all deals of   *)
(* its position.  The connection's worker writes it over the row of the    *)
(* position and queues a notice (src/python/handlers.py, src/python/db.py).*)
(*                                                                         *)
(* Nothing is acknowledged: what is lost with a connection is not sent     *)
(* again, unless the position has another deal or the EA starts anew.      *)
(*                                                                         *)
(* One connection at a time: the worker of a new connection comes to its   *)
(* deals after bind, which has waited for the old connection to close, so  *)
(* what the old worker had not handled by then is lost (Sessions).         *)
(***************************************************************************)
EXTENDS Naturals, Sequences, FiniteSets

CONSTANTS
  Positions,
  MaxDeals, \* bound: closing deals of the account
  MaxRuns   \* bound: how often the EA is started

ASSUME DealsAssumption == MaxDeals \in Nat /\ MaxRuns \in Nat \ {0}

VARIABLES
  deals,     \* history of the account: the positions of its DEAL_ENTRY_OUT deals
  run,       \* which start of the EA this is
  counted,   \* g_last_history_total
  batch,     \* new_position_ids (as places in deals) that are still to be sent
  connected, \* the EA's m_connected
  reaches,   \* what the EA sends now reaches the server
  wire,      \* deal_closed messages: on the wire, and in the worker's queue
  rows,      \* trades.db: how many deals the row of a position adds up, 0 without
  notices,   \* history: how often a deal was announced
  lost,      \* history: positions whose last report vanished
  before     \* history: how many deals there were when the EA was first started

ea == <<run, counted, batch>>
dealLink == <<connected, reaches>>
server == <<rows, notices>>
dealsVars == <<deals, ea, dealLink, wire, server, lost, before>>

Places == 1 .. MaxDeals
Reports == [run : 1 .. MaxRuns, deal : Places, total : Places]

\* The closing deals of p among the first n of the history.
Exits(p, n) == Cardinality({i \in 1 .. n : deals[i] = p})

PositionOf(m) == deals[m.deal]

DealsInit ==
  /\ deals \in UNION {[1 .. n -> Positions] : n \in 0 .. MaxDeals}
  /\ run = 1
  /\ counted = 0
  /\ batch = <<>>
  /\ connected = FALSE
  /\ reaches = FALSE
  /\ wire = <<>>
  /\ rows = [p \in Positions |-> 0]
  /\ notices = [i \in Places |-> 0]
  /\ lost = {}
  /\ before = Len(deals)

-----------------------------------------------------------------------------
(* The account and the EA *)

\* A position is closed, or a part of it.
DealMade(p) ==
  /\ Len(deals) < MaxDeals
  /\ deals' = Append(deals, p)
  /\ UNCHANGED <<ea, dealLink, wire, server, lost, before>>

\* mutant: the deals are sent, and not counted.
CountedNot == counted

\* g_last_history_total = total
Counted == Len(deals)

\* OnTimer comes to SyncClosedDeals: all new deals are taken and counted.  (A deal whose
\* ticket cannot be read is counted and skipped; here all of them can.)
SyncClosedDeals ==
  /\ connected
  /\ batch = <<>>
  /\ Len(deals) > counted
  /\ batch' = [i \in 1 .. Len(deals) - counted |-> counted + i]
  /\ counted' = Counted
  /\ UNCHANGED <<deals, run, dealLink, wire, server, lost, before>>

\* mutant: a report adds up the deals up to its own only.
TotalSoFar(i) == Exits(deals[i], i)

\* All deals of the position, as the history is now.
TotalOf(i) == Exits(deals[i], Len(deals))

\* SendClosedDeal for the next of them.  Nobody looks at what Send returns: on a
\* broken connection, or when the history cannot be selected, the report is lost.
SendClosedDeal ==
  /\ batch # <<>>
  /\ batch' = Tail(batch)
  /\ LET i == Head(batch) IN
       \/ /\ reaches
          /\ wire' = Append(wire, [run |-> run, deal |-> i, total |-> TotalOf(i)])
          /\ lost' = lost \ {deals[i]}
       \/ lost' = lost \cup {deals[i]} /\ UNCHANGED wire
  /\ UNCHANGED <<deals, run, counted, dealLink, server, before>>

\* Send or Receive has failed.
NoticeBreak ==
  /\ connected
  /\ ~reaches
  /\ connected' = FALSE
  /\ UNCHANGED <<deals, ea, reaches, wire, server, lost, before>>

\* TryConnect on the timer, with nothing of the old connection left to handle.
TryConnect ==
  /\ ~connected
  /\ batch = <<>>
  /\ wire = <<>>
  /\ connected' = TRUE
  /\ reaches' = TRUE
  /\ UNCHANGED <<deals, ea, wire, server, lost, before>>

\* The EA is stopped or crashes, and is started again: g_last_history_total is 0.
FreshEA ==
  /\ run < MaxRuns
  /\ run' = run + 1
  /\ counted' = 0
  /\ batch' = <<>>
  /\ connected' = FALSE
  /\ reaches' = FALSE
  /\ UNCHANGED <<deals, wire, server, lost, before>>

-----------------------------------------------------------------------------
(* The connection and the server *)

\* The connection breaks, the worker is cancelled with its queue, or the server
\* stops: the worker still comes to a first part of what was under way.
CutWire ==
  /\ reaches' = FALSE
  /\ \E n \in 0 .. Len(wire) :
       /\ wire' = SubSeq(wire, 1, n)
       /\ lost' = lost \cup {PositionOf(wire[i]) : i \in n + 1 .. Len(wire)}
  /\ UNCHANGED <<deals, ea, connected, server, before>>

\* mutant: ON CONFLICT DO NOTHING
InsertedOnly(m) == IF rows[PositionOf(m)] = 0 THEN m.total ELSE rows[PositionOf(m)]

\* upsert_deal: the message replaces the row.
Upserted(m) == m.total

\* on_deal_closed.  An upsert that raises is logged, and the message is gone.
OnDealClosed ==
  /\ wire # <<>>
  /\ wire' = Tail(wire)
  /\ LET m == Head(wire) IN
       \/ /\ rows' = [rows EXCEPT ![PositionOf(m)] = Upserted(m)]
          /\ notices' = [notices EXCEPT ![m.deal] = @ + 1]
          /\ UNCHANGED lost
       \/ lost' = lost \cup {PositionOf(m)} /\ UNCHANGED server
  /\ UNCHANGED <<deals, ea, dealLink, before>>

-----------------------------------------------------------------------------
DealsNext ==
  \/ \E p \in Positions : DealMade(p)
  \/ SyncClosedDeals \/ SendClosedDeal \/ NoticeBreak \/ TryConnect \/ FreshEA
  \/ CutWire \/ OnDealClosed

DealsSpec == DealsInit /\ [][DealsNext]_dealsVars

-----------------------------------------------------------------------------
DealsTypeOK ==
  /\ deals \in Seq(Positions) /\ Len(deals) <= MaxDeals
  /\ run \in 1 .. MaxRuns
  /\ counted \in 0 .. Len(deals)
  /\ batch \in Seq(1 .. Len(deals))
  /\ connected \in BOOLEAN
  /\ reaches \in BOOLEAN
  /\ wire \in Seq(Reports)
  /\ rows \in [Positions -> 0 .. MaxDeals]
  /\ notices \in [Places -> Nat]
  /\ lost \subseteq Positions
  /\ before \in 0 .. Len(deals)

\* p is up to date as far as the EA has counted: in its row, or in a report on its
\* way that will be written over the row.
Reported(p) ==
  \/ rows[p] >= Exits(p, counted)
  \/ \E i \in 1 .. Len(wire) : PositionOf(wire[i]) = p /\ wire[i].total >= Exits(p, counted)
  \/ \E i \in 1 .. Len(batch) : deals[batch[i]] = p

\* The EA counts deals before it has sent them, and gets no answer.  What it has
\* counted is in trades.db or will be, or the last report of the position vanished
\* on its way: nothing else loses a deal.
NoDealIsForgotten == \A p \in Positions \ lost : Reported(p)

\* A row never falls back to fewer deals of its position, in whatever order partial
\* closes, breaks and restarts send it again.
RowsNeverFall == [][\A p \in Positions : rows'[p] >= rows[p]]_dealsVars

\* A deal is announced once by each start of the EA at most, whatever is connected
\* and cut in between.
AnnouncedOncePerRun == \A i \in Places : notices[i] <= run

\* SocketBridgeEA.mq5:708: "only deals closed after the EA connected - no retroactive
\* backfill of old history".  It does not hold: g_last_history_total starts at 0, and
\* the first SyncClosedDeals sends all there is.
NoBackfill == \A i \in 1 .. Len(wire) : wire[i].deal > before
=============================================================================
