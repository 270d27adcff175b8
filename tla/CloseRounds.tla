----------------------------- MODULE CloseRounds -----------------------------
(***************************************************************************)
(* close_matching (src/python/position_close.py): close every open ticket  *)
(* of a symbol and side, of the winners or of the losers among them, one   *)
(* by one, in up to MAX_CLOSE_ROUNDS passes over the account's position    *)
(* store.  The dashboard, the Telegram bot and the risk manager call it,   *)
(* and nothing stops two calls from running at once on the same tickets.   *)
(*                                                                         *)
(* The store shows the account late, through a SnapshotChannel: a snapshot *)
(* leaves the EA, is handled by the connection's worker, and only then     *)
(* replaces the store; or it is lost with the connection.  A close is a    *)
(* call in the sense of RemoteCalls: its answer may be a timeout while the *)
(* EA still has the command in front of it.  Profit comes with a snapshot, *)
(* and nothing else looks at it: on which side of zero a ticket is, each   *)
(* snapshot says anew.                                                     *)
(***************************************************************************)
EXTENDS Naturals, Sequences, FiniteSets

CONSTANTS
  Tickets,     \* tickets of the account, open now or opened later
  Closers,     \* the calls of close_matching
  Wanted(_),   \* the tickets of a call's symbol and side
  Filter(_),   \* its filter: "all", "profit" or "loss"
  MaxRounds,   \* MAX_CLOSE_ROUNDS
  MaxInflight, \* bound: snapshots on their way
  NoTicket

ASSUME CloseAssumption ==
  /\ \A c \in Closers : Wanted(c) \subseteq Tickets /\ Filter(c) \in {"all", "profit", "loss"}
  /\ MaxRounds \in Nat \ {0}
  /\ MaxInflight \in Nat \ {0}
  /\ NoTicket \notin Tickets

VARIABLES
  unborn,    \* tickets not opened yet
  book,      \* tickets open on the account
  inflight,  \* snapshots on their way, in order: sets of tickets
  store,     \* tickets in PositionStore._positions
  gaining,   \* those of them with profit + swap > 0
  late,      \* close commands whose caller has given up, still with the EA
  call       \* the local state of each call

closeVars == <<unborn, book, inflight, store, gaining, late, call>>

\* pc: the await the call is in; todo: rest of to_close; ticket, reply: the
\* close_position it awaits; closed: closed_tickets; count: total_closed;
\* seen: history, every ticket that was in some to_close; turned: history, those
\* that the last pass found open on the other side of zero.
Calls == [pc : {"idle", "refresh", "next", "reply", "sleep", "last", "ok", "failed", "raised"},
          round : 0 .. MaxRounds - 1, todo : SUBSET Tickets, ticket : Tickets \cup {NoTicket},
          reply : {"none", "ok", "refused"}, closed : SUBSET Tickets, count : Nat,
          failed : SUBSET Tickets, seen : SUBSET Tickets, turned : SUBSET Tickets]

NewCall == [pc |-> "idle", round |-> 0, todo |-> {}, ticket |-> NoTicket, reply |-> "none",
            closed |-> {}, count |-> 0, failed |-> {}, seen |-> {}, turned |-> {}]

\* The tickets whose profit some call asks for.
Looked == UNION {Wanted(c) : c \in {d \in Closers : Filter(d) # "all"}}

CloseInit ==
  /\ book \in SUBSET Tickets
  /\ unborn = Tickets \ book
  /\ store = book
  /\ gaining \in SUBSET (store \cap Looked)
  /\ inflight = <<>>
  /\ late = {}
  /\ call = [c \in Closers |-> NewCall]

Keep == UNCHANGED <<unborn, book, inflight, store, gaining, late>>

\* The way of the snapshots from the EA to the store.
Snapshots == INSTANCE SnapshotChannel WITH coming <- inflight

-----------------------------------------------------------------------------
(* close_matching *)

\* The first pass starts with refresh_snapshot: nobody passes refresh=False.
Start(c) ==
  /\ call[c].pc = "idle"
  /\ call' = [call EXCEPT ![c].pc = "refresh"]
  /\ Keep

\* The filter of matching_positions; a ticket at zero counts as a loss.
Passes(c, t) == CASE Filter(c) = "all" -> TRUE
                  [] Filter(c) = "profit" -> t \in gaining
                  [] Filter(c) = "loss" -> t \notin gaining

\* matching_positions of the store.
Matching(c) == {t \in store \cap Wanted(c) : Passes(c, t)}

\* What a pass will close: the tickets that match, less closed_tickets.
ToClose(c) == Matching(c) \ call[c].closed

\* refresh_snapshot returns, because a positions_end was handled or because its
\* two seconds are over, and the pass reads the store.  An empty pass ends the
\* loop and clears the failures of the pass before.
AfterRefresh(c) ==
  /\ call[c].pc = "refresh"
  /\ call' = [call EXCEPT
       ![c].pc = IF ToClose(c) = {} THEN "last" ELSE "next",
       ![c].todo = ToClose(c),
       ![c].failed = {},
       ![c].seen = @ \cup ToClose(c),
       ![c].turned = (call[c].seen \cap store) \ Matching(c)]
  /\ Keep

\* refresh_snapshot catches a timeout and nothing else: when the connection is lost
\* under request_positions, close_matching ends by its exception.
RefreshRaises(c) ==
  /\ call[c].pc = "refresh"
  /\ call' = [call EXCEPT ![c].pc = "raised"]
  /\ Keep

\* await close_position(ticket) for the next ticket of the pass.
Ask(c) ==
  /\ call[c].pc = "next"
  /\ \E t \in call[c].todo :
       call' = [call EXCEPT ![c].pc = "reply", ![c].ticket = t, ![c].reply = "none",
                            ![c].todo = @ \ {t}]
  /\ Keep

\* Where the call goes when a close is answered and todo is what remains.
AfterAnswer(c) ==
  IF call[c].todo # {} THEN "next"
  ELSE IF call[c].round < MaxRounds - 1 THEN "sleep" ELSE "last"

\* {"ok": true}
Closed(c) ==
  /\ call[c].pc = "reply"
  /\ call[c].reply = "ok"
  /\ call' = [call EXCEPT ![c].pc = AfterAnswer(c),
                          ![c].closed = @ \cup {call[c].ticket},
                          ![c].count = @ + 1,
                          ![c].ticket = NoTicket,
                          ![c].reply = "none"]
  /\ Keep

\* mutant: a timeout counts as closed.
NotClosedTimeoutOk(c) ==
  /\ call[c].pc = "reply"
  /\ call' = [call EXCEPT ![c].pc = AfterAnswer(c),
                          ![c].closed = @ \cup {call[c].ticket},
                          ![c].count = @ + 1,
                          ![c].ticket = NoTicket,
                          ![c].reply = "none"]
  /\ late' = IF call[c].reply = "none" THEN late \cup {call[c].ticket} ELSE late
  /\ UNCHANGED <<unborn, book, inflight, store, gaining>>

\* A refusal, or a timeout: then the EA may have closed the ticket and the
\* answer was lost, or may still come to the command.
NotClosed(c) ==
  /\ call[c].pc = "reply"
  /\ call' = [call EXCEPT ![c].pc = AfterAnswer(c),
                          ![c].failed = @ \cup {call[c].ticket},
                          ![c].ticket = NoTicket,
                          ![c].reply = "none"]
  /\ late' = IF call[c].reply = "none" THEN late \cup {call[c].ticket} ELSE late
  /\ UNCHANGED <<unborn, book, inflight, store, gaining>>

\* mutant: a pass is not counted.
NextRoundUncounted(c) ==
  /\ call[c].pc = "sleep"
  /\ call' = [call EXCEPT ![c].pc = "refresh"]
  /\ Keep

\* The delay between two passes is over: the next one starts with a refresh.
NextRound(c) ==
  /\ call[c].pc = "sleep"
  /\ call' = [call EXCEPT ![c].pc = "refresh", ![c].round = @ + 1]
  /\ Keep

\* mutant: the result is the failures of any pass but the last.
OutcomeCounted(c) == IF call[c].count > 0 \/ call[c].seen = {} THEN "ok" ELSE "failed"

\* "ok": len(failed) == 0
Outcome(c) == IF call[c].failed = {} THEN "ok" ELSE "failed"

\* The refresh after the loop (when anything matched) ends, or raises, and the call
\* returns.
Return(c) ==
  /\ call[c].pc = "last"
  /\ call' = [call EXCEPT ![c].pc = Outcome(c)]
  /\ Keep

-----------------------------------------------------------------------------
(* The EA and the market *)

\* HandleClosePosition: CloseTicketReliable is true for a ticket that is not
\* open any more, and otherwise closes it or fails after three attempts.  The
\* reply and a snapshot follow.
EAClose(c) ==
  /\ call[c].pc = "reply"
  /\ call[c].reply = "none"
  /\ Len(inflight) < MaxInflight
  /\ \/ /\ book' = book \ {call[c].ticket}
        /\ call' = [call EXCEPT ![c].reply = "ok"]
     \/ /\ call[c].ticket \in book
        /\ call' = [call EXCEPT ![c].reply = "refused"]
        /\ UNCHANGED book
  /\ inflight' = Append(inflight, book')
  /\ UNCHANGED <<unborn, store, gaining, late>>

\* The EA comes to a command whose caller has timed out, or it never does.
EACloseLate(t) ==
  /\ t \in late
  /\ late' = late \ {t}
  /\ \/ UNCHANGED <<book, inflight>>
     \/ /\ Len(inflight) < MaxInflight
        /\ book' \in {book, book \ {t}}
        /\ inflight' = Append(inflight, book')
  /\ UNCHANGED <<unborn, store, gaining, call>>

\* Anyone else opens a position: an order in flight, a manual trade.
MarketOpen(t) ==
  /\ t \in unborn
  /\ unborn' = unborn \ {t}
  /\ book' = book \cup {t}
  /\ UNCHANGED <<inflight, store, gaining, late, call>>

\* A position reaches its SL or TP, or is closed by hand.
MarketClose(t) ==
  /\ t \in book
  /\ book' = book \ {t}
  /\ UNCHANGED <<unborn, inflight, store, gaining, late, call>>

\* The periodic SendPositionsSnapshot.  Bound: only with none on its way.
SendSnapshot ==
  /\ inflight = <<>>
  /\ Snapshots!Take(book)
  /\ UNCHANGED <<unborn, gaining, late, call>>

\* on_positions_end: the snapshot replaces the store, with the profits of its time.
HandleSnapshot ==
  /\ Snapshots!Arrive
  /\ gaining' \in SUBSET (store' \cap Looked)
  /\ UNCHANGED <<unborn, late, call>>

\* The connection ends, and with it the queue of its messages.
LoseSnapshots ==
  /\ inflight # <<>>
  /\ Snapshots!Lose
  /\ UNCHANGED <<unborn, gaining, late, call>>

-----------------------------------------------------------------------------
Steps(c) ==
  \/ AfterRefresh(c) \/ RefreshRaises(c) \/ Ask(c) \/ Closed(c) \/ NotClosed(c) \/ NextRound(c) \/ Return(c)

CloseNext ==
  \/ \E c \in Closers : Start(c) \/ Steps(c) \/ EAClose(c)
  \/ \E t \in Tickets : EACloseLate(t) \/ MarketOpen(t) \/ MarketClose(t)
  \/ SendSnapshot \/ HandleSnapshot \/ LoseSnapshots

\* Every await of the call has a timer but for the drain of a command, which ends when the
\* peer reads, its buffers have room, or the connection is lost.  The EA may be dead.
CloseFairness == \A c \in Closers : WF_closeVars(Steps(c))

CloseSpec == CloseInit /\ [][CloseNext]_closeVars /\ CloseFairness

-----------------------------------------------------------------------------
CloseTypeOK ==
  /\ unborn \subseteq Tickets
  /\ book \subseteq Tickets \ unborn
  /\ inflight \in Seq(SUBSET (Tickets \ unborn))
  /\ store \subseteq Tickets \ unborn
  /\ gaining \subseteq store
  /\ late \subseteq Tickets \ unborn
  /\ call \in [Closers -> Calls]

\* A call that reports success has left none of the tickets it ever matched
\* open: a ticket that failed in one pass and is missing from the store in a
\* later one is really gone, however old that store is.  With a filter, but for tickets
\* that its last pass found on the other side of zero.
OkMeansMatchedGone ==
  \A c \in Closers : call[c].pc = "ok" =>
    LET left == call[c].seen \cap book IN
      IF Filter(c) = "all" THEN left = {} ELSE left \subseteq call[c].turned

\* A ticket that was reported closed is not open.
ClosedMeansGone == \A c \in Closers : call[c].closed \cap book = {}

\* closed_count counts tickets: a ticket the store still shows after it was
\* closed is not closed and counted a second time.
EachTicketCountsOnce == \A c \in Closers : call[c].count = Cardinality(call[c].closed)

\* The books of a call are right at every step: what the other properties rest on.
Consistent == CloseTypeOK /\ ClosedMeansGone /\ EachTicketCountsOnce

\* The store is fed by the channel and by nothing else, whatever the calls do.
StoreIsFed == Snapshots!Spec

\* close_matching returns, with the EA dead and snapshots never coming.
CloseReturns == \A c \in Closers : (call[c].pc = "refresh") ~> (call[c].pc \in {"ok", "failed", "raised"})

\* position_close.py:45, of a ticket "whose close failed transiently": it "gets picked up on a
\* later pass rather than being left open with no retry".  With a filter it does not hold:
\* a ticket that failed, and then changed sign, is left open by a call that reports success.
FailedIsRetried == \A c \in Closers : call[c].pc = "ok" => call[c].seen \cap book = {}

\* risk_manager.py:516, on an account close that returned ok: "Every position
\* just closed - the whole account is flat".  It does not hold: the store may not show a
\* position yet, and nobody looks at one that opens meanwhile.
OkMeansFlat ==
  [][\A c \in Closers :
       Wanted(c) = Tickets /\ call[c].pc # "ok" /\ call'[c].pc = "ok" => book = {}]_closeVars
=============================================================================
