---------------------------- MODULE MCCloseRounds ----------------------------
(* CloseRounds with two overlapping calls: one for the whole account, one for the
   winners of a symbol, which leaves out a ticket. *)
EXTENDS CloseRounds

CONSTANTS t1, t2, account, winners

MCTickets == {t1, t2}
MCClosers == {account, winners}
MCWanted(c) == IF c = account THEN MCTickets ELSE {t1}
MCFilter(c) == IF c = account THEN "all" ELSE "profit"

JustOne == {t1}
JustWinners == {winners}
=============================================================================
