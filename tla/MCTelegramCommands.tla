------------------------- MODULE MCTelegramCommands -------------------------
(* TelegramCommands with one chat, a stranger's, two accounts, the worker, the poller's reply
   and one dashboard handler as senders. *)
EXTENDS TelegramCommands, TLC

CONSTANTS chat, stranger, first, second, worker, poller, web

MCWorker == worker
MCPoller == poller
MCSenders == {worker, poller, web}
MCChats == {chat}
MCStrangers == {stranger}
MCAccounts == {first, second}
Symmetry == Permutations(MCAccounts)
=============================================================================
