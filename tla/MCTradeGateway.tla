--------------------------- MODULE MCTradeGateway ---------------------------
(* TradeGateway with three calls and one reconnect of the EA. *)
EXTENDS TradeGateway
=============================================================================
