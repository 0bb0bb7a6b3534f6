--------------------------- MODULE MCMarketReaders ---------------------------
(***************************************************************************)
(* Small feeds for MarketReaders: a quote, one the market made earlier     *)
(* that may arrive later, and one without a provider time; two bars and a  *)
(* correction of the first.                                                *)
(***************************************************************************)
EXTENDS MarketReaders

MCQuoteFeed ==
  {[symbol |-> "ACME", at |-> 2, value |-> "A"],
   [symbol |-> "ACME", at |-> 1, value |-> "B"],
   [symbol |-> "ACME", at |-> NoTime, value |-> "C"]}

MCBarFeed ==
  {[symbol |-> "ACME", start |-> 0, value |-> "p", final |-> TRUE],
   [symbol |-> "ACME", start |-> 0, value |-> "q", final |-> TRUE],
   [symbol |-> "ACME", start |-> 1, value |-> "p", final |-> FALSE]}

MCSkews == {-1, 0, 1}
=============================================================================
