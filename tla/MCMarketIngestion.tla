-------------------------- MODULE MCMarketIngestion --------------------------
(***************************************************************************)
(* Small feeds for MarketIngestion: quote A and its correction B at one    *)
(* provider time, a quote C without a provider time, and a bar with its    *)
(* correction and its unfinished form.                                     *)
(***************************************************************************)
EXTENDS MarketIngestion

MCWatchlist == <<"ACME", "SPY">>

MCQuoteFeed ==
  {[symbol |-> "ACME", at |-> 1, value |-> "A"],
   [symbol |-> "ACME", at |-> 1, value |-> "B"],
   [symbol |-> "ACME", at |-> NoTime, value |-> "C"]}

MCBarFeed ==
  {[symbol |-> "ACME", start |-> 1, value |-> "p", final |-> TRUE],
   [symbol |-> "ACME", start |-> 1, value |-> "q", final |-> TRUE],
   [symbol |-> "ACME", start |-> 1, value |-> "p", final |-> FALSE]}
=============================================================================
