---------------------------- MODULE MCCsvImport ----------------------------
(* Files of up to three of five trades of two symbols, won and lost, bought *)
(* and sold, one at midnight, one with a quantity and fees.                *)
EXTENDS CsvImport

ClosedTrade(at, symbol, side, entry, exit) ==
    [at |-> at, symbol |-> symbol, side |-> side, entry |-> entry, exit |-> exit, qty |-> 1,
     pnl |-> IF side = "BUY" THEN exit - entry ELSE entry - exit, fees |-> 0]

MCClosed ==
    {ClosedTrade(33, "AAPL", "BUY", 5, 7), ClosedTrade(39, "TSLA", "SELL", 5, 7),
     ClosedTrade(48, "AAPL", "SELL", 7, 4), ClosedTrade(58, "TSLA", "BUY", 6, 6),
     [at |-> 60, symbol |-> "TSLA", side |-> "BUY", entry |-> 4, exit |-> 7, qty |-> 2,
      pnl |-> 5, fees |-> 1]}
=============================================================================
