---------------------------- MODULE MCPaperEntryExit ----------------------------
(* Protected Core entries with a narrow and a wide stop, an unprotected    *)
(* one and Core Recovery entries, one of them taken inside the first       *)
(* bucket, with bars of at most Range ticks.                               *)
EXTENDS PaperEntryExit

CONSTANT MaxPrice, Range

MCPrices == 0..MaxPrice

MCCandles ==
  {k \in [o : MCPrices, h : MCPrices, l : MCPrices, c : MCPrices] :
     /\ k.l <= k.o /\ k.l <= k.c /\ k.o <= k.h /\ k.c <= k.h
     /\ k.h - k.l <= Range}

MCEntries ==
  {[price |-> 2, stop |-> 1, target |-> 5, ref |-> None, protected |-> TRUE, reached |-> 0],
   [price |-> 2, stop |-> 0, target |-> MaxPrice + 1, ref |-> None, protected |-> TRUE, reached |-> 0],
   [price |-> 2, stop |-> 1, target |-> 3, ref |-> None, protected |-> FALSE, reached |-> 0],
   [price |-> 3, stop |-> 0, target |-> MaxPrice + 1, ref |-> 3, protected |-> TRUE, reached |-> 0],
   [price |-> 3, stop |-> 0, target |-> 4, ref |-> 2, protected |-> TRUE, reached |-> 1]}

=============================================================================
