----------------------------- MODULE MCEntryWatcher -----------------------------
(* Menus: a thesis that is touched and confirmed, one that ends, and an    *)
(* impulse that is missed, pulls back and is reclaimed.                    *)
EXTENDS EntryWatcher

In(hz, view, price) == [hz |-> hz, view |-> view, price |-> price, thesis |-> "z"]
Other(hz, view, price) == [hz |-> hz, view |-> view, price |-> price, thesis |-> "y"]

MCMaxAge == [LONG |-> 9, SWING |-> 6, INTRADAY |-> 3]

Zone == {In("LONG", "armable", 100), In("SWING", "favorable", 95), In("SWING", "bad", 100),
         In("INTRADAY", "mature", 95), In("INTRADAY", "mature", 99)}

Ended == {In("LONG", "armable", 95), In("LONG", "bad", 95), Other("LONG", "armable", 95),
          In("INTRADAY", "mature", 95)}

Impulse == {In("LONG", "armable", 100), In("SWING", "favorable", 111), In("SWING", "bad", 120),
            In("INTRADAY", "rising", 110), In("INTRADAY", "bad", 120)}

MCMenus == {Zone, Ended, Impulse}
=============================================================================
