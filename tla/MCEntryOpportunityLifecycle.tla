---------------------- MODULE MCEntryOpportunityLifecycle ----------------------
(* Menus of inputs around one question each: the L2 retest circuit, Core   *)
(* evidence over other strategies' entries, parallel SwingTrade and GERI   *)
(* setups with their exits, and SHORT and leveraged positions.             *)
EXTENDS EntryOpportunityLifecycle

Watch(status) == [kind |-> "watch", watch |-> "w", status |-> status, stop |-> 2, target |-> 4]
Signal(fam, setup, level) ==
  [kind |-> "signal", fam |-> fam, setup |-> setup, level |-> level, stop |-> 2, target |-> 4]
Swing(setup, stage, exit) ==
  [kind |-> "swing", setup |-> setup, stage |-> stage, exit |-> exit, stop |-> 1, target |-> 5]
Geri(setup, stage, ends) ==
  [kind |-> "geri", setup |-> setup, stage |-> stage, ends |-> ends, stop |-> 1, target |-> 5]
Analysis(hz, view, touch, price) ==
  [kind |-> "analysis", hz |-> hz, view |-> view, touch |-> touch, price |-> price]
Bar(price, touch) == [kind |-> "bar", price |-> price, touch |-> touch]

MCLife == [watch |-> 4, LONG |-> 9, SWING |-> 4, INTRADAY |-> 2, swing |-> 3, geri |-> 2, short |-> 2]

Retests ==
  {Watch("ARMED"), Watch("IN_ZONE"), Watch("TRIGGERED"), Watch("EXPIRED"),
   Signal("CORE_ENTRY", "c", L1), Signal("CORE_ENTRY", "c", L2), Signal("CORE_ENTRY", "c", L4),
   Analysis("INTRADAY", "bullish", TRUE, 3), Analysis("INTRADAY", "bullish", FALSE, 3),
   Bar(3, TRUE)}

Authority ==
  {Watch("EARLY_ENTRY"), Watch("INVALIDATED"),
   Signal("CORE_ENTRY", "c", L2), Signal("CORE_RECOVERY", "r", L2),
   Swing("s", 3, FALSE), Geri("g", 2, FALSE),
   Analysis("SWING", "bearish", FALSE, 3), Analysis("LONG", "avoid", FALSE, 2), Bar(2, FALSE)}

Setups ==
  {Swing("s", 1, FALSE), Swing("s", 3, FALSE), Swing("t", 3, FALSE), Swing("s", None, FALSE),
   Swing("s", None, TRUE), Geri("g", 0, FALSE), Geri("g", 2, FALSE), Geri("h", 3, FALSE),
   Geri("g", None, TRUE), Signal("CORE_ENTRY", "c", L1), Bar(1, FALSE),
   [kind |-> "reconcile", listed |-> TRUE]}

Others ==
  {[kind |-> "short", setup |-> "k"], Signal("LEVERAGED", "v", ARMED), [kind |-> "cancel", setup |-> "v"],
   Bar(3, FALSE), Bar(1, FALSE), [kind |-> "refbar"], Watch("IMPULSE_EXTENDED"), Watch("ARMED"),
   Geri("g", None, FALSE), Geri("g", 2, FALSE),
   [kind |-> "reconcile", listed |-> TRUE], [kind |-> "reconcile", listed |-> FALSE]}

MCMenus == {Retests, Authority, Setups, Others}

(* The analytical signal that joins a GERI observation.                    *)
ObservedMenus == {{Geri("g", 0, FALSE), Signal("LEVERAGED", "v", ARMED), Bar(3, FALSE)}}

=============================================================================
