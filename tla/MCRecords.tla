------------------------------ MODULE MCRecords ------------------------------
(* The records that adapters hand over in the instances of EvidenceLedger  *)
(* and ForwardLedger for TLC.                                              *)
EXTENDS Naturals

Body == [type |-> "none"]
Bar(s, open, close) == [type |-> "price_bar", session |-> s, open |-> open, close |-> close]
Rec(key, body, pat, prov, sup) ==
  [key |-> key, body |-> body, wd |-> body.type = "none", pat |-> pat, prov |-> prov, sup |-> sup]
Reported(key, body, pat, sup) == Rec(key, body, pat, "source_reported", sup)
Derived(key, body, pat, sup) == Rec(key, body, pat, "derived_from_index", sup)

(* A bar, its unapproved and its late correction, a correction that would  *)
(* be published before it, a correction of a correction, a withdrawal, and *)
(* a chain that starts with a row of unknown publication.                  *)
MCEvidenceBatches ==
  { <<Reported("first", Bar(1, 1, 1), 2, "none"), Reported("fixed", Bar(1, 1, 2), 4, "first")>>,
    <<Reported("backdated", Bar(1, 1, 3), 3, "fixed")>>,
    <<Rec("observed", Bar(1, 1, 4), 3, "observed_at_ingest", "first"),
      Derived("again", Bar(1, 1, 5), 4, "observed")>>,
    <<Reported("retracted", Body, 5, "fixed")>>,
    <<Rec("undated", Bar(1, 1, 6), 0, "unknown", "none"), Reported("dated", Bar(1, 1, 7), 3, "undated")>>,
    <<Reported("gone", Body, 4, "dated")>> }

(* Entry on day 1 and exit on day 2, whose bar comes first, a split on the *)
(* exit day, and a restatement of the exit bar published the day after.    *)
MCForwardBatches ==
  { <<Derived("exit", Bar(2, 5, 6), 4, "none"), Derived("entry", Bar(1, 0, 3), 2, "none"),
      Derived("split", [type |-> "split", session |-> 2, factor |-> 2], 4, "none")>>,
    <<Derived("restated", Bar(2, 5, 8), 5, "exit")>> }

MCSessions == {1, 2, 6}
MCDelistings == {[row |-> 2, event |-> 2]}
=============================================================================
