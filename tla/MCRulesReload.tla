--------------------------- MODULE MCRulesReload ---------------------------
(* Two files that are saved with rules that can and that cannot be loaded.  *)
EXTENDS RulesReload

n(v) == [finite |-> TRUE, value |-> v]
NaN == [finite |-> FALSE, value |-> 0]

Rule(id, kind, window) ==
    [id |-> id, len |-> 1, kind |-> kind, window_secs |-> n(window), threshold |-> 1,
     cooldown_secs |-> <<>>, enabled |-> <<>>, min_entropy |-> <<>>]
scan == Rule("scan", "port_scan", 1)
rate == Rule("rate", "packet_rate", 2)
File(rules) == [syntax |-> TRUE, version |-> 1, rules |-> rules]

MCContents ==
    {File(<<scan, [rate EXCEPT !.enabled = <<FALSE>>]>>),
     File(<<scan, rate, scan>>),
     File(<<[rate EXCEPT !.cooldown_secs = <<n(0)>>]>>),
     File(<<rate, [scan EXCEPT !.window_secs = NaN]>>)}
=============================================================================
