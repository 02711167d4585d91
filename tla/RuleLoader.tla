----------------------------- MODULE RuleLoader -----------------------------
(***************************************************************************)
(* What a rule file is loaded to (core/src/rules/loader.rs, mod.rs): its   *)
(* rules are checked one after the other and the first that is wrong       *)
(* refuses the whole file.                                                 *)
(***************************************************************************)
EXTENDS Integers, Sequences, FiniteSets

CONSTANTS
    MaxIdLen,  \* MAX_RULE_ID_LEN
    Contents   \* what a file may hold

\* an f64: a number, or NaN or an infinity
Number == [finite : BOOLEAN, value : Int]
DefaultOr(v) == {s \in Seq(v) : Len(s) <= 1}
RuleSpec ==
    [id : STRING, len : Nat, kind : {"port_scan", "host_sweep", "dns_tunnel", "packet_rate"},
     window_secs : Number, threshold : Nat, cooldown_secs : DefaultOr(Number),
     enabled : DefaultOr(BOOLEAN), min_entropy : DefaultOr(Number)]
RuleFile == [syntax : BOOLEAN, version : Nat, rules : Seq(RuleSpec)]

ASSUME LoaderAssumption == MaxIdLen \in Nat /\ Contents \subseteq RuleFile

SUPPORTED_VERSION == 1
Given(field, default) == IF field = <<>> THEN default ELSE field[1]
default_cooldown == [finite |-> TRUE, value |-> 60]
default_entropy == [finite |-> TRUE, value |-> 3]
default_enabled == TRUE

Positive(n) == n.finite /\ n.value > 0
NotNegative(n) == n.finite /\ n.value >= 0

validate(r) ==
    /\ r.len \in 1..MaxIdLen
    /\ Positive(r.window_secs)
    /\ NotNegative(Given(r.cooldown_secs, default_cooldown))
    /\ r.threshold # 0
    /\ r.kind = "dns_tunnel" => NotNegative(Given(r.min_entropy, default_entropy))

\* whether no rule is refused, and the ids seen
Accepted(rules) ==
    LET after[i \in 0..Len(rules)] ==
            IF i = 0 THEN [ok |-> TRUE, seen |-> {}]
            ELSE LET r == rules[i] prior == after[i - 1] IN
                 [ok   |-> prior.ok /\ validate(r) /\ r.id \notin prior.seen,
                  seen |-> prior.seen \cup {r.id}]
    IN  after[Len(rules)]

parse(c) == c.syntax /\ c.version = SUPPORTED_VERSION /\ Accepted(c.rules).ok

Enabled(r) == Given(r.enabled, default_enabled)

\* RuleEngine::from_specs
from_specs(rules) ==
    LET kept[i \in 0..Len(rules)] ==
            IF i = 0 THEN <<>>
            ELSE IF Enabled(rules[i]) THEN Append(kept[i - 1], rules[i]) ELSE kept[i - 1]
    IN  kept[Len(rules)]

-----------------------------------------------------------------------------
(* What a set of rules must be for the engine to run it.                    *)
Usable(rules) ==
    /\ \A i, j \in DOMAIN rules : i # j => rules[i].id # rules[j].id
    /\ \A i \in DOMAIN rules :
          /\ rules[i].len > 0 /\ rules[i].len <= MaxIdLen
          /\ rules[i].window_secs.finite /\ rules[i].window_secs.value > 0
          /\ rules[i].threshold > 0 /\ Given(rules[i].enabled, TRUE)
=============================================================================
