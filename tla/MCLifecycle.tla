---------------------------- MODULE MCLifecycle ----------------------------
(* Instances of Lifecycle for TLC. *)
EXTENDS Lifecycle

Option(wait, again, attempts, timeout) ==
    [waitOnFirstConnect |-> wait, reconnect |-> again,
     maxReconnectAttempts |-> attempts, timeout |-> timeout]

\* With a timeout every timer exists, so what holds then holds without one.
TimedOptions ==
    {Option(FALSE, TRUE, 1, TRUE), Option(FALSE, TRUE, 0, TRUE),
     Option(TRUE, TRUE, -1, TRUE), Option(FALSE, FALSE, 1, TRUE)}

LimitedOptions == {Option(FALSE, TRUE, 1, TRUE), Option(TRUE, TRUE, 1, FALSE)}
UnlimitedOptions == {Option(FALSE, TRUE, -1, TRUE), Option(TRUE, TRUE, -1, TRUE)}

\* An INFO names the discovered servers, or the configured ones only.
Gossiping == [stable |-> {}, gossip |-> {Discovered, Configured}]
Failing == [stable |-> {}, gossip |-> {}]
OneStable == [stable |-> {CHOOSE s \in Configured : TRUE}, gossip |-> {Configured}]

Setting(opts, env) == [options : opts, environment : {env}]
SafetySettings == Setting(TimedOptions, Gossiping)
LivenessSettings == Setting(UnlimitedOptions, OneStable) \cup Setting(LimitedOptions, Failing)
TimeoutSettings == Setting(TimedOptions, Failing)

\* The configured servers are interchangeable.
Interchangeable == Permutations(Configured)
=============================================================================
