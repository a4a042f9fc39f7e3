------------------------ MODULE MCGenericScheduler ------------------------
(* Instances of GenericScheduler for TLC.                                  *)
EXTENDS GenericScheduler, TLC

CONSTANTS p1, p2

MCRequests == p1 :> {"gpu"} @@ p2 :> {}

MCSchedulerName == p1 :> "default" @@ p2 :> "bare"

Symmetry == Permutations(Workers)

\* Plugins: a and b filter and score, r reserves, c does the rest.
MCRegistry ==
    [name \in {"a", "b", "r", "c"} |->
        CASE name = "r" -> {"reserve"}
          [] name = "c" -> {"queueSort", "bind", "preBind", "permit", "preFilter",
                            "postFilter", "preScore", "reserve"}
          [] OTHER -> {"filter", "score"}]

Config(name, filters, scores, others, weight) ==
    [name |-> name, weight |-> weight,
     enabled |-> [e \in Range(ExtensionPoints) |->
         CASE e = "filter" -> filters
           [] e = "score" -> scores
           [] e = "reserve" -> others \o <<"r">>
           [] e \in {"queueSort", "bind"} -> <<"c">>
           [] e = "postBind" -> <<>>
           [] OTHER -> others]]

Weights(a, b) == [name \in DOMAIN MCRegistry |-> CASE name = "a" -> a [] name = "b" -> b [] OTHER -> 0]

\* A scheduler with two profiles, and one whose weights are too large.
MCConfigSets ==
    {<<Config("default", <<"a", "b">>, <<"a", "b">>, <<"c">>, Weights(2, 0)),
       Config("bare", <<>>, <<>>, <<>>, Weights(0, 0))>>,
     <<Config("default", <<"a">>, <<"a", "b">>, <<"c">>, Weights(9, 9))>>}

Claim(found, deleted, ephemeral, controlled) ==
    [found |-> found, deleted |-> deleted, ephemeral |-> ephemeral, controlled |-> controlled]

MCClaims == {Claim(TRUE, FALSE, TRUE, TRUE), Claim(TRUE, FALSE, TRUE, FALSE)}

\* An ignorable extender for pods that ask for a GPU, which binds them, and
\* one for all pods.
Extender(managed, ignorable, binds, cached, weight) ==
    [managed |-> managed, ignorable |-> ignorable, filterVerb |-> TRUE,
     prioritizeVerb |-> TRUE, bindVerb |-> binds, nodeCacheCapable |-> cached,
     weight |-> weight]

MCExtenders == <<Extender({"gpu"}, TRUE, TRUE, TRUE, 1), Extender({}, FALSE, FALSE, FALSE, 2)>>
=============================================================================
