--------------------------- MODULE MCKafkaCluster ---------------------------
(* KafkaCluster on small instances. *)
EXTENDS KafkaCluster, TLC

CONSTANTS e1, e2, h1, h2, h3, t1

\* Handlers of one kind are interchangeable.
HandlerSymmetry == Permutations(Flaky)
=============================================================================
