---------------------------- MODULE MCHttpServer ----------------------------
(* HttpServer with the builds the templates and macros allow.              *)
EXTENDS HttpServer

AllBuilds == [adaptor : {"tcp", "ssl"}, collection : {"map", "hash_map"}]

HashMapBuilds == {b \in AllBuilds : b.collection = "hash_map"}

DefaultBuild == {[adaptor |-> "tcp", collection |-> "map"]}

(* The bounds on the calls.                                                *)
TwoCalls == [b \in Builds |-> 2]

FewerWithThreads == [b \in Builds |-> IF b.collection = "map" THEN 3 ELSE 1]
=============================================================================
