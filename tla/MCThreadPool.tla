----------------------------- MODULE MCThreadPool -----------------------------
(* Two worker threads beside the main thread.  Four roots, so that a third *)
(* worker would be started without the maxThreads bound; root 1 enqueues   *)
(* item 5 while the others run.  Every subset of the items may fail.       *)
EXTENDS ThreadPool, TLC

MCItems == 1..5
MCRootSeq == <<1, 2, 3, 4>>
MCChildren == (1 :> <<5>>) @@ (2 :> <<>>) @@ (3 :> <<>>) @@ (4 :> <<>>) @@ (5 :> <<>>)
=============================================================================
