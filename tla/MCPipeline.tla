---------------------------- MODULE MCPipeline ----------------------------
(* Small instances of Pipeline.                                            *)
EXTENDS Pipeline

(* xmanager with two jobs of one trial, kind with a last job that is cut,  *)
(* kfp with as many tiers as trials and with fewer.                        *)
MCTrialCounts ==
  [xmanager |-> {2}, tmp |-> {1}, kind |-> {3}, kfp |-> {2, 4}]
MCPerWorker ==
  [xmanager |-> 1, tmp |-> 1, kind |-> 2, kfp |-> 4]
=============================================================================
