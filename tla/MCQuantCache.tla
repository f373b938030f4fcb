----------------------------- MODULE MCQuantCache -----------------------------
(* The quant cache for TLC: lead-lag over clusters over records. *)
EXTENDS QuantCache, TLC

LeadLagChain == {<<"records", "clusters", "records", "leadlag">>}
Requesters == Permutations(Threads)
=============================================================================
