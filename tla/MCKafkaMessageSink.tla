-------------------------- MODULE MCKafkaMessageSink --------------------------
(* Keys k1 and k2 in partition 0, k3 in partition 1; a post of four pairs  *)
(* needs three messages, with two buffers.                                 *)
EXTENDS KafkaMessageSink, TLC

CONSTANTS k1, k2, k3

MCHash == k1 :> 0 @@ k2 :> 2 @@ k3 :> 1
MCPosts == {<<>>, <<k3>>, <<k1, k3, k2, k1>>}
===============================================================================
