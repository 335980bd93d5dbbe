------------------------- MODULE MCKafkaMessageSource -------------------------
(* Topic t1 has two partitions and changes its value size; topic t2 starts *)
(* with a beacon.                                                          *)
EXTENDS KafkaMessageSource, TLC

CONSTANTS t1, t2, a, b, c

Data(n, s) == [pairs |-> n, value_size |-> s]
MCTopicOf == a :> t1 @@ b :> t1 @@ c :> t2
MCLog == a :> <<Data(3, 1), Data(1, 2)>> @@ b :> <<Data(1, 1), Data(1, 1)>>
         @@ c :> <<Data(0, 1), Data(1, 1)>>
===============================================================================
