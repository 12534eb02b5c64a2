--------------------------- MODULE MCTaskDelivery ---------------------------
(* Instances of TaskDelivery for TLC. *)
EXTENDS TaskDelivery, TLC

CONSTANTS t1, t2, t3, w1, w2, mysql, badShard

\* One worker, one channel: t1 is a transaction, t2 a single statement.
TasksOne == {t1, t2}
OwnerOne == [t \in TasksOne |-> w1]
ChannelOne == [t \in TasksOne |-> mysql]

\* Two workers share the MySQL channel; t3 names a shard that does not exist.
TasksTwo == {t1, t2, t3}
OwnerTwo == (t1 :> w1) @@ (t2 :> w2) @@ (t3 :> w1)
ChannelTwo == (t1 :> mysql) @@ (t2 :> mysql) @@ (t3 :> badShard)
=============================================================================
