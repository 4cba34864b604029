------------------------------ MODULE MCModelStore -----------------------------
(* An instance of ModelStore: a job that writes two objects, more than one  *)
(* listing of S3 returns, and stores that are all of the same type.         *)
EXTENDS ModelStore

MCDir == [k \in ResultKey |-> "learner"]
MCKinds == {[b \in Bucket |-> t] : t \in {"s3", "swift"}}
================================================================================
