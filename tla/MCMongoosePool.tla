--------------------------- MODULE MCMongoosePool ---------------------------
(* MongoosePool for TLC: the constants are given in the configurations. *)
EXTENDS MongoosePool
=============================================================================
