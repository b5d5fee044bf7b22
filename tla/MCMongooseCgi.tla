--------------------------- MODULE MCMongooseCgi ---------------------------
(* Constants of MongooseCgi for TLC. *)
EXTENDS MongooseCgi

=============================================================================
