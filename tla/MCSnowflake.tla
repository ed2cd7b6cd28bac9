----------------------------- MODULE MCSnowflake -----------------------------
(* Constants for the runs of Snowflake.                                     *)
EXTENDS Snowflake

\* idgen's default generator is NewSnowflake(1) in every process.
SameNode == [g \in Generators |-> 1]
=============================================================================
