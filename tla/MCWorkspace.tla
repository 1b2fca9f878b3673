---------------------------- MODULE MCWorkspace ----------------------------
(* Workspace for TLC: two of most things, so that two requests can be about  *)
(* one of them or about two, and one fault.                                  *)
EXTENDS Workspace, TLC

CONSTANTS x1, x2, c1, c2

\* What the two generators make.
Batches == [t \in {"cross_channel", "paid_search"} |->
              IF t = "cross_channel" THEN {"t1", "t2"} ELSE {"t1"}]

\* A statement that reads at first sight and writes, two reads, and a body
\* that cannot be parsed and may write.
Bodies ==
  [r \in {"write", "read", "odd"} |->
     IF r = "odd" THEN None
     ELSE IF r = "write" THEN <<[lead |-> "WITH", words |-> {"DELETE"}, several |-> FALSE]>>
     ELSE [n \in 1..2 |-> [lead |-> "SELECT", words |-> {}, several |-> FALSE]]]

\* "long" is as long as an address may be: slugify cuts the suffix off again.
Spelling == [s \in {"short", "long"} \X (1..3) |-> IF s[1] = "long" THEN <<"long", 1>> ELSE s]

Symmetry == Permutations({x1, x2}) \cup Permutations({c1, c2})
=============================================================================
