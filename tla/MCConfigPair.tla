---------------------------- MODULE MCConfigPair ----------------------------
(* Instance of ConfigPair for TLC: aflow.toml exists, workflows.toml does   *)
(* not yet; one generation changes both documents, one leaves aflow.toml.   *)
EXTENDS ConfigPairInvariant

CONSTANTS aflow, workflows

MCDocs == {aflow, workflows}
MCOriginal == [d \in MCDocs |-> IF d = aflow THEN "a0" ELSE Missing]
MCPayloads == {[d \in MCDocs |-> IF d = aflow THEN "a1" ELSE "w1"],
               [d \in MCDocs |-> IF d = aflow THEN "a0" ELSE "w2"]}

=============================================================================
