--------------------------- MODULE MCConfigurator ---------------------------
(* Two servers one after the other; two configuration files of one project,  *)
(* of which a server only ever reads the standard one.                       *)
EXTENDS Configurator

TheFiles == {"config/config.yaml", "config/other.yaml"}
TheReads == [f \in TheFiles |-> "config/config.yaml"]
ByHand   == [port |-> 9000, secure |-> TRUE, password |-> TRUE]
OnDisk(s) == [f \in TheFiles |-> IF f = "config/config.yaml" THEN s ELSE NoFile]
TheFilesAtFirst == {OnDisk(NoFile), OnDisk(ByHand)}
TheBudgets == {[k \in External |-> IF k = one THEN 1 ELSE 0] : one \in External}
TheJoins == <<"worker">>
=============================================================================
