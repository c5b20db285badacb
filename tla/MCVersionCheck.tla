--------------------------- MODULE MCVersionCheck ---------------------------
(* VersionCheck for TLC. *)
EXTENDS VersionCheck

MCKeys     == {"default_org", "discovery_url"}
MCAccepted == {<<"default_org", "acme">>, <<"discovery_url", "file">>}

\* To keep the run small the clock moves only while config.toml is as it first
\* was: URLs then differ by the environment, which may name any of them.
Pristine == config = [k \in Keys |-> Unset] /\ ~malformed /\ \A p \in Processes : pc[p] # "save"

\* Of the last moments only those of the caches' life matter: the loader's commands
\* are over by then.
Quiet == now < MaxTime - 1 \/ \A p \in Loaders : pc[p] = "idle"
Small == (now = 0 \/ Pristine) /\ Quiet
=============================================================================
