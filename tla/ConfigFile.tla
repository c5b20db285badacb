----------------------------- MODULE ConfigFile -----------------------------
(***************************************************************************)
(* config.toml, shared by all processes: `config set` reads it, changes one *)
(* key and writes it back; every other command takes its organization and   *)
(* its discovery URL from it unless a flag or the environment names them.   *)
(* A write is one step, as AtomicFile shows of writers that do not overlap. *)
(* Those that do, and users who edit the file by hand, may leave it         *)
(* malformed; `config` is then what it said before.                         *)
(***************************************************************************)
EXTENDS Integers

CONSTANTS
  Processes,
  Keys,      \* keys of the file, "default_org" and "discovery_url" among them
  Values,    \* what a user may ask to set
  Unset,     \* the empty string
  Accepted,  \* the pairs of a key and a value validateConfigValue lets pass
  NoCopy     \* no `config set` in progress

ASSUME KeysAssumption ==
  /\ {"default_org", "discovery_url"} \subseteq Keys
  /\ Unset \notin Values /\ Accepted \subseteq Keys \X Values

VARIABLES
  config,      \* the file: a value for each key
  malformed,   \* the file does not parse
  pc,          \* where each process is
  copy,        \* what a `config set` is about to set, and the file it has read
  intended,    \* history: what was set, save for what a stale copy replaced
  stale        \* history: the file has changed since the process read it

configFile == <<config, malformed, copy, intended, stale>>

File == [Keys -> Values \cup {Unset}]
Copies == [key : Keys, value : Values, file : File]

ASSUME NoCopyAssumption == NoCopy \notin Copies

\* A write of the file makes stale what the processes have read of it.
AllStale == stale' = [q \in Processes |-> copy'[q] # NoCopy]

-----------------------------------------------------------------------------
(* config set *)

\* An unknown key, or a value the key does not take, is refused first; a file
\* that does not parse is left as it is.
SetRead(p) ==
  /\ pc[p] = "idle" /\ ~malformed
  /\ \E kv \in Accepted :
       copy' = [copy EXCEPT ![p] = [key |-> kv[1], value |-> kv[2], file |-> config]]
  /\ pc' = [pc EXCEPT ![p] = "save"]
  /\ UNCHANGED <<config, malformed, intended, stale>>

\* Bug: the file is written with the one field that was set.
OnlyField(f, key, value) == [k \in Keys |-> IF k = key THEN value ELSE Unset]

configFieldSet(f, key, value) == [f EXCEPT ![key] = value]

SetSave(p) ==
  /\ pc[p] = "save"
  /\ config' = configFieldSet(copy[p].file, copy[p].key, copy[p].value)
  /\ intended' = IF stale[p] THEN config' ELSE [intended EXCEPT ![copy[p].key] = copy[p].value]
  /\ malformed' = FALSE
  /\ copy' = [copy EXCEPT ![p] = NoCopy] /\ AllStale
  /\ pc' = [pc EXCEPT ![p] = "idle"]

SetFails(p) ==
  /\ pc[p] = "save"
  /\ copy' = [copy EXCEPT ![p] = NoCopy] /\ stale' = [stale EXCEPT ![p] = FALSE]
  /\ pc' = [pc EXCEPT ![p] = "idle"]
  /\ UNCHANGED <<config, malformed, intended>>

\* The file is broken, or repaired.
HandEdit ==
  /\ malformed' = ~malformed
  /\ UNCHANGED <<config, pc, copy, intended>>
  /\ AllStale

-----------------------------------------------------------------------------
(* What a command reads of it *)

\* What the file gives for a key: nothing at all when it is malformed (the
\* process says so once, and goes by the default).
LoadFileWithWarn(key) == IF malformed THEN Unset ELSE config[key]
=============================================================================
