---------------------------- MODULE VersionCheck ----------------------------
(***************************************************************************)
(* The commands over the configuration directory: any command that loads    *)
(* the discovery document, and `version --check`, which asks the API host   *)
(* that document names for the minimum version and caches the answer in a   *)
(* second file, tied to no host and read before discovery is looked at.     *)
(***************************************************************************)
EXTENDS Discovery

CONSTANTS
  Loaders, Checkers,   \* the processes that run another command, `version --check`
  MaxTime, MaxShift    \* bounds on the clock, for TLC

ASSUME RolesAssumption == Loaders \subseteq Processes /\ Checkers \subseteq Processes

VARIABLES
  task,       \* the command each process runs
  minCache,   \* min-cli-version.json: a minimum and when it was written
  min         \* the minimum each process has

vars == <<configFile, pc, clock, cache, load, task, minCache, min>>
rest == <<configFile, clock>>

\* A minimum is the moment it was served, and that of the document which named
\* the host that served it.
Minimum == [asOf : Nat, docAsOf : Nat]

Stages == {"idle", "save", "resolve", "load", "fetching", "fetched", "loaded",
           "asking", "answered", "judge"}

Init ==
  /\ config = [k \in Keys |-> Unset] /\ intended = config
  /\ malformed = FALSE /\ copy = [p \in Processes |-> NoCopy]
  /\ pc = [p \in Processes |-> "idle"] /\ task = [p \in Processes |-> "none"]
  /\ stale = [p \in Processes |-> FALSE]
  /\ now = 0 /\ shift = 0
  /\ cache = NoDoc /\ minCache = NoDoc
  /\ force = [p \in Processes |-> FALSE]
  /\ url = [p \in Processes |-> DefaultDiscoveryURL]
  /\ doc = [p \in Processes |-> NoDoc] /\ min = [p \in Processes |-> NoDoc]
  /\ askedAt = [p \in Processes |-> 0]

Set(p) ==
  /\ SetRead(p) \/ SetSave(p) \/ SetFails(p)
  /\ UNCHANGED <<clock, cache, load, task, minCache, min>>

\* The user edits config.toml.
Edit == HandEdit /\ UNCHANGED <<clock, cache, load, task, minCache, min>>

Done(p) == End(p) /\ task' = [task EXCEPT ![p] = "none"]

-----------------------------------------------------------------------------
(* Any command *)

StartCommand(p) ==
  /\ pc[p] = "idle"
  /\ \E refresh \in BOOLEAN : Begin(p, refresh)
  /\ Move(p, "resolve") /\ task' = [task EXCEPT ![p] = "command"]
  /\ UNCHANGED <<rest, cache, url, doc, askedAt, minCache, min>>

Load(p) ==
  /\ \/ /\ \/ ResolveDiscoveryURL(p) \/ LoadFromFile(p) \/ LoadFromCache(p)
           \/ StartFetch(p) \/ ServeDoc(p) \/ Fetched(p)
        /\ UNCHANGED task
     \/ LoadFails(p) /\ task' = [task EXCEPT ![p] = "none"]
  /\ UNCHANGED <<minCache, min>>

\* The rest of the command has its document.
Finish(p) ==
  /\ pc[p] = "loaded" /\ task[p] = "command"
  /\ Done(p)
  /\ UNCHANGED <<rest, cache, minCache, min>>

-----------------------------------------------------------------------------
(* version --check *)

\* loadOrFetchMinVersion looks at its own cache first.
CheckFromCache(p) ==
  /\ pc[p] = "idle" /\ Fresh(minCache)
  /\ Begin(p, FALSE)
  /\ min' = [min EXCEPT ![p] = minCache.min]
  /\ Move(p, "judge") /\ task' = [task EXCEPT ![p] = "check"]
  /\ UNCHANGED <<rest, cache, url, doc, askedAt, minCache>>

CheckAnew(p) ==
  /\ pc[p] = "idle"
  /\ \E refresh \in BOOLEAN : (refresh \/ ~Fresh(minCache)) /\ Begin(p, refresh)
  /\ Move(p, "resolve") /\ task' = [task EXCEPT ![p] = "check"]
  /\ UNCHANGED <<rest, cache, url, doc, askedAt, minCache, min>>

AskMin(p) ==
  /\ pc[p] = "loaded" /\ task[p] = "check"
  /\ Move(p, "asking") /\ askedAt' = [askedAt EXCEPT ![p] = now]
  /\ UNCHANGED <<rest, cache, force, url, doc, task, minCache, min>>

\* The API host of the document answers.
ServeMin(p) ==
  /\ pc[p] = "asking"
  /\ Move(p, "answered")
  /\ min' = [min EXCEPT ![p] = [asOf |-> now, docAsOf |-> doc[p].asOf]]
  /\ doc' = [doc EXCEPT ![p] = NoDoc]
  /\ UNCHANGED <<rest, cache, force, url, askedAt, task, minCache>>

MinFetched(p) ==
  /\ pc[p] = "answered"
  /\ Move(p, "judge")
  /\ minCache' \in {minCache, NoDoc, [min |-> min[p], stamp |-> LocalNow]}
  /\ askedAt' = [askedAt EXCEPT ![p] = 0]
  /\ UNCHANGED <<rest, cache, force, url, doc, task, min>>

\* Bug: what the cache holds is better than nothing.
MinFallsBack(p) ==
  /\ pc[p] \in {"asking", "answered"} /\ minCache # NoDoc
  /\ Move(p, "judge")
  /\ min' = [min EXCEPT ![p] = minCache.min]
  /\ UNCHANGED <<rest, cache, load, task, minCache>>

\* No answer, or an empty or undecodable one: exit code 9, and the cache stays.
MinFails(p) ==
  /\ pc[p] \in {"asking", "answered"}
  /\ Done(p)
  /\ min' = [min EXCEPT ![p] = NoDoc]
  /\ UNCHANGED <<rest, cache, minCache>>

\* The running version is compared with the minimum.
Judge(p) ==
  /\ pc[p] = "judge"
  /\ Done(p)
  /\ min' = [min EXCEPT ![p] = NoDoc]
  /\ UNCHANGED <<rest, cache, minCache>>

Check(p) ==
  \/ CheckFromCache(p) \/ CheckAnew(p) \/ AskMin(p) \/ ServeMin(p) \/ MinFetched(p)
  \/ MinFails(p) \/ Judge(p)

-----------------------------------------------------------------------------
(* Time: only exchanges take any, and none takes longer than its client allows *)

MayWait(p) ==
  \/ pc[p] = "idle"
  \/ /\ pc[p] \in {"fetching", "fetched", "asking", "answered"}
     /\ now < askedAt[p] + MaxFetch

Tick ==
  /\ now < MaxTime /\ \A p \in Processes : MayWait(p)
  /\ now' = now + 1
  /\ UNCHANGED <<configFile, pc, shift, cache, load, task, minCache, min>>

\* The local clock is set back.
SetBack ==
  /\ shift < MaxShift
  /\ shift' = shift + 1
  /\ UNCHANGED <<configFile, pc, now, cache, load, task, minCache, min>>

Next ==
  \/ \E p \in Processes : Set(p) \/ Load(p)
  \/ \E p \in Loaders : StartCommand(p) \/ Finish(p)
  \/ \E p \in Checkers : Check(p)
  \/ Edit \/ Tick \/ SetBack

Spec == Init /\ [][Next]_vars

TypeOK ==
  /\ config \in File /\ intended \in File
  /\ malformed \in BOOLEAN /\ copy \in [Processes -> Copies \cup {NoCopy}]
  /\ pc \in [Processes -> Stages] /\ task \in [Processes -> {"none", "command", "check"}]
  /\ stale \in [Processes -> BOOLEAN] /\ force \in [Processes -> BOOLEAN]
  /\ now \in Nat /\ shift \in Nat
  /\ cache \in [doc : Docs, stamp : Int] \cup {NoDoc}
  /\ minCache \in [min : Minimum, stamp : Int] \cup {NoDoc}
  /\ url \in [Processes -> URLs]
  /\ doc \in [Processes -> Docs \cup {NoDoc}]
  /\ min \in [Processes -> Minimum \cup {NoDoc}]
  /\ askedAt \in [Processes -> Nat]

-----------------------------------------------------------------------------
(* Properties *)

\* A `config set` changes its key and no other: no setting is lost but to one
\* written from a copy that another write, or an edit, has made stale.
NoSettingIsLost == config = intended

\* A document a command uses was served, at whatever URL, no longer ago than
\* the cache's life, the exchange that brought it and what the clock was set
\* back, and the cache of one URL answers for another no longer than that;
\* with --refresh-discovery, and for a file, it is what the URL the command
\* resolved serves now, but for the exchange.
DocIsRecent ==
  \A p \in Processes : pc[p] = "loaded" =>
    /\ now - doc[p].asOf <= cacheTTL + MaxFetch + shift
    /\ force[p] \/ url[p] \in FileURLs => doc[p].url = url[p] /\ now - doc[p].asOf <= MaxFetch

\* The minimum a version is compared with is as recent; with
\* --refresh-discovery it and the host it is of are new.
MinIsRecent ==
  \A p \in Processes : pc[p] = "judge" =>
    /\ now - min[p].asOf <= cacheTTL + MaxFetch + shift
    /\ force[p] => now - min[p].asOf <= MaxFetch /\ now - min[p].docAsOf <= 2 * MaxFetch

\* The two caches one upon the other: the host the minimum is of was named by a
\* document no older than two lives, two exchanges and what the clock was set
\* back.
HostIsRecent ==
  \A p \in Processes :
    pc[p] = "judge" => now - min[p].docAsOf <= 2 * (cacheTTL + MaxFetch) + shift

-----------------------------------------------------------------------------
(* The inductive invariant *)

\* What a `config set` is about to write, from the file as it is unless it is
\* known to have changed.
CopyIsHeld ==
  \A p \in Processes : pc[p] = "save" =>
    /\ copy[p] \in Copies /\ <<copy[p].key, copy[p].value>> \in Accepted
    /\ copy[p].file["discovery_url"] \in URLs \cup {Unset}
    /\ stale[p] \/ copy[p].file = config

URLIsKnown == config["discovery_url"] \in URLs \cup {Unset}

\* What a process has when it goes on.
InHand(p) ==
  /\ pc[p] \in {"fetched", "loaded", "asking"} => doc[p] \in Docs
  /\ pc[p] \in {"answered", "judge"} => min[p] \in Minimum

\* An exchange is no older than its client's timeout, and what it brings is no
\* older than the exchange.
ExchangeIsYoung(p) ==
  /\ pc[p] \in {"fetching", "fetched", "asking", "answered"} =>
       askedAt[p] <= now /\ now <= askedAt[p] + MaxFetch
  /\ pc[p] \in {"fetching", "fetched"} => url[p] \notin FileURLs
  /\ pc[p] = "fetched" => doc[p].url = url[p] /\ askedAt[p] <= doc[p].asOf
  /\ pc[p] = "asking" =>
       /\ askedAt[p] - doc[p].asOf <= cacheTTL + MaxFetch + shift
       /\ force[p] => askedAt[p] - doc[p].asOf <= MaxFetch
  /\ pc[p] = "answered" =>
       /\ askedAt[p] <= min[p].asOf
       /\ askedAt[p] - min[p].docAsOf <= cacheTTL + MaxFetch + shift
       /\ force[p] => askedAt[p] - min[p].docAsOf <= MaxFetch

\* What a cache holds was served no longer than an exchange before the stamp.
CachesAreYoung ==
  /\ cache # NoDoc => cache.stamp <= cache.doc.asOf + MaxFetch
  /\ minCache # NoDoc =>
       /\ minCache.stamp <= minCache.min.asOf + MaxFetch
       /\ minCache.stamp <= minCache.min.docAsOf + cacheTTL + 2 * MaxFetch

IInv ==
  /\ TypeOK /\ CopyIsHeld /\ URLIsKnown /\ (\A p \in Processes : InHand(p))
  /\ NoSettingIsLost
  /\ (\A p \in Processes : ExchangeIsYoung(p)) /\ CachesAreYoung
  /\ DocIsRecent /\ MinIsRecent /\ HostIsRecent
=============================================================================
