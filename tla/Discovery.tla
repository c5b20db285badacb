------------------------------ MODULE Discovery -----------------------------
(***************************************************************************)
(* config.LoadDiscovery over the cache discovery.json, which all processes  *)
(* share and which says when it was written but not from which URL.         *)
(*                                                                          *)
(* What a URL serves changes with time, so a document is the URL it came    *)
(* from and the moment it was served.  `now` is the true time; the local    *)
(* clock is behind it by `shift`, all the steps back it was ever set (steps *)
(* forward only end a cache's life sooner).                                 *)
(***************************************************************************)
EXTENDS ConfigFile

CONSTANTS
  WebURLs, FileURLs, CleartextURLs,   \* by scheme: https, file, http
  DefaultDiscoveryURL,
  cacheTTL,
  MaxFetch,    \* the timeout of the HTTP clients
  NoDoc        \* no document, no cache, or one that does not decode

URLs == WebURLs \cup FileURLs \cup CleartextURLs
Docs == [url : URLs, asOf : Nat]

ASSUME DiscoveryAssumption ==
  /\ DefaultDiscoveryURL \in WebURLs
  /\ FileURLs \cap (WebURLs \cup CleartextURLs) = {} /\ WebURLs \cap CleartextURLs = {}
  /\ \A kv \in Accepted : kv[1] = "discovery_url" => kv[2] \in WebURLs \cup FileURLs
  /\ cacheTTL \in Nat /\ MaxFetch \in Nat
  /\ NoDoc \notin Docs

VARIABLES
  now, shift,
  cache,     \* discovery.json: a document and when it was written
  force,     \* --refresh-discovery
  url,       \* what each process has resolved
  doc,       \* what it has loaded
  askedAt    \* when its request left (0 when it has none on its way)

clock == <<now, shift>>
load  == <<force, url, doc, askedAt>>

LocalNow == now - shift

\* Bug: an entry that decodes is used, whatever its age.
FreshForever(entry) == entry # NoDoc

Fresh(entry) == entry # NoDoc /\ LocalNow - entry.stamp <= cacheTTL

Move(p, stage) == pc' = [pc EXCEPT ![p] = stage]

Begin(p, refresh) == force' = [force EXCEPT ![p] = refresh]

\* The command ends and what it had in memory is gone.
End(p) ==
  /\ Move(p, "idle")
  /\ force' = [force EXCEPT ![p] = FALSE]
  /\ url' = [url EXCEPT ![p] = DefaultDiscoveryURL]
  /\ doc' = [doc EXCEPT ![p] = NoDoc] /\ askedAt' = [askedAt EXCEPT ![p] = 0]

\* env var > config file > DefaultDiscoveryURL
ResolveDiscoveryURL(p) ==
  /\ pc[p] = "resolve"
  /\ \E u \in URLs \cup {LoadFileWithWarn("discovery_url")} :
       url' = [url EXCEPT ![p] = IF u = Unset THEN DefaultDiscoveryURL ELSE u]
  /\ Move(p, "load")
  /\ UNCHANGED <<configFile, clock, cache, force, doc, askedAt>>

-----------------------------------------------------------------------------
(* LoadDiscovery *)

Loaded(p, d) == Move(p, "loaded") /\ doc' = [doc EXCEPT ![p] = d]

LoadFromFile(p) ==
  /\ pc[p] = "load" /\ url[p] \in FileURLs
  /\ Loaded(p, [url |-> url[p], asOf |-> now])
  /\ UNCHANGED <<configFile, clock, cache, force, url, askedAt>>

\* Bug: a cache that decodes is used, whatever its age.
LoadFromAnyCache(p) ==
  /\ pc[p] = "load" /\ url[p] \notin FileURLs
  /\ ~force[p] /\ cache # NoDoc
  /\ Loaded(p, cache.doc)
  /\ UNCHANGED <<configFile, clock, cache, force, url, askedAt>>

LoadFromCache(p) ==
  /\ pc[p] = "load" /\ url[p] \notin FileURLs
  /\ ~force[p] /\ Fresh(cache)
  /\ Loaded(p, cache.doc)
  /\ UNCHANGED <<configFile, clock, cache, force, url, askedAt>>

MustFetch(p) == pc[p] = "load" /\ url[p] \notin FileURLs /\ (force[p] \/ ~Fresh(cache))

\* http:// is fetched only where CYODA_CLOUD_INSECURE_DISCOVERY allows it.
StartFetch(p) ==
  /\ MustFetch(p)
  /\ Move(p, "fetching") /\ askedAt' = [askedAt EXCEPT ![p] = now]
  /\ UNCHANGED <<configFile, clock, cache, force, url, doc>>

\* The document leaves its server.
ServeDoc(p) ==
  /\ pc[p] = "fetching"
  /\ Move(p, "fetched") /\ doc' = [doc EXCEPT ![p] = [url |-> url[p], asOf |-> now]]
  /\ UNCHANGED <<configFile, clock, cache, force, url, askedAt>>

\* writeCache is best effort: it may fail, it may collide with another writer
\* and leave a file that does not decode, and it overwrites what another
\* process has written since.
Fetched(p) ==
  /\ pc[p] = "fetched"
  /\ Move(p, "loaded")
  /\ cache' \in {cache, NoDoc, [doc |-> doc[p], stamp |-> LocalNow]}
  /\ askedAt' = [askedAt EXCEPT ![p] = 0]
  /\ UNCHANGED <<configFile, clock, force, url, doc>>

\* A cleartext URL, no file, no answer, or one that is incomplete, a
\* placeholder or no document at all: an error, and the cache stays.
LoadFails(p) ==
  /\ pc[p] \in {"load", "fetching", "fetched"}
  /\ pc[p] = "load" => url[p] \in FileURLs \/ (MustFetch(p) /\ url[p] \in CleartextURLs)
  /\ End(p)
  /\ UNCHANGED <<configFile, clock, cache>>
=============================================================================
