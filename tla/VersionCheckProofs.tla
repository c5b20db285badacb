------------------------- MODULE VersionCheckProofs -------------------------
(***************************************************************************)
(* Proofs about VersionCheck, for any processes, keys, URLs, cache life and *)
(* timeout.  No setting is lost because a copy of the file is the file until *)
(* it is known to be stale; a cached document is recent because its stamp is *)
(* at most an exchange after the moment it was served, by a clock that was   *)
(* never ahead.                                                             *)
(***************************************************************************)
EXTENDS VersionCheck, TLAPS

USE KeysAssumption, NoCopyAssumption, DiscoveryAssumption, RolesAssumption

-----------------------------------------------------------------------------
(* Types                                                                     *)

Typed == TypeOK /\ CopyIsHeld /\ URLIsKnown /\ \A p \in Processes : InHand(p)

\* `config set` writes settings it was given, or has read.
LEMMA SetStepsTyped ==
  ASSUME Typed, NEW p \in Processes, Set(p)
  PROVE  Typed'
  <1>0. UNCHANGED <<clock, cache, load, task, minCache, min>>
    BY DEF Set
  <1>1. CASE SetRead(p)
    <2>1. PICK kv \in Accepted :
            copy' = [copy EXCEPT ![p] = [key |-> kv[1], value |-> kv[2], file |-> config]]
      BY <1>1 DEF SetRead
    <2>2. kv[1] \in Keys /\ kv[2] \in Values /\ kv = <<kv[1], kv[2]>>
      OBVIOUS
    <2>3. DEFINE c == [key |-> kv[1], value |-> kv[2], file |-> config]
    <2>4. c \in Copies /\ <<c.key, c.value>> \in Accepted /\ c.file = config
      BY <2>2 DEF Typed, TypeOK, Copies
    <2>5. copy' \in [Processes -> Copies \cup {NoCopy}]
      BY <2>1, <2>4 DEF Typed, TypeOK
    <2>6. pc' \in [Processes -> Stages]
      BY <1>1 DEF SetRead, Typed, TypeOK, Stages
    <2>7. TypeOK' /\ URLIsKnown'
      BY <1>0, <1>1, <2>5, <2>6
      DEF SetRead, load, clock, Typed, TypeOK, URLIsKnown
    <2>8. CopyIsHeld'
      BY <1>1, <2>1, <2>4 DEF SetRead, Typed, TypeOK, CopyIsHeld, URLIsKnown
    <2>9. \A q \in Processes : InHand(q)'
      BY <1>0, <1>1 DEF SetRead, load, Typed, TypeOK, InHand
    <2>10. QED
      BY <2>7, <2>8, <2>9 DEF Typed
  <1>2. CASE SetSave(p)
    <2>1. /\ copy[p] \in Copies /\ <<copy[p].key, copy[p].value>> \in Accepted
          /\ copy[p].file["discovery_url"] \in URLs \cup {Unset}
      BY <1>2 DEF SetSave, Typed, CopyIsHeld
    <2>2. /\ copy[p].key \in Keys /\ copy[p].value \in Values /\ copy[p].file \in File
          /\ copy[p].key = "discovery_url" => copy[p].value \in URLs
      BY <2>1 DEF Copies, URLs
    <2>3. config' \in File /\ config'["discovery_url"] \in URLs \cup {Unset}
      BY <1>2, <2>1, <2>2 DEF SetSave, configFieldSet, File
    <2>4. intended' \in File
      BY <1>2, <2>2, <2>3 DEF SetSave, Typed, TypeOK, File
    <2>5. /\ copy' \in [Processes -> Copies \cup {NoCopy}] /\ stale' \in [Processes -> BOOLEAN]
          /\ pc' \in [Processes -> Stages] /\ malformed' \in BOOLEAN
      BY <1>2 DEF SetSave, AllStale, Typed, TypeOK, Stages
    <2>6. TypeOK' /\ URLIsKnown'
      BY <1>0, <1>2, <2>3, <2>4, <2>5
      DEF SetSave, load, clock, Typed, TypeOK, URLIsKnown
    <2>7. CopyIsHeld'
      BY <1>2 DEF SetSave, AllStale, Typed, TypeOK, CopyIsHeld
    <2>8. \A q \in Processes : InHand(q)'
      BY <1>0, <1>2 DEF SetSave, load, Typed, TypeOK, InHand
    <2>9. QED
      BY <2>6, <2>7, <2>8 DEF Typed
  <1>3. CASE SetFails(p)
    BY <1>0, <1>3
    DEF SetFails, load, clock, Typed, TypeOK, Stages, CopyIsHeld,
        URLIsKnown, InHand, Docs, Minimum, File, Copies, URLs
  <1>4. QED
    BY <1>0, <1>1, <1>2, <1>3
    DEF Set

\* A URL is the default, the environment's or the file's.
LEMMA LoadStepsTyped ==
  ASSUME Typed, NEW p \in Processes, Load(p)
  PROVE  Typed'
  <1>0. UNCHANGED <<minCache, min>> /\ task' \in [Processes -> {"none", "command", "check"}]
    BY DEF Load, Typed, TypeOK
  <1>1. CASE ResolveDiscoveryURL(p)
    <2>1. /\ url' \in [Processes -> URLs]
      BY <1>1
      DEF ResolveDiscoveryURL, LoadFileWithWarn,
           Typed, TypeOK, URLIsKnown, URLs
    <2>2. QED
      BY <1>0, <1>1, <2>1
      DEF ResolveDiscoveryURL, Move, configFile, clock, load, Typed,
          TypeOK, Stages, CopyIsHeld, URLIsKnown, InHand
  <1>2. CASE LoadFromFile(p)
    BY <1>0, <1>2
    DEF LoadFromFile, Loaded, Move, configFile, clock, Docs, load,
        Typed, TypeOK, Stages, CopyIsHeld, URLIsKnown, InHand, Minimum, File,
        Copies, URLs
  <1>3. CASE LoadFromCache(p)
    BY <1>0, <1>3
    DEF LoadFromCache, Loaded, Move, Fresh, configFile, clock, load,
        Typed, TypeOK, Stages, CopyIsHeld, URLIsKnown, InHand, Docs, Minimum, File,
        Copies, URLs
  <1>4. CASE StartFetch(p)
    BY <1>0, <1>4
    DEF StartFetch, MustFetch, Move, configFile, clock, load, Typed,
        TypeOK, Stages, CopyIsHeld, URLIsKnown, InHand, Docs, Minimum, File, Copies,
        URLs
  <1>5. CASE ServeDoc(p)
    BY <1>0, <1>5
    DEF ServeDoc, Move, configFile, clock, Docs, load, Typed, TypeOK,
        Stages, CopyIsHeld, URLIsKnown, InHand, Minimum, File, Copies, URLs
  <1>6. CASE Fetched(p)
    <2>1. doc[p] \in Docs /\ LocalNow \in Int
      <3>1. doc[p] \in Docs
        BY <1>6 DEF Fetched, Typed, InHand
      <3>2. QED
        BY <3>1 DEF LocalNow, Typed, TypeOK
    <2>2. [doc |-> doc[p], stamp |-> LocalNow] \in [doc : Docs, stamp : Int]
      BY <2>1
    <2>3. cache' \in [doc : Docs, stamp : Int] \cup {NoDoc}
      BY <1>6, <2>2 DEF Fetched, Typed, TypeOK
    <2>4. QED
      BY <1>0, <1>6, <2>3
      DEF Fetched, Move, configFile, clock, load, Typed, TypeOK, Stages,
          CopyIsHeld, URLIsKnown, InHand
  <1>7. CASE LoadFails(p)
    BY <1>0, <1>7
    DEF LoadFails, End, Move, configFile, clock, load, Typed, TypeOK, Stages,
        CopyIsHeld, URLIsKnown, InHand, Docs, Minimum, File, Copies, URLs
  <1>8. QED
    BY <1>0, <1>1, <1>2, <1>3, <1>4, <1>5, <1>6, <1>7
    DEF Load

\* A command begins, and ends.
LEMMA CommandStepsTyped ==
  ASSUME Typed, NEW p \in Processes, StartCommand(p) \/ Finish(p)
  PROVE  Typed'
  <1>1. CASE StartCommand(p)
    <2>1. /\ force' \in [Processes -> BOOLEAN]
      BY <1>1
      DEF StartCommand, Begin, Typed, TypeOK
    <2>2. QED
      BY <1>1, <2>1
      DEF StartCommand, Move, rest, configFile, clock, load, Typed,
          TypeOK, Stages, CopyIsHeld, URLIsKnown, InHand
  <1>2. CASE Finish(p)
    BY <1>2
    DEF Finish, Done, End, Move, rest, configFile, clock, load, Typed, TypeOK,
        Stages, CopyIsHeld, URLIsKnown, InHand, Docs, Minimum, File, Copies, URLs
  <1>3. QED
    BY <1>1, <1>2

\* The steps of `version --check`.
LEMMA CheckStepsTyped ==
  ASSUME Typed, NEW p \in Processes, Check(p)
  PROVE  Typed'
  <1>1. CASE CheckFromCache(p)
    BY <1>1
    DEF CheckFromCache, Fresh, Begin, Move, rest, configFile, clock,
        load, Typed, TypeOK, Stages, CopyIsHeld, URLIsKnown, InHand, Docs, Minimum,
        File, Copies, URLs
  <1>2. CASE CheckAnew(p)
    <2>1. force' \in [Processes -> BOOLEAN]
      BY <1>2
      DEF CheckAnew, Begin, Typed, TypeOK
    <2>2. QED
      BY <1>2, <2>1
      DEF CheckAnew, Move, rest, configFile, clock, load, Typed, TypeOK,
          Stages, CopyIsHeld, URLIsKnown, InHand
  <1>3. CASE AskMin(p)
    BY <1>3
    DEF AskMin, Move, rest, configFile, clock, load, Typed, TypeOK,
        Stages, CopyIsHeld, URLIsKnown, InHand, Docs, Minimum, File, Copies, URLs
  <1>4. CASE ServeMin(p)
    <2>1. [asOf |-> now, docAsOf |-> doc[p].asOf] \in Minimum
      BY <1>4 DEF ServeMin, Typed, TypeOK, InHand, Docs, Minimum
    <2>2. TypeOK'
      BY <1>4, <2>1
      DEF ServeMin, Move, rest, configFile, clock, Typed, TypeOK, Stages
    <2>3. CopyIsHeld' /\ URLIsKnown'
      BY <1>4 DEF ServeMin, Move, rest, configFile, Typed, TypeOK, CopyIsHeld, URLIsKnown
    <2>4. \A q \in Processes : InHand(q)'
      BY <1>4, <2>1 DEF ServeMin, Move, Typed, TypeOK, InHand
    <2>5. QED
      BY <2>2, <2>3, <2>4 DEF Typed
  <1>5. CASE MinFetched(p)
    <2>1. min[p] \in Minimum /\ LocalNow \in Int
      <3>1. min[p] \in Minimum
        BY <1>5 DEF MinFetched, Typed, InHand
      <3>2. QED
        BY <3>1 DEF LocalNow, Typed, TypeOK
    <2>2. [min |-> min[p], stamp |-> LocalNow] \in [min : Minimum, stamp : Int]
      BY <2>1
    <2>3. minCache' \in [min : Minimum, stamp : Int] \cup {NoDoc}
      BY <1>5, <2>2 DEF MinFetched, Typed, TypeOK
    <2>4. QED
      BY <1>5, <2>3
      DEF MinFetched, Move, rest, configFile, clock, load, Typed,
          TypeOK, Stages, CopyIsHeld, URLIsKnown, InHand
  <1>6. CASE MinFails(p)
    BY <1>6
    DEF MinFails, Done, End, Move, rest, configFile, clock, load, Typed, TypeOK,
        Stages, CopyIsHeld, URLIsKnown, InHand, Docs, Minimum, File, Copies, URLs
  <1>7. CASE Judge(p)
    BY <1>7
    DEF Judge, Done, End, Move, rest, configFile, clock, load, Typed, TypeOK,
        Stages, CopyIsHeld, URLIsKnown, InHand, Docs, Minimum, File, Copies, URLs
  <1>8. QED
    BY <1>1, <1>2, <1>3, <1>4, <1>5, <1>6, <1>7
    DEF Check

\* The user, time and the local clock.
LEMMA OtherStepsTyped ==
  ASSUME Typed, Edit \/ Tick \/ SetBack
  PROVE  Typed'
  <1>1. CASE Edit
    BY <1>1
    DEF Edit, HandEdit, AllStale, load, clock, configFile, Typed,
        TypeOK, CopyIsHeld, URLIsKnown, InHand
  <1>2. CASE Tick
    <2>1. TypeOK'
      BY <1>2 DEF Tick, configFile, load, Typed, TypeOK
    <2>2. CopyIsHeld' /\ URLIsKnown' /\ \A q \in Processes : InHand(q)'
      BY <1>2 DEF Tick, configFile, load, Typed, CopyIsHeld, URLIsKnown, InHand
    <2>3. QED
      BY <2>1, <2>2 DEF Typed
  <1>3. CASE SetBack
    <2>1. TypeOK'
      BY <1>3 DEF SetBack, configFile, load, Typed, TypeOK
    <2>2. CopyIsHeld' /\ URLIsKnown' /\ \A q \in Processes : InHand(q)'
      BY <1>3 DEF SetBack, configFile, load, Typed, CopyIsHeld, URLIsKnown, InHand
    <2>3. QED
      BY <2>1, <2>2 DEF Typed
  <1>4. QED
    BY <1>1, <1>2, <1>3

-----------------------------------------------------------------------------
(* The configuration file                                                    *)

\* A write from a fresh copy changes one key, and one from a stale copy is known.
LEMMA SetStepsKeepSettings ==
  ASSUME Typed, NoSettingIsLost, NEW p \in Processes, Set(p)
  PROVE  NoSettingIsLost'
  <1>1. CASE SetRead(p)
    BY <1>1
    DEF SetRead, NoSettingIsLost, Typed,
        TypeOK
  <1>2. CASE SetSave(p)
    <2>1. config' = intended'
      BY <1>2 DEF SetSave, configFieldSet, Typed, CopyIsHeld, NoSettingIsLost
    <2>2. QED
      BY <1>2, <2>1
      DEF SetSave, NoSettingIsLost
  <1>3. CASE SetFails(p)
    BY <1>3
    DEF SetFails, NoSettingIsLost, Typed,
        TypeOK
  <1>4. QED
    BY <1>1, <1>2, <1>3
    DEF Set

\* A default for what the file says is taken only when the file does not parse.
LEMMA LoadStepsKeepSettings ==
  ASSUME Typed, NoSettingIsLost, NEW p \in Processes, Load(p)
  PROVE  NoSettingIsLost'
  <1>1. CASE ResolveDiscoveryURL(p)
    BY <1>1
    DEF ResolveDiscoveryURL, Move, configFile, LoadFileWithWarn, NoSettingIsLost, Typed,
        TypeOK
  <1>2. CASE LoadFromFile(p)
    BY <1>2
    DEF LoadFromFile, configFile, NoSettingIsLost, Typed, TypeOK
  <1>3. CASE LoadFromCache(p)
    BY <1>3
    DEF LoadFromCache, configFile, NoSettingIsLost, Typed, TypeOK
  <1>4. CASE StartFetch(p)
    BY <1>4
    DEF StartFetch, configFile, NoSettingIsLost, Typed, TypeOK
  <1>5. CASE ServeDoc(p)
    BY <1>5
    DEF ServeDoc, configFile, NoSettingIsLost, Typed, TypeOK
  <1>6. CASE Fetched(p)
    BY <1>6
    DEF Fetched, configFile, NoSettingIsLost, Typed, TypeOK
  <1>7. CASE LoadFails(p)
    BY <1>7
    DEF LoadFails, End, configFile, NoSettingIsLost,
        Typed, TypeOK
  <1>8. QED
    BY <1>1, <1>2, <1>3, <1>4, <1>5, <1>6, <1>7
    DEF Load

\* So is the organization's.
LEMMA CommandStepsKeepSettings ==
  ASSUME Typed, NoSettingIsLost, NEW p \in Processes, StartCommand(p) \/ Finish(p)
  PROVE  NoSettingIsLost'
  <1>1. CASE StartCommand(p)
    BY <1>1
    DEF StartCommand, rest, configFile, NoSettingIsLost,
        Typed, TypeOK
  <1>2. CASE Finish(p)
    BY <1>2
    DEF Finish, Done, End, rest, configFile, NoSettingIsLost, Typed, TypeOK
  <1>3. QED
    BY <1>1, <1>2

\* The check resolves no organization.
LEMMA CheckStepsKeepSettings ==
  ASSUME Typed, NoSettingIsLost, NEW p \in Processes, Check(p)
  PROVE  NoSettingIsLost'
  <1>1. CASE CheckFromCache(p)
    BY <1>1
    DEF CheckFromCache, rest, configFile, NoSettingIsLost, Typed, TypeOK
  <1>2. CASE CheckAnew(p)
    BY <1>2
    DEF CheckAnew, rest, configFile, NoSettingIsLost, Typed, TypeOK
  <1>3. CASE AskMin(p)
    BY <1>3
    DEF AskMin, rest, configFile, NoSettingIsLost, Typed, TypeOK
  <1>4. CASE ServeMin(p)
    BY <1>4
    DEF ServeMin, rest, configFile, NoSettingIsLost, Typed, TypeOK
  <1>5. CASE MinFetched(p)
    BY <1>5
    DEF MinFetched, rest, configFile, NoSettingIsLost, Typed, TypeOK
  <1>6. CASE MinFails(p)
    BY <1>6
    DEF MinFails, Done, End, rest, configFile, NoSettingIsLost, Typed, TypeOK
  <1>7. CASE Judge(p)
    BY <1>7
    DEF Judge, Done, End, rest, configFile, NoSettingIsLost, Typed, TypeOK
  <1>8. QED
    BY <1>1, <1>2, <1>3, <1>4, <1>5, <1>6, <1>7
    DEF Check

\* An edit may break the file, and what it says stays.
LEMMA OtherStepsKeepSettings ==
  ASSUME Typed, NoSettingIsLost, Edit \/ Tick \/ SetBack
  PROVE  NoSettingIsLost'
  <1>1. CASE Edit
    BY <1>1
    DEF Edit, HandEdit, NoSettingIsLost,
        Typed, TypeOK
  <1>2. CASE Tick
    BY <1>2
    DEF Tick, configFile, NoSettingIsLost,
        Typed, TypeOK
  <1>3. CASE SetBack
    BY <1>3
    DEF SetBack, configFile, NoSettingIsLost, Typed, TypeOK
  <1>4. QED
    BY <1>1, <1>2, <1>3

-----------------------------------------------------------------------------
(* The caches                                                                *)

\* What DocIsRecent, MinIsRecent, HostIsRecent and the exchange under way say of one
\* process.
Mine(p) ==
  /\ ExchangeIsYoung(p)
  /\ pc[p] = "loaded" =>
       /\ now - doc[p].asOf <= cacheTTL + MaxFetch + shift
       /\ force[p] \/ url[p] \in FileURLs => doc[p].url = url[p] /\ now - doc[p].asOf <= MaxFetch
  /\ pc[p] = "judge" =>
       /\ now - min[p].asOf <= cacheTTL + MaxFetch + shift
       /\ now - min[p].docAsOf <= 2 * (cacheTTL + MaxFetch) + shift
       /\ force[p] => now - min[p].asOf <= MaxFetch /\ now - min[p].docAsOf <= 2 * MaxFetch

Young == (\A p \in Processes : Mine(p)) /\ CachesAreYoung

LEMMA YoungIsRecent == Young => DocIsRecent /\ MinIsRecent /\ HostIsRecent
  BY DEF Young, Mine, DocIsRecent, MinIsRecent, HostIsRecent

\* A step of process p leaves the clock and the other processes alone.
Framed(p) ==
  /\ now' = now /\ shift' = shift
  /\ \A q \in Processes \ {p} :
       /\ pc'[q] = pc[q] /\ askedAt'[q] = askedAt[q] /\ url'[q] = url[q]
       /\ force'[q] = force[q] /\ doc'[q] = doc[q] /\ min'[q] = min[q]

\* A stage at which a process has loaded nothing.
Quiet == {"idle", "save", "resolve", "load"}

LEMMA Numbers ==
  ASSUME Typed, NEW p \in Processes
  PROVE  /\ now \in Nat /\ shift \in Nat /\ askedAt[p] \in Nat
         /\ cacheTTL \in Nat /\ MaxFetch \in Nat
         /\ doc[p] \in Docs => doc[p].asOf \in Nat
         /\ min[p] \in Minimum => min[p].asOf \in Nat /\ min[p].docAsOf \in Nat
         /\ cache # NoDoc => /\ cache.doc \in Docs /\ cache.doc.asOf \in Nat
                             /\ cache.stamp \in Int
         /\ minCache # NoDoc => /\ minCache.min \in Minimum /\ minCache.min.asOf \in Nat
                                /\ minCache.min.docAsOf \in Nat /\ minCache.stamp \in Int
  BY DEF Typed, TypeOK, Docs, Minimum

LEMMA MineInHand ==
  ASSUME Typed, Young, NEW p \in Processes
  PROVE  Mine(p) /\ InHand(p)
  BY DEF Typed, Young

LEMMA OthersKeepTheirs ==
  ASSUME Young, NEW p \in Processes, Framed(p), Mine(p)', CachesAreYoung'
  PROVE  Young'
  <1>1. ASSUME NEW q \in Processes \ {p} PROVE Mine(q)'
    BY <1>1 DEF Young, Framed, Mine, ExchangeIsYoung
  <1>2. QED
    BY <1>1 DEF Young

LEMMA QuietIsYoung ==
  ASSUME NEW p \in Processes, pc'[p] \in Quiet
  PROVE  Mine(p)'
  BY DEF Quiet, Mine, ExchangeIsYoung

\* `config set` loads nothing.
LEMMA SetStepsKeepYoung ==
  ASSUME Typed, Young, NEW p \in Processes, Set(p)
  PROVE  Young'
  <1>0. UNCHANGED <<clock, cache, load, task, minCache, min>>
    BY DEF Set
  <1>1. CASE SetRead(p)
    <2>1. Framed(p) /\ pc'[p] \in Quiet
      BY <1>0, <1>1
      DEF SetRead, load, clock, Framed, Quiet, Typed, TypeOK
    <2>2. UNCHANGED <<cache, minCache>>
      BY <1>0, <1>1 DEF SetRead
    <2>3. QED
      BY <2>1, <2>2, OthersKeepTheirs, QuietIsYoung DEF Young, CachesAreYoung
  <1>2. CASE SetSave(p)
    <2>1. Framed(p) /\ pc'[p] \in Quiet
      BY <1>0, <1>2
      DEF SetSave, load, clock, Framed, Quiet, Typed, TypeOK
    <2>2. UNCHANGED <<cache, minCache>>
      BY <1>0, <1>2 DEF SetSave
    <2>3. QED
      BY <2>1, <2>2, OthersKeepTheirs, QuietIsYoung DEF Young, CachesAreYoung
  <1>3. CASE SetFails(p)
    <2>1. Framed(p) /\ pc'[p] \in Quiet
      BY <1>0, <1>3
      DEF SetFails, load, clock, Framed, Quiet, Typed, TypeOK
    <2>2. UNCHANGED <<cache, minCache>>
      BY <1>0, <1>3 DEF SetFails
    <2>3. QED
      BY <2>1, <2>2, OthersKeepTheirs, QuietIsYoung DEF Young, CachesAreYoung
  <1>4. QED
    BY <1>0, <1>1, <1>2, <1>3
    DEF Set

\* A document comes from an exchange, a file or a cache that is young by the
\* local clock, which is behind the true time by no more than it was set back.
LEMMA LoadStepsKeepYoung ==
  ASSUME Typed, Young, NEW p \in Processes, Load(p)
  PROVE  Young'
  <1>0. UNCHANGED <<minCache, min>>
    BY DEF Load
  <1>1. CASE ResolveDiscoveryURL(p)
    <2>1. Framed(p) /\ pc'[p] \in Quiet
      BY <1>0, <1>1
      DEF ResolveDiscoveryURL, Move, clock, Framed, Quiet, Typed, TypeOK
    <2>2. UNCHANGED <<cache, minCache>>
      BY <1>0, <1>1 DEF ResolveDiscoveryURL
    <2>3. QED
      BY <2>1, <2>2, OthersKeepTheirs, QuietIsYoung DEF Young, CachesAreYoung
  <1>2. CASE LoadFromFile(p)
    <2>1. Framed(p)
      BY <1>0, <1>2
      DEF LoadFromFile, Loaded, Move, clock, Framed, Typed, TypeOK
    <2>2. Mine(p)'
      <3>1. /\ now' = now /\ shift' = shift
            /\ pc'[p] = "loaded" /\ doc'[p] = [url |-> url[p], asOf |-> now] /\ url'[p] = url[p]
        BY <1>0, <1>2
        DEF LoadFromFile, Loaded, Move, clock, Typed, TypeOK
      <3>2. QED
        BY <3>1, Numbers DEF Mine, ExchangeIsYoung
    <2>3. CachesAreYoung'
      BY <1>0, <1>2 DEF LoadFromFile, Young, CachesAreYoung
    <2>4. QED
      BY <2>1, <2>2, <2>3, OthersKeepTheirs
  <1>3. CASE LoadFromCache(p)
    <2>1. Framed(p)
      BY <1>0, <1>3
      DEF LoadFromCache, Loaded, Move, clock, Framed, Typed, TypeOK
    <2>2. Mine(p)'
      <3>1. /\ now' = now /\ shift' = shift
            /\ pc'[p] = "loaded" /\ doc'[p] = cache.doc /\ ~force'[p] /\ url'[p] \notin FileURLs
        BY <1>0, <1>3
        DEF LoadFromCache, Loaded, Move, clock, Typed, TypeOK
      <3>2. /\ cache.doc \in Docs /\ cache.doc.asOf \in Nat
            /\ now - cache.doc.asOf <= cacheTTL + MaxFetch + shift
        BY <1>0, <1>3, Numbers, MineInHand
        DEF LoadFromCache, Fresh, LocalNow, Young, CachesAreYoung
      <3>3. QED
        BY <3>1, <3>2, Numbers DEF Mine, ExchangeIsYoung
    <2>3. CachesAreYoung'
      BY <1>0, <1>3 DEF LoadFromCache, Young, CachesAreYoung
    <2>4. QED
      BY <2>1, <2>2, <2>3, OthersKeepTheirs
  <1>4. CASE StartFetch(p)
    <2>1. Framed(p)
      BY <1>0, <1>4
      DEF StartFetch, Move, clock, Framed, Typed, TypeOK
    <2>2. Mine(p)'
      <3>1. /\ now' = now /\ shift' = shift
            /\ pc'[p] = "fetching" /\ askedAt'[p] = now /\ url'[p] \notin FileURLs
        BY <1>0, <1>4
        DEF StartFetch, MustFetch, Move, clock, Typed, TypeOK
      <3>2. QED
        BY <3>1, Numbers DEF Mine, ExchangeIsYoung
    <2>3. CachesAreYoung'
      BY <1>0, <1>4 DEF StartFetch, Young, CachesAreYoung
    <2>4. QED
      BY <2>1, <2>2, <2>3, OthersKeepTheirs
  <1>5. CASE ServeDoc(p)
    <2>1. Framed(p)
      BY <1>0, <1>5
      DEF ServeDoc, Move, clock, Framed, Typed, TypeOK
    <2>2. Mine(p)'
      <3>1. /\ now' = now /\ shift' = shift
            /\ pc'[p] = "fetched" /\ doc'[p] = [url |-> url[p], asOf |-> now]
            /\ url'[p] = url[p] /\ askedAt'[p] = askedAt[p]
        BY <1>0, <1>5
        DEF ServeDoc, Move, clock, Typed, TypeOK
      <3>2. /\ askedAt[p] <= now /\ now <= askedAt[p] + MaxFetch
            /\ url[p] \notin FileURLs
        BY <1>0, <1>5, Numbers, MineInHand
        DEF ServeDoc, Mine, ExchangeIsYoung, InHand
      <3>3. QED
        BY <3>1, <3>2, Numbers DEF Mine, ExchangeIsYoung
    <2>3. CachesAreYoung'
      BY <1>0, <1>5 DEF ServeDoc, Young, CachesAreYoung
    <2>4. QED
      BY <2>1, <2>2, <2>3, OthersKeepTheirs
  <1>6. CASE Fetched(p)
    <2>1. Framed(p)
      BY <1>0, <1>6
      DEF Fetched, Move, clock, Framed, Typed, TypeOK
    <2>2. Mine(p)'
      <3>1. /\ now' = now /\ shift' = shift
            /\ pc'[p] = "loaded" /\ doc'[p] = doc[p] /\ url'[p] = url[p]
        BY <1>0, <1>6
        DEF Fetched, Move, clock, Typed, TypeOK
      <3>2. /\ doc[p] \in Docs /\ doc[p].asOf \in Nat /\ doc[p].url = url[p]
            /\ now <= doc[p].asOf + MaxFetch
        BY <1>0, <1>6, Numbers, MineInHand
        DEF Fetched, Mine, ExchangeIsYoung, InHand
      <3>3. QED
        BY <3>1, <3>2, Numbers DEF Mine, ExchangeIsYoung
    <2>3. CachesAreYoung'
      <3>1. doc[p] \in Docs /\ doc[p].asOf \in Nat /\ now <= doc[p].asOf + MaxFetch
        BY <1>6, Numbers, MineInHand
        DEF Fetched, Mine, ExchangeIsYoung, InHand
      <3>2. minCache' = minCache
        BY <1>0
      <3>3. CASE cache' \in {cache, NoDoc}
        BY <3>2, <3>3 DEF Young, CachesAreYoung
      <3>4. CASE cache' = [doc |-> doc[p], stamp |-> LocalNow]
        BY <3>1, <3>2, <3>4, Numbers DEF LocalNow, Young, CachesAreYoung
      <3>5. QED
        BY <1>6, <3>3, <3>4 DEF Fetched
    <2>4. QED
      BY <2>1, <2>2, <2>3, OthersKeepTheirs
  <1>7. CASE LoadFails(p)
    <2>1. Framed(p) /\ pc'[p] \in Quiet
      BY <1>0, <1>7
      DEF LoadFails, End, Move, clock, Framed, Quiet, Typed, TypeOK
    <2>2. UNCHANGED <<cache, minCache>>
      BY <1>0, <1>7 DEF LoadFails
    <2>3. QED
      BY <2>1, <2>2, OthersKeepTheirs, QuietIsYoung DEF Young, CachesAreYoung
  <1>8. QED
    BY <1>0, <1>1, <1>2, <1>3, <1>4, <1>5, <1>6, <1>7
    DEF Load

\* A command that begins has loaded nothing.
LEMMA CommandStepsKeepYoung ==
  ASSUME Typed, Young, NEW p \in Processes, StartCommand(p) \/ Finish(p)
  PROVE  Young'
  <1>1. CASE StartCommand(p)
    <2>1. Framed(p) /\ pc'[p] \in Quiet
      BY <1>1
      DEF StartCommand, Begin, Move, rest, clock, Framed, Quiet, Typed, TypeOK
    <2>2. UNCHANGED <<cache, minCache>>
      BY <1>1 DEF StartCommand, rest
    <2>3. QED
      BY <2>1, <2>2, OthersKeepTheirs, QuietIsYoung DEF Young, CachesAreYoung
  <1>2. CASE Finish(p)
    <2>1. Framed(p) /\ pc'[p] \in Quiet
      BY <1>2
      DEF Finish, Done, End, Move, rest, clock, Framed, Quiet, Typed, TypeOK
    <2>2. UNCHANGED <<cache, minCache>>
      BY <1>2 DEF Finish, rest
    <2>3. QED
      BY <2>1, <2>2, OthersKeepTheirs, QuietIsYoung DEF Young, CachesAreYoung
  <1>3. QED
    BY <1>1, <1>2

\* A minimum comes from the host of a recent document, or from its own cache.
LEMMA CheckStepsKeepYoung ==
  ASSUME Typed, Young, NEW p \in Processes, Check(p)
  PROVE  Young'
  <1>1. CASE CheckFromCache(p)
    <2>1. Framed(p)
      BY <1>1
      DEF CheckFromCache, Begin, Move, rest, clock, Framed, Typed, TypeOK
    <2>2. Mine(p)'
      <3>1. /\ now' = now /\ shift' = shift
            /\ pc'[p] = "judge" /\ min'[p] = minCache.min /\ ~force'[p]
        BY <1>1
        DEF CheckFromCache, Begin, Move, rest, clock, Typed, TypeOK
      <3>2. /\ minCache.min.asOf \in Nat /\ minCache.min.docAsOf \in Nat
            /\ now - minCache.min.asOf <= cacheTTL + MaxFetch + shift
            /\ now - minCache.min.docAsOf <= 2 * (cacheTTL + MaxFetch) + shift
        BY <1>1, Numbers, MineInHand
        DEF CheckFromCache, Fresh, LocalNow, Young, CachesAreYoung
      <3>3. QED
        BY <3>1, <3>2, Numbers DEF Mine, ExchangeIsYoung
    <2>3. CachesAreYoung'
      BY <1>1 DEF CheckFromCache, rest, Young, CachesAreYoung
    <2>4. QED
      BY <2>1, <2>2, <2>3, OthersKeepTheirs
  <1>2. CASE CheckAnew(p)
    <2>1. Framed(p) /\ pc'[p] \in Quiet
      BY <1>2
      DEF CheckAnew, Begin, Move, rest, clock, Framed, Quiet, Typed, TypeOK
    <2>2. UNCHANGED <<cache, minCache>>
      BY <1>2 DEF CheckAnew, rest
    <2>3. QED
      BY <2>1, <2>2, OthersKeepTheirs, QuietIsYoung DEF Young, CachesAreYoung
  <1>3. CASE AskMin(p)
    <2>1. Framed(p)
      BY <1>3
      DEF AskMin, Move, rest, clock, Framed, Typed, TypeOK
    <2>2. Mine(p)'
      <3>1. /\ now' = now /\ shift' = shift
            /\ pc'[p] = "asking" /\ askedAt'[p] = now /\ doc'[p] = doc[p] /\ force' = force
        BY <1>3
        DEF AskMin, Move, rest, clock, Typed, TypeOK
      <3>2. /\ doc[p].asOf \in Nat /\ now - doc[p].asOf <= cacheTTL + MaxFetch + shift
            /\ force[p] => now - doc[p].asOf <= MaxFetch
        BY <1>3, Numbers, MineInHand
        DEF AskMin, Mine, ExchangeIsYoung, InHand
      <3>3. QED
        BY <3>1, <3>2, Numbers DEF Mine, ExchangeIsYoung
    <2>3. CachesAreYoung'
      BY <1>3 DEF AskMin, rest, Young, CachesAreYoung
    <2>4. QED
      BY <2>1, <2>2, <2>3, OthersKeepTheirs
  <1>4. CASE ServeMin(p)
    <2>1. Framed(p)
      BY <1>4
      DEF ServeMin, Move, rest, clock, Framed, Typed, TypeOK
    <2>2. Mine(p)'
      <3>1. /\ now' = now /\ shift' = shift
            /\ pc'[p] = "answered" /\ min'[p] = [asOf |-> now, docAsOf |-> doc[p].asOf]
            /\ askedAt'[p] = askedAt[p] /\ force' = force
        BY <1>4
        DEF ServeMin, Move, rest, clock, Typed, TypeOK
      <3>2. /\ askedAt[p] <= now /\ now <= askedAt[p] + MaxFetch /\ doc[p].asOf \in Nat
            /\ askedAt[p] - doc[p].asOf <= cacheTTL + MaxFetch + shift
            /\ force[p] => askedAt[p] - doc[p].asOf <= MaxFetch
        BY <1>4, Numbers, MineInHand
        DEF ServeMin, Mine, ExchangeIsYoung, InHand
      <3>3. QED
        BY <3>1, <3>2, Numbers DEF Mine, ExchangeIsYoung
    <2>3. CachesAreYoung'
      BY <1>4 DEF ServeMin, rest, Young, CachesAreYoung
    <2>4. QED
      BY <2>1, <2>2, <2>3, OthersKeepTheirs
  <1>5. CASE MinFetched(p)
    <2>1. Framed(p)
      BY <1>5
      DEF MinFetched, Move, rest, clock, Framed, Typed, TypeOK
    <2>2. Mine(p)'
      <3>1. /\ now' = now /\ shift' = shift
            /\ pc'[p] = "judge" /\ min'[p] = min[p] /\ force' = force
        BY <1>5
        DEF MinFetched, Move, rest, clock, Typed, TypeOK
      <3>2. /\ min[p] \in Minimum /\ min[p].asOf \in Nat /\ min[p].docAsOf \in Nat
            /\ now <= min[p].asOf + MaxFetch
            /\ now - min[p].docAsOf <= cacheTTL + 2 * MaxFetch + shift
            /\ force[p] => now - min[p].docAsOf <= 2 * MaxFetch
        BY <1>5, Numbers, MineInHand
        DEF MinFetched, Mine, ExchangeIsYoung, InHand
      <3>3. QED
        BY <3>1, <3>2, Numbers DEF Mine, ExchangeIsYoung
    <2>3. CachesAreYoung'
      <3>1. /\ min[p] \in Minimum /\ min[p].asOf \in Nat /\ min[p].docAsOf \in Nat
            /\ now <= min[p].asOf + MaxFetch
            /\ now - min[p].docAsOf <= cacheTTL + 2 * MaxFetch + shift
            /\ force[p] => now - min[p].docAsOf <= 2 * MaxFetch
        BY <1>5, Numbers, MineInHand
        DEF MinFetched, Mine, ExchangeIsYoung, InHand
      <3>2. cache' = cache
        BY <1>5 DEF MinFetched
      <3>3. CASE minCache' \in {minCache, NoDoc}
        BY <3>2, <3>3 DEF Young, CachesAreYoung
      <3>4. CASE minCache' = [min |-> min[p], stamp |-> LocalNow]
        BY <3>1, <3>2, <3>4, Numbers DEF LocalNow, Young, CachesAreYoung
      <3>5. QED
        BY <1>5, <3>3, <3>4 DEF MinFetched
    <2>4. QED
      BY <2>1, <2>2, <2>3, OthersKeepTheirs
  <1>6. CASE MinFails(p)
    <2>1. Framed(p) /\ pc'[p] \in Quiet
      BY <1>6
      DEF MinFails, Done, End, Move, rest, clock, Framed, Quiet, Typed, TypeOK
    <2>2. UNCHANGED <<cache, minCache>>
      BY <1>6 DEF MinFails, rest
    <2>3. QED
      BY <2>1, <2>2, OthersKeepTheirs, QuietIsYoung DEF Young, CachesAreYoung
  <1>7. CASE Judge(p)
    <2>1. Framed(p) /\ pc'[p] \in Quiet
      BY <1>7
      DEF Judge, Done, End, Move, rest, clock, Framed, Quiet, Typed, TypeOK
    <2>2. UNCHANGED <<cache, minCache>>
      BY <1>7 DEF Judge, rest
    <2>3. QED
      BY <2>1, <2>2, OthersKeepTheirs, QuietIsYoung DEF Young, CachesAreYoung
  <1>8. QED
    BY <1>1, <1>2, <1>3, <1>4, <1>5, <1>6, <1>7
    DEF Check

\* Time passes in exchanges only, and the bounds move with the local clock.
LEMMA OtherStepsKeepYoung ==
  ASSUME Typed, Young, Edit \/ Tick \/ SetBack
  PROVE  Young'
  <1>1. UNCHANGED <<pc, cache, load, minCache, min>>
    BY DEF Edit, HandEdit, Tick, SetBack
  <1>2. CachesAreYoung'
    BY <1>1 DEF Young, CachesAreYoung
  <1>3. now' \in Nat /\ shift' \in Nat /\ shift' >= shift
    BY DEF Edit, Tick, SetBack, clock, Typed, TypeOK
  <1>4. ASSUME NEW q \in Processes PROVE Mine(q)'
    <2>1. now' = now \/ (now' = now + 1 /\ MayWait(q))
      BY <1>4 DEF Edit, Tick, SetBack, clock
    <2>2. CASE now' = now
      BY <1>1, <1>3, <1>4, <2>2, Numbers, MineInHand
      DEF load, Mine, ExchangeIsYoung, InHand
    <2>3. CASE now' = now + 1 /\ MayWait(q)
      BY <1>1, <1>3, <1>4, <2>3, Numbers, MineInHand
      DEF MayWait, load, Mine, ExchangeIsYoung, InHand
    <2>4. QED
      BY <2>1, <2>2, <2>3
  <1>5. QED
    BY <1>2, <1>4 DEF Young

-----------------------------------------------------------------------------
(* The invariant                                                             *)

Inv == Typed /\ NoSettingIsLost /\ Young

LEMMA InvIsIInv == Inv <=> IInv
  BY DEF Inv, IInv, Typed, NoSettingIsLost, Young, Mine, DocIsRecent, MinIsRecent,
         HostIsRecent

LEMMA InitEstablishes == Init => Inv
  <1>1. SUFFICES ASSUME Init PROVE Inv
    OBVIOUS
  <1>2. DefaultDiscoveryURL \in URLs
    BY DEF URLs
  <1>3. config \in File /\ intended \in File /\ config["discovery_url"] = Unset
    BY <1>1 DEF Init, File
  <1>4. TypeOK
    BY <1>1, <1>2, <1>3 DEF Init, TypeOK, Stages
  <1>5. Typed
    BY <1>1, <1>3, <1>4 DEF Init, Typed, CopyIsHeld, URLIsKnown, InHand
  <1>6. NoSettingIsLost
    BY <1>1 DEF Init, NoSettingIsLost
  <1>7. Young
    BY <1>1 DEF Init, Young, Mine, ExchangeIsYoung, CachesAreYoung
  <1>8. QED
    BY <1>5, <1>6, <1>7 DEF Inv

LEMMA StepPreserves ==
  ASSUME Inv, [Next]_vars
  PROVE  Inv'
  <1>1. ASSUME NEW p \in Processes, Set(p)
        PROVE  Inv'
    BY <1>1, SetStepsTyped, SetStepsKeepSettings, SetStepsKeepYoung DEF Inv
  <1>2. ASSUME NEW p \in Processes, Load(p)
        PROVE  Inv'
    BY <1>2, LoadStepsTyped, LoadStepsKeepSettings, LoadStepsKeepYoung DEF Inv
  <1>3. ASSUME NEW p \in Processes, StartCommand(p) \/ Finish(p)
        PROVE  Inv'
    BY <1>3, CommandStepsTyped, CommandStepsKeepSettings, CommandStepsKeepYoung DEF Inv
  <1>4. ASSUME NEW p \in Processes, Check(p)
        PROVE  Inv'
    BY <1>4, CheckStepsTyped, CheckStepsKeepSettings, CheckStepsKeepYoung DEF Inv
  <1>5. CASE Edit \/ Tick \/ SetBack
    BY <1>5, OtherStepsTyped, OtherStepsKeepSettings, OtherStepsKeepYoung DEF Inv
  <1>6. CASE UNCHANGED vars
    <2>1. UNCHANGED <<config, malformed, copy, intended, stale, pc, now, shift,
                      cache, force, url, doc, askedAt, task, minCache, min>>
      BY <1>6 DEF vars, configFile, clock, load
    <2>2. Typed'
      BY <2>1 DEF Inv, Typed, TypeOK, CopyIsHeld, URLIsKnown, InHand
    <2>3. NoSettingIsLost'
      BY <2>1 DEF Inv, NoSettingIsLost
    <2>4. Young'
      BY <2>1 DEF Inv, Young, Mine, ExchangeIsYoung, CachesAreYoung
    <2>5. QED
      BY <2>2, <2>3, <2>4 DEF Inv
  <1>7. QED
    BY <1>1, <1>2, <1>3, <1>4, <1>5, <1>6 DEF Next

LEMMA Invariant == Spec => []Inv
  BY InitEstablishes, StepPreserves, PTL DEF Spec

-----------------------------------------------------------------------------
(* The theorems                                                              *)

\* The files, and what every process has of them, keep their types.
THEOREM TypeCorrect == Spec => []TypeOK
  <1>1. Inv => TypeOK
    BY DEF Inv, Typed
  <1>2. QED
    BY <1>1, Invariant, PTL

\* `config set` loses no setting, whatever the keys and however many processes,
\* but for what a copy known to be stale replaces.
THEOREM SettingsAreKept == Spec => []NoSettingIsLost
  <1>1. Inv => NoSettingIsLost
    BY DEF Inv, NoSettingIsLost
  <1>2. QED
    BY <1>1, Invariant, PTL

\* A command's discovery document is as recent as the cache's life allows.
THEOREM DocumentsAreRecent == Spec => []DocIsRecent
  <1>1. Inv => DocIsRecent
    BY YoungIsRecent DEF Inv
  <1>2. QED
    BY <1>1, Invariant, PTL

\* So is the minimum version.
THEOREM MinimumsAreRecent == Spec => []MinIsRecent
  <1>1. Inv => MinIsRecent
    BY YoungIsRecent DEF Inv
  <1>2. QED
    BY <1>1, Invariant, PTL

\* So is the host it was asked of, through two caches in a row.
THEOREM HostsAreRecent == Spec => []HostIsRecent
  <1>1. Inv => HostIsRecent
    BY YoungIsRecent DEF Inv
  <1>2. QED
    BY <1>1, Invariant, PTL
=============================================================================
