------------------------ MODULE AssetDownload_proof ------------------------
(***************************************************************************)
(* The properties of AssetDownload for every number of downloads, seconds  *)
(* and crashes.                                                            *)
(***************************************************************************)
EXTENDS AssetDownload, TLAPS

Stages == {"idle", "temp", "connect", "load", "rename", "partial", "publish"} \cup Files

\* The places where the directory made for this command may hold something that no
\* one has looked at yet.
Fetching == Stages \ {"idle", "temp", "connect", "publish"}

\* The complete files of a directory are those of the set done.
Holds(dir, done) ==
    \A f \in dir \cup done : (f \in dir /\ f # "short") <=> f \in done

Confs == {"lcm_gui.conf", "sounds_leds.conf"}
Animation(named) == IF named THEN {"animation"} ELSE {}

\* The transfers, with the stage that follows, and the two renames.
Leads(file, next) ==
    \/ file = "lcm_gui.conf" /\ next = "sounds_leds.conf"
    \/ file = "sounds_leds.conf" /\ next = "load"
    \/ file = "animation" /\ next = "sound"
    \/ file = "sound" /\ next = "profile.json"
    \/ file = "profile.json" /\ next = "rename"

Promotes(from, directory) ==
    \/ from = "rename" /\ directory = "downloads"
    \/ from = "partial" /\ directory = "partial"
-----------------------------------------------------------------------------
(* The inductive invariant.                                                *)

\* The directories there may be, and the one of this command: a directory of its
\* own, since commands never counts back.
PathInv ==
    /\ at \in Stages
    /\ commands \in Nat /\ now \in Nat /\ clock \in Nat
    /\ DOMAIN tree \subseteq {"tmp", "downloads", "partial"} \X Nat
    /\ temp \in {Garbage, <<"tmp", commands>>}
    /\ \A p \in DOMAIN tree : p[1] = "tmp" => p[2] <= commands
    /\ at = "temp" => /\ temp = Garbage
                      /\ \A p \in DOMAIN tree : p[1] = "tmp" => p[2] < commands

\* What the directory holds when the handler gets to the next file.
StageInv ==
    temp \in DOMAIN tree =>
        /\ at = "connect" => \A f \in tree[temp] : FALSE
        /\ at = "lcm_gui.conf" => Holds(tree[temp], {})
        /\ at = "sounds_leds.conf" => Holds(tree[temp], {"lcm_gui.conf"})
        /\ at = "load" => Holds(tree[temp], Confs)
        /\ at = "animation" => Holds(tree[temp], Confs) /\ animated
        /\ at = "sound" => Holds(tree[temp], Confs \cup Animation(animated))
        /\ at = "profile.json" =>
               Holds(tree[temp], Confs \cup Animation(animated) \cup {"sound"})
        /\ at = "rename" =>
               Holds(tree[temp],
                     Confs \cup Animation(animated) \cup {"sound", "profile.json"})

\* Only the directory of the command at work is not accounted for.
TmpInv ==
    \A p \in DOMAIN tree : p[1] = "tmp" =>
        \/ \A f \in tree[p] : FALSE
        \/ p \in abandoned
        \/ p = temp /\ at \in Fetching

\* An error is on record as soon as the handler leaves the way to downloads.
ErrorsInv ==
    /\ at = "partial" => errors
    /\ at = "publish" /\ ~errors => path = <<"downloads", now>> /\ path \in DOMAIN tree
    /\ NoErrorMeansDownloaded

DownloadInv == PathInv /\ StageInv /\ TmpInv /\ ErrorsInv
-----------------------------------------------------------------------------
LEMMA InitDownloadInv == Init => DownloadInv
  BY BoundsAssumption
  DEF Init, DownloadInv, PathInv, StageInv, TmpInv, ErrorsInv, Stages, Garbage,
      NoErrorMeansDownloaded

LEMMA NextCases ==
    ASSUME [Next]_vars
    PROVE  \/ Begin \/ Publish \/ Tick \/ Crash \/ UNCHANGED vars
           \/ \E ok \in BOOLEAN : CreateTemp(ok) \/ Connect(ok)
           \/ \E file, next : /\ Leads(file, next)
                              /\ \/ StoreCutShort(file, next)
                                 \/ \E ok, torn \in BOOLEAN :
                                        Store(file, next, ok, torn)
           \/ \E ok, animation \in BOOLEAN : Load(ok, animation)
           \/ \E from, directory : /\ Promotes(from, directory)
                                   /\ \E ok \in BOOLEAN : Rename(from, directory, ok)
  BY DEF Next, Leads, Promotes

\* The paths a step may use.
LEMMA PathFacts ==
    ASSUME PathInv
    PROVE  /\ Garbage \notin DOMAIN tree
           /\ temp \in DOMAIN tree => temp[1] = "tmp" /\ temp = <<"tmp", commands>>
           /\ at = "temp" => <<"tmp", commands>> \notin DOMAIN tree
           /\ \A p \in DOMAIN tree : p[1] = "tmp" => p = <<"tmp", p[2]>> /\ p[2] \in Nat
  BY DEF PathInv, Garbage

\* Every step leaves the directories where PathInv has them.
LEMMA PathStep ==
    ASSUME DownloadInv, [Next]_vars
    PROVE  PathInv'
<1>0. PathInv /\ Garbage \notin DOMAIN tree
  BY PathFacts DEF DownloadInv
<1>1. CASE Begin
  BY <1>0, <1>1 DEF Begin, PathInv, Stages
<1>2. ASSUME NEW ok \in BOOLEAN, CreateTemp(ok)
      PROVE  PathInv'
  BY <1>0, <1>2 DEF CreateTemp, PathInv, Stages
<1>3. ASSUME NEW ok \in BOOLEAN, Connect(ok)
      PROVE  PathInv'
  BY <1>0, <1>3 DEF Connect, Files, PathInv, Stages
<1>4. ASSUME NEW file, NEW next, Leads(file, next),
             NEW ok \in BOOLEAN, NEW torn \in BOOLEAN, Store(file, next, ok, torn)
      PROVE  PathInv'
  BY <1>0, <1>4 DEF Store, Leads, AfterFailure, Files, PathInv, Stages
<1>5. ASSUME NEW file, NEW next, Leads(file, next), StoreCutShort(file, next)
      PROVE  PathInv'
  BY <1>0, <1>5 DEF StoreCutShort, Leads, Files, PathInv, Stages
<1>6. ASSUME NEW ok \in BOOLEAN, NEW animation \in BOOLEAN, Load(ok, animation)
      PROVE  PathInv'
  BY <1>0, <1>6 DEF Load, AfterFailure, Files, PathInv, Stages
<1>7. ASSUME NEW from, NEW directory, Promotes(from, directory), NEW ok \in BOOLEAN,
             Rename(from, directory, ok)
      PROVE  PathInv'
  BY <1>0, <1>7 DEF Rename, Promotes, PathInv, Stages
<1>8. CASE Publish
  BY <1>0, <1>8 DEF Publish, PathInv, Stages
<1>9. CASE Tick
  BY <1>0, <1>9 DEF Tick, PathInv, Stages
<1>10. CASE Crash
  BY <1>0, <1>10 DEF Crash, PathInv, Stages
<1>11. CASE UNCHANGED vars
  BY <1>0, <1>11 DEF vars, PathInv, Stages
<1>12. QED
  BY <1>1, <1>2, <1>3, <1>4, <1>5, <1>6, <1>7, <1>8, <1>9, <1>10, <1>11,
     NextCases

\* What the file of one stage adds is what the next stage asks for.
LEMMA HoldsMore ==
    ASSUME NEW dir, NEW more, NEW done, NEW file, file # "short", Holds(dir, done),
           more = dir \cup {file} \/ more = dir \cup {file, "short"}
    PROVE  Holds(more, done \cup {file})
  BY DEF Holds

LEMMA StageLeads ==
    ASSUME StageInv, NEW file, NEW next, Leads(file, next), at = file, at' = next,
           UNCHANGED <<temp, animated>>, DOMAIN tree' = DOMAIN tree,
           \/ temp \notin DOMAIN tree
           \/ tree'[temp] = tree[temp] \cup {file}
           \/ tree'[temp] = tree[temp] \cup {file, "short"}
    PROVE  StageInv'
<1> SUFFICES ASSUME temp \in DOMAIN tree PROVE StageInv'
  BY DEF StageInv
<1> DEFINE Anim == Animation(animated)
           dir == tree[temp]
           more == tree'[temp']
<1>1. \A done : Holds(dir, done) => Holds(more, done \cup {file})
  <2>1. file # "short"
    BY DEF Leads
  <2>2. more = dir \cup {file} \/ more = dir \cup {file, "short"}
    OBVIOUS
  <2> HIDE DEF dir, more
  <2>3. QED
    BY <2>1, <2>2, HoldsMore
<1>2. temp' \in DOMAIN tree' /\ Animation(animated') = Anim
  OBVIOUS
<1>3. CASE file = "lcm_gui.conf" /\ next = "sounds_leds.conf"
  <2>1. {} \cup {file} = {"lcm_gui.conf"}
    BY <1>3
  <2>2. Holds(more, {"lcm_gui.conf"})
    BY <1>1, <1>3, <2>1 DEF StageInv
  <2>3. QED
    BY <1>3, <2>2 DEF StageInv
<1>4. CASE file = "sounds_leds.conf" /\ next = "load"
  <2>1. {"lcm_gui.conf"} \cup {file} = Confs
    BY <1>4 DEF Confs
  <2>2. Holds(more, Confs)
    BY <1>1, <1>4, <2>1 DEF StageInv
  <2>3. QED
    BY <1>4, <2>2 DEF StageInv
<1>5. CASE file = "animation" /\ next = "sound"
  <2>1. animated /\ Holds(dir, Confs)
    BY <1>5 DEF StageInv
  <2>2. Confs \cup {file} = Confs \cup Anim
    BY <1>5, <2>1 DEF Animation
  <2>3. Holds(more, Confs \cup Anim)
    BY <1>1, <2>1, <2>2
  <2>4. QED
    BY <1>2, <1>5, <2>3 DEF StageInv
<1>6. CASE file = "sound" /\ next = "profile.json"
  <2>1. Holds(more, Confs \cup Anim \cup {"sound"})
    BY <1>1, <1>6 DEF StageInv
  <2>2. QED
    BY <1>2, <1>6, <2>1 DEF StageInv
<1>7. CASE file = "profile.json" /\ next = "rename"
  <2>1. Confs \cup Anim \cup {"sound"} \cup {file}
           = Confs \cup Anim \cup {"sound", "profile.json"}
    BY <1>7
  <2>2. Holds(dir, Confs \cup Anim \cup {"sound"})
    BY <1>7 DEF StageInv
  <2>3. Holds(more, Confs \cup Anim \cup {"sound", "profile.json"})
    BY <1>1, <2>1, <2>2
  <2>4. QED
    BY <1>2, <1>7, <2>3 DEF StageInv
<1>8. QED
  BY <1>3, <1>4, <1>5, <1>6, <1>7 DEF Leads

\* Every file that is fetched adds itself.
LEMMA StageStep ==
    ASSUME DownloadInv, [Next]_vars
    PROVE  StageInv'
<1>0. PathInv /\ StageInv /\ Garbage \notin DOMAIN tree
      /\ (at = "temp" => <<"tmp", commands>> \notin DOMAIN tree)
  BY PathFacts DEF DownloadInv
<1>1. CASE Begin
  BY <1>0, <1>1 DEF Begin, StageInv
<1>2. ASSUME NEW ok \in BOOLEAN, CreateTemp(ok)
      PROVE  StageInv'
  <2>1. at' = "connect" /\ at = "temp"
    BY <1>2 DEF CreateTemp
  <2>2. temp' \in DOMAIN tree' => temp' \notin DOMAIN tree
    BY <1>0, <1>2, <2>1 DEF CreateTemp
  <2>3. temp' \in DOMAIN tree' => tree'[temp'] = {}
    BY <1>2, <2>2 DEF CreateTemp
  <2>4. QED
    BY <2>1, <2>3 DEF StageInv
<1>3. ASSUME NEW ok \in BOOLEAN, Connect(ok)
      PROVE  StageInv'
  <2>1. /\ UNCHANGED <<tree, temp, animated>> /\ at = "connect"
        /\ at' \in {"lcm_gui.conf", "idle"}
    BY <1>3 DEF Connect
  <2>2. temp \in DOMAIN tree => Holds(tree[temp], {})
    BY <1>0, <2>1 DEF Holds, StageInv
  <2>3. QED
    BY <2>1, <2>2 DEF StageInv
<1>4. ASSUME NEW file, NEW next, Leads(file, next),
             NEW ok \in BOOLEAN, NEW torn \in BOOLEAN, Store(file, next, ok, torn)
      PROVE  StageInv'
  <2>1. /\ UNCHANGED <<temp, animated>> /\ DOMAIN tree' = DOMAIN tree /\ at = file
        /\ at' = IF ok THEN next ELSE "partial"
    BY <1>4 DEF Store, AfterFailure
  <2>2. CASE ~ok
    BY <2>1, <2>2 DEF StageInv
  <2>3. CASE ok
    <3>1. temp \notin DOMAIN tree \/ tree'[temp] = tree[temp] \cup {file}
      BY <1>4, <2>3 DEF Store
    <3>2. at' = next
      BY <2>1, <2>3
    <3>3. QED
      BY <1>0, <1>4, <2>1, <3>1, <3>2, StageLeads
  <2>4. QED
    BY <2>2, <2>3
<1>5. ASSUME NEW file, NEW next, Leads(file, next), StoreCutShort(file, next)
      PROVE  StageInv'
  <2>1. /\ UNCHANGED <<temp, animated>> /\ DOMAIN tree' = DOMAIN tree /\ at = file
        /\ at' = next
    BY <1>5 DEF StoreCutShort
  <2>2. temp \notin DOMAIN tree \/ tree'[temp] = tree[temp] \cup {file, "short"}
    BY <1>5 DEF StoreCutShort
  <2>3. QED
    BY <1>0, <1>5, <2>1, <2>2, StageLeads
<1>6. ASSUME NEW ok \in BOOLEAN, NEW animation \in BOOLEAN, Load(ok, animation)
      PROVE  StageInv'
  <2>1. /\ UNCHANGED <<tree, temp>> /\ at = "load"
        /\ \/ at' = "partial"
           \/ at' = "animation" /\ animated'
           \/ at' = "sound" /\ ~animated'
    BY <1>6 DEF Load, AfterFailure
  <2>2. temp \in DOMAIN tree => Holds(tree[temp], Confs)
    BY <1>0, <2>1 DEF StageInv
  <2>3. ~animated' => Confs \cup Animation(animated') = Confs
    BY DEF Animation
  <2>4. QED
    BY <2>1, <2>2, <2>3 DEF StageInv
<1>7. ASSUME NEW from, NEW directory, Promotes(from, directory), NEW ok \in BOOLEAN,
             Rename(from, directory, ok)
      PROVE  StageInv'
  BY <1>7 DEF Rename, StageInv
<1>8. CASE Publish
  BY <1>8 DEF Publish, StageInv
<1>9. CASE UNCHANGED <<tree, temp, animated, at>>
  BY <1>0, <1>9 DEF StageInv
<1>10. CASE Crash
  BY <1>10 DEF Crash, StageInv
<1>11. QED
  BY <1>1, <1>2, <1>3, <1>4, <1>5, <1>6, <1>7, <1>8, <1>9, <1>10, NextCases
  DEF Tick, vars

\* Every way out of the handler accounts for its directory.
LEMMA TmpStep ==
    ASSUME DownloadInv, [Next]_vars
    PROVE  TmpInv'
<1>0. PathInv /\ StageInv /\ TmpInv /\ ErrorsInv
      /\ Garbage \notin DOMAIN tree
  BY PathFacts DEF DownloadInv
<1>1. CASE Begin
  BY <1>0, <1>1
  DEF Begin, Files, TmpInv, StageInv, PathInv, Fetching, Stages, Files
<1>2. ASSUME NEW ok \in BOOLEAN, CreateTemp(ok)
      PROVE  TmpInv'
  BY <1>0, <1>2
  DEF CreateTemp, TmpInv, StageInv, PathInv, Fetching, Stages, Files
<1>3. ASSUME NEW ok \in BOOLEAN, Connect(ok)
      PROVE  TmpInv'
  BY <1>0, <1>3
  DEF Connect, Files, TmpInv, StageInv, PathInv, Fetching, Stages, Files
<1>4. ASSUME NEW file, NEW next, Leads(file, next),
             NEW ok \in BOOLEAN, NEW torn \in BOOLEAN, Store(file, next, ok, torn)
      PROVE  TmpInv'
  BY <1>0, <1>4 DEF Store, Leads, AfterFailure, Files, TmpInv, StageInv,
     PathInv, Fetching, Stages, Files
<1>5. ASSUME NEW file, NEW next, Leads(file, next), StoreCutShort(file, next)
      PROVE  TmpInv'
  BY <1>0, <1>5 DEF StoreCutShort, Leads, Files, TmpInv, StageInv, PathInv,
     Fetching, Stages, Files
<1>6. ASSUME NEW ok \in BOOLEAN, NEW animation \in BOOLEAN, Load(ok, animation)
      PROVE  TmpInv'
  BY <1>0, <1>6
  DEF Load, AfterFailure, TmpInv, StageInv, PathInv, Fetching, Stages, Files
<1>7. ASSUME NEW from, NEW directory, Promotes(from, directory), NEW ok \in BOOLEAN,
             Rename(from, directory, ok)
      PROVE  TmpInv'
  BY <1>0, <1>7
  DEF Rename, Promotes, TmpInv, StageInv, PathInv, Fetching, Stages, Files
<1>8. CASE Publish
  BY <1>0, <1>8 DEF Publish, TmpInv, StageInv, PathInv, Fetching, Stages, Files
<1>9. CASE Tick
  BY <1>0, <1>9 DEF Tick, TmpInv, StageInv, PathInv, Fetching, Stages, Files
<1>10. CASE Crash
  BY <1>0, <1>10 DEF Crash, TmpInv, StageInv, PathInv, Fetching, Stages, Files
<1>11. CASE UNCHANGED vars
  BY <1>0, <1>11 DEF vars, TmpInv, StageInv, PathInv, Fetching, Stages, Files
<1>12. QED
  BY <1>1, <1>2, <1>3, <1>4, <1>5, <1>6, <1>7, <1>8, <1>9, <1>10, <1>11,
     NextCases

\* Every way out of the handler that is not downloads has published an error.
LEMMA ErrorsStep ==
    ASSUME DownloadInv, [Next]_vars
    PROVE  ErrorsInv'
<1>0. PathInv /\ StageInv /\ TmpInv /\ ErrorsInv
      /\ Garbage \notin DOMAIN tree
  BY PathFacts DEF DownloadInv
<1>1. CASE Begin
  BY <1>0, <1>1 DEF Begin, ErrorsInv, NoErrorMeansDownloaded, PathInv
<1>2. ASSUME NEW ok \in BOOLEAN, CreateTemp(ok)
      PROVE  ErrorsInv'
  BY <1>0, <1>2 DEF CreateTemp, ErrorsInv, NoErrorMeansDownloaded, PathInv
<1>3. ASSUME NEW ok \in BOOLEAN, Connect(ok)
      PROVE  ErrorsInv'
  BY <1>0, <1>3 DEF Connect, ErrorsInv, NoErrorMeansDownloaded, PathInv
<1>4. ASSUME NEW file, NEW next, Leads(file, next),
             NEW ok \in BOOLEAN, NEW torn \in BOOLEAN, Store(file, next, ok, torn)
      PROVE  ErrorsInv'
  BY <1>0, <1>4 DEF Store, Leads, AfterFailure, Reports, ErrorsInv,
     NoErrorMeansDownloaded, PathInv
<1>5. ASSUME NEW file, NEW next, Leads(file, next), StoreCutShort(file, next)
      PROVE  ErrorsInv'
  BY <1>0, <1>5
  DEF StoreCutShort, Leads, ErrorsInv, NoErrorMeansDownloaded, PathInv
<1>6. ASSUME NEW ok \in BOOLEAN, NEW animation \in BOOLEAN, Load(ok, animation)
      PROVE  ErrorsInv'
  BY <1>0, <1>6
  DEF Load, AfterFailure, Reports, ErrorsInv, NoErrorMeansDownloaded, PathInv
<1>7. ASSUME NEW from, NEW directory, Promotes(from, directory), NEW ok \in BOOLEAN,
             Rename(from, directory, ok)
      PROVE  ErrorsInv'
  BY <1>0, <1>7
  DEF Rename, Promotes, Reports, ErrorsInv, NoErrorMeansDownloaded, PathInv
<1>8. CASE Publish
  BY <1>0, <1>8 DEF Publish, ErrorsInv, NoErrorMeansDownloaded, PathInv
<1>9. CASE Tick
  BY <1>0, <1>9 DEF Tick, ErrorsInv, NoErrorMeansDownloaded, PathInv
<1>10. CASE Crash
  BY <1>0, <1>10 DEF Crash, ErrorsInv, NoErrorMeansDownloaded, PathInv
<1>11. CASE UNCHANGED vars
  BY <1>0, <1>11 DEF vars, ErrorsInv, NoErrorMeansDownloaded, PathInv
<1>12. QED
  BY <1>1, <1>2, <1>3, <1>4, <1>5, <1>6, <1>7, <1>8, <1>9, <1>10, <1>11,
     NextCases

LEMMA DownloadInvHolds == Spec => []DownloadInv
<1>1. DownloadInv /\ [Next]_vars => DownloadInv'
  BY PathStep, StageStep, TmpStep, ErrorsStep DEF DownloadInv
<1>2. QED
  BY <1>1, InitDownloadInv, PTL DEF Spec
-----------------------------------------------------------------------------
(* The results.                                                            *)

\* What was fetched can be inspected: between commands only empty directories are
\* left under tmp, but for a crash or a failed rename.
THEOREM TmpIsAccountedFor == Spec => []NothingLeftInTmp
<1>1. DownloadInv => NothingLeftInTmp
  <2> SUFFICES ASSUME DownloadInv, at = "idle",
                      NEW p \in DOMAIN tree, p[1] = "tmp", p \notin abandoned
               PROVE  tree[p] = {}
    BY DEF NothingLeftInTmp
  <2>1. \A f \in tree[p] : FALSE
    BY DEF DownloadInv, TmpInv, Fetching
  <2>2. QED
    BY <2>1
<1>2. QED
  BY <1>1, DownloadInvHolds, PTL

\* A command that published no error published a directory that is there.
THEOREM SilenceMeansDownloaded == Spec => []NoErrorMeansDownloaded
  BY DownloadInvHolds, PTL DEF DownloadInv, ErrorsInv

\* A directory enters downloads with every file of the doorbell's profile and with
\* nothing a failed transfer tore.
THEOREM OnlyWholeDownloads == Spec => DownloadsAreWhole
<1> DEFINE Wanted == IF animated THEN Files ELSE Files \ {"animation"}
           Whole == \A p \in DOMAIN tree' \ DOMAIN tree : p[1] = "downloads" =>
                        tree'[p] \ {"short"} = Wanted
<1>1. ASSUME DownloadInv, [Next]_vars PROVE [Whole]_vars
  <2>1. SUFFICES ASSUME NEW p \in DOMAIN tree' \ DOMAIN tree, p[1] = "downloads"
                 PROVE  tree'[p] \ {"short"} = Wanted
    OBVIOUS
  <2>2. \/ DOMAIN tree' = DOMAIN tree
        \/ \E ok \in BOOLEAN : CreateTemp(ok)
        \/ \E from, directory : Promotes(from, directory)
                                  /\ \E ok \in BOOLEAN : Rename(from, directory, ok)
    BY <1>1, NextCases DEF vars, Begin, Publish, Tick, Crash, Connect, Store,
       StoreCutShort, Load
  <2>3. ASSUME NEW ok \in BOOLEAN, CreateTemp(ok)
        PROVE  FALSE
    BY <2>1, <2>3 DEF CreateTemp, Garbage
  <2>4. ASSUME NEW from, NEW directory, Promotes(from, directory),
               NEW ok \in BOOLEAN, Rename(from, directory, ok)
        PROVE  tree'[p] \ {"short"} = Wanted
    <3>1. /\ ok /\ p = <<directory, now>> /\ temp \in DOMAIN tree
          /\ tree'[p] = tree[temp] /\ at = from
      BY <2>1, <2>4 DEF Rename
    <3>2. directory = "downloads" /\ from = "rename"
      BY <2>1, <2>4, <3>1 DEF Promotes
    <3>3. Holds(tree[temp], Confs \cup Animation(animated) \cup {"sound", "profile.json"})
      BY <1>1, <3>1, <3>2 DEF DownloadInv, StageInv
    <3>4. Confs \cup Animation(animated) \cup {"sound", "profile.json"} = Wanted
      BY DEF Confs, Animation, Files
    <3>5. \A f : (f \in tree'[p] /\ f # "short") <=> f \in Wanted
      BY <3>1, <3>3, <3>4 DEF Holds
    <3> HIDE DEF Wanted
    <3>6. QED
      BY <3>5
  <2>5. QED
    BY <2>1, <2>2, <2>3, <2>4
<1>2. QED
  BY <1>1, DownloadInvHolds, PTL DEF Spec, DownloadsAreWhole

\* Nothing that was ever put into downloads or partial is replaced, changed or
\* removed.
THEOREM NothingIsOverwritten == Spec => NothingOverwritten
<1> DEFINE Kept == \A p \in DOMAIN tree : p[1] # "tmp" /\ tree[p] # {} =>
                       p \in DOMAIN tree' /\ tree'[p] = tree[p]
<1>1. ASSUME DownloadInv, [Next]_vars PROVE [Kept]_vars
  <2>1. SUFFICES ASSUME NEW p \in DOMAIN tree, p[1] # "tmp", tree[p] # {}
                 PROVE  p \in DOMAIN tree' /\ tree'[p] = tree[p]
    OBVIOUS
  <2>2. p # temp
    BY <1>1, <2>1, PathFacts DEF DownloadInv
  <2>3. \/ tree' = tree
        \/ \E ok \in BOOLEAN : CreateTemp(ok)
        \/ \E file, next : StoreCutShort(file, next)
                             \/ \E ok, torn \in BOOLEAN : Store(file, next, ok, torn)
        \/ \E from, directory : \E ok \in BOOLEAN : Rename(from, directory, ok)
    BY <1>1, NextCases DEF vars, Begin, Publish, Tick, Crash, Connect, Load
  <2>4. ASSUME NEW ok \in BOOLEAN, CreateTemp(ok)
        PROVE  p \in DOMAIN tree' /\ tree'[p] = tree[p]
    BY <2>4 DEF CreateTemp
  <2>5. ASSUME NEW file, NEW next,
               StoreCutShort(file, next)
                 \/ \E ok, torn \in BOOLEAN : Store(file, next, ok, torn)
        PROVE  p \in DOMAIN tree' /\ tree'[p] = tree[p]
    BY <2>2, <2>5 DEF StoreCutShort, Store
  <2>6. ASSUME NEW from, NEW directory, NEW ok \in BOOLEAN, Rename(from, directory, ok)
        PROVE  p \in DOMAIN tree' /\ tree'[p] = tree[p]
    BY <2>1, <2>2, <2>6 DEF Rename, Vacant
  <2>7. QED
    BY <2>3, <2>4, <2>5, <2>6
<1>2. QED
  BY <1>1, DownloadInvHolds, PTL DEF Spec, NothingOverwritten
=============================================================================
