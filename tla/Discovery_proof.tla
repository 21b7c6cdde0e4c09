--------------------------- MODULE Discovery_proof ---------------------------
(***************************************************************************)
(* The properties of Discovery for every set of files, environments and    *)
(* instances, lists of presets of any length among them, and any number of *)
(* edits and losses of the link.                                           *)
(***************************************************************************)
EXTENDS Discovery, Arithmetic, SequenceTheorems, TLAPS

-----------------------------------------------------------------------------
(* The inductive invariant.                                                *)

Descriptions == [whole : BOOLEAN, options : Seq([word : STRING, capitals : BOOLEAN,
                                               padded : BOOLEAN])]

DiscoveryTypeOK ==
    /\ file \in Files /\ env \in Envs
    /\ process \in {"down", "loop", "discovery"} /\ link \in {"up", "down"}
    /\ settings.presets \in Seq(Entry)
    /\ process # "down" => settings.instance \in Instances
    /\ next \in Nat
    /\ retained \in [Keys -> Descriptions] /\ shown \in [Keys -> Descriptions]
    /\ process = "down" => link = "down"
    /\ process = "discovery" => next \in 1..(Len(Entities) + 1)

\* What the running process says of an entity, and that both the broker and Home
\* Assistant have it.
Wanted(entity, presets) ==
    Description(IF HasOptions(entity) THEN Names(presets) ELSE <<>>)
Has(entity, instance, presets, broker, assistant) ==
    /\ broker[<<instance, entity>>] = Wanted(entity, presets)
    /\ assistant[<<instance, entity>>] = Wanted(entity, presets)
Offered(entity, instance, presets, broker, assistant) ==
    \/ Has(entity, instance, presets, broker, assistant)
    \/ HasOptions(entity) /\ Len(presets) > Room

\* On a session that lasts, discovery has offered every entity before the next; in
\* the loop all, or without presets the first three.
OfferInv ==
    link = "up" =>
        /\ process = "discovery" =>
             \A i \in 1..(next - 1) :
                Offered(Entities[i], settings.instance, settings.presets, retained, shown)
        /\ process = "loop" =>
             \A i \in 1..Len(Entities) :
                \/ Offered(Entities[i], settings.instance, settings.presets, retained, shown)
                \/ Len(settings.presets) = 0 /\ i > 3

\* A dropdown that this process described is still the one that is offered, and its
\* presets are those of a list that follows the rule.
ChoiceInv ==
    /\ process # "down" /\ "preset" \in described
         => /\ Has("preset", settings.instance, settings.presets, retained, shown)
            /\ Len(settings.presets) <= Room
    /\ WellFormed(settings.presets)
    /\ process = "down" => chosen.name = NoName
    /\ ChosenIsConfigured

DiscoveryInv == DiscoveryTypeOK /\ OfferInv /\ ChoiceInv

-----------------------------------------------------------------------------
(* The loop of config_load_presets.                                        *)

\* What makes it stop at an entry, and what it makes of that.
Trouble(entries, i) ==
    Incomplete(entries[i]) \/ ComparesNull(entries, i) \/ Duplicate(entries, i)
Verdict(entries, i) ==
    IF Incomplete(entries[i]) THEN "discarded"
    ELSE IF ComparesNull(entries, i) THEN "crashed" ELSE "discarded"

ScanStep(f, entries, i) ==
    IF i = 0 THEN "loaded"
    ELSE IF f[i - 1] # "loaded" THEN f[i - 1]
    ELSE IF Trouble(entries, i) THEN Verdict(entries, i) ELSE "loaded"

\* The recursive definition has a value: the verdict on the first entry that
\* makes the loop stop.
LEMMA ScanIsDefined ==
    ASSUME NEW entries, NEW n \in Nat, Len(entries) = n
    PROVE  \E f : /\ f = [i \in 0..n |-> ScanStep(f, entries, i)]
                  /\ Scan(entries) = f[n]
<1> DEFINE Bad(i) == {j \in 1..i : Trouble(entries, j)}
           least(i) == CHOOSE j \in Bad(i) : \A k \in Bad(i) : j <= k
           g == [i \in 0..n |-> IF \E j \in 1..i : Trouble(entries, j)
                                THEN Verdict(entries, least(i)) ELSE "loaded"]
<1>1. ASSUME NEW i \in 0..n, NEW j \in 1..i, Trouble(entries, j)
      PROVE  least(i) \in Bad(i) /\ \A k \in Bad(i) : least(i) <= k
  <2>1. Bad(i) \in SUBSET Nat /\ j \in Bad(i)
    BY <1>1
  <2> HIDE DEF Bad
  <2>2. \E m \in Bad(i) : \A k \in Bad(i) : m <= k
    BY <2>1, LeastElement
  <2>3. QED
    BY <2>2
<1>2. \A i : Verdict(entries, i) # "loaded"
  BY DEF Verdict
<1>3. ASSUME NEW i \in 0..n PROVE g[i] = ScanStep(g, entries, i)
  <2>1. CASE i = 0
    BY <2>1 DEF ScanStep
  <2>2. CASE i # 0 /\ \E j \in 1..(i - 1) : Trouble(entries, j)
    <3>1. i - 1 \in 0..n /\ \E j \in 1..i : Trouble(entries, j)
      BY <2>2
    <3>2. least(i) = least(i - 1)
      <4>1. /\ least(i - 1) \in Bad(i - 1) /\ \A k \in Bad(i - 1) : least(i - 1) <= k
        BY <1>1, <2>2, <3>1
      <4>2. /\ least(i) \in Bad(i) /\ \A k \in Bad(i) : least(i) <= k
        BY <1>1, <3>1
      <4>3. \A k : k \in Bad(i - 1) <=> (k \in Bad(i) /\ k # i)
        BY <2>2
      <4>4. least(i) \in Nat /\ least(i - 1) \in Nat /\ least(i - 1) < i
        BY <4>1, <4>2, <2>2
      <4> HIDE DEF least, Bad
      <4>5. QED
        BY <4>1, <4>2, <4>3, <4>4
    <3>3. g[i - 1] = Verdict(entries, least(i - 1)) /\ g[i] = Verdict(entries, least(i))
      BY <2>2, <3>1
    <3> HIDE DEF g, least
    <3>4. QED
      BY <1>2, <2>2, <3>2, <3>3 DEF ScanStep
  <2>3. CASE i # 0 /\ ~\E j \in 1..(i - 1) : Trouble(entries, j)
    <3>1. g[i - 1] = "loaded"
      BY <2>3
    <3>2. CASE Trouble(entries, i)
      <4>1. \E j \in 1..i : Trouble(entries, j)
        BY <2>3, <3>2
      <4>2. least(i) = i
        <5>1. least(i) \in Bad(i)
          BY <1>1, <4>1
        <5>2. \A k \in Bad(i) : k = i
          BY <2>3
        <5> HIDE DEF least, Bad
        <5>3. QED
          BY <5>1, <5>2
      <4>3. g[i] = Verdict(entries, i)
        BY <4>1, <4>2
      <4> HIDE DEF g, least
      <4>4. QED
        BY <2>3, <3>1, <3>2, <4>3 DEF ScanStep
    <3>3. CASE ~Trouble(entries, i)
      <4>1. ~\E j \in 1..i : Trouble(entries, j)
        BY <2>3, <3>3
      <4>2. g[i] = "loaded"
        BY <4>1
      <4> HIDE DEF g, least
      <4>3. QED
        BY <2>3, <3>1, <3>3, <4>2 DEF ScanStep
    <3>4. QED
      BY <3>2, <3>3
  <2>4. QED
    BY <2>1, <2>2, <2>3
<1>4. g = [i \in 0..n |-> ScanStep(g, entries, i)]
  <2>1. DOMAIN g = 0..n /\ g = [i \in 0..n |-> g[i]]
    OBVIOUS
  <2> HIDE DEF g
  <2>2. QED
    BY <1>3, <2>1
<1> DEFINE f == CHOOSE h : h = [i \in 0..n |-> ScanStep(h, entries, i)]
<1>5. f = [i \in 0..n |-> ScanStep(f, entries, i)]
  <2> HIDE DEF g
  <2>1. \E h : h = [i \in 0..n |-> ScanStep(h, entries, i)]
    BY <1>4
  <2>2. QED
    BY <2>1
<1>6. Scan(entries) = f[n]
  BY ZenonT(40) DEF Scan, ScanStep, Trouble, Verdict
<1> HIDE DEF f
<1>7. QED
  BY <1>5, <1>6


\* It goes through to the end exactly when no entry makes it stop.
LEMMA ScanLoads ==
    ASSUME NEW entries, Len(entries) \in Nat
    PROVE  Scan(entries) = "loaded" <=> \A i \in 1..Len(entries) : ~Trouble(entries, i)
<1> DEFINE n == Len(entries)
<1>1. PICK f : f = [i \in 0..n |-> ScanStep(f, entries, i)] /\ Scan(entries) = f[n]
  BY ScanIsDefined
<1>2. \A i \in 0..n : f[i] = ScanStep(f, entries, i)
  BY <1>1
<1> HIDE DEF n
<1>3. n \in Nat
  BY DEF n
<1> DEFINE Wrong == {i \in 0..n :
                       ~(f[i] = "loaded" <=> \A j \in 1..i : ~Trouble(entries, j))}
<1>4. \A i \in 0..n : f[i] = "loaded" <=> \A j \in 1..i : ~Trouble(entries, j)
  <2> SUFFICES ASSUME NEW x \in Wrong PROVE FALSE
    OBVIOUS
  <2>1. PICK i \in Wrong : \A k \in Wrong : i <= k
    <3>1. Wrong \in SUBSET Nat
      BY <1>3
    <3> HIDE DEF Wrong
    <3>2. QED
      BY <3>1, LeastElement
  <2>2. f[i] = ScanStep(f, entries, i) /\ i \in 0..n
    BY <1>2, <2>1
  <2>3. i # 0
    <3>1. f[0] = "loaded"
      BY <1>2, <1>3 DEF ScanStep
    <3>2. QED
      BY <1>3, <2>1, <3>1
  <2>4. i - 1 \in 0..n /\ i - 1 \notin Wrong
    BY <1>3, <2>1, <2>2, <2>3
  <2>5. f[i - 1] = "loaded" <=> \A j \in 1..(i - 1) : ~Trouble(entries, j)
    BY <2>4
  <2>6. (\A j \in 1..i : ~Trouble(entries, j))
          <=> (\A j \in 1..(i - 1) : ~Trouble(entries, j)) /\ ~Trouble(entries, i)
    BY <1>3, <2>2, <2>3
  <2>7. f[i] = "loaded" <=> f[i - 1] = "loaded" /\ ~Trouble(entries, i)
    BY <2>2, <2>3 DEF ScanStep, Verdict
  <2>8. QED
    BY <2>1, <2>5, <2>6, <2>7
<1>5. QED
  BY <1>1, <1>3, <1>4 DEF n

LEMMA BlankName == \A name : Blank(name) <=> name.word = ""
  BY Zenon DEF Blank

\* The documented rule, without its quantifier over two entries.
LEMMA RuleOfEntries ==
    ASSUME NEW entries
    PROVE  WellFormed(entries) <=>
             /\ \A i \in DOMAIN entries : ~Incomplete(entries[i])
             /\ \A i, j \in DOMAIN entries :
                  i # j => /\ ~Blank(entries[i].name)
                           /\ entries[i].name.word # entries[j].name.word
<1> DEFINE blank == ""
<1>1. \A name : Blank(name) <=> name.word = blank
  BY BlankName
<1>2. WellFormed(entries) <=>
        /\ \A i \in DOMAIN entries : entries[i].name # NoName /\ entries[i].directory # None
        /\ \A i, j \in DOMAIN entries :
              i # j => entries[i].name.word \notin {blank, entries[j].name.word}
  BY Zenon DEF WellFormed
<1> HIDE DEF blank
<1>3. QED
  BY <1>1, <1>2 DEF Incomplete

\* A list is loaded exactly when it follows the documented rule.
LEMMA LoadedIsWellFormed ==
    ASSUME NEW entries \in Seq(Entry)
    PROVE  /\ Scan(entries) = "loaded" <=> WellFormed(entries)
           /\ Presets(entries) = IF WellFormed(entries) THEN entries ELSE <<>>
           /\ Presets(entries) \in Seq(Entry)
           /\ WellFormed(Presets(entries))
<1>1. DOMAIN entries = 1..Len(entries) /\ Len(entries) \in Nat
  OBVIOUS
<1> DEFINE Sound == \A i \in 1..Len(entries) : ~Trouble(entries, i)
<1>2. ASSUME Sound PROVE WellFormed(entries)
  <2>1. \A i \in DOMAIN entries : ~Incomplete(entries[i])
    BY <1>1, <1>2 DEF Trouble
  <2>2. \A i \in DOMAIN entries : i > 1 => ~Blank(entries[i].name) /\ ~Blank(entries[1].name)
    BY <1>1, <1>2 DEF Trouble, ComparesNull
  <2>3. ASSUME NEW i \in DOMAIN entries, NEW j \in DOMAIN entries, j < i
        PROVE  /\ ~Blank(entries[i].name) /\ ~Blank(entries[j].name)
               /\ entries[i].name.word # entries[j].name.word
    <3>1. ~Blank(entries[i].name) /\ ~Blank(entries[j].name)
      BY <1>1, <2>2, <2>3
    <3>2. j \in 1..(i - 1) /\ ~Duplicate(entries, i)
      BY <1>1, <1>2, <2>3 DEF Trouble
    <3>3. Key(entries[j].name) # Key(entries[i].name)
      BY <3>2 DEF Duplicate
    <3>4. QED
      BY <3>1, <3>3 DEF Key
  <2>4. \A i, j \in DOMAIN entries :
          i # j => /\ ~Blank(entries[i].name)
                   /\ entries[i].name.word # entries[j].name.word
    BY <1>1, <2>3
  <2>5. QED
    BY <2>1, <2>4, RuleOfEntries
<1>3. ASSUME WellFormed(entries) PROVE Sound
  <2>1. /\ \A i \in DOMAIN entries : ~Incomplete(entries[i])
        /\ \A i, j \in DOMAIN entries :
             i # j => /\ ~Blank(entries[i].name)
                      /\ entries[i].name.word # entries[j].name.word
    BY <1>3, RuleOfEntries
  <2> SUFFICES ASSUME NEW i \in 1..Len(entries) PROVE ~Trouble(entries, i)
    OBVIOUS
  <2>2. ~Incomplete(entries[i])
    BY <1>1, <2>1
  <2>3. ~ComparesNull(entries, i)
    <3>1. i > 1 => 1 \in DOMAIN entries /\ i \in DOMAIN entries /\ i # 1
      BY <1>1
    <3>2. QED
      BY <2>1, <3>1 DEF ComparesNull
  <2>4. ~Duplicate(entries, i)
    <3>1. SUFFICES ASSUME NEW j \in 1..(i - 1)
                   PROVE  Key(entries[j].name) # Key(entries[i].name)
      BY DEF Duplicate
    <3>2. j \in DOMAIN entries /\ i \in DOMAIN entries /\ i # j
      BY <1>1
    <3>3. QED
      BY <2>1, <3>2 DEF Key
  <2>5. QED
    BY <2>2, <2>3, <2>4 DEF Trouble
<1>4. Scan(entries) = "loaded" <=> WellFormed(entries)
  BY <1>1, <1>2, <1>3, ScanLoads
<1>5. <<>> \in Seq(Entry) /\ WellFormed(<<>>)
  <2>1. <<>> \in Seq(Entry) /\ DOMAIN <<>> = {}
    BY EmptySeq
  <2>2. QED
    BY <2>1, RuleOfEntries
<1>6. QED
  BY <1>4, <1>5 DEF Presets

-----------------------------------------------------------------------------
(* Entities and their descriptions.                                        *)

LEMMA EntitiesAre ==
    /\ Len(Entities) = 8 /\ DOMAIN Entities = 1..8
    /\ \A i \in 1..8 : HasOptions(Entities[i]) <=> i = 4
    /\ Entities[4] = "preset"
    /\ \A i, j \in 1..8 : Entities[i] = Entities[j] => i = j
    /\ \A i \in 1..8, instance \in Instances : <<instance, Entities[i]>> \in Keys
  BY DEF Entities, HasOptions, Keys

LEMMA DescriptionTypes ==
    /\ NoDescription \in Descriptions
    /\ \A presets \in Seq(Entry) :
         \A entity : Wanted(entity, presets) \in Descriptions
<1> DEFINE Name == [word : STRING, capitals : BOOLEAN, padded : BOOLEAN]
<1>1. ASSUME NEW presets \in Seq(Entry) PROVE Names(presets) \in Seq(Name)
  <2>1. /\ DOMAIN presets = 1..Len(presets) /\ Len(presets) \in Nat
        /\ \A i \in 1..Len(presets) : presets[i] \in Entry
    OBVIOUS
  <2>2. \A i \in 1..Len(presets) : presets[i].name \in Name
    BY <2>1 DEF Entry
  <2> HIDE DEF Name
  <2>3. [i \in 1..Len(presets) |-> presets[i].name] \in Seq(Name)
    BY <2>1, <2>2
  <2>4. QED
    BY <2>1, <2>3 DEF Names
<1>2. <<>> \in Seq(Name)
  BY EmptySeq
<1>3. QED
  BY <1>1, <1>2 DEF Descriptions, NoDescription, Wanted, Description

\* What a step of discovery publishes: what is wanted, or a dropdown that is cut.
LEMMA PayloadIs ==
    ASSUME NEW entity
    PROVE  \/ /\ Payload(entity) = Wanted(entity, settings.presets)
              /\ Payload(entity).whole
              /\ HasOptions(entity) => Len(settings.presets) <= Room
           \/ /\ HasOptions(entity) /\ Payload(entity) = NoDescription
              /\ ~(Len(settings.presets) <= Room) /\ ~Payload(entity).whole
  BY DEF Payload, Wanted, Description, NoDescription

-----------------------------------------------------------------------------
(* Every step preserves the invariant.                                     *)

LEMMA DiscoveryTypeStep ==
    DiscoveryTypeOK /\ [Next]_vars => DiscoveryTypeOK'
<1> SUFFICES ASSUME DiscoveryTypeOK, [Next]_vars PROVE DiscoveryTypeOK'
  OBVIOUS
<1> USE DEF config, homeAssistant, bounds
<1>1. /\ file \in Files /\ env \in Envs
      /\ process \in {"down", "loop", "discovery"} /\ link \in {"up", "down"}
      /\ settings.presets \in Seq(Entry)
      /\ process # "down" => settings.instance \in Instances
      /\ next \in Nat
      /\ retained \in [Keys -> Descriptions] /\ shown \in [Keys -> Descriptions]
      /\ process = "down" => link = "down"
      /\ process = "discovery" => next \in 1..(Len(Entities) + 1)
  BY DEF DiscoveryTypeOK
<1>2. Len(Entities) = 8
  BY EntitiesAre
<1>3. CASE Start
  <2>1. settings' = [instance |-> Instance(file, env), presets |-> Presets(file.presets)]
    BY <1>3 DEF Start
  <2>2. Instance(file, env) \in Instances
    BY <1>1, <1>3, SourcesAssumption DEF Start, Loads
  <2>3. Presets(file.presets) \in Seq(Entry)
    BY <1>1, FilesAssumption, LoadedIsWellFormed
  <2>4. settings'.instance \in Instances /\ settings'.presets \in Seq(Entry)
    BY <2>1, <2>2, <2>3
  <2>5. QED
    BY <1>1, <1>3, <2>4 DEF Start, DiscoveryTypeOK
<1>4. CASE Connect
  BY <1>1, <1>2, <1>4 DEF Connect, First, DiscoveryTypeOK
<1>5. CASE Describe
  <2> DEFINE payload == Payload(Entities[next])
             key == <<settings.instance, Entities[next]>>
  <2>1. payload \in Descriptions
    BY <1>1, PayloadIs, DescriptionTypes
  <2> HIDE DEF payload, key
  <2>2. /\ retained' \in {retained, [retained EXCEPT ![key] = payload]}
        /\ shown' \in {shown, [shown EXCEPT ![key] = payload]}
        /\ next \in DOMAIN Entities /\ next' = next + 1
        /\ UNCHANGED <<config, process, settings, link>>
    BY <1>5 DEF Describe, payload, key
  <2>3. retained' \in [Keys -> Descriptions] /\ shown' \in [Keys -> Descriptions]
    BY <1>1, <2>1, <2>2
  <2>4. next' \in 1..(Len(Entities) + 1)
    BY <1>1, <2>2, EntitiesAre
  <2>5. QED
    BY <1>1, <2>2, <2>3, <2>4 DEF DiscoveryTypeOK
<1>6. CASE EndDiscovery
  BY <1>1, <1>6 DEF EndDiscovery, DiscoveryTypeOK
<1>7. CASE \E f \in Files : \E i \in DOMAIN f.presets : Choose(f.presets[i].name)
  BY <1>1, <1>7 DEF Choose, DiscoveryTypeOK
<1>8. CASE Stop
  <2>1. settings'.presets = <<>> /\ <<>> \in Seq(Entry)
    BY <1>8, EmptySeq DEF Stop, NoSettings
  <2>2. QED
    BY <1>1, <1>8, <2>1 DEF Stop, DiscoveryTypeOK
<1>9. CASE LinkLost
  BY <1>1, <1>9 DEF LinkLost, DiscoveryTypeOK
<1>10. CASE Edit
  BY <1>1, <1>10 DEF Edit, DiscoveryTypeOK
<1>11. CASE HomeAssistantRestart
  BY <1>1, <1>11 DEF HomeAssistantRestart, DiscoveryTypeOK
<1>12. CASE UNCHANGED vars
  BY <1>1, <1>12 DEF vars, DiscoveryTypeOK
<1>13. QED
  BY <1>3, <1>4, <1>5, <1>6, <1>7, <1>8, <1>9, <1>10, <1>11, <1>12 DEF Next

\* A step of discovery offers its entity, and what was offered stays so.
LEMMA DescribeOffers ==
    ASSUME DiscoveryTypeOK, Describe, link = "up"
    PROVE  LET instance == settings.instance
               presets == settings.presets IN
           /\ Offered(Entities[next], instance, presets, retained', shown')
           /\ \A i \in 1..8 :
                Offered(Entities[i], instance, presets, retained, shown)
                  => Offered(Entities[i], instance, presets, retained', shown')
           /\ \/ Has("preset", instance, presets, retained, shown)
                 /\ Len(presets) <= Room
              \/ "preset" \in described' /\ "preset" \notin described
              => Has("preset", instance, presets, retained', shown')
                 /\ Len(presets) <= Room
           /\ settings' = settings
<1> DEFINE entity == Entities[next]
           payload == Payload(entity)
           instance == settings.instance
           presets == settings.presets
           key == <<instance, entity>>
           wanted == Wanted(entity, presets)
<1>1. /\ next \in 1..8 /\ settings' = settings /\ instance \in Instances
      /\ retained \in [Keys -> Descriptions] /\ shown \in [Keys -> Descriptions]
      /\ Len(presets) \in Nat /\ Room \in Nat
  BY EntitiesAre, BoundsAssumption DEF Describe, DiscoveryTypeOK
<1>2. /\ retained' = [retained EXCEPT ![key] = payload]
      /\ shown' = IF payload.whole THEN [shown EXCEPT ![key] = payload] ELSE shown
      /\ described' = IF payload.whole THEN described \cup {entity} ELSE described
  BY DEF Describe
<1>3. \/ payload = wanted /\ payload.whole /\ (HasOptions(entity) => Len(presets) <= Room)
      \/ HasOptions(entity) /\ ~(Len(presets) <= Room) /\ ~payload.whole
  BY PayloadIs
<1>4. key \in Keys /\ (HasOptions(entity) <=> next = 4) /\ (entity = "preset" <=> next = 4)
  BY <1>1, EntitiesAre
<1> HIDE DEF payload, wanted
<1>5. payload.whole => Has(entity, instance, presets, retained', shown')
  <2> HIDE DEF key, instance, presets
  <2>1. ASSUME payload.whole
        PROVE  retained'[key] = wanted /\ shown'[key] = wanted
    BY <1>1, <1>2, <1>3, <1>4, <2>1
  <2>2. QED
    BY <2>1 DEF Has, wanted, key
<1> HIDE DEF instance, presets
<1>6. Offered(entity, instance, presets, retained', shown')
  <2>1. CASE payload.whole
    BY <1>5, <2>1 DEF Offered
  <2>2. CASE ~payload.whole
    BY <1>1, <1>3, <2>2 DEF Offered
  <2>3. QED
    BY <2>1, <2>2
<1>7. ASSUME NEW i \in 1..8, i # next, Has(Entities[i], instance, presets, retained, shown)
      PROVE  Has(Entities[i], instance, presets, retained', shown')
  <2>1. <<instance, Entities[i]>> # key /\ <<instance, Entities[i]>> \in Keys
    BY <1>1, <1>7, EntitiesAre
  <2> HIDE DEF key
  <2>2. QED
    BY <1>1, <1>2, <1>7, <2>1 DEF Has
<1>8. ASSUME NEW i \in 1..8, Offered(Entities[i], instance, presets, retained, shown)
      PROVE  Offered(Entities[i], instance, presets, retained', shown')
  <2>1. CASE i = next
    BY <1>6, <2>1
  <2>2. CASE i # next
    BY <1>7, <1>8, <2>2 DEF Offered
  <2>3. QED
    BY <2>1, <2>2
<1>9. ASSUME Has("preset", instance, presets, retained, shown), Len(presets) <= Room
      PROVE  Has("preset", instance, presets, retained', shown')
  <2>1. CASE next # 4
    BY <1>7, <1>9, <2>1, EntitiesAre
  <2>2. CASE next = 4
    BY <1>3, <1>4, <1>5, <1>9, <2>2
  <2>3. QED
    BY <2>1, <2>2
<1>10. ASSUME "preset" \in described', "preset" \notin described
       PROVE  Has("preset", instance, presets, retained', shown') /\ Len(presets) <= Room
  <2>1. payload.whole /\ entity = "preset"
    BY <1>2, <1>10
  <2>2. QED
    BY <1>3, <1>4, <1>5, <2>1
<1>11. QED
  BY <1>1, <1>6, <1>8, <1>9, <1>10 DEF instance, presets

LEMMA OfferStep ==
    DiscoveryTypeOK /\ OfferInv /\ [Next]_vars => OfferInv'
<1> SUFFICES ASSUME DiscoveryTypeOK, OfferInv, [Next]_vars, link' = "up"
             PROVE  /\ process' = "discovery" =>
                         \A i \in 1..(next' - 1) :
                            Offered(Entities[i], settings'.instance, settings'.presets,
                                    retained', shown')
                    /\ process' = "loop" =>
                         \A i \in 1..8 :
                            \/ Offered(Entities[i], settings'.instance, settings'.presets,
                                       retained', shown')
                            \/ Len(settings'.presets) = 0 /\ i > 3
  BY EntitiesAre DEF OfferInv
<1> USE DEF config, homeAssistant, bounds
<1>1. link = "up" =>
        /\ process = "discovery" =>
             \A i \in 1..(next - 1) :
                Offered(Entities[i], settings.instance, settings.presets, retained, shown)
        /\ process = "loop" =>
             \A i \in 1..8 :
                \/ Offered(Entities[i], settings.instance, settings.presets, retained, shown)
                \/ Len(settings.presets) = 0 /\ i > 3
  BY EntitiesAre DEF OfferInv
<1>2. next \in Nat /\ (process = "down" => link = "down")
      /\ (process = "discovery" => next \in 1..9)
      /\ settings.presets \in Seq(Entry)
  BY EntitiesAre DEF DiscoveryTypeOK
<1>3. CASE Start
  BY <1>2, <1>3 DEF Start
<1>4. CASE Connect
  BY <1>4 DEF Connect, First
<1>5. CASE Describe
  <2>1. /\ link = "up" /\ process = "discovery" /\ process' = "discovery"
        /\ next' = next + 1 /\ next \in 1..8
    BY <1>5, EntitiesAre DEF Describe
  <2>2. /\ settings' = settings
        /\ Offered(Entities[next], settings.instance, settings.presets, retained', shown')
        /\ \A i \in 1..8 :
             Offered(Entities[i], settings.instance, settings.presets, retained, shown)
               => Offered(Entities[i], settings.instance, settings.presets, retained', shown')
    BY <1>5, <2>1, DescribeOffers
  <2>3. \A i \in 1..next :
           Offered(Entities[i], settings.instance, settings.presets, retained', shown')
    <3>1. \A i \in 1..next : i = next \/ (i \in 1..(next - 1) /\ i \in 1..8)
      BY <2>1
    <3>2. QED
      BY <1>1, <2>1, <2>2, <3>1
  <2>4. 1..(next' - 1) = 1..next
    BY <2>1
  <2>5. QED
    BY <2>1, <2>2, <2>3, <2>4
<1>6. CASE EndDiscovery
  <2>1. /\ process = "discovery" /\ process' = "loop" /\ link = "up"
        /\ UNCHANGED <<settings, retained, shown>>
        /\ next \in 1..8 => HasOptions(Entities[next]) /\ settings.presets = <<>>
    BY <1>6, EntitiesAre DEF EndDiscovery, Describable
  <2>2. CASE next \in 1..8
    <3>1. next = 4 /\ Len(settings.presets) = 0
      <4>1. Len(<<>>) = 0
        BY EmptySeq
      <4>2. QED
        BY <2>1, <2>2, <4>1, EntitiesAre
    <3>2. \A i \in 1..8 : i \in 1..(next - 1) \/ i > 3
      BY <3>1
    <3>3. QED
      BY <1>1, <2>1, <3>1, <3>2
  <2>3. CASE next \notin 1..8
    <3>1. \A i \in 1..8 : i \in 1..(next - 1)
      BY <1>2, <2>1, <2>3
    <3>2. QED
      BY <1>1, <2>1, <3>1
  <2>4. QED
    BY <2>2, <2>3
<1>7. CASE \E f \in Files : \E i \in DOMAIN f.presets : Choose(f.presets[i].name)
  BY <1>1, <1>7 DEF Choose
<1>8. CASE Stop
  BY <1>8 DEF Stop
<1>9. CASE LinkLost
  BY <1>9 DEF LinkLost
<1>10. CASE Edit
  BY <1>1, <1>10 DEF Edit
<1>11. CASE HomeAssistantRestart
  \* What the broker retained of an entity that was offered is what is wanted.
  <2>1. /\ shown' = retained /\ retained' = retained
        /\ UNCHANGED <<process, settings, next, link>>
    BY <1>11 DEF HomeAssistantRestart
  <2>2. ASSUME NEW i,
               Offered(Entities[i], settings.instance, settings.presets, retained, shown)
        PROVE  Offered(Entities[i], settings.instance, settings.presets, retained', shown')
    BY <2>1, <2>2 DEF Offered, Has
  <2>3. QED
    BY <1>1, <2>1, <2>2
<1>12. CASE UNCHANGED vars
  BY <1>1, <1>12 DEF vars
<1>13. QED
  BY <1>3, <1>4, <1>5, <1>6, <1>7, <1>8, <1>9, <1>10, <1>11, <1>12 DEF Next


\* A name is looked up to the directory of a preset that has it, but for case.
LEMMA ResolveFinds ==
    ASSUME NEW presets \in Seq(Entry), NEW name
    PROVE  \/ /\ Resolve(presets, name) = None
              /\ \A i \in DOMAIN presets : ~SameButForCase(presets[i].name, name)
           \/ \E i \in DOMAIN presets :
                /\ SameButForCase(presets[i].name, name)
                /\ Resolve(presets, name) = presets[i].directory
<1> DEFINE matching == {i \in DOMAIN presets : SameButForCase(presets[i].name, name)}
<1>1. CASE matching = {}
  BY <1>1 DEF Resolve
<1>2. CASE matching # {}
  <2> DEFINE least == CHOOSE i \in matching : \A j \in matching : i <= j
  <2>1. PICK x \in matching : TRUE
    BY <1>2
  <2>2. matching \in SUBSET Nat
    OBVIOUS
  <2>3. Resolve(presets, name) = presets[least].directory
    BY <1>2 DEF Resolve
  <2>4. least \in matching
    <3> HIDE DEF matching
    <3>1. \E i \in matching : \A j \in matching : i <= j
      BY <2>1, <2>2, LeastElement
    <3>2. QED
      BY <3>1
  <2> HIDE DEF least
  <2>5. QED
    BY <2>3, <2>4
<1>3. QED
  BY <1>1, <1>2

\* Two presets of the rule with the same word are one.
LEMMA OneOfAWord ==
    ASSUME NEW presets, WellFormed(presets), NEW i \in DOMAIN presets, NEW j \in DOMAIN presets,
           presets[i].name.word = presets[j].name.word
    PROVE  i = j
  BY RuleOfEntries

LEMMA ChoiceStep ==
    DiscoveryTypeOK /\ ChoiceInv /\ [Next]_vars => ChoiceInv'
<1> SUFFICES ASSUME DiscoveryTypeOK, ChoiceInv, [Next]_vars PROVE ChoiceInv'
  OBVIOUS
<1> USE DEF config, homeAssistant, bounds
<1> DEFINE Right(presets, choice) ==
             choice.name # NoName =>
               \E i \in DOMAIN presets \cup {0} :
                 IF i = 0 THEN choice.directory = None /\ ~choice.fresh
                 ELSE /\ presets[i].directory = choice.directory
                      /\ \/ presets[i].name = choice.name
                         \/ /\ ~choice.fresh
                            /\ SameButForCase(presets[i].name, choice.name)
<1>1. /\ process # "down" /\ "preset" \in described
           => /\ Has("preset", settings.instance, settings.presets, retained, shown)
              /\ Len(settings.presets) <= Room
      /\ WellFormed(settings.presets)
      /\ process = "down" => chosen.name = NoName
      /\ Right(settings.presets, chosen)
  BY DEF ChoiceInv, ChosenIsConfigured
<1>2. SUFFICES
      /\ process' # "down" /\ "preset" \in described'
           => /\ Has("preset", settings'.instance, settings'.presets, retained', shown')
              /\ Len(settings'.presets) <= Room
      /\ WellFormed(settings'.presets)
      /\ process' = "down" => chosen'.name = NoName
      /\ Right(settings'.presets, chosen')
  BY DEF ChoiceInv, ChosenIsConfigured, WellFormed, Has, Wanted
<1> HIDE DEF Right
<1>3. file \in Files /\ settings.presets \in Seq(Entry)
  BY DEF DiscoveryTypeOK
<1>4. ASSUME NEW name, NEW choice, choice.name = NoName PROVE Right(name, choice)
  BY <1>4 DEF Right
<1>5. CASE Start
  <2>1. settings'.presets = Presets(file.presets) /\ described' = {} /\ process' = "loop"
        /\ chosen' = chosen /\ process = "down"
    BY <1>5 DEF Start
  <2>2. WellFormed(settings'.presets)
    BY <1>3, <2>1, FilesAssumption, LoadedIsWellFormed
  <2>3. QED
    BY <1>1, <1>4, <2>1, <2>2
<1>6. CASE Describe
  <2>1. process = "discovery" /\ UNCHANGED <<process, settings, chosen>>
    BY <1>6 DEF Describe
  <2>2. CASE link = "up"
    <3>1. \/ Has("preset", settings.instance, settings.presets, retained, shown)
             /\ Len(settings.presets) <= Room
          \/ "preset" \in described' /\ "preset" \notin described
          => Has("preset", settings.instance, settings.presets, retained', shown')
             /\ Len(settings.presets) <= Room
      BY <1>6, <2>2, DescribeOffers
    <3>2. QED
      BY <1>1, <2>1, <3>1
  <2>3. CASE link # "up"
    <3>1. UNCHANGED <<retained, shown, described>>
      BY <1>6, <2>3 DEF Describe
    <3>2. QED
      BY <1>1, <2>1, <3>1
  <2>4. QED
    BY <2>2, <2>3
<1>7. CASE \E f \in Files : \E i \in DOMAIN f.presets : Choose(f.presets[i].name)
  <2>1. PICK name : Choose(name)
    BY <1>7
  <2> DEFINE presets == settings.presets
             options == shown[<<settings.instance, "preset">>].options
             fresh == "preset" \in described
  <2>2. /\ UNCHANGED <<process, settings, retained, shown, described>> /\ process = "loop"
        /\ chosen' = [name |-> name, directory |-> Resolve(presets, name), fresh |-> fresh]
        /\ \E i \in DOMAIN options : options[i] = name
    BY <2>1 DEF Choose
  <2>3. /\ chosen'.name = name /\ chosen'.directory = Resolve(presets, name)
        /\ chosen'.fresh = fresh
    BY <2>2
  <2>4. ASSUME fresh
        PROVE  \E k \in DOMAIN presets : presets[k].name = name
    <3>1. options = Names(presets)
      BY <1>1, <2>2, <2>4 DEF Has, Wanted, Description, HasOptions
    <3>2. QED
      BY <2>2, <3>1 DEF Names
  <2>5. Right(presets, chosen')
    <3>1. CASE /\ Resolve(presets, name) = None
               /\ \A i \in DOMAIN presets : ~SameButForCase(presets[i].name, name)
      <4>1. ~fresh
        BY <2>4, <3>1 DEF SameButForCase
      <4>2. QED
        BY <2>3, <3>1, <4>1 DEF Right
    <3>2. CASE \E i \in DOMAIN presets :
                 /\ SameButForCase(presets[i].name, name)
                 /\ Resolve(presets, name) = presets[i].directory
      <4>1. PICK i \in DOMAIN presets :
               /\ SameButForCase(presets[i].name, name)
               /\ Resolve(presets, name) = presets[i].directory
        BY <3>2
      <4>2. fresh => presets[i].name = name
        <5>1. SUFFICES ASSUME fresh PROVE presets[i].name = name
          OBVIOUS
        <5>2. PICK k \in DOMAIN presets : presets[k].name = name
          BY <2>4, <5>1
        <5>3. presets[i].name.word = presets[k].name.word
          BY <4>1, <5>2 DEF SameButForCase
        <5>4. i = k
          BY <1>1, <5>3, OneOfAWord
        <5>5. QED
          BY <5>2, <5>4
      <4>3. i # 0
        BY <1>3
      <4> HIDE DEF presets, fresh
      <4>4. QED
        BY <2>3, <4>1, <4>2, <4>3 DEF Right
    <3>3. QED
      BY <1>3, <3>1, <3>2, ResolveFinds
  <2>6. QED
    BY <1>1, <2>2, <2>5
<1>8. CASE Stop
  <2>1. process' = "down" /\ settings'.presets = <<>> /\ chosen'.name = NoName
    BY <1>8 DEF Stop, NoSettings, NoChoice
  <2>2. WellFormed(<<>>)
    <3>1. DOMAIN <<>> = {}
      BY EmptySeq
    <3>2. QED
      BY <3>1, RuleOfEntries
  <2>3. QED
    BY <1>4, <2>1, <2>2
<1>9. CASE Connect \/ EndDiscovery
  <2>1. process # "down" /\ process' # "down"
        /\ UNCHANGED <<settings, retained, shown, chosen, described>>
    BY <1>9 DEF Connect, EndDiscovery
  <2>2. QED
    BY <1>1, <2>1
<1>10. CASE LinkLost \/ Edit \/ UNCHANGED vars
  <2>1. UNCHANGED <<process, settings, retained, shown, chosen, described>>
    BY <1>10 DEF LinkLost, Edit, vars
  <2>2. QED
    BY <1>1, <2>1
<1>11. CASE HomeAssistantRestart
  <2>1. shown' = retained /\ UNCHANGED <<process, settings, retained, chosen, described>>
    BY <1>11 DEF HomeAssistantRestart
  <2>2. Has("preset", settings.instance, settings.presets, retained, shown)
          => Has("preset", settings.instance, settings.presets, retained, retained)
    BY DEF Has
  <2>3. QED
    BY <1>1, <2>1, <2>2
<1>12. QED
  BY <1>5, <1>6, <1>7, <1>8, <1>9, <1>10, <1>11 DEF Next

LEMMA DiscoveryInvHolds == Spec => []DiscoveryInv
<1>1. Init => DiscoveryInv
  <2> SUFFICES ASSUME Init PROVE DiscoveryInv
    OBVIOUS
  <2>1. /\ settings.presets = <<>> /\ <<>> \in Seq(Entry) /\ DOMAIN <<>> = {}
        /\ chosen.name = NoName /\ process = "down" /\ link = "down"
    BY EmptySeq DEF Init, NoSettings, NoChoice
  <2>2. retained \in [Keys -> Descriptions] /\ shown \in [Keys -> Descriptions]
    BY DescriptionTypes DEF Init
  <2>3. DiscoveryTypeOK
    BY <2>1, <2>2 DEF Init, DiscoveryTypeOK
  <2>4. WellFormed(settings.presets)
    BY <2>1, RuleOfEntries
  <2>5. OfferInv /\ ChoiceInv
    BY <2>1, <2>4 DEF OfferInv, ChoiceInv, ChosenIsConfigured
  <2>6. QED
    BY <2>3, <2>5 DEF DiscoveryInv
<1>2. DiscoveryInv /\ [Next]_vars => DiscoveryInv'
  BY DiscoveryTypeStep, OfferStep, ChoiceStep DEF DiscoveryInv
<1>3. QED
  BY <1>1, <1>2, PTL DEF Spec

-----------------------------------------------------------------------------
(* The properties.                                                         *)

\* After every connect whose session lasts, Home Assistant shows each entity as the
\* running process describes it; but without presets only the first three, and not
\* a dropdown that is cut.
THEOREM OfferIsTrue == Spec => []OfferIsCurrent
<1>1. DiscoveryInv => OfferIsCurrent
  <2> SUFFICES ASSUME DiscoveryInv, process = "loop", link = "up",
                      NEW i \in DOMAIN Entities
               PROVE  \/ shown[<<settings.instance, Entities[i]>>]
                           = Wanted(Entities[i], settings.presets)
                      \/ settings.presets = <<>> /\ i > 3
                      \/ Len(settings.presets) > Room /\ HasOptions(Entities[i])
    BY DEF OfferIsCurrent, Wanted
  <2>1. \/ Offered(Entities[i], settings.instance, settings.presets, retained, shown)
        \/ Len(settings.presets) = 0 /\ i > 3
    BY EntitiesAre DEF DiscoveryInv, OfferInv
  <2>2. Len(settings.presets) = 0 => settings.presets = <<>>
    BY EmptySeq DEF DiscoveryInv, DiscoveryTypeOK
  <2>3. QED
    BY <2>1, <2>2 DEF Offered, Has
<1>2. QED
  BY <1>1, DiscoveryInvHolds, PTL

\* A preset that is chosen leads to the directory configured for it, or, from a
\* dropdown of an older process, for a name that differs in case only, or nowhere.
THEOREM ChoiceIsRight == Spec => []ChosenIsConfigured
<1>1. DiscoveryInv => ChosenIsConfigured
  BY DEF DiscoveryInv, ChoiceInv
<1>2. QED
  BY <1>1, DiscoveryInvHolds, PTL

\* A process that starts has all the presets of the file, if they follow the
\* documented rule, and otherwise none, however many there are.
THEOREM AllOrNoPresets == Spec => LoadsOrDiscards
<1> DEFINE A == (process = "down" /\ process' # "down") =>
                  settings'.presets = IF WellFormed(file.presets) THEN file.presets ELSE <<>>
<1>1. ASSUME DiscoveryInv, [Next]_vars PROVE [A]_vars
  <2> SUFFICES ASSUME process = "down", process' # "down"
               PROVE  settings'.presets = IF WellFormed(file.presets) THEN file.presets
                                          ELSE <<>>
    OBVIOUS
  <2>1. file.presets \in Seq(Entry) /\ link = "down"
    BY <1>1, FilesAssumption DEF DiscoveryInv, DiscoveryTypeOK
  <2>2. Start
    BY <1>1, <2>1 DEF Next, Connect, Describe, EndDiscovery, Choose, Stop, LinkLost, Edit,
                      HomeAssistantRestart, vars
  <2>3. settings'.presets = Presets(file.presets)
    BY <2>2 DEF Start
  <2>4. QED
    BY <2>1, <2>3, LoadedIsWellFormed
<1>2. QED
  BY <1>1, DiscoveryInvHolds, PTL DEF Spec, LoadsOrDiscards

=============================================================================
