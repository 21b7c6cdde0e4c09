------------------------- MODULE ProfileApply_proof -------------------------
(***************************************************************************)
(* The properties of ProfileApply for every set of profiles, whatever      *)
(* parts they enable, and every number of applies; and that it implements  *)
(* DoorbellApply.                                                          *)
(***************************************************************************)
EXTENDS ProfileApply, SequenceTheorems, TLAPS

-----------------------------------------------------------------------------
(* What is left of an upload or of a script.  Both go through their steps  *)
(* in one order, so that the place reached says what was done.             *)

Rank(step) ==
    CASE step = "mkdtemp" -> 1         [] step = "get_confs" -> 2
      [] step = "rm_remote" -> 3       [] step = "mkdir_remote" -> 4
      [] step = "patch_lcm" -> 5       [] step = "ensure_dirs" -> 6
      [] step = "cleanup_anim" -> 7    [] step = "anim" -> 8
      [] step = "anim.md5" -> 9        [] step = "lcm_gui.conf" -> 10
      [] step = "patch_sounds" -> 11   [] step = "cleanup_snd" -> 12
      [] step = "sound" -> 13          [] step = "sound.md5" -> 14
      [] step = "sounds_leds.conf" -> 15 [] step = "script" -> 16
      [] step = "restart_services" -> 17

Left(todo, step) == \E i \in 1..Len(todo) : todo[i] = step

Sorted(todo) == \A i, j \in 1..Len(todo) : i < j => Rank(todo[i]) < Rank(todo[j])

\* All the given steps, in order; and what is left of them.
Lists(todo, steps) ==
    todo \in Seq(steps) /\ Sorted(todo) /\ \A x \in steps : Left(todo, x)
Remains(todo, steps) ==
    /\ todo \in Seq(steps) /\ Sorted(todo)
    /\ \A x, y \in steps : Left(todo, x) /\ Rank(x) < Rank(y) => Left(todo, y)

\* The files of a profile, and the steps that its upload and its script take.
Enabled(p) ==
    (IF p \in Welcome THEN {"anim", "anim.md5"} ELSE {}) \cup {"lcm_gui.conf"}
    \cup (IF p \in Ring THEN Sound ELSE {})
UploadSteps(p) ==
    {"mkdtemp", "get_confs", "rm_remote", "mkdir_remote", "patch_lcm", "script"}
    \cup Enabled(p) \cup (IF p \in Ring THEN {"patch_sounds"} ELSE {})
ScriptSteps(p) ==
    {"ensure_dirs", "cleanup_anim", "restart_services"} \cup Enabled(p)
    \cup (IF p \in Ring THEN {"cleanup_snd"} ELSE {})

LEMMA RankFacts ==
    /\ Rank("mkdtemp") = 1 /\ Rank("get_confs") = 2 /\ Rank("rm_remote") = 3
    /\ Rank("mkdir_remote") = 4 /\ Rank("patch_lcm") = 5 /\ Rank("ensure_dirs") = 6
    /\ Rank("cleanup_anim") = 7 /\ Rank("anim") = 8 /\ Rank("anim.md5") = 9
    /\ Rank("lcm_gui.conf") = 10 /\ Rank("patch_sounds") = 11
    /\ Rank("cleanup_snd") = 12 /\ Rank("sound") = 13 /\ Rank("sound.md5") = 14
    /\ Rank("sounds_leds.conf") = 15 /\ Rank("script") = 16
    /\ Rank("restart_services") = 17
  BY DEF Rank

LEMMA RankNat == \A x \in Steps : Rank(x) \in 1..17
  BY RankFacts DEF Steps, Items, Animation, Sound

\* To take the first step leaves the others.
LEMMA TailRemains ==
    ASSUME NEW steps \in SUBSET Steps, NEW todo, Remains(todo, steps), Len(todo) # 0
    PROVE  /\ Remains(Tail(todo), steps)
           /\ Head(todo) \in steps /\ Left(todo, Head(todo))
           /\ Len(Tail(todo)) = Len(todo) - 1 /\ Len(todo) \in Nat
           /\ \A x : Left(Tail(todo), x) <=> (Left(todo, x) /\ x # Head(todo))
           /\ \A x \in steps : Rank(x) < Rank(Head(todo)) => ~Left(todo, x)
           /\ \A x \in steps : Rank(Head(todo)) < Rank(x) => Left(Tail(todo), x)
<1> DEFINE rest == Tail(todo)
<1>1. /\ todo \in Seq(steps) /\ Len(todo) \in Nat \ {0}
      /\ rest \in Seq(steps) /\ Len(rest) = Len(todo) - 1
      /\ \A i \in 1..Len(rest) : rest[i] = todo[i + 1] /\ i + 1 \in 1..Len(todo)
      /\ \A i \in 1..Len(todo) : i # 1 => i - 1 \in 1..Len(rest) /\ rest[i - 1] = todo[i]
      /\ Head(todo) = todo[1] /\ todo[1] \in steps
      /\ \A i \in 1..Len(todo) : todo[i] \in steps
  BY DEF Remains
<1>2. \A x \in steps : Rank(x) \in Nat
  BY RankNat
<1> HIDE DEF rest
<1>3. \A i \in 1..Len(todo) : i # 1 => Rank(todo[1]) < Rank(todo[i])
  BY <1>1 DEF Remains, Sorted
<1>4. \A i \in 1..Len(todo) : i # 1 => todo[i] # todo[1]
  BY <1>1, <1>2, <1>3
<1>5. ASSUME NEW x
      PROVE  Left(rest, x) <=> (Left(todo, x) /\ x # todo[1])
  <2>1. ASSUME NEW i \in 1..Len(rest), rest[i] = x
        PROVE  Left(todo, x) /\ x # todo[1]
    <3>1. i + 1 \in 1..Len(todo) /\ todo[i + 1] = x /\ i + 1 # 1
      BY <1>1, <2>1
    <3>2. QED
      BY <1>4, <3>1 DEF Left
  <2>2. ASSUME NEW i \in 1..Len(todo), todo[i] = x, x # todo[1]
        PROVE  Left(rest, x)
    <3>1. i - 1 \in 1..Len(rest) /\ rest[i - 1] = x
      BY <1>1, <2>2
    <3>2. QED
      BY <3>1 DEF Left
  <2>3. QED
    BY <2>1, <2>2 DEF Left
<1>6. Left(todo, todo[1])
  BY <1>1 DEF Left
<1>7. Sorted(rest)
  <2>1. \A i, j \in 1..Len(todo) : i < j => Rank(todo[i]) < Rank(todo[j])
    BY DEF Remains, Sorted
  <2>2. \A i, j \in 1..Len(rest) :
           i < j => Rank(todo[i + 1]) < Rank(todo[j + 1])
    BY <1>1, <2>1
  <2>3. QED
    BY <1>1, <2>2 DEF Sorted
<1>8. \A x, y \in steps : Left(todo, x) /\ Rank(x) < Rank(y) => Left(todo, y)
  BY DEF Remains
<1>9. \A x \in steps : Left(todo, x) => x = todo[1] \/ Rank(todo[1]) < Rank(x)
  BY <1>3 DEF Left
<1>10. \A x \in steps : Rank(todo[1]) < Rank(x) => Left(rest, x)
  BY <1>1, <1>2, <1>5, <1>6, <1>8
<1>11. \A x, y \in steps : Left(rest, x) /\ Rank(x) < Rank(y) => Left(rest, y)
  BY <1>1, <1>2, <1>5, <1>8, <1>9
<1>12. ASSUME NEW x \in steps, Rank(x) < Rank(todo[1])
       PROVE  ~Left(todo, x)
  <2>1. Rank(x) \in Nat /\ Rank(todo[1]) \in Nat
    BY <1>1, <1>2
  <2>2. x # todo[1] /\ ~(Rank(todo[1]) < Rank(x))
    BY <1>12, <2>1
  <2>3. QED
    BY <1>9, <2>2
<1>13. QED
  BY <1>1, <1>5, <1>6, <1>7, <1>10, <1>11, <1>12 DEF Remains, rest

LEMMA NothingRemains ==
    ASSUME NEW steps PROVE Remains(<<>>, steps) /\ \A x : ~Left(<<>>, x)
  BY EmptySeq DEF Remains, Sorted, Left

LEMMA ListsRemains ==
    ASSUME NEW todo, NEW steps, Lists(todo, steps) PROVE Remains(todo, steps)
  BY DEF Lists, Remains

\* Lists one after the other.
LEMMA ConcatLists ==
    ASSUME NEW a, NEW b, NEW A \in SUBSET Steps, NEW B \in SUBSET Steps,
           Lists(a, A), Lists(b, B),
           \A x \in A, y \in B : Rank(x) < Rank(y)
    PROVE  Lists(a \o b, A \cup B)
<1> DEFINE s == a \o b
<1>1. /\ a \in Seq(A \cup B) /\ b \in Seq(A \cup B)
      /\ \A i \in 1..Len(a) : a[i] \in A
      /\ \A i \in 1..Len(b) : b[i] \in B
      /\ Len(a) \in Nat /\ Len(b) \in Nat
  BY DEF Lists
<1>2. /\ s \in Seq(A \cup B) /\ Len(s) = Len(a) + Len(b)
      /\ \A i \in 1..Len(s) : s[i] = IF i <= Len(a) THEN a[i] ELSE b[i - Len(a)]
      /\ \A i \in 1..Len(a) : i \in 1..Len(s) /\ s[i] = a[i]
      /\ \A i \in 1..Len(b) : i + Len(a) \in 1..Len(s) /\ s[i + Len(a)] = b[i]
  BY <1>1
<1> HIDE DEF s
<1>3. \A x \in A \cup B : Left(s, x)
  <2>1. ASSUME NEW x \in A PROVE Left(s, x)
    <3>1. PICK i \in 1..Len(a) : a[i] = x
      BY DEF Lists, Left
    <3>2. QED
      BY <1>2, <3>1 DEF Left
  <2>2. ASSUME NEW x \in B PROVE Left(s, x)
    <3>1. PICK i \in 1..Len(b) : b[i] = x
      BY DEF Lists, Left
    <3>2. QED
      BY <1>2, <3>1 DEF Left
  <2>3. QED
    BY <2>1, <2>2
<1>4. Sorted(s)
  <2> SUFFICES ASSUME NEW i \in 1..Len(s), NEW j \in 1..Len(s), i < j
               PROVE  Rank(s[i]) < Rank(s[j])
    BY DEF Sorted
  <2>1. CASE j <= Len(a)
    BY <1>1, <1>2, <2>1 DEF Lists, Sorted
  <2>2. CASE i > Len(a)
    <3> DEFINE k == i - Len(a)
               l == j - Len(a)
    <3>1. k \in 1..Len(b) /\ l \in 1..Len(b) /\ k < l
      BY <1>1, <1>2, <2>2
    <3>2. s[i] = b[k] /\ s[j] = b[l]
      BY <1>1, <1>2, <2>2
    <3> HIDE DEF k, l
    <3>3. QED
      BY <3>1, <3>2 DEF Lists, Sorted
  <2>3. CASE i <= Len(a) /\ j > Len(a)
    <3> DEFINE l == j - Len(a)
    <3>1. l \in 1..Len(b) /\ i \in 1..Len(a)
      BY <1>1, <1>2, <2>3
    <3>2. s[i] = a[i] /\ s[j] = b[l]
      BY <1>1, <1>2, <2>3
    <3> HIDE DEF l
    <3>3. s[i] \in A /\ s[j] \in B
      BY <1>1, <3>1, <3>2
    <3>4. QED
      BY <3>3
  <2>4. QED
    BY <1>1, <2>1, <2>2, <2>3
<1>5. QED
  BY <1>2, <1>3, <1>4 DEF Lists, s

\* The parts of an upload and of a script.
LEMMA PartsAreLists ==
    ASSUME NEW p
    PROVE  /\ Lists(When(p \in Welcome, <<"anim", "anim.md5">>),
                    IF p \in Welcome THEN {"anim", "anim.md5"} ELSE {})
           /\ Lists(<<"lcm_gui.conf">>, {"lcm_gui.conf"})
           /\ Lists(When(p \in Ring, <<"patch_sounds", "sound", "sound.md5",
                                       "sounds_leds.conf">>),
                    IF p \in Ring THEN Sound \cup {"patch_sounds"} ELSE {})
           /\ Lists(SoundPart(p),
                    IF p \in Ring THEN Sound \cup {"cleanup_snd"} ELSE {})
<1>1. Lists(<<>>, {})
  BY EmptySeq DEF Lists, Sorted
<1>2. Lists(<<"anim", "anim.md5">>, {"anim", "anim.md5"})
  BY RankFacts DEF Lists, Sorted, Left
<1>3. Lists(<<"lcm_gui.conf">>, {"lcm_gui.conf"})
  BY RankFacts DEF Lists, Sorted, Left
<1>4. Lists(<<"patch_sounds", "sound", "sound.md5", "sounds_leds.conf">>,
            Sound \cup {"patch_sounds"})
  BY RankFacts DEF Lists, Sorted, Left, Sound
<1>5. Lists(<<"cleanup_snd", "sound", "sound.md5", "sounds_leds.conf">>,
            Sound \cup {"cleanup_snd"})
  BY RankFacts DEF Lists, Sorted, Left, Sound
<1>6. QED
  BY <1>1, <1>2, <1>3, <1>4, <1>5 DEF When, SoundPart

LEMMA UploadLists ==
    ASSUME NEW p
    PROVE  Lists(Upload(p), UploadSteps(p)) /\ Len(Upload(p)) # 0
<1> DEFINE a == <<"mkdtemp", "get_confs", "rm_remote", "mkdir_remote", "patch_lcm">>
           b == When(p \in Welcome, <<"anim", "anim.md5">>)
           d == When(p \in Ring, <<"patch_sounds", "sound", "sound.md5",
                                  "sounds_leds.conf">>)
           A == {"mkdtemp", "get_confs", "rm_remote", "mkdir_remote", "patch_lcm"}
           B == IF p \in Welcome THEN {"anim", "anim.md5"} ELSE {}
           D == IF p \in Ring THEN Sound \cup {"patch_sounds"} ELSE {}
<1>1. Lists(a, A) /\ Lists(<<"script">>, {"script"})
  BY RankFacts DEF Lists, Sorted, Left
<1>2. Lists(b, B) /\ Lists(<<"lcm_gui.conf">>, {"lcm_gui.conf"}) /\ Lists(d, D)
  BY PartsAreLists
<1>3. /\ A \in SUBSET Steps /\ B \in SUBSET Steps /\ D \in SUBSET Steps
      /\ {"script"} \in SUBSET Steps /\ {"lcm_gui.conf"} \in SUBSET Steps
  BY DEF Steps, Items, Animation, Sound
<1>4. /\ \A x \in A : Rank(x) <= 5
      /\ \A x \in B : Rank(x) \in 8..9
      /\ \A x \in D : Rank(x) \in 11..15
      /\ Rank("lcm_gui.conf") = 10 /\ Rank("script") = 16
      /\ \A x \in Steps : Rank(x) \in Nat
  BY RankFacts, RankNat DEF Sound
<1> DEFINE script1 == <<"script">>
           lcm == <<"lcm_gui.conf">>
<1> HIDE DEF a, b, d, script1, lcm, A, B, D
<1>5. Lists(a \o b, A \cup B)
  BY <1>1, <1>2, <1>3, <1>4, ConcatLists
<1>6. Lists(a \o b \o lcm, A \cup B \cup {"lcm_gui.conf"})
  <2>1. \A x \in A \cup B, y \in {"lcm_gui.conf"} : Rank(x) < Rank(y)
    BY <1>3, <1>4
  <2>2. QED
    BY <1>2, <1>3, <1>5, <2>1, ConcatLists DEF lcm
<1>7. Lists(a \o b \o lcm \o d, A \cup B \cup {"lcm_gui.conf"} \cup D)
  <2>1. \A x \in A \cup B \cup {"lcm_gui.conf"}, y \in D : Rank(x) < Rank(y)
    BY <1>3, <1>4
  <2>2. QED
    BY <1>2, <1>3, <1>6, <2>1, ConcatLists
<1>8. Lists(a \o b \o lcm \o d \o script1,
            A \cup B \cup {"lcm_gui.conf"} \cup D \cup {"script"})
  <2>1. \A x \in A \cup B \cup {"lcm_gui.conf"} \cup D, y \in {"script"} :
           Rank(x) < Rank(y)
    BY <1>3, <1>4
  <2>2. QED
    BY <1>1, <1>3, <1>7, <2>1, ConcatLists DEF script1
<1>9. Upload(p) = a \o b \o lcm \o d \o script1
  BY Zenon DEF Upload, a, b, d, lcm, script1
<1>10. A \cup B \cup {"lcm_gui.conf"} \cup D \cup {"script"} = UploadSteps(p)
  BY DEF A, B, D, UploadSteps, Enabled, Sound
<1>11. Lists(Upload(p), UploadSteps(p))
  BY <1>8, <1>9, <1>10
<1>12. Len(Upload(p)) # 0
  BY <1>11 DEF Lists, Left, UploadSteps
<1>13. QED
  BY <1>11, <1>12

LEMMA ScriptLists ==
    ASSUME NEW p
    PROVE  Lists(Script(p), ScriptSteps(p)) /\ Len(Script(p)) # 0
<1> DEFINE a == <<"ensure_dirs", "cleanup_anim">>
           b == When(p \in Welcome, <<"anim", "anim.md5">>)
           d == SoundPart(p)
           A == {"ensure_dirs", "cleanup_anim"}
           B == IF p \in Welcome THEN {"anim", "anim.md5"} ELSE {}
           D == IF p \in Ring THEN Sound \cup {"cleanup_snd"} ELSE {}
<1>1. Lists(a, A) /\ Lists(<<"restart_services">>, {"restart_services"})
  BY RankFacts DEF Lists, Sorted, Left
<1>2. Lists(b, B) /\ Lists(<<"lcm_gui.conf">>, {"lcm_gui.conf"}) /\ Lists(d, D)
  BY PartsAreLists
<1>3. /\ A \in SUBSET Steps /\ B \in SUBSET Steps /\ D \in SUBSET Steps
      /\ {"restart_services"} \in SUBSET Steps /\ {"lcm_gui.conf"} \in SUBSET Steps
  BY DEF Steps, Items, Animation, Sound
<1>4. /\ \A x \in A : Rank(x) \in 6..7
      /\ \A x \in B : Rank(x) \in 8..9
      /\ \A x \in D : Rank(x) \in 11..15
      /\ Rank("lcm_gui.conf") = 10 /\ Rank("restart_services") = 17
      /\ \A x \in Steps : Rank(x) \in Nat
  BY RankFacts, RankNat DEF Sound
<1> DEFINE restart == <<"restart_services">>
           lcm == <<"lcm_gui.conf">>
<1> HIDE DEF a, b, d, restart, lcm, A, B, D
<1>5. Lists(a \o b, A \cup B)
  BY <1>1, <1>2, <1>3, <1>4, ConcatLists
<1>6. Lists(a \o b \o lcm, A \cup B \cup {"lcm_gui.conf"})
  <2>1. \A x \in A \cup B, y \in {"lcm_gui.conf"} : Rank(x) < Rank(y)
    BY <1>3, <1>4
  <2>2. QED
    BY <1>2, <1>3, <1>5, <2>1, ConcatLists DEF lcm
<1>7. Lists(a \o b \o lcm \o d, A \cup B \cup {"lcm_gui.conf"} \cup D)
  <2>1. \A x \in A \cup B \cup {"lcm_gui.conf"}, y \in D : Rank(x) < Rank(y)
    BY <1>3, <1>4
  <2>2. QED
    BY <1>2, <1>3, <1>6, <2>1, ConcatLists
<1>8. Lists(a \o b \o lcm \o d \o restart,
            A \cup B \cup {"lcm_gui.conf"} \cup D \cup {"restart_services"})
  <2>1. \A x \in A \cup B \cup {"lcm_gui.conf"} \cup D, y \in {"restart_services"} :
           Rank(x) < Rank(y)
    BY <1>3, <1>4
  <2>2. QED
    BY <1>1, <1>3, <1>7, <2>1, ConcatLists DEF restart
<1>9. Script(p) = a \o b \o lcm \o d \o restart
  BY Zenon DEF Script, a, b, d, lcm, restart
<1>10. A \cup B \cup {"lcm_gui.conf"} \cup D \cup {"restart_services"} = ScriptSteps(p)
  BY DEF A, B, D, ScriptSteps, Enabled, Sound
<1>11. Lists(Script(p), ScriptSteps(p))
  BY <1>8, <1>9, <1>10
<1>12. Len(Script(p)) # 0
  BY <1>11 DEF Lists, Left, ScriptSteps
<1>13. QED
  BY <1>11, <1>12

-----------------------------------------------------------------------------
(* The inductive invariant.                                                *)

\* The types, with what is left of an upload whose connection dropped.
ShapeInv ==
    /\ worker \in [todo : Seq(Steps), profile : Profiles \cup {None},
                  confs : [Confs -> Placed]]
    /\ orphan \in [todo : Seq(Steps), profile : Profiles \cup {None}]
    /\ script \in Seq(Steps)
    /\ tmp \in [Items -> Sent] /\ bell \in [Items -> Placed]
    /\ running \in [Items -> Placed]
    /\ TypeOK

\* The place of a call in its upload and in its script; a script runs only under
\* the last step of the upload.
PlaceInv ==
    /\ Len(worker.todo) # 0 =>
         worker.profile \in Profiles
         /\ Remains(worker.todo, UploadSteps(worker.profile))
    /\ Len(script) # 0 =>
         /\ Len(worker.todo) # 0 /\ Head(worker.todo) = "script" /\ ~hung
         /\ Remains(script, ScriptSteps(worker.profile))
    /\ hung => Len(worker.todo) # 0

\* A script that lost its call and still runs taints the next one.
FaultInv ==
    Len(worker.todo) # 0 /\ ~tainted /\ ~hung => Len(orphan.todo) = 0

\* Once a call has emptied the upload directory it holds nothing but whole files of
\* the call's profile, and those whose transfer that very call cut short.
OwnInv ==
    Len(worker.todo) # 0 /\ ~Left(worker.todo, "rm_remote") =>
        \A x \in Items : \/ tmp[x] \in {None, worker.profile}
                         \/ tmp[x] = "short" /\ tainted

\* The files of p that were sent are in the upload directory.
AllSent(files, todo, p) ==
    \A x \in Enabled(p) : ~Left(todo, x) => files[x] = p
SentInv ==
    Len(worker.todo) # 0 /\ ~tainted /\ ~hung /\ Len(script) = 0
        => AllSent(tmp, worker.todo, worker.profile)

\* A file of p that the script has yet to move is in the upload directory; one it
\* moved is in its place; a profile without an animation leaves none.
AllPlaced(from, to, todo, p) ==
    /\ \A x \in Enabled(p) : IF Left(todo, x) THEN from[x] = p ELSE to[x] = p
    /\ p \notin Welcome /\ ~Left(todo, "cleanup_anim")
         => to["anim"] = None /\ to["anim.md5"] = None
PlacedInv ==
    Len(script) # 0 /\ ~tainted => AllPlaced(tmp, bell, script, worker.profile)

\* What an undisturbed call that returned ERROR_NONE left.
DoneInv ==
    Len(worker.todo) = 0 /\ commands > 0 /\ result = "NONE" /\ ~tainted
        => /\ Len(orphan.todo) = 0
           /\ Whole(bell, worker.profile) /\ running = bell

ApplyInv ==
    ShapeInv /\ PlaceInv /\ FaultInv /\ OwnInv /\ SentInv /\ PlacedInv /\ DoneInv

-----------------------------------------------------------------------------
(* Facts about a state and about single steps.                             *)

\* Empty is of length zero, for each of the sequences.
LEMMA EmptyIsZero ==
    ASSUME ShapeInv
    PROVE  /\ Idle <=> Len(worker.todo) = 0
           /\ script = <<>> <=> Len(script) = 0
           /\ orphan.todo = <<>> <=> Len(orphan.todo) = 0
           /\ Len(worker.todo) \in Nat /\ Len(script) \in Nat /\ Len(orphan.todo) \in Nat
           /\ Len(<<>>) = 0
<1>1. worker.todo \in Seq(Steps) /\ script \in Seq(Steps) /\ orphan.todo \in Seq(Steps)
  BY DEF ShapeInv
<1>2. ASSUME NEW s \in Seq(Steps)
      PROVE  (s = <<>> <=> Len(s) = 0) /\ Len(s) \in Nat
  BY <1>2, EmptySeq
<1>3. Len(<<>>) = 0
  BY EmptySeq
<1>4. QED
  BY <1>1, <1>2, <1>3 DEF Idle

LEMMA StepsAreSteps ==
    ASSUME NEW p
    PROVE  UploadSteps(p) \in SUBSET Steps /\ ScriptSteps(p) \in SUBSET Steps
  BY DEF UploadSteps, ScriptSteps, Enabled, Steps, Items, Animation, Sound

\* What remains is a sequence of steps, and so is its tail.
LEMMA TailIsSteps ==
    ASSUME NEW s \in Seq(Steps), Len(s) # 0
    PROVE  /\ Tail(s) \in Seq(Steps) /\ Len(Tail(s)) = Len(s) - 1
           /\ Head(s) \in Steps
  OBVIOUS

LEMMA PerformTypes ==
    ASSUME ShapeInv, NEW step, NEW p, Perform(step, p)
    PROVE  /\ tmp' \in [Items -> Sent] /\ bell' \in [Items -> Placed]
           /\ running' \in [Items -> Placed]
<1> Sent \subseteq Placed /\ None \in Sent /\ Nothing \in [Items -> Sent]
  BY DEF Sent, Placed, Partial, Nothing
<1> tmp \in [Items -> Sent] /\ bell \in [Items -> Placed] /\ running \in [Items -> Placed]
  BY DEF ShapeInv
<1> HIDE DEF Sent, Placed
<1>1. CASE /\ step \in Items /\ Moves(step, p)
           /\ bell' = [bell EXCEPT ![step] = tmp[step]]
           /\ tmp' = [tmp EXCEPT ![step] = None] /\ running' = running
  BY <1>1
<1>2. CASE bell' = [bell EXCEPT !["anim"] = None, !["anim.md5"] = None]
           /\ tmp' = tmp /\ running' = running
  BY <1>2 DEF Items, Animation
<1>3. CASE bell' = [bell EXCEPT !["sound"] = None, !["sound.md5"] = None]
           /\ tmp' = tmp /\ running' = running
  BY <1>3 DEF Items, Sound
<1>4. CASE tmp' = tmp /\ bell' = bell /\ running' \in {bell, running}
  BY <1>4
<1>5. QED
  BY <1>1, <1>2, <1>3, <1>4 DEF Perform

LEMMA BotchTypes ==
    ASSUME ShapeInv, NEW step, Botch(step)
    PROVE  bell' \in [Items -> Placed] /\ running' \in [Items -> Placed]
<1> "cut" \in Placed /\ bell \in [Items -> Placed] /\ running \in [Items -> Placed]
  BY DEF ShapeInv, Placed, Partial
<1> HIDE DEF Placed
<1>1. QED
  BY DEF Botch

LEMMA UploadCodes ==
    ASSUME NEW p, NEW step \in UploadSteps(p), step # "script"
    PROVE  Codes(step) \subseteq {"DOWNLOAD_FAILED", "UPLOAD_FAILED", "TRANSFER_FAILED",
                                 "PROFILE_INVALID"}
  BY DEF UploadSteps, Enabled, Sound, Codes

\* The head of an upload and of a script, and what is left after it.
LEMMA UploadHead ==
    ASSUME ShapeInv, PlaceInv, Len(worker.todo) # 0
    PROVE  LET p == worker.profile
               step == Head(worker.todo)
               rest == Tail(worker.todo) IN
           /\ p \in Profiles /\ step \in UploadSteps(p)
           /\ Remains(rest, UploadSteps(p))
           /\ \A x \in UploadSteps(p) :
                /\ Left(rest, x) <=> (Left(worker.todo, x) /\ x # step)
                /\ Rank(x) < Rank(step) => ~Left(worker.todo, x)
                /\ Rank(step) < Rank(x) => Left(rest, x)
           /\ step # "script" => Len(rest) # 0
           /\ step # "script" => Len(script) = 0
<1> DEFINE p == worker.profile
           step == Head(worker.todo)
           rest == Tail(worker.todo)
<1>1. p \in Profiles /\ Remains(worker.todo, UploadSteps(p))
  BY DEF PlaceInv
<1>2. UploadSteps(p) \in SUBSET Steps
  BY StepsAreSteps
<1>3. /\ step \in UploadSteps(p) /\ Remains(rest, UploadSteps(p))
      /\ \A x : Left(rest, x) <=> (Left(worker.todo, x) /\ x # step)
      /\ \A x \in UploadSteps(p) : Rank(x) < Rank(step) => ~Left(worker.todo, x)
      /\ \A x \in UploadSteps(p) : Rank(step) < Rank(x) => Left(rest, x)
      /\ Len(rest) \in Nat
  BY <1>1, <1>2, TailRemains
<1>4. ASSUME step # "script" PROVE Len(rest) # 0
  <2>1. "script" \in UploadSteps(p) /\ Rank(step) < Rank("script")
    BY <1>3, <1>4, RankFacts DEF UploadSteps, Enabled, Sound
  <2>2. Left(rest, "script")
    BY <1>3, <2>1
  <2>3. QED
    BY <1>3, <2>2 DEF Left
<1>5. step # "script" => Len(script) = 0
  BY DEF PlaceInv
<1> HIDE DEF p, step, rest
<1>6. QED
  BY <1>1, <1>3, <1>4, <1>5 DEF p, step, rest

LEMMA ScriptHead ==
    ASSUME ShapeInv, PlaceInv, Len(script) # 0
    PROVE  LET p == worker.profile
               step == Head(script)
               rest == Tail(script) IN
           /\ p \in Profiles /\ step \in ScriptSteps(p)
           /\ Remains(rest, ScriptSteps(p))
           /\ \A x \in ScriptSteps(p) :
                /\ Left(rest, x) <=> (Left(script, x) /\ x # step)
                /\ Rank(x) < Rank(step) => ~Left(script, x)
                /\ Rank(step) < Rank(x) => Left(rest, x)
           /\ Len(script) = 1 => step = "restart_services" /\ \A x : ~Left(rest, x)
           /\ Len(script) # 1 => Len(rest) # 0
<1> DEFINE p == worker.profile
           step == Head(script)
           rest == Tail(script)
<1>1. p \in Profiles /\ Remains(script, ScriptSteps(p))
  BY DEF PlaceInv
<1>2. ScriptSteps(p) \in SUBSET Steps
  BY StepsAreSteps
<1>3. /\ step \in ScriptSteps(p) /\ Remains(rest, ScriptSteps(p))
      /\ \A x : Left(rest, x) <=> (Left(script, x) /\ x # step)
      /\ \A x \in ScriptSteps(p) : Rank(x) < Rank(step) => ~Left(script, x)
      /\ \A x \in ScriptSteps(p) : Rank(step) < Rank(x) => Left(rest, x)
      /\ Len(rest) = Len(script) - 1 /\ Len(script) \in Nat
  BY <1>1, <1>2, TailRemains
<1>4. ASSUME Len(script) = 1
      PROVE  step = "restart_services" /\ \A x : ~Left(rest, x)
  <2>1. \A x : ~Left(rest, x)
    BY <1>3, <1>4 DEF Left
  <2>2. "restart_services" \in ScriptSteps(p)
        /\ (step # "restart_services" => Rank(step) < Rank("restart_services"))
    BY <1>3, RankFacts DEF ScriptSteps, Enabled, Sound
  <2>3. QED
    BY <1>3, <2>1, <2>2
<1> HIDE DEF p, step, rest
<1>5. QED
  BY <1>1, <1>3, <1>4 DEF p, step, rest

-----------------------------------------------------------------------------
(* Every step preserves each part of the invariant.                        *)

LEMMA ShapeStep == ShapeInv /\ PlaceInv /\ [Next]_vars => ShapeInv'
<1> SUFFICES ASSUME ShapeInv, PlaceInv, [Next]_vars PROVE ShapeInv'
  OBVIOUS
<1> DEFINE Worker == [todo : Seq(Steps), profile : Profiles \cup {None},
                      confs : [Confs -> Placed]]
           Orphan == [todo : Seq(Steps), profile : Profiles \cup {None}]
           Results == {"NONE", "DOWNLOAD_FAILED", "UPLOAD_FAILED", "TRANSFER_FAILED",
                       "PROFILE_INVALID", "APPLY_FAILED", "lost"}
<1>1. /\ worker \in Worker /\ orphan \in Orphan /\ script \in Seq(Steps)
      /\ tmp \in [Items -> Sent] /\ bell \in [Items -> Placed]
      /\ running \in [Items -> Placed]
      /\ commands \in Nat /\ faults \in Nat /\ result \in Results
      /\ tainted \in BOOLEAN /\ hung \in BOOLEAN /\ sender \in Profiles \cup {None}
  BY DEF ShapeInv, TypeOK
<1>2. SUFFICES /\ worker' \in Worker /\ orphan' \in Orphan /\ script' \in Seq(Steps)
               /\ tmp' \in [Items -> Sent] /\ bell' \in [Items -> Placed]
               /\ running' \in [Items -> Placed]
               /\ commands' \in Nat /\ faults' \in Nat /\ result' \in Results
               /\ tainted' \in BOOLEAN /\ hung' \in BOOLEAN
               /\ sender' \in Profiles \cup {None}
  <2>1. \A s \in Seq(Steps) : \A i \in DOMAIN s : s[i] \in Steps
    OBVIOUS
  <2>2. QED
    BY <2>1 DEF ShapeInv, TypeOK
<1>3. <<>> \in Seq(Steps)
  BY EmptySeq
<1>4. \A s \in Seq(Steps) : Len(s) # 0 => Tail(s) \in Seq(Steps)
  BY TailIsSteps
<1>5. \A p : Upload(p) \in Seq(Steps) /\ Script(p) \in Seq(Steps)
  BY UploadLists, ScriptLists, StepsAreSteps DEF Lists
<1>6. ASSUME NEW s, s \in Seq(Steps) PROVE [worker EXCEPT !.todo = s] \in Worker
  BY <1>1, <1>6
<1>7. ASSUME NEW s, s \in Seq(Steps) PROVE [todo |-> s, profile |-> worker.profile] \in Orphan
  BY <1>1, <1>7
<1>8. worker.todo \in Seq(Steps) /\ orphan.todo \in Seq(Steps)
      /\ worker.profile \in Profiles \cup {None}
  BY <1>1
<1> HIDE DEF Worker, Orphan
<1>9. CASE \E p \in Profiles : Begin(p)
  <2>1. PICK p \in Profiles : Begin(p)
    BY <1>9
  <2>2. worker' \in Worker
    BY <1>1, <1>5, <2>1 DEF Worker, Begin
  <2>3. QED
    BY <1>1, <2>1, <2>2 DEF Begin
<1>10. CASE UploadStep
  <2> DEFINE step == Head(worker.todo)
  <2>1. Len(worker.todo) # 0
    BY <1>10, EmptyIsZero DEF UploadStep
  <2>2. worker.profile \in Profiles /\ Tail(worker.todo) \in Seq(Steps)
    BY <1>4, <1>8, <2>1, UploadHead
  <2>3. worker' \in Worker
    <3>1. [x \in Confs |-> bell[x]] \in [Confs -> Placed]
      BY <1>1 DEF Confs, Items, Animation, Sound
    <3>2. worker.confs \in [Confs -> Placed]
      BY <1>1 DEF Worker
    <3>3. PICK c \in [Confs -> Placed] :
             worker' = [worker EXCEPT !.todo = Tail(worker.todo), !.confs = c]
      BY <1>10, <3>1, <3>2 DEF UploadStep
    <3>4. QED
      BY <1>1, <2>2, <3>3 DEF Worker
  <2>4. tmp' \in [Items -> Sent]
    <3>1. worker.profile \in Sent /\ Nothing \in [Items -> Sent]
      BY <2>2 DEF Sent, Nothing
    <3> HIDE DEF step, Sent
    <3>2. tmp' \in {Nothing, tmp} \/ tmp' = [tmp EXCEPT ![step] = worker.profile]
      BY <1>10 DEF UploadStep, step
    <3>3. QED
      BY <1>1, <3>1, <3>2
  <2>5. sender' \in Profiles \cup {None}
    <3>1. sender' \in {worker.profile, sender}
      BY <1>10 DEF UploadStep
    <3>2. QED
      BY <1>1, <1>8, <3>1
  <2>6. QED
    BY <1>1, <1>10, <2>3, <2>4, <2>5 DEF UploadStep
<1>11. CASE UploadCutShort
  <2>1. Len(worker.todo) # 0
    BY <1>11, EmptyIsZero DEF UploadCutShort
  <2>2. worker' \in Worker
    BY <1>4, <1>6, <1>8, <1>11, <2>1 DEF UploadCutShort
  <2>3. tmp' \in [Items -> Sent]
    BY <1>1, <1>11 DEF UploadCutShort, Sent
  <2>4. QED
    BY <1>1, <1>11, <2>2, <2>3 DEF UploadCutShort
<1>12. CASE UploadHangs
  BY <1>1, <1>12 DEF UploadHangs
<1>13. CASE \E torn \in BOOLEAN : UploadFails(torn)
  <2>1. PICK torn \in BOOLEAN : UploadFails(torn)
    BY <1>13
  <2>2. result' \in Results
    <3>1. Len(worker.todo) # 0 /\ Head(worker.todo) # "script"
      BY <2>1, EmptyIsZero DEF UploadFails
    <3>2. Head(worker.todo) \in UploadSteps(worker.profile)
      BY <3>1, UploadHead
    <3>3. QED
      BY <2>1, <3>1, <3>2, UploadCodes DEF UploadFails
  <2>3. worker' \in Worker
    BY <1>3, <1>6, <2>1 DEF UploadFails, AfterFailure
  <2>4. tmp' \in [Items -> Sent]
    BY <1>1, <2>1 DEF UploadFails, Sent
  <2>5. QED
    BY <1>1, <2>1, <2>2, <2>3, <2>4 DEF UploadFails
<1>14. CASE \E ok \in BOOLEAN : StartScript(ok)
  <2>1. PICK ok \in BOOLEAN : StartScript(ok)
    BY <1>14
  <2>2. worker' \in Worker /\ script' \in Seq(Steps) /\ result' \in Results
    BY <1>1, <1>3, <1>5, <1>6, <2>1 DEF StartScript
  <2>3. QED
    BY <1>1, <2>1, <2>2 DEF StartScript
<1>15. CASE ScriptStep
  <2>1. script' \in Seq(Steps)
    BY <1>1, <1>4, <1>15, EmptyIsZero DEF ScriptStep
  <2>2. worker' \in Worker /\ result' \in Results
    BY <1>1, <1>3, <1>6, <1>15 DEF ScriptStep
  <2>3. /\ tmp' \in [Items -> Sent] /\ bell' \in [Items -> Placed]
        /\ running' \in [Items -> Placed]
    BY <1>15, PerformTypes DEF ScriptStep
  <2>4. QED
    BY <1>1, <1>15, <2>1, <2>2, <2>3 DEF ScriptStep
<1>16. CASE ScriptFails
  <2>1. worker' \in Worker
    BY <1>3, <1>6, <1>16 DEF ScriptFails
  <2>2. bell' \in [Items -> Placed] /\ running' \in [Items -> Placed]
    BY <1>16, BotchTypes DEF ScriptFails
  <2>3. QED
    BY <1>1, <1>3, <1>16, <2>1, <2>2 DEF ScriptFails, ScriptCode
<1>17. CASE ScriptKilled
  BY <1>1, <1>3, <1>6, <1>17 DEF ScriptKilled
<1>18. CASE \E returns \in BOOLEAN : Drop(returns)
  <2>1. PICK returns \in BOOLEAN : Drop(returns)
    BY <1>18
  <2>2. worker' \in Worker /\ hung' \in BOOLEAN /\ result' \in Results
    BY <1>1, <1>3, <1>6, <2>1 DEF Drop
  <2>3. orphan' \in Orphan
    BY <1>1, <1>7, <2>1 DEF Drop
  <2>4. QED
    BY <1>1, <1>3, <2>1, <2>2, <2>3 DEF Drop
<1>19. CASE Die
  <2>1. worker' \in Worker /\ orphan' \in Orphan
    BY <1>1, <1>3, <1>6, <1>7, <1>19 DEF Die
  <2>2. faults' \in Nat
    <3>1. faults' \in {faults, faults + 1}
      BY <1>19 DEF Die
    <3>2. QED
      BY <1>1, <3>1
  <2>3. script' = <<>> /\ result' = "lost" /\ hung' = FALSE
        /\ UNCHANGED <<tmp, sender, bell, running, commands, tainted>>
    BY <1>19 DEF Die
  <2>4. QED
    BY <1>1, <1>3, <2>1, <2>2, <2>3
<1>20. CASE OrphanStep
  <2>1. orphan' \in Orphan
    <3>1. Tail(orphan.todo) \in Seq(Steps)
      BY <1>4, <1>8, <1>20, EmptyIsZero DEF OrphanStep
    <3>2. QED
      BY <1>1, <1>20, <3>1 DEF OrphanStep, Orphan
  <2>2. /\ tmp' \in [Items -> Sent] /\ bell' \in [Items -> Placed]
        /\ running' \in [Items -> Placed]
    BY <1>20, PerformTypes DEF OrphanStep
  <2>3. QED
    BY <1>1, <1>20, <2>1, <2>2 DEF OrphanStep
<1>21. CASE OrphanFails
  <2>1. orphan' \in Orphan
    BY <1>1, <1>3, <1>21 DEF OrphanFails, Orphan
  <2>2. bell' \in [Items -> Placed] /\ running' \in [Items -> Placed]
    BY <1>21, BotchTypes DEF OrphanFails
  <2>3. QED
    BY <1>1, <1>21, <2>1, <2>2 DEF OrphanFails
<1>22. CASE UNCHANGED vars
  BY <1>1, <1>22 DEF vars
<1>23. QED
  BY <1>9, <1>10, <1>11, <1>12, <1>13, <1>14, <1>15, <1>16, <1>17, <1>18, <1>19,
     <1>20, <1>21, <1>22 DEF Next


LEMMA PlaceStep == ShapeInv /\ ShapeInv' /\ PlaceInv /\ [Next]_vars => PlaceInv'
<1> SUFFICES ASSUME ShapeInv, ShapeInv', PlaceInv, [Next]_vars PROVE PlaceInv'
  OBVIOUS
<1>1. /\ Len(worker.todo) # 0 =>
           worker.profile \in Profiles
           /\ Remains(worker.todo, UploadSteps(worker.profile))
      /\ Len(script) # 0 =>
           /\ Len(worker.todo) # 0 /\ Head(worker.todo) = "script" /\ ~hung
           /\ Remains(script, ScriptSteps(worker.profile))
      /\ hung => Len(worker.todo) # 0
  BY DEF PlaceInv
<1>2. /\ Idle <=> Len(worker.todo) = 0
      /\ script = <<>> <=> Len(script) = 0
      /\ Len(<<>>) = 0
  BY EmptyIsZero
<1>3. worker \in [todo : Seq(Steps), profile : Profiles \cup {None},
                  confs : [Confs -> Placed]]
  BY DEF ShapeInv
\* A step after which the call is over, and one that leaves the two places.
<1>4. ASSUME worker'.todo = <<>>, script' = <<>>, hung' = FALSE
      PROVE  PlaceInv'
  BY <1>2, <1>4 DEF PlaceInv
<1>5. ASSUME UNCHANGED <<worker, script, hung>>
      PROVE  PlaceInv'
  BY <1>5 DEF PlaceInv
<1>6. ASSUME NEW s, worker' = [worker EXCEPT !.todo = s]
      PROVE  worker'.todo = s /\ worker'.profile = worker.profile
  BY <1>3, <1>6
<1>7. CASE \E p \in Profiles : Begin(p)
  <2>1. PICK p \in Profiles : Begin(p)
    BY <1>7
  <2>2. worker'.todo = Upload(p) /\ worker'.profile = p /\ script' = script /\ hung' = hung
    BY <1>3, <2>1 DEF Begin
  <2>3. Remains(Upload(p), UploadSteps(p)) /\ Len(Upload(p)) # 0
    BY UploadLists, ListsRemains
  <2>4. Len(script) = 0
    BY <1>2, <2>1 DEF Begin
  <2>5. QED
    BY <2>2, <2>3, <2>4 DEF PlaceInv
<1>8. ASSUME Len(worker.todo) # 0, Head(worker.todo) # "script",
             worker'.todo = Tail(worker.todo), worker'.profile = worker.profile,
             script' = script, hung' = hung
      PROVE  PlaceInv'
  <2>1. /\ worker.profile \in Profiles
        /\ Remains(Tail(worker.todo), UploadSteps(worker.profile))
        /\ Len(Tail(worker.todo)) # 0 /\ Len(script) = 0
    BY <1>8, UploadHead
  <2>2. QED
    BY <1>8, <2>1 DEF PlaceInv
<1>9. CASE UploadStep
  <2>1. worker'.todo = Tail(worker.todo) /\ worker'.profile = worker.profile
    BY <1>3, <1>9 DEF UploadStep
  <2>2. QED
    BY <1>2, <1>8, <1>9, <2>1 DEF UploadStep
<1>10. CASE UploadCutShort
  <2>1. worker'.todo = Tail(worker.todo) /\ worker'.profile = worker.profile
    BY <1>3, <1>10 DEF UploadCutShort
  <2>2. "script" \notin Items
    BY DEF Items, Animation, Sound
  <2>3. QED
    BY <1>2, <1>8, <1>10, <2>1, <2>2 DEF UploadCutShort
<1>11. CASE UploadHangs
  <2>1. Len(script) = 0
    BY <1>1, <1>11 DEF UploadHangs
  <2>2. worker' = worker /\ script' = script /\ hung' = TRUE /\ Len(worker.todo) # 0
    BY <1>2, <1>11 DEF UploadHangs
  <2>3. QED
    BY <1>1, <2>1, <2>2 DEF PlaceInv
<1>12. CASE \E torn \in BOOLEAN : UploadFails(torn)
  <2>1. PICK torn \in BOOLEAN : UploadFails(torn)
    BY <1>12
  <2>2. worker'.todo = <<>> /\ script' = script /\ ~hung /\ hung' = hung
    BY <1>6, <2>1 DEF UploadFails, AfterFailure
  <2>3. Len(script) = 0
    BY <1>1, <2>1 DEF UploadFails
  <2>4. QED
    BY <1>2, <2>2, <2>3 DEF PlaceInv
<1>13. CASE StartScript(TRUE)
  <2>1. /\ worker' = worker /\ hung' = hung /\ script' = Script(worker.profile)
        /\ Len(worker.todo) # 0 /\ Head(worker.todo) = "script" /\ ~hung
    BY <1>2, <1>13 DEF StartScript
  <2>2. Remains(script', ScriptSteps(worker.profile))
    BY <2>1, ScriptLists, ListsRemains
  <2>3. QED
    BY <1>1, <2>1, <2>2 DEF PlaceInv
<1>14. CASE StartScript(FALSE)
  <2>1. worker'.todo = <<>> /\ script' = script /\ hung' = hung /\ ~hung /\ script = <<>>
    BY <1>6, <1>14 DEF StartScript
  <2>2. QED
    BY <1>2, <2>1 DEF PlaceInv
<1>15. CASE ScriptStep
  <2>1. Len(script) # 0 /\ script' = Tail(script) /\ hung' = hung
    BY <1>2, <1>15 DEF ScriptStep
  <2>2. /\ Remains(Tail(script), ScriptSteps(worker.profile))
        /\ Len(script) = 1 => Len(Tail(script)) = 0
    BY <2>1, ScriptHead DEF ShapeInv
  <2>3. CASE Len(script) = 1
    <3>1. worker'.todo = <<>>
      BY <1>6, <1>15, <2>3 DEF ScriptStep
    <3>2. QED
      BY <1>1, <1>2, <2>1, <2>2, <2>3, <3>1 DEF PlaceInv
  <2>4. CASE Len(script) # 1
    <3>1. worker' = worker
      BY <1>15, <2>4 DEF ScriptStep
    <3>2. QED
      BY <1>1, <2>1, <2>2, <3>1 DEF PlaceInv
  <2>5. QED
    BY <2>3, <2>4
<1>16. CASE ScriptFails \/ ScriptKilled
  <2>1. worker' = [worker EXCEPT !.todo = <<>>] /\ script' = <<>> /\ hung' = hung
        /\ script # <<>>
    BY <1>16 DEF ScriptFails, ScriptKilled
  <2>2. ~hung /\ worker'.todo = <<>>
    BY <1>1, <1>2, <1>6, <2>1
  <2>3. QED
    BY <1>2, <2>1, <2>2 DEF PlaceInv
<1>17. CASE Drop(TRUE)
  <2>1. worker' = [worker EXCEPT !.todo = <<>>] /\ script' = <<>> /\ hung' = hung
        /\ script # <<>>
    BY <1>17 DEF Drop
  <2>2. ~hung /\ worker'.todo = <<>>
    BY <1>1, <1>2, <1>6, <2>1
  <2>3. QED
    BY <1>2, <2>1, <2>2 DEF PlaceInv
<1>18. CASE Drop(FALSE)
  <2>1. worker' = worker /\ script' = <<>> /\ hung' = TRUE /\ script # <<>>
    BY <1>18 DEF Drop
  <2>2. QED
    BY <1>1, <1>2, <2>1 DEF PlaceInv
<1>19. CASE Die
  <2>1. worker' = [worker EXCEPT !.todo = <<>>] /\ script' = <<>> /\ hung' = FALSE
    BY <1>19 DEF Die
  <2>2. QED
    BY <1>4, <1>6, <2>1
<1>20. CASE OrphanStep \/ OrphanFails \/ UNCHANGED vars
  BY <1>5, <1>20 DEF OrphanStep, OrphanFails, vars
<1>21. QED
  <2>1. (\E ok \in BOOLEAN : StartScript(ok)) => StartScript(TRUE) \/ StartScript(FALSE)
    OBVIOUS
  <2>2. (\E returns \in BOOLEAN : Drop(returns)) => Drop(TRUE) \/ Drop(FALSE)
    OBVIOUS
  <2>3. QED
    BY <1>7, <1>9, <1>10, <1>11, <1>12, <1>13, <1>14, <1>15, <1>16, <1>17, <1>18,
       <1>19, <1>20, <2>1, <2>2 DEF Next

LEMMA FaultStep ==
    ShapeInv /\ PlaceInv /\ FaultInv /\ [Next]_vars => FaultInv'
<1> SUFFICES ASSUME ShapeInv, PlaceInv, FaultInv, [Next]_vars,
                    Len(worker'.todo) # 0, ~tainted', ~hung'
             PROVE  Len(orphan'.todo) = 0
  BY DEF FaultInv
<1>1. Len(worker.todo) # 0 /\ ~tainted /\ ~hung => Len(orphan.todo) = 0
  BY DEF FaultInv
<1>2. /\ Idle <=> Len(worker.todo) = 0
      /\ script = <<>> <=> Len(script) = 0
      /\ orphan.todo = <<>> <=> Len(orphan.todo) = 0
      /\ Len(<<>>) = 0
  BY EmptyIsZero
<1>3. worker \in [todo : Seq(Steps), profile : Profiles \cup {None},
                  confs : [Confs -> Placed]]
  BY DEF ShapeInv
<1>4. Len(script) # 0 => Len(worker.todo) # 0 /\ ~hung
  BY DEF PlaceInv
<1>5. ASSUME NEW s, worker' = [worker EXCEPT !.todo = s]
      PROVE  worker'.todo = s
  BY <1>3, <1>5
<1>6. CASE \E p \in Profiles : Begin(p)
  BY <1>2, <1>6 DEF Begin
<1>7. CASE UploadStep \/ ScriptStep \/ \E ok \in BOOLEAN : StartScript(ok)
  <2>1. Len(worker.todo) # 0 /\ ~hung /\ UNCHANGED <<orphan, tainted>>
    BY <1>2, <1>4, <1>7 DEF UploadStep, ScriptStep, StartScript
  <2>2. QED
    BY <1>1, <2>1
<1>8. CASE UploadCutShort \/ UploadHangs
  BY <1>8 DEF UploadCutShort, UploadHangs
<1>9. CASE (\E torn \in BOOLEAN : UploadFails(torn)) \/ ScriptFails \/ ScriptKilled \/ Die
  BY <1>2, <1>5, <1>9 DEF UploadFails, AfterFailure, ScriptFails, ScriptKilled, Die
<1>10. CASE \E returns \in BOOLEAN : Drop(returns)
  <2>1. CASE Drop(TRUE)
    BY <1>2, <1>5, <2>1 DEF Drop
  <2>2. CASE Drop(FALSE)
    BY <2>2 DEF Drop
  <2>3. QED
    BY <1>10, <2>1, <2>2
<1>11. CASE OrphanStep \/ OrphanFails
  <2>1. Len(orphan.todo) # 0 /\ UNCHANGED <<worker, hung, tainted>>
    BY <1>2, <1>11 DEF OrphanStep, OrphanFails
  <2>2. QED
    BY <1>1, <2>1
<1>12. CASE UNCHANGED vars
  BY <1>1, <1>12 DEF vars
<1>13. QED
  BY <1>6, <1>7, <1>8, <1>9, <1>10, <1>11, <1>12 DEF Next

\* A step of a script takes files from the upload directory and adds none.
LEMMA PerformTakes ==
    ASSUME ShapeInv, NEW step, NEW p, Perform(step, p), NEW x \in Items
    PROVE  tmp'[x] \in {None, tmp[x]}
<1>1. tmp \in [Items -> Sent]
  BY DEF ShapeInv
<1>2. QED
  BY <1>1 DEF Perform

\* A call empties the upload directory first, ends when a transfer fails, and is
\* tainted by one that is cut short.
LEMMA OwnStep ==
    ShapeInv /\ PlaceInv /\ OwnInv /\ [Next]_vars => OwnInv'
<1> SUFFICES ASSUME ShapeInv, PlaceInv, OwnInv, [Next]_vars,
                    Len(worker'.todo) # 0, ~Left(worker'.todo, "rm_remote"),
                    NEW x \in Items
             PROVE  tmp'[x] \in {None, worker'.profile} \/ (tmp'[x] = "short" /\ tainted')
  BY DEF OwnInv
<1>1. /\ Idle <=> Len(worker.todo) = 0
      /\ script = <<>> <=> Len(script) = 0
      /\ Len(<<>>) = 0
  BY EmptyIsZero
<1>2. worker \in [todo : Seq(Steps), profile : Profiles \cup {None},
                  confs : [Confs -> Placed]]
      /\ tmp \in [Items -> Sent]
  BY DEF ShapeInv
<1>3. ASSUME NEW s, worker' = [worker EXCEPT !.todo = s]
      PROVE  worker'.todo = s /\ worker'.profile = worker.profile
  BY <1>2, <1>3
<1>4. Len(worker.todo) # 0 /\ ~Left(worker.todo, "rm_remote") =>
        tmp[x] \in {None, worker.profile} \/ (tmp[x] = "short" /\ tainted)
  BY DEF OwnInv
<1>5. CASE \E p \in Profiles : Begin(p)
  <2>1. PICK p \in Profiles : Begin(p)
    BY <1>5
  <2>2. worker'.todo = Upload(p)
    BY <1>2, <2>1 DEF Begin
  <2>3. Left(Upload(p), "rm_remote")
    BY UploadLists DEF Lists, UploadSteps
  <2>4. QED
    BY <2>2, <2>3
\* The rest of an upload without rm_remote, when that is not the step taken.
<1>6. ASSUME Len(worker.todo) # 0, Head(worker.todo) # "script",
             Head(worker.todo) # "rm_remote", worker'.todo = Tail(worker.todo)
      PROVE  ~Left(worker.todo, "rm_remote")
  <2>1. "rm_remote" \in UploadSteps(worker.profile)
    BY DEF UploadSteps
  <2>2. Left(Tail(worker.todo), "rm_remote") <=>
          Left(worker.todo, "rm_remote") /\ "rm_remote" # Head(worker.todo)
    BY <1>6, <2>1, UploadHead
  <2>3. QED
    BY <1>6, <2>2
<1>7. CASE UploadStep
  <2> DEFINE step == Head(worker.todo)
  <2>1. /\ Len(worker.todo) # 0 /\ step # "script" /\ tainted' = tainted
        /\ worker'.todo = Tail(worker.todo) /\ worker'.profile = worker.profile
    BY <1>1, <1>2, <1>7 DEF UploadStep
  <2>2. tmp' = CASE step = "rm_remote" -> Nothing
                 [] step \in Items -> [tmp EXCEPT ![step] = worker.profile]
                 [] OTHER -> tmp
    BY <1>7 DEF UploadStep
  <2>3. CASE step = "rm_remote"
    <3>1. tmp' = Nothing
      BY <2>2, <2>3 DEF Items, Animation, Sound
    <3>2. tmp'[x] = None
      BY <3>1 DEF Nothing
    <3>3. QED
      BY <3>2
  <2>4. CASE step # "rm_remote"
    <3>1. ~Left(worker.todo, "rm_remote")
      BY <1>6, <2>1, <2>4
    <3> HIDE DEF step
    <3>2. tmp'[x] \in {tmp[x], worker.profile}
      BY <1>2, <2>2, <2>4
    <3>3. QED
      BY <1>4, <2>1, <3>1, <3>2
  <2>5. QED
    BY <2>3, <2>4
<1>8. CASE UploadCutShort
  <2>1. /\ Len(worker.todo) # 0 /\ worker'.todo = Tail(worker.todo)
        /\ worker'.profile = worker.profile /\ tainted'
        /\ tmp' = [tmp EXCEPT ![Head(worker.todo)] = "short"]
        /\ Head(worker.todo) \in Items
    BY <1>1, <1>3, <1>8 DEF UploadCutShort
  <2>2. ~Left(worker.todo, "rm_remote")
    BY <1>6, <2>1 DEF Items, Animation, Sound
  <2>3. tmp'[x] \in {tmp[x], "short"}
    BY <1>2, <2>1
  <2>4. QED
    BY <1>4, <2>1, <2>2, <2>3
<1>9. CASE ScriptStep
  <2>1. worker' = worker \/ worker'.todo = <<>>
    BY <1>3, <1>9 DEF ScriptStep
  <2>2. worker' = worker
    BY <1>1, <2>1
  <2>3. tmp'[x] \in {None, tmp[x]} /\ tainted' = tainted
    BY <1>9, PerformTakes DEF ScriptStep
  <2>4. QED
    BY <1>4, <2>2, <2>3
<1>10. CASE \/ \E torn \in BOOLEAN : UploadFails(torn)
            \/ ScriptFails \/ ScriptKilled \/ Die \/ Drop(TRUE) \/ StartScript(FALSE)
  <2>1. worker' = [worker EXCEPT !.todo = <<>>]
    BY <1>10 DEF UploadFails, AfterFailure, ScriptFails, ScriptKilled, Die, Drop,
                 StartScript
  <2>2. QED
    BY <1>1, <1>3, <2>1
<1>11. CASE OrphanStep
  <2>1. tmp'[x] \in {None, tmp[x]} /\ UNCHANGED <<worker, tainted>>
    BY <1>11, PerformTakes DEF OrphanStep
  <2>2. QED
    BY <1>4, <2>1
<1>12. CASE UploadHangs \/ Drop(FALSE) \/ StartScript(TRUE) \/ OrphanFails \/ UNCHANGED vars
  <2>1. UNCHANGED <<worker, tmp, tainted>>
    BY <1>12 DEF UploadHangs, Drop, StartScript, OrphanFails, vars
  <2>2. QED
    BY <1>4, <2>1
<1>13. QED
  <2>1. (\E ok \in BOOLEAN : StartScript(ok)) => StartScript(TRUE) \/ StartScript(FALSE)
    OBVIOUS
  <2>2. (\E returns \in BOOLEAN : Drop(returns)) => Drop(TRUE) \/ Drop(FALSE)
    OBVIOUS
  <2>3. QED
    BY <1>5, <1>7, <1>8, <1>9, <1>10, <1>11, <1>12, <2>1, <2>2 DEF Next

\* A file of the profile is sent once, after the directory was emptied.
LEMMA SentStep ==
    ShapeInv /\ ShapeInv' /\ PlaceInv /\ FaultInv /\ SentInv /\ [Next]_vars => SentInv'
<1> SUFFICES ASSUME ShapeInv, ShapeInv', PlaceInv, FaultInv, SentInv, [Next]_vars,
                    Len(worker'.todo) # 0, ~tainted', ~hung', Len(script') = 0
             PROVE  AllSent(tmp', worker'.todo, worker'.profile)
  BY DEF SentInv
<1>1. /\ Idle <=> Len(worker.todo) = 0
      /\ script = <<>> <=> Len(script) = 0
      /\ orphan.todo = <<>> <=> Len(orphan.todo) = 0
      /\ Len(<<>>) = 0
  BY EmptyIsZero
<1>2. worker \in [todo : Seq(Steps), profile : Profiles \cup {None},
                  confs : [Confs -> Placed]]
      /\ tmp \in [Items -> Sent]
  BY DEF ShapeInv
<1>3. Len(script) # 0 => Len(worker.todo) # 0 /\ ~hung
  BY DEF PlaceInv
<1>4. ASSUME NEW s, worker' = [worker EXCEPT !.todo = s]
      PROVE  worker'.todo = s
  BY <1>2, <1>4
<1>5. CASE \E p \in Profiles : Begin(p)
  <2>1. PICK p \in Profiles : Begin(p)
    BY <1>5
  <2>2. worker'.todo = Upload(p) /\ worker'.profile = p
    BY <1>2, <2>1 DEF Begin
  <2>3. \A x \in Enabled(p) : Left(Upload(p), x)
    BY UploadLists DEF Lists, UploadSteps
  <2>4. QED
    BY <2>2, <2>3 DEF AllSent
<1>6. CASE UploadStep
  <2> DEFINE step == Head(worker.todo)
             rest == Tail(worker.todo)
             p == worker.profile
  <2>1. /\ Len(worker.todo) # 0 /\ step # "script" /\ ~hung /\ ~tainted /\ Len(script) = 0
        /\ worker'.todo = rest /\ worker'.profile = p
    BY <1>1, <1>2, <1>6 DEF UploadStep
  <2>2. AllSent(tmp, worker.todo, p)
    BY <2>1 DEF SentInv
  <2>3. \A x \in UploadSteps(p) :
           /\ Left(rest, x) <=> (Left(worker.todo, x) /\ x # step)
           /\ Rank(step) < Rank(x) => Left(rest, x)
    BY <2>1, UploadHead
  <2>4. Enabled(p) \subseteq UploadSteps(p) /\ Enabled(p) \subseteq Items
    BY DEF UploadSteps, Enabled, Items, Animation, Sound
  <2>5. tmp' = CASE step = "rm_remote" -> Nothing
                 [] step \in Items -> [tmp EXCEPT ![step] = p]
                 [] OTHER -> tmp
    BY <1>6 DEF UploadStep
  <2>6. CASE step = "rm_remote"
    <3>1. \A x \in Enabled(p) : Rank(step) < Rank(x)
      BY <2>6, RankFacts DEF Enabled, Sound
    <3>2. QED
      BY <2>1, <2>3, <2>4, <3>1 DEF AllSent
  <2>7. CASE step \in Items
    <3>1. tmp' = [tmp EXCEPT ![step] = p]
      BY <2>5, <2>7 DEF Items, Animation, Sound
    <3> HIDE DEF step, rest, p
    <3>2. ASSUME NEW x \in Enabled(p), ~Left(rest, x) PROVE tmp'[x] = p
      BY <1>2, <2>2, <2>3, <2>4, <3>1, <3>2 DEF AllSent
    <3>3. QED
      BY <2>1, <3>2 DEF AllSent
  <2>8. CASE step \notin Items /\ step # "rm_remote"
    <3>1. tmp' = tmp
      BY <2>5, <2>8
    <3>2. \A x \in Enabled(p) : Left(rest, x) <=> Left(worker.todo, x)
      BY <2>3, <2>4, <2>8
    <3> HIDE DEF step, rest, p
    <3>3. QED
      BY <2>1, <2>2, <3>1, <3>2 DEF AllSent
  <2>9. QED
    BY <2>6, <2>7, <2>8
<1>7. CASE UploadCutShort
  BY <1>7 DEF UploadCutShort
<1>8. CASE UploadHangs
  BY <1>8 DEF UploadHangs
<1>9. CASE \E torn \in BOOLEAN : UploadFails(torn)
  BY <1>1, <1>4, <1>9 DEF UploadFails, AfterFailure
<1>10. CASE \E ok \in BOOLEAN : StartScript(ok)
  <2>1. CASE StartScript(TRUE)
    BY <2>1, ScriptLists DEF StartScript
  <2>2. CASE StartScript(FALSE)
    BY <1>1, <1>4, <2>2 DEF StartScript
  <2>3. QED
    BY <1>10, <2>1, <2>2
<1>11. CASE ScriptStep
  <2>1. Len(script) # 0 /\ script' = Tail(script)
    BY <1>1, <1>11 DEF ScriptStep
  <2>2. Len(script) = 1
    BY <2>1, ScriptHead
  <2>3. QED
    BY <1>1, <1>4, <1>11, <2>2 DEF ScriptStep
<1>12. CASE ScriptFails \/ ScriptKilled
  BY <1>1, <1>4, <1>12 DEF ScriptFails, ScriptKilled
<1>13. CASE \E returns \in BOOLEAN : Drop(returns)
  <2>1. CASE Drop(TRUE)
    BY <1>1, <1>4, <2>1 DEF Drop
  <2>2. CASE Drop(FALSE)
    BY <2>2 DEF Drop
  <2>3. QED
    BY <1>13, <2>1, <2>2
<1>14. CASE Die
  BY <1>1, <1>4, <1>14 DEF Die
<1>15. CASE OrphanStep \/ OrphanFails
  \* A call that is not tainted meets no orphan.
  <2>1. Len(orphan.todo) # 0 /\ UNCHANGED <<worker, hung, tainted>>
    BY <1>1, <1>15 DEF OrphanStep, OrphanFails
  <2>2. QED
    BY <2>1 DEF FaultInv
<1>16. CASE UNCHANGED vars
  BY <1>16 DEF vars, SentInv
<1>17. QED
  BY <1>5, <1>6, <1>7, <1>8, <1>9, <1>10, <1>11, <1>12, <1>13, <1>14, <1>15, <1>16
     DEF Next

\* What a step of the script does to the files it has moved and has yet to move.
LEMMA PerformPlaced ==
    ASSUME ShapeInv, PlaceInv, Len(script) # 0,
           AllPlaced(tmp, bell, script, worker.profile),
           Perform(Head(script), worker.profile)
    PROVE  AllPlaced(tmp', bell', Tail(script), worker.profile)
<1> DEFINE p == worker.profile
           step == Head(script)
           rest == Tail(script)
<1>1. /\ step \in ScriptSteps(p)
      /\ \A x \in ScriptSteps(p) :
           /\ Left(rest, x) <=> (Left(script, x) /\ x # step)
           /\ Rank(x) < Rank(step) => ~Left(script, x)
           /\ Rank(step) < Rank(x) => Left(rest, x)
  BY ScriptHead
<1>2. tmp \in [Items -> Sent] /\ bell \in [Items -> Placed]
  BY DEF ShapeInv
<1>3. /\ Enabled(p) \subseteq ScriptSteps(p) /\ Enabled(p) \subseteq Items
      /\ ScriptSteps(p) \cap Items = Enabled(p)
      /\ "cleanup_anim" \in ScriptSteps(p) /\ "cleanup_anim" \notin Items
      /\ "ensure_dirs" \notin Items /\ "restart_services" \notin Items
      /\ "cleanup_snd" \notin Items
      /\ "anim" \in Items /\ "anim.md5" \in Items
      /\ p \notin Welcome => "anim" \notin Enabled(p) /\ "anim.md5" \notin Enabled(p)
  BY DEF ScriptSteps, Enabled, Items, Animation, Sound
<1>4. /\ \A x \in Enabled(p) : IF Left(script, x) THEN tmp[x] = p ELSE bell[x] = p
      /\ p \notin Welcome /\ ~Left(script, "cleanup_anim")
           => bell["anim"] = None /\ bell["anim.md5"] = None
  BY DEF AllPlaced
<1> SUFFICES /\ \A x \in Enabled(p) : IF Left(rest, x) THEN tmp'[x] = p ELSE bell'[x] = p
             /\ p \notin Welcome /\ ~Left(rest, "cleanup_anim")
                  => bell'["anim"] = None /\ bell'["anim.md5"] = None
  BY DEF AllPlaced
<1>5. Left(script, step)
  BY <1>1, StepsAreSteps, TailRemains DEF PlaceInv
<1>6. Perform(step, p)
  OBVIOUS
<1> HIDE DEF p, step, rest
<1>7. CASE step \in Items
  <2>1. /\ bell' = [bell EXCEPT ![step] = tmp[step]]
        /\ tmp' = [tmp EXCEPT ![step] = None]
    BY <1>3, <1>6, <1>7 DEF Perform
  <2>2. step \in Enabled(p)
    BY <1>1, <1>3, <1>7
  <2>3. ASSUME NEW x \in Enabled(p)
        PROVE  IF Left(rest, x) THEN tmp'[x] = p ELSE bell'[x] = p
    <3>1. CASE x = step
      BY <1>1, <1>2, <1>3, <1>4, <1>5, <2>1, <2>2, <3>1
    <3>2. CASE x # step
      BY <1>1, <1>2, <1>3, <1>4, <2>1, <3>2
    <3>3. QED
      BY <3>1, <3>2
  <2>4. ASSUME p \notin Welcome, ~Left(rest, "cleanup_anim")
        PROVE  bell'["anim"] = None /\ bell'["anim.md5"] = None
    BY <1>1, <1>2, <1>3, <1>4, <1>7, <2>1, <2>2, <2>4
  <2>5. QED
    BY <2>3, <2>4
<1>8. CASE step = "cleanup_anim"
  <2>1. bell' = [bell EXCEPT !["anim"] = None, !["anim.md5"] = None] /\ tmp' = tmp
    BY <1>3, <1>6, <1>8 DEF Perform
  <2>2. bell'["anim"] = None /\ bell'["anim.md5"] = None
    BY <1>2, <1>3, <2>1
  <2>3. \A x \in Enabled(p) : Rank(step) < Rank(x)
    BY <1>8, RankFacts DEF Enabled, Sound
  <2>4. \A x \in Enabled(p) : Left(rest, x) /\ Left(script, x)
    BY <1>1, <1>3, <2>3
  <2>5. QED
    BY <1>4, <2>1, <2>2, <2>4
<1>9. CASE step = "cleanup_snd"
  <2>1. bell' = [bell EXCEPT !["sound"] = None, !["sound.md5"] = None] /\ tmp' = tmp
    BY <1>3, <1>6, <1>9 DEF Perform
  <2>2. bell'["anim"] = bell["anim"] /\ bell'["anim.md5"] = bell["anim.md5"]
    BY <1>2, <1>3, <2>1
  <2>3. ASSUME NEW x \in Enabled(p)
        PROVE  IF Left(rest, x) THEN tmp'[x] = p ELSE bell'[x] = p
    <3>1. CASE x \in {"sound", "sound.md5"}
      <4>1. Rank(step) < Rank(x)
        BY <1>9, <3>1, RankFacts
      <4>2. Left(rest, x) /\ Left(script, x)
        BY <1>1, <1>3, <4>1
      <4>3. QED
        BY <1>4, <2>1, <4>2
    <3>2. CASE x \notin {"sound", "sound.md5"}
      BY <1>1, <1>2, <1>3, <1>4, <1>9, <2>1, <3>2
    <3>3. QED
      BY <3>1, <3>2
  <2>4. ~Left(rest, "cleanup_anim") => ~Left(script, "cleanup_anim")
    BY <1>1, <1>3, <1>9
  <2>5. QED
    BY <1>4, <2>2, <2>3, <2>4
<1>10. CASE step \in {"ensure_dirs", "restart_services"}
  <2>1. tmp' = tmp /\ bell' = bell
    BY <1>3, <1>6, <1>10 DEF Perform
  <2>2. \A x \in Enabled(p) : Left(rest, x) <=> Left(script, x)
    BY <1>1, <1>3, <1>10
  <2>3. Left(rest, "cleanup_anim") <=> Left(script, "cleanup_anim")
    BY <1>1, <1>3, <1>10
  <2>4. QED
    BY <1>4, <2>1, <2>2, <2>3
<1>11. QED
  BY <1>6, <1>7, <1>8, <1>9, <1>10 DEF Perform

LEMMA PlacedStep ==
    ShapeInv /\ ShapeInv' /\ PlaceInv /\ FaultInv /\ SentInv /\ PlacedInv /\ [Next]_vars
        => PlacedInv'
<1> SUFFICES ASSUME ShapeInv, ShapeInv', PlaceInv, FaultInv, SentInv, PlacedInv,
                    [Next]_vars, Len(script') # 0, ~tainted'
             PROVE  AllPlaced(tmp', bell', script', worker'.profile)
  BY DEF PlacedInv
<1>1. /\ Idle <=> Len(worker.todo) = 0
      /\ script = <<>> <=> Len(script) = 0
      /\ orphan.todo = <<>> <=> Len(orphan.todo) = 0
      /\ Len(<<>>) = 0
  BY EmptyIsZero
<1>2. worker \in [todo : Seq(Steps), profile : Profiles \cup {None},
                  confs : [Confs -> Placed]]
  BY DEF ShapeInv
<1>3. Len(script) # 0 =>
        Len(worker.todo) # 0 /\ ~hung /\ Head(worker.todo) = "script"
  BY DEF PlaceInv
<1>4. CASE \E p \in Profiles : Begin(p)
  BY <1>1, <1>4 DEF Begin
<1>5. CASE UploadStep \/ UploadHangs \/ \E torn \in BOOLEAN : UploadFails(torn)
  <2>1. script' = script /\ Head(worker.todo) # "script"
    BY <1>5 DEF UploadStep, UploadHangs, UploadFails
  <2>2. QED
    BY <1>3, <2>1
<1>6. CASE UploadCutShort
  BY <1>6 DEF UploadCutShort
<1>7. CASE StartScript(TRUE)
  <2> DEFINE p == worker.profile
  <2>1. /\ script' = Script(p) /\ UNCHANGED <<worker, tmp, bell, tainted>>
        /\ Len(worker.todo) # 0 /\ ~hung /\ Head(worker.todo) = "script" /\ Len(script) = 0
    BY <1>1, <1>7 DEF StartScript
  <2>2. AllSent(tmp, worker.todo, p)
    BY <2>1 DEF SentInv
  <2>3. \A x \in Enabled(p) : ~Left(worker.todo, x)
    <3>1. \A x \in Enabled(p) : Rank(x) < Rank("script")
      BY RankFacts DEF Enabled, Sound
    <3>2. Enabled(p) \subseteq UploadSteps(p)
      BY DEF UploadSteps
    <3>3. \A x \in UploadSteps(p) : Rank(x) < Rank("script") => ~Left(worker.todo, x)
      BY <2>1, UploadHead
    <3>4. QED
      BY <3>1, <3>2, <3>3
  <2>4. \A x \in ScriptSteps(p) : Left(Script(p), x)
    BY ScriptLists DEF Lists
  <2>5. "cleanup_anim" \in ScriptSteps(p) /\ Enabled(p) \subseteq ScriptSteps(p)
    BY DEF ScriptSteps
  <2> HIDE DEF p
  <2>6. AllPlaced(tmp, bell, Script(p), p)
    BY <2>2, <2>3, <2>4, <2>5 DEF AllPlaced, AllSent
  <2>7. QED
    BY <2>1, <2>6 DEF p
<1>8. CASE StartScript(FALSE)
  BY <1>1, <1>8 DEF StartScript
<1>9. CASE ScriptStep
  <2>1. /\ Len(script) # 0 /\ script' = Tail(script) /\ tainted' = tainted
        /\ Perform(Head(script), worker.profile)
    BY <1>1, <1>9 DEF ScriptStep
  <2>2. worker'.profile = worker.profile
    BY <1>2, <1>9 DEF ScriptStep
  <2>3. AllPlaced(tmp, bell, script, worker.profile)
    BY <2>1 DEF PlacedInv
  <2>4. QED
    BY <2>1, <2>2, <2>3, PerformPlaced
<1>10. CASE ScriptFails \/ ScriptKilled \/ (\E returns \in BOOLEAN : Drop(returns)) \/ Die
  BY <1>1, <1>10 DEF ScriptFails, ScriptKilled, Drop, Die
<1>11. CASE OrphanStep \/ OrphanFails
  <2>1. Len(orphan.todo) # 0 /\ UNCHANGED <<worker, script, hung, tainted>>
    BY <1>1, <1>11 DEF OrphanStep, OrphanFails
  <2>2. QED
    BY <1>3, <2>1 DEF FaultInv
<1>12. CASE UNCHANGED vars
  BY <1>12 DEF vars, PlacedInv
<1>13. QED
  <2>1. (\E ok \in BOOLEAN : StartScript(ok)) => StartScript(TRUE) \/ StartScript(FALSE)
    OBVIOUS
  <2>2. QED
    BY <1>4, <1>5, <1>6, <1>7, <1>8, <1>9, <1>10, <1>11, <1>12, <2>1 DEF Next


\* The last step of an undisturbed script finds the whole profile in place.
LEMMA LastStep ==
    ASSUME ShapeInv, ShapeInv', PlaceInv, FaultInv, PlacedInv, ScriptStep,
           Len(script) = 1, ~tainted
    PROVE  /\ Len(orphan.todo) = 0 /\ Whole(bell', worker.profile) /\ running' = bell'
<1> DEFINE p == worker.profile
<1>1. /\ p \in Profiles /\ Head(script) = "restart_services"
      /\ \A x : ~Left(Tail(script), x)
  BY ScriptHead
<1>2. AllPlaced(tmp, bell, script, p) /\ Perform(Head(script), p)
  BY DEF PlacedInv, ScriptStep
<1>3. AllPlaced(tmp', bell', Tail(script), p)
  BY <1>2, PerformPlaced
<1>4. /\ \A x \in Enabled(p) : bell'[x] = p
      /\ p \notin Welcome => bell'["anim"] = None /\ bell'["anim.md5"] = None
  BY <1>1, <1>3 DEF AllPlaced
<1>5. Whole(bell', p)
  <2> HIDE DEF p
  <2>1. CASE p \in Welcome
    BY <1>1, <1>4, <2>1 DEF Whole, Holds, Enabled, Sound
  <2>2. CASE p \notin Welcome
    BY <1>1, <1>4, <2>2 DEF Whole, Holds, Enabled, Sound
  <2>3. QED
    BY <2>1, <2>2
<1>6. running' = bell /\ bell' = bell
  BY <1>1, <1>2 DEF Perform, Items, Animation, Sound
<1>7. Len(orphan.todo) = 0
  BY DEF PlaceInv, FaultInv
<1>8. QED
  BY <1>5, <1>6, <1>7

LEMMA DoneStep ==
    ShapeInv /\ ShapeInv' /\ PlaceInv /\ FaultInv /\ PlacedInv /\ DoneInv /\ [Next]_vars
        => DoneInv'
<1> SUFFICES ASSUME ShapeInv, ShapeInv', PlaceInv, FaultInv, PlacedInv, DoneInv,
                    [Next]_vars, Len(worker'.todo) = 0, commands' > 0,
                    result' = "NONE", ~tainted'
             PROVE  /\ Len(orphan'.todo) = 0
                    /\ Whole(bell', worker'.profile) /\ running' = bell'
  BY DEF DoneInv
<1>1. /\ Idle <=> Len(worker.todo) = 0
      /\ script = <<>> <=> Len(script) = 0
      /\ orphan.todo = <<>> <=> Len(orphan.todo) = 0
  BY EmptyIsZero
<1>2. worker \in [todo : Seq(Steps), profile : Profiles \cup {None},
                  confs : [Confs -> Placed]]
  BY DEF ShapeInv
<1>3. CASE \E p \in Profiles : Begin(p)
  <2>1. PICK p \in Profiles : Begin(p)
    BY <1>3
  <2>2. worker'.todo = Upload(p)
    BY <1>2, <2>1 DEF Begin
  <2>3. QED
    BY <2>2, UploadLists
<1>4. CASE UploadStep
  <2>1. worker'.todo = Tail(worker.todo) /\ Head(worker.todo) # "script"
        /\ Len(worker.todo) # 0
    BY <1>1, <1>2, <1>4 DEF UploadStep
  <2>2. QED
    BY <2>1, UploadHead
<1>5. CASE UploadCutShort \/ ScriptKilled
  BY <1>5 DEF UploadCutShort, ScriptKilled
<1>6. CASE UploadHangs
  BY <1>1, <1>6 DEF UploadHangs
<1>7. CASE \E torn \in BOOLEAN : UploadFails(torn)
  <2>1. /\ result' \in Codes(Head(worker.todo)) /\ Head(worker.todo) # "script"
        /\ Len(worker.todo) # 0
    BY <1>1, <1>7 DEF UploadFails
  <2>2. QED
    BY <2>1, UploadHead, UploadCodes
<1>8. CASE \E ok \in BOOLEAN : StartScript(ok)
  BY <1>1, <1>8 DEF StartScript
<1>9. CASE ScriptStep
  <2>1. Len(worker.todo) # 0
    BY <1>1, <1>9 DEF ScriptStep, PlaceInv
  <2>2. Len(script) = 1
    BY <1>9, <2>1 DEF ScriptStep
  <2>3. worker'.profile = worker.profile /\ orphan' = orphan /\ ~tainted
    BY <1>2, <1>9, <2>2 DEF ScriptStep
  <2>4. QED
    BY <1>9, <2>2, <2>3, LastStep
<1>10. CASE ScriptFails
  BY <1>10 DEF ScriptFails, ScriptCode
<1>11. CASE \E returns \in BOOLEAN : Drop(returns)
  <2>1. CASE Drop(TRUE)
    BY <2>1 DEF Drop
  <2>2. CASE Drop(FALSE)
    <3>1. Len(script) # 0 /\ worker' = worker
      BY <1>1, <2>2 DEF Drop
    <3>2. QED
      BY <3>1 DEF PlaceInv
  <2>3. QED
    BY <1>11, <2>1, <2>2
<1>12. CASE Die
  BY <1>12 DEF Die
<1>13. CASE OrphanStep \/ OrphanFails
  <2>1. Len(orphan.todo) # 0 /\ UNCHANGED <<worker, result, commands, tainted>>
    BY <1>1, <1>13 DEF OrphanStep, OrphanFails
  <2>2. QED
    BY <2>1 DEF DoneInv
<1>14. CASE UNCHANGED vars
  BY <1>14 DEF vars, DoneInv
<1>15. QED
  BY <1>3, <1>4, <1>5, <1>6, <1>7, <1>8, <1>9, <1>10, <1>11, <1>12, <1>13, <1>14
     DEF Next

LEMMA ApplyInvHolds == Spec => []ApplyInv
<1>1. Init => ApplyInv
  <2> SUFFICES ASSUME Init PROVE ApplyInv
    OBVIOUS
  <2>1. /\ worker \in [todo : Seq(Steps), profile : Profiles \cup {None},
                      confs : [Confs -> Placed]]
        /\ orphan \in [todo : Seq(Steps), profile : Profiles \cup {None}]
        /\ script \in Seq(Steps)
        /\ Len(worker.todo) = 0 /\ Len(script) = 0 /\ Len(orphan.todo) = 0
    BY EmptySeq DEF Init, Placed
  <2>2. TypeOK
    <3>1. worker.todo = <<>> /\ script = <<>> /\ orphan.todo = <<>>
      BY DEF Init
    <3>2. \A i \in DOMAIN <<>> : FALSE
      BY EmptySeq
    <3>3. worker.profile = None /\ orphan.profile = None /\ sender = None
      BY DEF Init
    <3>4. /\ tmp \in [Items -> Sent]
          /\ bell \in [Items -> Placed] /\ running \in [Items -> Placed]
      BY DEF Init, Sent, Placed, Nothing
    <3>5. worker.confs \in [Confs -> Placed]
      BY <2>1
    <3>6. /\ result = "NONE" /\ tainted = FALSE /\ hung = FALSE
          /\ commands = 0 /\ faults = 0
      BY DEF Init
    <3>7. \A todo \in {worker.todo, script, orphan.todo} :
             \A i \in DOMAIN todo : todo[i] \in Steps
      BY <3>1, <3>2, Zenon
    <3>8. {worker.profile, orphan.profile, sender} \subseteq Profiles \cup {None}
      BY <3>3
    <3>9. /\ {tainted, hung} \subseteq BOOLEAN
          /\ {commands, faults} \subseteq Nat
      <4>1. tainted \in BOOLEAN /\ hung \in BOOLEAN
        BY <3>6, Zenon
      <4>2. commands \in Nat /\ faults \in Nat
        BY <3>6
      <4>3. QED
        BY <4>1, <4>2, Zenon
    <3>10. QED
      BY <3>4, <3>5, <3>6, <3>7, <3>8, <3>9, Zenon DEF TypeOK
  <2>3. ShapeInv
    BY <2>1, <2>2 DEF Init, ShapeInv, TypeOK
  <2>4. PlaceInv /\ FaultInv /\ OwnInv /\ SentInv /\ PlacedInv /\ DoneInv
    BY <2>1 DEF Init, PlaceInv, FaultInv, OwnInv, SentInv, PlacedInv, DoneInv
  <2>5. QED
    BY <2>3, <2>4 DEF ApplyInv
<1>2. ApplyInv /\ [Next]_vars => ApplyInv'
  BY ShapeStep, PlaceStep, FaultStep, OwnStep, SentStep, PlacedStep, DoneStep
     DEF ApplyInv
<1>3. QED
  BY <1>1, <1>2, PTL DEF Spec

-----------------------------------------------------------------------------
(* The properties.                                                         *)

\* Every variable keeps its type, and an apply returns only the codes of the upload
\* and of the script as a whole.
THEOREM ApplyTypeCorrect == Spec => []TypeOK
<1>1. ApplyInv => TypeOK
  BY DEF ApplyInv, ShapeInv
<1>2. QED
  BY <1>1, ApplyInvHolds, PTL

\* An undisturbed apply that returned ERROR_NONE left the doorbell with all of its
\* profile, whichever parts that enables and whatever earlier applies left.
THEOREM SuccessIsWhole == Spec => []SuccessMatches
<1>1. ApplyInv => SuccessMatches
  BY EmptyIsZero DEF ApplyInv, DoneInv, SuccessMatches
<1>2. QED
  BY <1>1, ApplyInvHolds, PTL

\* Only the script, and what is left of an earlier one, change the doorbell's files.
LEMMA OnlyScripts ==
    ASSUME ShapeInv, [Next]_vars, Len(orphan.todo) = 0, bell' # bell
    PROVE  /\ Len(script) # 0
           /\ \/ Perform(Head(script), worker.profile)
              \/ Botch(Head(script))
<1>1. /\ script = <<>> <=> Len(script) = 0
      /\ orphan.todo = <<>> <=> Len(orphan.todo) = 0
  BY EmptyIsZero
<1>2. CASE ScriptStep \/ ScriptFails
  BY <1>1, <1>2 DEF ScriptStep, ScriptFails
<1>3. CASE OrphanStep \/ OrphanFails
  BY <1>1, <1>3 DEF OrphanStep, OrphanFails
<1>4. QED
  BY <1>2, <1>3 DEF Next, Begin, UploadStep, UploadCutShort, UploadHangs, UploadFails,
                    StartScript, ScriptKilled, Drop, Die, vars

\* What such a step may change: the item it is about, or what it cleans.
LEMMA WhatChanges ==
    ASSUME ShapeInv, NEW step, NEW p, Perform(step, p) \/ Botch(step),
           NEW x \in Items, bell'[x] # bell[x]
    PROVE  \/ step = x
           \/ step = "cleanup_anim" /\ x \in {"anim", "anim.md5"}
           \/ step = "cleanup_snd" /\ x \in {"sound", "sound.md5"}
<1>1. bell \in [Items -> Placed]
  BY DEF ShapeInv
<1>2. "cleanup_anim" \notin Items /\ "cleanup_snd" \notin Items
  BY DEF Items, Animation, Sound
<1>3. CASE Perform(step, p)
  BY <1>1, <1>2, <1>3 DEF Perform
<1>4. CASE Botch(step)
  BY <1>1, <1>4 DEF Botch
<1>5. QED
  BY <1>3, <1>4

\* The script of a call moves only whole files of its own profile into place, whatever
\* failed, hung, dropped or died before: a part of a file comes there only by a move
\* that fails, or when that call cut its transfer short unnoticed.
THEOREM NoTornFile == Spec => NothingTorn
<1> DEFINE A == UNCHANGED orphan =>
         \A x \in Items : bell'[x] # bell[x] =>
             \/ bell'[x] \in {None, "cut", worker.profile}
             \/ bell'[x] = "short" /\ tainted
<1>1. ASSUME ApplyInv, [Next]_vars PROVE [A]_vars
  <2>1. ShapeInv /\ PlaceInv /\ OwnInv
    BY <1>1 DEF ApplyInv
  <2>2. SUFFICES ASSUME UNCHANGED orphan, NEW x \in Items, bell'[x] # bell[x]
                 PROVE  \/ bell'[x] \in {None, "cut", worker.profile}
                        \/ bell'[x] = "short" /\ tainted
    OBVIOUS
  <2>3. bell \in [Items -> Placed] /\ tmp \in [Items -> Sent]
        /\ orphan \in [todo : Seq(Steps), profile : Profiles \cup {None}]
    BY <2>1 DEF ShapeInv
  <2>4. CASE OrphanStep \/ OrphanFails
    <3>1. Len(orphan.todo) # 0 /\ orphan.todo \in Seq(Steps)
      BY <2>1, <2>3, <2>4, EmptyIsZero DEF OrphanStep, OrphanFails
    <3>2. orphan'.todo = Tail(orphan.todo) \/ orphan'.todo = <<>>
      BY <2>3, <2>4 DEF OrphanStep, OrphanFails
    <3>3. Len(Tail(orphan.todo)) = Len(orphan.todo) - 1 /\ Len(<<>>) = 0
      BY <3>1, EmptySeq
    <3>4. Len(orphan.todo) \in Nat
      BY <3>1
    <3>5. QED
      <4>1. orphan'.todo = orphan.todo
        BY <2>2
      <4>2. Len(orphan'.todo) # Len(orphan.todo)
        <5>1. CASE orphan'.todo = Tail(orphan.todo)
          BY <3>1, <3>3, <3>4, <5>1
        <5>2. CASE orphan'.todo = <<>>
          BY <3>1, <3>3, <3>4, <5>2
        <5>3. QED
          BY <3>2, <5>1, <5>2
      <4>3. QED
        BY <4>1, <4>2
  <2>5. CASE ScriptFails
    BY <2>2, <2>3, <2>5 DEF ScriptFails, Botch
  <2>6. CASE ScriptStep
    <3>1. Len(script) # 0 /\ Perform(Head(script), worker.profile)
      BY <2>1, <2>6, EmptyIsZero DEF ScriptStep
    <3>2. Len(worker.todo) # 0 /\ Head(worker.todo) = "script"
      BY <2>1, <3>1 DEF PlaceInv
    <3>3. ~Left(worker.todo, "rm_remote")
      BY <2>1, <3>2, UploadHead, RankFacts DEF UploadSteps
    <3>4. tmp[x] \in {None, worker.profile} \/ (tmp[x] = "short" /\ tainted)
      BY <2>1, <3>2, <3>3 DEF OwnInv
    <3>5. bell'[x] \in {None, tmp[x]}
      BY <2>2, <2>3, <3>1 DEF Perform
    <3>6. QED
      BY <3>4, <3>5
  <2>7. QED
    BY <1>1, <2>2, <2>4, <2>5, <2>6
    DEF Next, Begin, UploadStep, UploadCutShort, UploadHangs, UploadFails, StartScript,
        ScriptKilled, Drop, Die, vars
<1>2. QED
  BY <1>1, ApplyInvHolds, PTL DEF Spec, NothingTorn

\* A configuration is put in place only after the files it names, also by a script
\* that stops anywhere.
THEOREM ConfComesLast == Spec => AssetsBeforeConf
<1> DEFINE A == (orphan.todo = <<>> /\ ~tainted) =>
         /\ (bell'["lcm_gui.conf"] # bell["lcm_gui.conf"] /\ worker.profile \in Welcome)
              => Holds(bell, {"anim", "anim.md5"}, worker.profile)
         /\ bell'["sounds_leds.conf"] # bell["sounds_leds.conf"]
              => Holds(bell, {"sound", "sound.md5"}, worker.profile)
<1>1. ASSUME ApplyInv, [Next]_vars PROVE [A]_vars
  <2> DEFINE p == worker.profile
             step == Head(script)
  <2>1. ShapeInv /\ PlaceInv /\ PlacedInv
    BY <1>1 DEF ApplyInv
  <2>2. SUFFICES ASSUME Len(orphan.todo) = 0, ~tainted, NEW conf \in Confs,
                        bell'[conf] # bell[conf]
                 PROVE  /\ conf = "lcm_gui.conf" /\ p \in Welcome
                             => Holds(bell, {"anim", "anim.md5"}, p)
                        /\ conf = "sounds_leds.conf"
                             => Holds(bell, {"sound", "sound.md5"}, p)
    BY <2>1, EmptyIsZero DEF Confs
  <2>3. Len(script) # 0 /\ (Perform(step, p) \/ Botch(step))
    BY <1>1, <2>1, <2>2, OnlyScripts
  <2>4. step = conf
    <3>1. conf \in Items /\ conf \notin {"anim", "anim.md5", "sound", "sound.md5"}
      BY <2>2 DEF Confs, Items, Animation, Sound
    <3> HIDE DEF p, step
    <3>2. QED
      BY <2>1, <2>2, <2>3, <3>1, WhatChanges
  <2>5. /\ step \in ScriptSteps(p)
        /\ \A x \in ScriptSteps(p) : Rank(x) < Rank(step) => ~Left(script, x)
    BY <2>1, <2>3, ScriptHead
  <2>6. \A x \in Enabled(p) : Rank(x) < Rank(step) => bell[x] = p
    BY <2>1, <2>2, <2>3, <2>5 DEF PlacedInv, AllPlaced, ScriptSteps
  <2> HIDE DEF p, step
  <2>7. ASSUME conf = "lcm_gui.conf", p \in Welcome
        PROVE  Holds(bell, {"anim", "anim.md5"}, p)
    BY <2>4, <2>6, <2>7, RankFacts DEF Holds, Enabled
  <2>8. ASSUME conf = "sounds_leds.conf"
        PROVE  Holds(bell, {"sound", "sound.md5"}, p)
    <3>1. p \in Ring
      BY <2>4, <2>5, <2>8 DEF ScriptSteps, Enabled
    <3>2. QED
      BY <2>4, <2>6, <2>8, <3>1, RankFacts DEF Holds, Enabled, Sound
  <2>9. QED
    BY <2>7, <2>8
<1>2. QED
  BY <1>1, ApplyInvHolds, PTL DEF Spec, AssetsBeforeConf

\* A profile whose ring sound is disabled leaves the sound of the doorbell alone,
\* also when its script fails.
THEOREM SoundIsSpared == Spec => SoundLeftAlone
<1> DEFINE A == (worker.profile \notin Ring /\ orphan.todo = <<>>) =>
                  \A x \in Sound : bell'[x] = bell[x]
<1>1. ASSUME ApplyInv, [Next]_vars PROVE [A]_vars
  <2> DEFINE p == worker.profile
             step == Head(script)
  <2>1. ShapeInv /\ PlaceInv
    BY <1>1 DEF ApplyInv
  <2>2. SUFFICES ASSUME Len(orphan.todo) = 0, p \notin Ring, NEW x \in Sound,
                        bell'[x] # bell[x]
                 PROVE  FALSE
    BY <2>1, EmptyIsZero
  <2>3. Len(script) # 0 /\ (Perform(step, p) \/ Botch(step))
    BY <1>1, <2>1, <2>2, OnlyScripts
  <2>4. step \in ScriptSteps(p)
    BY <2>1, <2>3, ScriptHead
  <2>5. step \notin Sound \cup {"cleanup_snd"}
    BY <2>2, <2>4 DEF ScriptSteps, Enabled, Sound
  <2>6. x \in Items /\ x \notin {"anim", "anim.md5"}
    BY <2>2 DEF Items, Animation, Sound
  <2> HIDE DEF p, step
  <2>7. QED
    BY <2>1, <2>2, <2>3, <2>5, <2>6, WhatChanges
<1>2. QED
  BY <1>1, ApplyInvHolds, PTL DEF Spec, SoundLeftAlone


-----------------------------------------------------------------------------
(* ProfileApply implements DoorbellApply.                                  *)

\* The abstract state, as in the INSTANCE.
Call == IF Idle THEN None ELSE worker.profile
Phase == IF Idle THEN "idle" ELSE IF hung THEN "hung"
         ELSE IF script # <<>> THEN "script" ELSE "uploading"
Shows == IF Whole(bell, bell["lcm_gui.conf"]) /\ running = bell
         THEN bell["lcm_gui.conf"] ELSE "other"
Late == orphan.todo # <<>>
Spoiled == tainted /\ (~Idle \/ result = "NONE")

\* The abstract state in terms of lengths.
LEMMA Mapped ==
    ASSUME ShapeInv
    PROVE  /\ Idle <=> Len(worker.todo) = 0
           /\ Len(worker.todo) = 0 => Phase = "idle" /\ Call = None
           /\ Len(worker.todo) # 0 => Call = worker.profile
           /\ Len(worker.todo) # 0 /\ hung => Phase = "hung"
           /\ Len(worker.todo) # 0 /\ ~hung /\ Len(script) # 0 => Phase = "script"
           /\ Len(worker.todo) # 0 /\ ~hung /\ Len(script) = 0 => Phase = "uploading"
           /\ Late <=> Len(orphan.todo) # 0
           /\ Late \in BOOLEAN /\ Spoiled \in BOOLEAN
           /\ Spoiled <=> tainted /\ (Len(worker.todo) # 0 \/ result = "NONE")
           /\ Shows \in Profiles \cup {"other"}
<1>1. /\ Idle <=> Len(worker.todo) = 0
      /\ script = <<>> <=> Len(script) = 0
      /\ orphan.todo = <<>> <=> Len(orphan.todo) = 0
      /\ tainted \in BOOLEAN
  BY EmptyIsZero DEF ShapeInv, TypeOK
<1>2. Shows \in Profiles \cup {"other"}
  BY DEF Shows, Whole
<1>3. Late \in BOOLEAN /\ (Late <=> Len(orphan.todo) # 0)
  BY <1>1 DEF Late
<1>4. Spoiled \in BOOLEAN
      /\ (Spoiled <=> tainted /\ (Len(worker.todo) # 0 \/ result = "NONE"))
  BY <1>1 DEF Spoiled
<1>5. QED
  BY <1>1, <1>2, <1>3, <1>4 DEF Phase, Call


\* The actions of DoorbellApply over the mapped state.
LEMMA MappedActions ==
    /\ \A p : Abstract!Begin(p) <=>
         /\ Phase = "idle" /\ Call' = p /\ Phase' = "uploading" /\ Spoiled' = Late
         /\ result' = result /\ Shows' = Shows /\ Late' = Late
    /\ Abstract!Send <=>
         /\ Phase = "uploading" /\ Phase' = "script"
         /\ Call' = Call /\ result' = result /\ Shows' = Shows /\ Late' = Late
         /\ Spoiled' = Spoiled
    /\ Abstract!Progress <=>
         /\ Phase = "script" /\ Shows' \in Profiles \cup {"other"}
         /\ Call' = Call /\ Phase' = Phase /\ result' = result /\ Late' = Late
         /\ Spoiled' = Spoiled
    /\ Abstract!Spoil <=>
         /\ Phase = "uploading" /\ Spoiled' = TRUE
         /\ Call' = Call /\ Phase' = Phase /\ result' = result /\ Shows' = Shows
         /\ Late' = Late
    /\ Abstract!Succeed <=>
         /\ Phase = "script" /\ Shows' \in Profiles \cup {"other"}
         /\ Phase' = "idle" /\ Call' = None /\ result' = "NONE"
         /\ Spoiled' \in {Spoiled, TRUE} /\ (Spoiled' \/ Shows' = Call)
         /\ Late' = Late
    /\ Abstract!FailEarly <=>
         /\ Phase = "uploading"
         /\ Phase' = "idle" /\ Call' = None
         /\ result' \in {"DOWNLOAD_FAILED", "UPLOAD_FAILED", "TRANSFER_FAILED",
                         "PROFILE_INVALID", "APPLY_FAILED"}
         /\ Spoiled' = FALSE /\ Shows' = Shows /\ Late' = Late
    /\ Abstract!FailLate <=>
         /\ Phase = "script" /\ Shows' \in Profiles \cup {"other"}
         /\ Phase' = "idle" /\ Call' = None /\ result' = "APPLY_FAILED"
         /\ Spoiled' = FALSE /\ Late' = Late
    /\ \A code : Abstract!Abandon(code) <=>
         /\ (Phase = "script" /\ code = "APPLY_FAILED") \/ (Phase # "idle" /\ code = "lost")
         /\ Phase' = "idle" /\ Call' = None /\ result' = code
         /\ Late' = (Late \/ Phase = "script") /\ Spoiled' = FALSE /\ Shows' = Shows
    /\ Abstract!Hang <=>
         /\ Phase \in {"uploading", "script"} /\ Phase' = "hung"
         /\ Late' = (Late \/ Phase = "script")
         /\ Call' = Call /\ result' = result /\ Shows' = Shows /\ Spoiled' = Spoiled
    /\ Abstract!GoesOn <=>
         /\ Late /\ Shows' \in Profiles \cup {"other"} /\ Late' \in BOOLEAN
         /\ Call' = Call /\ Phase' = Phase /\ result' = result /\ Spoiled' = Spoiled
    /\ UNCHANGED Abstract!vars <=>
         /\ Call' = Call /\ Phase' = Phase /\ result' = result /\ Shows' = Shows
         /\ Late' = Late /\ Spoiled' = Spoiled
<1> USE DEF Call, Phase, Shows, Late, Spoiled, Abstract!Changes, Abstract!Return, None
<1>1. \A p : Abstract!Begin(p) <=>
         /\ Phase = "idle" /\ Call' = p /\ Phase' = "uploading" /\ Spoiled' = Late
         /\ result' = result /\ Shows' = Shows /\ Late' = Late
  BY DEF Abstract!Begin
<1>2. Abstract!Send <=>
         /\ Phase = "uploading" /\ Phase' = "script"
         /\ Call' = Call /\ result' = result /\ Shows' = Shows /\ Late' = Late
         /\ Spoiled' = Spoiled
  BY DEF Abstract!Send
<1>3. Abstract!Progress <=>
         /\ Phase = "script" /\ Shows' \in Profiles \cup {"other"}
         /\ Call' = Call /\ Phase' = Phase /\ result' = result /\ Late' = Late
         /\ Spoiled' = Spoiled
  BY DEF Abstract!Progress
<1>4. Abstract!Spoil <=>
         /\ Phase = "uploading" /\ Spoiled' = TRUE
         /\ Call' = Call /\ Phase' = Phase /\ result' = result /\ Shows' = Shows
         /\ Late' = Late
  BY DEF Abstract!Spoil
<1>5. Abstract!Succeed <=>
         /\ Phase = "script" /\ Shows' \in Profiles \cup {"other"}
         /\ Phase' = "idle" /\ Call' = None /\ result' = "NONE"
         /\ Spoiled' \in {Spoiled, TRUE} /\ (Spoiled' \/ Shows' = Call)
         /\ Late' = Late
  BY DEF Abstract!Succeed
<1>6. Abstract!FailEarly <=>
         /\ Phase = "uploading"
         /\ Phase' = "idle" /\ Call' = None
         /\ result' \in {"DOWNLOAD_FAILED", "UPLOAD_FAILED", "TRANSFER_FAILED",
                         "PROFILE_INVALID", "APPLY_FAILED"}
         /\ Spoiled' = FALSE /\ Shows' = Shows /\ Late' = Late
  BY DEF Abstract!FailEarly
<1>7. Abstract!FailLate <=>
         /\ Phase = "script" /\ Shows' \in Profiles \cup {"other"}
         /\ Phase' = "idle" /\ Call' = None /\ result' = "APPLY_FAILED"
         /\ Spoiled' = FALSE /\ Late' = Late
  BY DEF Abstract!FailLate
<1>8. \A code : Abstract!Abandon(code) <=>
         /\ (Phase = "script" /\ code = "APPLY_FAILED") \/ (Phase # "idle" /\ code = "lost")
         /\ Phase' = "idle" /\ Call' = None /\ result' = code
         /\ Late' = (Late \/ Phase = "script") /\ Spoiled' = FALSE /\ Shows' = Shows
  BY DEF Abstract!Abandon
<1>9. Abstract!Hang <=>
         /\ Phase \in {"uploading", "script"} /\ Phase' = "hung"
         /\ Late' = (Late \/ Phase = "script")
         /\ Call' = Call /\ result' = result /\ Shows' = Shows /\ Spoiled' = Spoiled
  BY DEF Abstract!Hang
<1>10. Abstract!GoesOn <=>
         /\ Late /\ Shows' \in Profiles \cup {"other"} /\ Late' \in BOOLEAN
         /\ Call' = Call /\ Phase' = Phase /\ result' = result /\ Spoiled' = Spoiled
  BY DEF Abstract!GoesOn
<1>11. UNCHANGED Abstract!vars <=>
         /\ Call' = Call /\ Phase' = Phase /\ result' = result /\ Shows' = Shows
         /\ Late' = Late /\ Spoiled' = Spoiled
  BY DEF Abstract!vars
<1> HIDE DEF Call, Phase, Shows, Late, Spoiled, None
<1>12. QED
  BY <1>1, <1>2, <1>3, <1>4, <1>5, <1>6, <1>7, <1>8, <1>9, <1>10, <1>11


\* A step that leaves the files and the services in their places shows the same.
LEMMA ShowsSame == UNCHANGED <<bell, running>> => Shows' = Shows
  BY DEF Shows, Whole, Holds

\* The upload and the script do what the commands rely on.
THEOREM ApplyIsImplemented == Spec => ImplementsApply
<1>1. Init => Abstract!Init
  <2> SUFFICES ASSUME Init PROVE Abstract!Init
    OBVIOUS
  <2>1. Idle /\ orphan.todo = <<>> /\ tainted = FALSE /\ result = "NONE"
    BY DEF Init, Idle
  <2>2. bell["lcm_gui.conf"] = None
    BY DEF Init, Nothing, Items, Animation
  <2>3. ~Whole(bell, bell["lcm_gui.conf"])
    BY <2>2, MarksAssumption DEF Whole
  <2>4. QED
    BY <2>1, <2>3 DEF Abstract!Init, None
<1>2. ASSUME ApplyInv, ApplyInv', [Next]_vars
      PROVE  [Abstract!Next]_(Abstract!vars)
  <2>1. ShapeInv /\ ShapeInv' /\ PlaceInv /\ FaultInv /\ PlacedInv /\ DoneInv'
    BY <1>2 DEF ApplyInv
  <2>2. /\ Idle <=> Len(worker.todo) = 0
        /\ script = <<>> <=> Len(script) = 0
        /\ orphan.todo = <<>> <=> Len(orphan.todo) = 0
        /\ Len(<<>>) = 0
    BY <2>1, EmptyIsZero
  <2>3. worker \in [todo : Seq(Steps), profile : Profiles \cup {None},
                    confs : [Confs -> Placed]]
    BY <2>1 DEF ShapeInv
  <2>4. ASSUME NEW s, worker' = [worker EXCEPT !.todo = s]
        PROVE  worker'.todo = s /\ worker'.profile = worker.profile
    BY <2>3, <2>4
  <2>5. /\ Len(worker.todo) = 0 => Phase = "idle" /\ Call = None
        /\ Len(worker.todo) # 0 => Call = worker.profile
        /\ Len(worker.todo) # 0 /\ hung => Phase = "hung"
        /\ Len(worker.todo) # 0 /\ ~hung /\ Len(script) # 0 => Phase = "script"
        /\ Len(worker.todo) # 0 /\ ~hung /\ Len(script) = 0 => Phase = "uploading"
        /\ Late <=> Len(orphan.todo) # 0
        /\ Late \in BOOLEAN /\ Spoiled \in BOOLEAN
        /\ Spoiled <=> tainted /\ (Len(worker.todo) # 0 \/ result = "NONE")
    BY <2>1, Mapped
  <2>6. /\ Len(worker'.todo) = 0 => Phase' = "idle" /\ Call' = None
        /\ Len(worker'.todo) # 0 => Call' = worker'.profile
        /\ Len(worker'.todo) # 0 /\ hung' => Phase' = "hung"
        /\ Len(worker'.todo) # 0 /\ ~hung' /\ Len(script') # 0 => Phase' = "script"
        /\ Len(worker'.todo) # 0 /\ ~hung' /\ Len(script') = 0 => Phase' = "uploading"
        /\ Late' <=> Len(orphan'.todo) # 0
        /\ Late' \in BOOLEAN /\ Spoiled' \in BOOLEAN
        /\ Spoiled' <=> tainted' /\ (Len(worker'.todo) # 0 \/ result' = "NONE")
        /\ Shows' \in Profiles \cup {"other"}
    <3>1. /\ worker'.todo \in Seq(Steps) /\ script' \in Seq(Steps)
          /\ orphan'.todo \in Seq(Steps) /\ tainted' \in BOOLEAN
      BY <2>1 DEF ShapeInv, TypeOK
    <3>2. \A s \in Seq(Steps) : s = <<>> <=> Len(s) = 0
      BY EmptySeq
    <3>3. /\ Idle' <=> Len(worker'.todo) = 0
          /\ script' = <<>> <=> Len(script') = 0
          /\ orphan'.todo = <<>> <=> Len(orphan'.todo) = 0
      BY <3>1, <3>2 DEF Idle
    <3>4. Shows' \in Profiles \cup {"other"}
      BY DEF Shows, Whole
    <3>5. Late' \in BOOLEAN /\ (Late' <=> Len(orphan'.todo) # 0)
      BY <3>3 DEF Late
    <3>6. Spoiled' \in BOOLEAN
          /\ (Spoiled' <=> tainted' /\ (Len(worker'.todo) # 0 \/ result' = "NONE"))
      BY <3>1, <3>3 DEF Spoiled
    <3>7. QED
      BY <3>3, <3>4, <3>5, <3>6 DEF Phase, Call
  <2>7. /\ Len(script) # 0 => Len(worker.todo) # 0 /\ ~hung
                              /\ Head(worker.todo) = "script"
        /\ hung => Len(worker.todo) # 0
    BY <2>1 DEF PlaceInv
  <2> SUFFICES Abstract!Next \/ UNCHANGED Abstract!vars
    OBVIOUS
  <2>8. CASE \E p \in Profiles : Begin(p)
    <3>1. PICK p \in Profiles : Begin(p)
      BY <2>8
    <3>2. /\ worker'.todo = Upload(p) /\ worker'.profile = p /\ tainted' = Late
          /\ Len(worker.todo) = 0 /\ Len(script) = 0
          /\ UNCHANGED <<result, bell, running, script, orphan, hung>>
      BY <2>2, <2>3, <3>1 DEF Begin, Late
    <3>3. Len(Upload(p)) # 0
      BY UploadLists
    <3>4. Call' = p /\ Phase' = "uploading" /\ Spoiled' = Late /\ Phase = "idle"
      BY <2>5, <2>6, <2>7, <3>2, <3>3
    <3>5. Late' = Late /\ Shows' = Shows
      BY <3>2, ShowsSame DEF Late
    <3>6. Abstract!Begin(p)
      BY <3>2, <3>4, <3>5, MappedActions
    <3>7. QED
      BY <3>6 DEF Abstract!Next
  <2>9. CASE UploadStep
    <3>1. /\ Len(worker.todo) # 0 /\ Head(worker.todo) # "script" /\ ~hung
          /\ worker'.todo = Tail(worker.todo) /\ worker'.profile = worker.profile
          /\ UNCHANGED <<result, bell, running, script, orphan, hung, tainted>>
      BY <2>2, <2>3, <2>9 DEF UploadStep
    <3>2. Len(worker'.todo) # 0 /\ Len(script) = 0
      BY <2>1, <3>1, UploadHead
    <3>3. Call' = Call /\ Phase' = Phase /\ Spoiled' = Spoiled
      BY <2>5, <2>6, <3>1, <3>2
    <3>4. Late' = Late /\ Shows' = Shows
      BY <3>1, ShowsSame DEF Late
    <3>5. QED
      BY <3>1, <3>3, <3>4, MappedActions
  <2>10. CASE UploadCutShort
    <3>1. /\ Len(worker.todo) # 0 /\ Head(worker.todo) # "script" /\ ~hung
          /\ worker'.todo = Tail(worker.todo) /\ worker'.profile = worker.profile
          /\ UNCHANGED <<result, bell, running, script, orphan, hung>> /\ tainted' = TRUE
      BY <2>2, <2>3, <2>10 DEF UploadCutShort, Items, Animation, Sound
    <3>2. Len(worker'.todo) # 0 /\ Len(script) = 0
      BY <2>1, <3>1, UploadHead
    <3>3. Call' = Call /\ Phase = "uploading" /\ Phase' = Phase /\ Spoiled' = TRUE
      BY <2>5, <2>6, <3>1, <3>2
    <3>4. Late' = Late /\ Shows' = Shows
      BY <3>1, ShowsSame DEF Late
    <3>5. Abstract!Spoil
      BY <3>1, <3>3, <3>4, MappedActions
    <3>6. QED
      BY <3>5 DEF Abstract!Next
  <2>11. CASE UploadHangs
    <3>1. /\ Len(worker.todo) # 0 /\ Head(worker.todo) # "script" /\ ~hung /\ hung' = TRUE
          /\ UNCHANGED <<worker, result, bell, running, script, orphan, tainted>>
      BY <2>2, <2>11 DEF UploadHangs
    <3>2. Len(script) = 0
      BY <2>7, <3>1
    <3>3. Call' = Call /\ Phase = "uploading" /\ Phase' = "hung" /\ Spoiled' = Spoiled
      BY <2>5, <2>6, <3>1, <3>2
    <3>4. Late' = Late /\ Shows' = Shows
      BY <3>1, ShowsSame DEF Late
    <3>5. Abstract!Hang
      BY <2>5, <3>1, <3>3, <3>4, MappedActions
    <3>6. QED
      BY <3>5 DEF Abstract!Next
  \* An error before the script.
  <2>12. ASSUME Len(worker.todo) # 0, ~hung, Len(script) = 0, worker'.todo = <<>>,
                result' \in {"DOWNLOAD_FAILED", "UPLOAD_FAILED", "TRANSFER_FAILED",
                             "PROFILE_INVALID", "APPLY_FAILED"},
                UNCHANGED <<bell, running, orphan>>
         PROVE  Abstract!Next
    <3>1. Call' = None /\ Phase = "uploading" /\ Phase' = "idle" /\ Spoiled' = FALSE
      BY <2>2, <2>5, <2>6, <2>12
    <3>2. Late' = Late /\ Shows' = Shows
      BY <2>12, ShowsSame DEF Late
    <3>3. Abstract!FailEarly
      BY <2>12, <3>1, <3>2, MappedActions
    <3>4. QED
      BY <3>3 DEF Abstract!Next
  <2>13. CASE \E torn \in BOOLEAN : UploadFails(torn)
    <3>1. /\ Len(worker.todo) # 0 /\ Head(worker.todo) # "script" /\ ~hung
          /\ worker'.todo = <<>> /\ result' \in Codes(Head(worker.todo))
          /\ UNCHANGED <<bell, running, orphan>>
      BY <2>2, <2>4, <2>13 DEF UploadFails, AfterFailure
    <3>2. /\ Codes(Head(worker.todo)) \subseteq {"DOWNLOAD_FAILED", "UPLOAD_FAILED",
                                                "TRANSFER_FAILED", "PROFILE_INVALID"}
          /\ Len(script) = 0
      BY <2>1, <3>1, UploadHead, UploadCodes
    <3>3. QED
      BY <2>12, <3>1, <3>2
  <2>14. CASE StartScript(FALSE)
    <3>1. /\ Len(worker.todo) # 0 /\ ~hung /\ Len(script) = 0
          /\ worker'.todo = <<>> /\ result' = "APPLY_FAILED"
          /\ UNCHANGED <<bell, running, orphan>>
      BY <2>2, <2>4, <2>14 DEF StartScript
    <3>2. QED
      BY <2>12, <3>1
  <2>15. CASE StartScript(TRUE)
    <3>1. /\ Len(worker.todo) # 0 /\ ~hung /\ Len(script) = 0
          /\ script' = Script(worker.profile)
          /\ UNCHANGED <<worker, result, bell, running, orphan, hung, tainted>>
      BY <2>2, <2>15 DEF StartScript
    <3>2. Len(script') # 0
      BY <3>1, ScriptLists
    <3>3. Call' = Call /\ Phase = "uploading" /\ Phase' = "script" /\ Spoiled' = Spoiled
      BY <2>5, <2>6, <3>1, <3>2
    <3>4. Late' = Late /\ Shows' = Shows
      BY <3>1, ShowsSame DEF Late
    <3>5. Abstract!Send
      BY <3>1, <3>3, <3>4, MappedActions
    <3>6. QED
      BY <3>5 DEF Abstract!Next
  <2>16. CASE ScriptStep
    <3>1. /\ Len(script) # 0 /\ Len(worker.todo) # 0 /\ ~hung /\ Phase = "script"
          /\ script' = Tail(script) /\ UNCHANGED <<orphan, hung, tainted>>
          /\ Late' = Late /\ Spoiled = tainted /\ tainted \in BOOLEAN
      BY <2>1, <2>2, <2>5, <2>7, <2>16 DEF ScriptStep, Late, Spoiled, ShapeInv, TypeOK
    <3>2. CASE Len(script) = 1
      <4>1. /\ worker'.todo = <<>> /\ worker'.profile = worker.profile /\ result' = "NONE"
        BY <2>4, <2>16, <3>2 DEF ScriptStep
      <4>2. Phase' = "idle" /\ Call' = None /\ Spoiled' = Spoiled /\ Call = worker.profile
        BY <2>2, <2>5, <2>6, <3>1, <4>1
      <4>3. ASSUME ~tainted PROVE Shows' = Call
        <5>1. Whole(bell', worker.profile) /\ running' = bell'
          BY <2>1, <2>16, <3>2, <4>3, LastStep
        <5>2. bell'["lcm_gui.conf"] = worker.profile
          BY <5>1 DEF Whole
        <5>3. QED
          BY <4>2, <5>1, <5>2 DEF Shows
      <4>4. Abstract!Succeed
        BY <2>6, <3>1, <4>1, <4>2, <4>3, MappedActions
      <4>5. QED
        BY <4>4 DEF Abstract!Next
    <3>3. CASE Len(script) # 1
      <4>1. Len(script') # 0
        BY <2>1, <3>1, <3>3, ScriptHead
      <4>2. worker' = worker /\ result' = result
        BY <2>16, <3>3 DEF ScriptStep
      <4>3. Call' = Call /\ Phase' = Phase /\ Spoiled' = Spoiled
        BY <2>5, <2>6, <3>1, <4>1, <4>2
      <4>4. Abstract!Progress
        BY <2>6, <3>1, <4>2, <4>3, MappedActions
      <4>5. QED
        BY <4>4 DEF Abstract!Next
    <3>4. QED
      BY <3>2, <3>3
  <2>17. CASE ScriptFails
    <3>1. /\ Len(script) # 0 /\ worker'.todo = <<>> /\ result' = "APPLY_FAILED"
          /\ orphan' = orphan
      BY <2>2, <2>4, <2>17 DEF ScriptFails, ScriptCode
    <3>2. Phase = "script" /\ Phase' = "idle" /\ Call' = None /\ Spoiled' = FALSE
      BY <2>2, <2>5, <2>6, <2>7, <3>1
    <3>3. Late' = Late
      BY <3>1 DEF Late
    <3>4. Abstract!FailLate
      BY <2>6, <3>1, <3>2, <3>3, MappedActions
    <3>5. QED
      BY <3>4 DEF Abstract!Next
  <2>18. CASE ScriptKilled
    <3>1. /\ Len(script) # 0 /\ worker'.todo = <<>> /\ result' = "NONE"
          /\ orphan' = orphan /\ tainted' = TRUE
      BY <2>2, <2>4, <2>18 DEF ScriptKilled
    <3>2. Phase = "script" /\ Phase' = "idle" /\ Call' = None /\ Spoiled' = TRUE
      BY <2>2, <2>5, <2>6, <2>7, <3>1
    <3>3. Late' = Late
      BY <3>1 DEF Late
    <3>4. Abstract!Succeed
      BY <2>6, <3>1, <3>2, <3>3, MappedActions
    <3>5. QED
      BY <3>4 DEF Abstract!Next
  <2>19. CASE Drop(TRUE)
    <3>1. /\ Len(script) # 0 /\ worker'.todo = <<>> /\ result' = "APPLY_FAILED"
          /\ Len(orphan'.todo) # 0 /\ UNCHANGED <<bell, running>>
      BY <2>2, <2>4, <2>19 DEF Drop
    <3>2. Phase = "script" /\ Phase' = "idle" /\ Call' = None /\ Spoiled' = FALSE
      BY <2>2, <2>5, <2>6, <2>7, <3>1
    <3>3. Late' = TRUE /\ Shows' = Shows
      BY <2>6, <3>1, ShowsSame
    <3>4. Abstract!Abandon("APPLY_FAILED")
      BY <3>1, <3>2, <3>3, MappedActions
    <3>5. QED
      BY <3>4 DEF Abstract!Next
  <2>20. CASE Drop(FALSE)
    <3>1. /\ Len(script) # 0 /\ hung' = TRUE /\ Len(orphan'.todo) # 0
          /\ UNCHANGED <<worker, result, bell, running, tainted>>
      BY <2>2, <2>20 DEF Drop
    <3>2. /\ Phase = "script" /\ Phase' = "hung" /\ Call' = Call /\ Spoiled' = Spoiled
      BY <2>5, <2>6, <2>7, <3>1
    <3>3. Late' = TRUE /\ Shows' = Shows
      BY <2>6, <3>1, ShowsSame
    <3>4. Abstract!Hang
      BY <3>1, <3>2, <3>3, MappedActions
    <3>5. QED
      BY <3>4 DEF Abstract!Next
  <2>21. CASE Die
    <3>1. /\ Len(worker.todo) # 0 /\ worker'.todo = <<>> /\ result' = "lost"
          /\ UNCHANGED <<bell, running>>
          /\ orphan' = IF script = <<>> THEN orphan
                       ELSE [todo |-> script, profile |-> worker.profile]
      BY <2>2, <2>4, <2>21 DEF Die
    <3>2. Phase # "idle" /\ Phase' = "idle" /\ Call' = None /\ Spoiled' = FALSE
      BY <2>2, <2>5, <2>6, <3>1
    <3>3. Late' = (Late \/ Phase = "script") /\ Shows' = Shows
      <4>1. CASE Len(script) = 0
        <5>1. orphan' = orphan /\ Phase # "script"
          BY <2>2, <2>5, <3>1, <4>1
        <5>2. QED
          BY <2>5, <3>1, <5>1, ShowsSame DEF Late
      <4>2. CASE Len(script) # 0
        <5>1. Phase = "script" /\ Len(orphan'.todo) # 0
          BY <2>2, <2>5, <2>7, <3>1, <4>2
        <5>2. QED
          BY <2>6, <3>1, <5>1, ShowsSame
      <4>3. QED
        BY <4>1, <4>2
    <3>4. Abstract!Abandon("lost")
      BY <3>1, <3>2, <3>3, MappedActions
    <3>5. QED
      BY <3>4 DEF Abstract!Next
  <2>22. CASE OrphanStep \/ OrphanFails
    <3>1. /\ Len(orphan.todo) # 0
          /\ UNCHANGED <<worker, result, script, hung, tainted>>
      BY <2>2, <2>22 DEF OrphanStep, OrphanFails
    <3>2. Late /\ Call' = Call /\ Phase' = Phase /\ Spoiled' = Spoiled
      BY <2>5, <3>1 DEF Call, Phase, Spoiled, Idle
    <3>3. Abstract!GoesOn
      BY <2>6, <3>1, <3>2, MappedActions
    <3>4. QED
      BY <3>3 DEF Abstract!Next
  <2>23. CASE UNCHANGED vars
    <3>1. UNCHANGED <<worker, result, bell, running, script, orphan, hung, tainted>>
      BY <2>23 DEF vars
    <3>2. Call' = Call /\ Phase' = Phase /\ Spoiled' = Spoiled /\ Late' = Late
      BY <3>1 DEF Call, Phase, Spoiled, Late, Idle
    <3>3. QED
      BY <3>1, <3>2, ShowsSame, MappedActions
  <2>24. QED
    <3>1. (\E ok \in BOOLEAN : StartScript(ok)) => StartScript(TRUE) \/ StartScript(FALSE)
      OBVIOUS
    <3>2. (\E returns \in BOOLEAN : Drop(returns)) => Drop(TRUE) \/ Drop(FALSE)
      OBVIOUS
    <3>3. QED
      BY <1>2, <2>8, <2>9, <2>10, <2>11, <2>13, <2>14, <2>15, <2>16, <2>17, <2>18,
         <2>19, <2>20, <2>21, <2>22, <2>23, <3>1, <3>2 DEF Next
<1>3. QED
  BY <1>1, <1>2, ApplyInvHolds, PTL DEF Spec, ImplementsApply, Abstract!Spec

=============================================================================
