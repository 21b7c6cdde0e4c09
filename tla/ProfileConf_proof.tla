-------------------------- MODULE ProfileConf_proof --------------------------
(***************************************************************************)
(* The properties of ProfileConf for arrays of any length with any entries *)
(* of the firmware's, and for every description.                           *)
(***************************************************************************)
EXTENDS ProfileConf, Arithmetic, SequenceTheorems, TLAPS

-----------------------------------------------------------------------------
(* The inductive invariant.                                                *)

IsArray(s) == s \in Seq(Range(s))
AtMostOne(s) == \A i, j \in OursIn(s) : i = j
HasOurs(s) == \E i \in DOMAIN s : IsOurs(s[i])
OursOf(s) == s[First(s)]

\* A part that the patches write.
Shown(part) == part.enable /\ part.file # ""

\* A part as it comes out of a description: with these keys and no other.
HasKeys(part, keys) == part = [k \in keys |-> part[k]]

ArraysInv == IsArray(animations) /\ IsArray(sounds) /\ IsArray(start.animations)

\* No second animation of ours is added, and an entry for our sound keeps its place
\* and the keys it had, which are none but its name if it was added.
StartInv ==
    /\ AtMostOne(start.animations) => AtMostOne(animations)
    /\ HasOurs(start.sounds) =>
         /\ DOMAIN sounds = DOMAIN start.sounds
         /\ \A i \in DOMAIN sounds : /\ IsOurs(sounds[i]) <=> IsOurs(start.sounds[i])
                                     /\ DOMAIN sounds[i] = DOMAIN start.sounds[i]
    /\ ~HasOurs(start.sounds) /\ HasOurs(sounds) => DOMAIN OursOf(sounds) = {"id"}

\* What the last profile wrote is still there, so that writing it again changes
\* nothing.
AppliedInv ==
    /\ \A a \in profile.animation :
         /\ HasKeys(a, AnimationKeys) /\ ~Refused(a)
         /\ Shown(a) => /\ HasOurs(animations)
                        /\ Upsert(OursOf(animations), a) = OursOf(animations)
         /\ ~Shown(a) /\ AtMostOne(start.animations) => ~HasOurs(animations)
    /\ \A s \in profile.sound :
         /\ HasKeys(s, SoundKeys) /\ ~Refused(s)
         /\ Shown(s) => /\ HasOurs(sounds)
                        /\ Replace(OursOf(sounds), s) = OursOf(sounds)
    /\ \A d, e \in saved : d = e

ConfInv == ArraysInv /\ StartInv /\ AppliedInv /\ FirmwareIsKept

-----------------------------------------------------------------------------
(* What Firmware computes.                                                 *)

\* One step of its recursion, and a function that follows it.
KeptStep(f, s, i) ==
    IF i = 0 THEN <<>>
    ELSE IF IsOurs(s[i]) THEN f[i - 1] ELSE Append(f[i - 1], s[i])
Solves(f, s, n) == \A i \in 0..n : f[i] = KeptStep(f, s, i)

\* The empty array of entries of any kind.
LEMMA NoEntries == ASSUME NEW S PROVE <<>> \in Seq(S) /\ Len(<<>>) = 0
OBVIOUS

\* The recursion has a solution up to any length.
LEMMA KeptIsDefined ==
    ASSUME NEW s, NEW n \in Nat
    PROVE  \E f : f = [i \in 0..n |-> KeptStep(f, s, i)]
<1> DEFINE Good(m) == \E f : f = [i \in 0..m |-> KeptStep(f, s, i)]
           Wrong == {m \in Nat : ~Good(m)}
<1> SUFFICES ASSUME NEW x \in Wrong PROVE FALSE
  OBVIOUS
<1>1. PICK m \in Wrong : \A k \in Wrong : m <= k
  <2>1. Wrong \in SUBSET Nat
    OBVIOUS
  <2> HIDE DEF Wrong
  <2>2. QED
    BY <2>1, LeastElement
<1>2. m \in Nat /\ ~Good(m)
  BY <1>1
<1>3. CASE m = 0
  <2> DEFINE f == [i \in 0..0 |-> <<>>]
  <2>1. f = [i \in 0..0 |-> KeptStep(f, s, i)]
    BY DEF KeptStep
  <2> HIDE DEF f
  <2>2. Good(0)
    BY <2>1
  <2>3. QED
    BY <1>2, <1>3, <2>2
<1>4. CASE m # 0
  <2>1. m - 1 \in Nat /\ ~(m <= m - 1)
    BY <1>2, <1>4
  <2>2. Good(m - 1)
    BY <1>1, <2>1
  <2>3. PICK f : f = [i \in 0..(m - 1) |-> KeptStep(f, s, i)]
    BY <2>2
  <2> DEFINE last == KeptStep(f, s, m)
             g == [i \in 0..m |-> IF i = m THEN last ELSE f[i]]
  <2>4. ASSUME NEW i \in 0..m PROVE g[i] = KeptStep(g, s, i)
    <3>1. CASE i = 0
      <4>1. g[0] = f[0] /\ 0 \in 0..(m - 1)
        BY <1>2, <1>4
      <4>2. f[0] = KeptStep(f, s, 0)
        BY <2>3, <4>1
      <4> HIDE DEF g
      <4>3. QED
        BY <3>1, <4>1, <4>2 DEF KeptStep
    <3>2. CASE i # 0
      <4>1. g[i - 1] = f[i - 1]
        BY <1>2, <3>2
      <4>2. g[i] = KeptStep(f, s, i)
        <5>1. CASE i = m
          BY <5>1
        <5>2. CASE i # m
          <6>1. i \in 0..(m - 1)
            BY <1>2, <5>2
          <6>2. f[i] = KeptStep(f, s, i)
            BY <2>3, <6>1
          <6>3. g[i] = f[i]
            BY <5>2
          <6> HIDE DEF g
          <6>4. QED
            BY <6>2, <6>3
        <5>3. QED
          BY <5>1, <5>2
      <4> HIDE DEF g
      <4>3. QED
        BY <3>2, <4>1, <4>2 DEF KeptStep
    <3>3. QED
      BY <3>1, <3>2
  <2>5. DOMAIN g = 0..m /\ g = [i \in 0..m |-> g[i]]
    OBVIOUS
  <2> HIDE DEF g
  <2>6. g = [i \in 0..m |-> KeptStep(g, s, i)]
    BY <2>4, <2>5
  <2>7. QED
    BY <1>2, <2>6
<1>5. QED
  BY <1>3, <1>4

\* Firmware is the last value of a solution.
LEMMA FirmwareIsDefined ==
    ASSUME NEW s, Len(s) \in Nat
    PROVE  \E f : Solves(f, s, Len(s)) /\ Firmware(s) = f[Len(s)]
<1> DEFINE n == Len(s)
           f == CHOOSE h : h = [i \in 0..n |-> KeptStep(h, s, i)]
<1>1. f = [i \in 0..n |-> KeptStep(f, s, i)]
  <2>1. \E h : h = [i \in 0..n |-> KeptStep(h, s, i)]
    BY KeptIsDefined
  <2>2. QED
    BY <2>1
<1>2. Firmware(s) = f[n]
  BY DEF Firmware, KeptStep
<1> HIDE DEF f
<1>3. Solves(f, s, n)
  <2>1. ASSUME NEW i \in 0..n PROVE f[i] = KeptStep(f, s, i)
    BY <1>1
  <2>2. QED
    BY <2>1 DEF Solves
<1>4. QED
  BY <1>2, <1>3


LEMMA ArrayIs ==
    ASSUME NEW s, IsArray(s)
    PROVE  Len(s) \in Nat /\ DOMAIN s = 1..Len(s) /\ s = [i \in 1..Len(s) |-> s[i]]
BY DEF IsArray

LEMMA SeqIsArray ==
    ASSUME NEW S, NEW s \in Seq(S)
    PROVE  IsArray(s)
BY SeqOfRange DEF IsArray

\* Two arrays that go on alike, up to a shift and to entries of ours.
Alike(s, t, a, m, d) ==
    \A i \in (a + 1)..m : t[i] = s[i + d] \/ (IsOurs(t[i]) /\ IsOurs(s[i + d]))

LEMMA GoOnAlike ==
    ASSUME NEW s, NEW f, NEW m \in Nat, NEW n \in Nat, Solves(f, s, n),
           NEW t, NEW g, Solves(g, t, m),
           NEW d \in Nat, m + d <= n,
           NEW a \in 0..m, g[a] = f[a + d], Alike(s, t, a, m, d)
    PROVE  g[m] = f[m + d]
<1> DEFINE Wrong == {i \in a..m : g[i] # f[i + d]}
<1> SUFFICES ASSUME m \in Wrong PROVE FALSE
  OBVIOUS
<1>1. PICK i \in Wrong : \A k \in Wrong : i <= k
  <2>1. Wrong \in SUBSET Nat
    OBVIOUS
  <2> HIDE DEF Wrong
  <2>2. QED
    BY <2>1, LeastElement
<1>2. i \in (a + 1)..m /\ g[i] # f[i + d]
  BY <1>1
<1>3. g[i - 1] = f[i + d - 1]
  <2>1. i - 1 \in a..m /\ ~(i <= i - 1) /\ (i - 1) + d = i + d - 1
    BY <1>2
  <2>2. i - 1 \notin Wrong
    BY <1>1, <2>1
  <2>3. QED
    BY <2>1, <2>2
<1>4. g[i] = KeptStep(g, t, i) /\ f[i + d] = KeptStep(f, s, i + d)
  BY <1>2 DEF Solves
<1>5. i # 0 /\ i + d # 0
  BY <1>2
<1>6. QED
  BY <1>2, <1>3, <1>4, <1>5 DEF KeptStep, Alike

\* An entry of ours may change as long as it stays ours.
LEMMA ChangedOurs ==
    ASSUME NEW s, NEW t, Len(s) \in Nat, Len(t) = Len(s),
           \A i \in 1..Len(s) : t[i] = s[i] \/ (IsOurs(t[i]) /\ IsOurs(s[i]))
    PROVE  Firmware(t) = Firmware(s)
<1>1. PICK f : Solves(f, s, Len(s)) /\ Firmware(s) = f[Len(s)]
  BY FirmwareIsDefined
<1>2. PICK g : Solves(g, t, Len(s)) /\ Firmware(t) = g[Len(s)]
  BY FirmwareIsDefined
<1>3. g[0] = f[0]
  BY <1>1, <1>2 DEF Solves, KeptStep
<1>4. 0 \in Nat /\ Len(s) + 0 <= Len(s) /\ g[0] = f[0 + 0] /\ 0 \in 0..Len(s)
  BY <1>3
<1>5. Alike(s, t, 0, Len(s), 0)
  BY DEF Alike
<1>6. g[Len(s)] = f[Len(s) + 0]
  BY <1>1, <1>2, <1>4, <1>5, GoOnAlike
<1>7. QED
  BY <1>1, <1>2, <1>6

\* An entry of ours may be added at the end.
LEMMA AppendedOurs ==
    ASSUME NEW s, NEW t, Len(s) \in Nat, Len(t) = Len(s) + 1,
           \A i \in 1..Len(s) : t[i] = s[i], IsOurs(t[Len(t)])
    PROVE  Firmware(t) = Firmware(s)
<1>1. PICK f : Solves(f, s, Len(s)) /\ Firmware(s) = f[Len(s)]
  BY FirmwareIsDefined
<1>2. PICK g : Solves(g, t, Len(t)) /\ Firmware(t) = g[Len(t)]
  BY FirmwareIsDefined
<1>3. g[0] = f[0]
  BY <1>1, <1>2 DEF Solves, KeptStep
<1>4. /\ 0 \in Nat /\ Len(s) + 0 <= Len(s) /\ g[0] = f[0 + 0] /\ 0 \in 0..Len(s)
      /\ Solves(g, t, Len(s)) /\ Len(s) \in Nat
  BY <1>2, <1>3 DEF Solves
<1>5. Alike(s, t, 0, Len(s), 0)
  BY DEF Alike
<1>6. g[Len(s)] = f[Len(s) + 0]
  BY <1>1, <1>4, <1>5, GoOnAlike
<1>7. g[Len(t)] = g[Len(s)]
  <2>1. g[Len(t)] = KeptStep(g, t, Len(t)) /\ Len(t) # 0 /\ Len(t) - 1 = Len(s)
    BY <1>2 DEF Solves
  <2>2. QED
    BY <2>1 DEF KeptStep
<1>8. QED
  BY <1>1, <1>2, <1>6, <1>7

\* An entry of ours may be taken out.
LEMMA RemovedOurs ==
    ASSUME NEW s, NEW t, Len(s) \in Nat, NEW p \in 1..Len(s), IsOurs(s[p]),
           Len(t) = Len(s) - 1,
           \A i \in 1..(Len(s) - 1) : t[i] = IF i < p THEN s[i] ELSE s[i + 1]
    PROVE  Firmware(t) = Firmware(s)
<1>1. PICK f : Solves(f, s, Len(s)) /\ Firmware(s) = f[Len(s)]
  BY FirmwareIsDefined
<1>2. PICK g : Solves(g, t, Len(t)) /\ Firmware(t) = g[Len(t)]
  BY FirmwareIsDefined
<1>3. g[0] = f[0]
  BY <1>1, <1>2 DEF Solves, KeptStep
<1>4. /\ 0 \in Nat /\ (p - 1) + 0 <= Len(s) /\ g[0] = f[0 + 0] /\ 0 \in 0..(p - 1)
      /\ Solves(g, t, p - 1) /\ p - 1 \in Nat /\ Len(s) \in Nat
  BY <1>2, <1>3 DEF Solves
<1>5. Alike(s, t, 0, p - 1, 0)
  BY DEF Alike
<1>6. g[p - 1] = f[(p - 1) + 0]
  BY <1>1, <1>4, <1>5, GoOnAlike
<1>7. f[p] = f[p - 1]
  <2>1. f[p] = KeptStep(f, s, p) /\ p # 0
    BY <1>1 DEF Solves
  <2>2. QED
    BY <2>1 DEF KeptStep
<1>8. /\ 1 \in Nat /\ Len(t) \in Nat /\ Len(t) + 1 <= Len(s) /\ p - 1 \in 0..Len(t)
      /\ g[p - 1] = f[(p - 1) + 1] /\ Len(s) \in Nat
  BY <1>6, <1>7
<1>9. Alike(s, t, p - 1, Len(t), 1)
  BY DEF Alike
<1>10. g[Len(t)] = f[Len(t) + 1]
  BY <1>1, <1>2, <1>8, <1>9, GoOnAlike
<1>11. QED
  BY <1>1, <1>2, <1>10

\* A stretch of an array adds at most its length to what is kept, and exactly that
\* if nothing in it is ours.
LEMMA Stretch ==
    ASSUME NEW s, IsArray(s), NEW f, Solves(f, s, Len(s)),
           NEW a \in 0..Len(s), NEW b \in a..Len(s)
    PROVE  /\ \A i \in 0..Len(s) : f[i] \in Seq(Range(s))
           /\ Len(f[b]) - Len(f[a]) <= b - a
           /\ (\A i \in (a + 1)..b : ~IsOurs(s[i])) => Len(f[b]) - Len(f[a]) = b - a
<1> DEFINE n == Len(s)
<1>1. /\ n \in Nat /\ DOMAIN s = 1..n /\ \A i \in 1..n : s[i] \in Range(s)
  BY ArrayIs DEF Range
<1>2. \A i \in 0..n : f[i] = KeptStep(f, s, i)
  BY DEF Solves
<1> HIDE DEF n
<1> DEFINE Untyped == {i \in 0..n : f[i] \notin Seq(Range(s))}
<1>3. ASSUME NEW x \in Untyped PROVE FALSE
  <2>1. PICK i \in Untyped : \A k \in Untyped : i <= k
    <3>1. Untyped \in SUBSET Nat
      BY <1>1
    <3> HIDE DEF Untyped
    <3>2. QED
      BY <1>3, <3>1, LeastElement
  <2>2. i # 0
    <3>1. f[0] = <<>>
      BY <1>1, <1>2 DEF KeptStep
    <3>2. f[0] \in Seq(Range(s))
      BY <3>1, NoEntries
    <3>3. QED
      BY <2>1, <3>2
  <2>3. i \in 1..n /\ i - 1 \in 0..n /\ ~(i <= i - 1)
    BY <1>1, <2>1, <2>2
  <2>4. f[i - 1] \in Seq(Range(s)) /\ s[i] \in Range(s)
    BY <1>1, <2>1, <2>3
  <2>5. f[i] \in Seq(Range(s))
    <3>1. f[i] = f[i - 1] \/ f[i] = Append(f[i - 1], s[i])
      BY <1>2, <2>1, <2>2 DEF KeptStep
    <3>2. Append(f[i - 1], s[i]) \in Seq(Range(s))
      BY <2>4
    <3>3. QED
      BY <2>4, <3>1, <3>2, Zenon
  <2>6. QED
    BY <2>1, <2>5
<1>4. \A i \in 0..n : f[i] \in Seq(Range(s)) /\ Len(f[i]) \in Nat
  <2>1. \A i \in 0..n : f[i] \in Seq(Range(s))
    BY <1>3
  <2>2. QED
    BY <2>1
<1>5. \A i \in 1..n : /\ Len(f[i]) <= Len(f[i - 1]) + 1
                      /\ ~IsOurs(s[i]) => Len(f[i]) = Len(f[i - 1]) + 1
  <2> SUFFICES ASSUME NEW i \in 1..n
               PROVE /\ Len(f[i]) <= Len(f[i - 1]) + 1
                     /\ ~IsOurs(s[i]) => Len(f[i]) = Len(f[i - 1]) + 1
    OBVIOUS
  <2>1. i - 1 \in 0..n /\ i \in 0..n /\ i # 0 /\ s[i] \in Range(s)
    BY <1>1
  <2>2. Len(Append(f[i - 1], s[i])) = Len(f[i - 1]) + 1
    BY <1>4, <2>1
  <2>3. f[i] = IF IsOurs(s[i]) THEN f[i - 1] ELSE Append(f[i - 1], s[i])
    BY <1>2, <2>1 DEF KeptStep
  <2>4. QED
    BY <1>4, <2>1, <2>2, <2>3
<1> DEFINE Grown(i) == /\ Len(f[i]) - Len(f[a]) <= i - a
                       /\ (\A j \in (a + 1)..i : ~IsOurs(s[j]))
                            => Len(f[i]) - Len(f[a]) = i - a
           Wrong == {i \in a..n : ~Grown(i)}
<1>6. ASSUME NEW x \in Wrong PROVE FALSE
  <2>0. a \in 0..n
    BY DEF n
  <2>1. PICK i \in Wrong : \A k \in Wrong : i <= k
    <3>1. Wrong \in SUBSET Nat
      BY <1>1, <2>0
    <3> HIDE DEF Wrong
    <3>2. QED
      BY <1>6, <3>1, LeastElement
  <2>2. i # a
    BY <1>4, <2>0, <2>1
  <2>3. i \in 1..n /\ i - 1 \in a..n /\ ~(i <= i - 1)
    BY <1>1, <2>0, <2>1, <2>2
  <2>4. Grown(i - 1)
    BY <2>1, <2>3
  <2>5. Len(f[i]) \in Nat /\ Len(f[i - 1]) \in Nat /\ Len(f[a]) \in Nat
    BY <1>1, <1>4, <2>0, <2>3
  <2>6. Len(f[i]) - Len(f[a]) <= i - a
    <3>1. Len(f[i - 1]) - Len(f[a]) <= (i - 1) - a /\ Len(f[i]) <= Len(f[i - 1]) + 1
      BY <1>5, <2>3, <2>4
    <3> DEFINE u == Len(f[i])
               v == Len(f[i - 1])
               w == Len(f[a])
    <3>2. /\ u \in Nat /\ v \in Nat /\ w \in Nat /\ v - w <= (i - 1) - a /\ u <= v + 1
          /\ i \in Nat /\ a \in Nat
      BY <1>1, <2>0, <2>3, <2>5, <3>1
    <3> HIDE DEF u, v, w
    <3>3. u - w <= i - a
      BY <3>2
    <3>4. QED
      BY <3>3 DEF u, w
  <2>7. ASSUME \A j \in (a + 1)..i : ~IsOurs(s[j])
        PROVE  Len(f[i]) - Len(f[a]) = i - a
    <3>1. i \in (a + 1)..i /\ \A j \in (a + 1)..(i - 1) : j \in (a + 1)..i
      BY <2>0, <2>1, <2>2, <2>3
    <3>2. Len(f[i - 1]) - Len(f[a]) = (i - 1) - a
      BY <2>4, <2>7, <3>1
    <3> DEFINE u == Len(f[i])
               v == Len(f[i - 1])
               w == Len(f[a])
    <3>3. /\ u \in Nat /\ v \in Nat /\ w \in Nat /\ v - w = (i - 1) - a /\ u = v + 1
          /\ i \in Nat /\ a \in Nat
      BY <1>1, <1>5, <2>0, <2>3, <2>5, <2>7, <3>1, <3>2
    <3> HIDE DEF u, v, w
    <3>4. u - w = i - a
      BY <3>3
    <3>5. QED
      BY <3>4 DEF u, w
  <2>8. QED
    BY <2>1, <2>6, <2>7
<1>7. Grown(b)
  BY <1>6 DEF n
<1>8. QED
  BY <1>4, <1>7 DEF n

\* Without an entry of ours nothing is left out.
LEMMA AllAreKept ==
    ASSUME NEW s, IsArray(s), ~HasOurs(s)
    PROVE  Len(s) = Len(Firmware(s))
<1>1. PICK f : Solves(f, s, Len(s)) /\ Firmware(s) = f[Len(s)]
  BY FirmwareIsDefined, ArrayIs
<1>2. Len(s) \in Nat /\ DOMAIN s = 1..Len(s)
  BY ArrayIs
<1>3. Len(f[0]) = 0
  BY <1>1, <1>2, NoEntries DEF Solves, KeptStep
<1>4. \A i \in (0 + 1)..Len(s) : ~IsOurs(s[i])
  BY <1>2 DEF HasOurs
<1>5. 0 \in 0..Len(s) /\ Len(s) \in 0..Len(s)
  BY <1>2
<1>6. /\ Len(f[Len(s)]) - Len(f[0]) = Len(s) - 0
      /\ f[Len(s)] \in Seq(Range(s))
  BY <1>1, <1>4, <1>5, Stretch
<1>7. QED
  BY <1>1, <1>2, <1>3, <1>6

\* An array that is at most one longer than what is kept of it has one of ours at
\* most.
LEMMA LengthsTell ==
    ASSUME NEW s, IsArray(s), Len(s) <= Len(Firmware(s)) + 1
    PROVE  AtMostOne(s)
<1>1. PICK f : Solves(f, s, Len(s)) /\ Firmware(s) = f[Len(s)]
  BY FirmwareIsDefined, ArrayIs
<1>2. Len(s) \in Nat /\ DOMAIN s = 1..Len(s)
  BY ArrayIs
<1>3. ASSUME NEW p \in OursIn(s), NEW q \in OursIn(s), p < q
      PROVE  FALSE
  <2>1. p \in 1..Len(s) /\ q \in 1..Len(s) /\ IsOurs(s[p]) /\ IsOurs(s[q])
    BY <1>2 DEF OursIn
  <2>2. f[p] = f[p - 1] /\ f[q] = f[q - 1]
    <3>1. f[p] = KeptStep(f, s, p) /\ f[q] = KeptStep(f, s, q) /\ p # 0 /\ q # 0
      BY <1>1, <1>2, <2>1 DEF Solves
    <3>2. QED
      BY <2>1, <3>1 DEF KeptStep
  <2>3. Len(f[0]) = 0
    BY <1>1, <1>2, NoEntries DEF Solves, KeptStep
  <2>4. /\ 0 \in 0..Len(s) /\ p - 1 \in 0..Len(s) /\ p \in 0..Len(s) /\ q - 1 \in p..Len(s)
        /\ q \in 0..Len(s) /\ Len(s) \in q..Len(s)
    BY <1>2, <1>3, <2>1
  <2>5. /\ \A i \in 0..Len(s) : f[i] \in Seq(Range(s))
        /\ Len(f[p - 1]) - Len(f[0]) <= p - 1 - 0
    BY <1>1, <2>4, Stretch
  <2>6. Len(f[q - 1]) - Len(f[p]) <= q - 1 - p
    BY <1>1, <2>4, Stretch
  <2>7. Len(f[Len(s)]) - Len(f[q]) <= Len(s) - q
    BY <1>1, <2>4, Stretch
  <2>8. \A i \in 0..Len(s) : Len(f[i]) \in Nat
    BY <2>5
  <2>9. /\ Len(f[p]) \in Nat /\ Len(f[q]) \in Nat /\ Len(f[Len(s)]) \in Nat
    BY <1>2, <2>1, <2>8
  <2>10. Len(s) <= Len(f[Len(s)]) + 1
    BY <1>1
  <2> DEFINE x == Len(f[p])
             y == Len(f[q])
             z == Len(f[Len(s)])
             n == Len(s)
  <2>11. /\ x \in Nat /\ y \in Nat /\ z \in Nat /\ n \in Nat /\ p \in Nat /\ q \in Nat
         /\ x - 0 <= p - 1 - 0 /\ y - x <= q - 1 - p /\ z - y <= n - q /\ n <= z + 1
    BY <1>2, <2>1, <2>2, <2>3, <2>5, <2>6, <2>7, <2>9, <2>10
  <2> HIDE DEF x, y, z, n
  <2>12. QED
    BY <2>11
<1>4. \A p, q \in OursIn(s) : p \in Nat /\ q \in Nat
  BY <1>2 DEF OursIn
<1>5. QED
  BY <1>3, <1>4 DEF AtMostOne


LEMMA FirmwareLength ==
    ASSUME NEW s, IsArray(s)
    PROVE  Len(Firmware(s)) \in Nat
<1>1. PICK f : Solves(f, s, Len(s)) /\ Firmware(s) = f[Len(s)]
  BY FirmwareIsDefined, ArrayIs
<1>2. Len(s) \in 0..Len(s)
  BY ArrayIs
<1>3. f[Len(s)] \in Seq(Range(s))
  BY <1>1, <1>2, Stretch
<1>4. QED
  BY <1>1, <1>3

-----------------------------------------------------------------------------
(* Finding the entry.                                                      *)

LEMMA FirstIs ==
    ASSUME NEW s, IsArray(s), HasOurs(s)
    PROVE  /\ First(s) \in 1..Len(s) /\ IsOurs(s[First(s)])
           /\ \A i \in 1..Len(s) : IsOurs(s[i]) => First(s) <= i
<1>1. DOMAIN s = 1..Len(s) /\ Len(s) \in Nat
  BY ArrayIs
<1>2. PICK x \in OursIn(s) : TRUE
  BY DEF HasOurs, OursIn
<1>3. OursIn(s) \in SUBSET Nat
  BY <1>1 DEF OursIn
<1>4. \E n \in OursIn(s) : \A m \in OursIn(s) : n <= m
  BY <1>2, <1>3, LeastElement
<1>5. First(s) \in OursIn(s) /\ \A m \in OursIn(s) : First(s) <= m
  BY <1>4 DEF First
<1>6. QED
  BY <1>1, <1>5 DEF OursIn

LEMMA HasOursIs == \A s : HasOurs(s) <=> OursIn(s) # {}
BY DEF HasOurs, OursIn

\* The entry of ours gives way to another one of ours.
LEMMA Updated ==
    ASSUME NEW s, IsArray(s), HasOurs(s), NEW e, IsOurs(e),
           NEW t, t = [s EXCEPT ![First(s)] = e]
    PROVE  /\ IsArray(t) /\ Len(t) = Len(s) /\ HasOurs(t)
           /\ Firmware(t) = Firmware(s)
           /\ \A i \in 1..Len(s) : IsOurs(t[i]) <=> IsOurs(s[i])
           /\ \A i \in 1..Len(s) : t[i] = IF i = First(s) THEN e ELSE s[i]
           /\ OursIn(t) = OursIn(s) /\ OursOf(t) = e
           /\ AtMostOne(s) => AtMostOne(t)
           /\ e = OursOf(s) => t = s
<1> DEFINE p == First(s)
           S == Range(s) \cup {e}
<1>1. /\ DOMAIN s = 1..Len(s) /\ Len(s) \in Nat /\ s = [i \in 1..Len(s) |-> s[i]]
      /\ p \in 1..Len(s) /\ IsOurs(s[p])
  BY ArrayIs, FirstIs
<1>2. s \in Seq(S)
  <2>1. Range(s) \subseteq S /\ s \in Seq(Range(s))
    BY DEF IsArray
  <2> HIDE DEF S
  <2>2. QED
    BY <2>1, SeqMonotonic
<1>3. e \in S
  OBVIOUS
<1> HIDE DEF S, p
<1>4. t = [s EXCEPT ![p] = e]
  BY DEF p
<1>5. /\ t \in Seq(S) /\ Len(t) = Len(s)
      /\ \A i \in 1..Len(s) : t[i] = IF i = p THEN e ELSE s[i]
  <2>1. /\ [s EXCEPT ![p] = e] \in Seq(S)
        /\ Len([s EXCEPT ![p] = e]) = Len(s)
        /\ \A j \in 1..Len(s) : [s EXCEPT ![p] = e][j] = IF j = p THEN e ELSE s[j]
    BY <1>1, <1>2, <1>3, ExceptSeq, Zenon
  <2>2. QED
    BY <1>4, <2>1, Zenon
<1>6. IsArray(t) /\ DOMAIN t = 1..Len(s) /\ t = [i \in 1..Len(s) |-> t[i]]
  BY <1>5, SeqIsArray, ArrayIs
<1>7. \A i \in 1..Len(s) : IsOurs(t[i]) <=> IsOurs(s[i])
  BY <1>1, <1>5
<1>8. \A i \in 1..Len(s) : t[i] = s[i] \/ (IsOurs(t[i]) /\ IsOurs(s[i]))
  BY <1>1, <1>5
<1>9. Firmware(t) = Firmware(s)
  BY <1>1, <1>5, <1>8, ChangedOurs
<1>10. OursIn(t) = OursIn(s)
  BY <1>1, <1>6, <1>7 DEF OursIn
<1>11. First(t) = p
  BY <1>10 DEF First, p
<1>12. OursOf(t) = e
  BY <1>1, <1>5, <1>11 DEF OursOf
<1>13. e = OursOf(s) => t = s
  <2>1. ASSUME e = s[p] PROVE \A i \in 1..Len(s) : t[i] = s[i]
    BY <1>5, <2>1
  <2>2. QED
    BY <1>1, <1>6, <2>1 DEF OursOf, p
<1>14. AtMostOne(s) => AtMostOne(t)
  BY <1>10 DEF AtMostOne
<1>15. HasOurs(t)
  BY <1>10, HasOursIs
<1>16. QED
  BY <1>5, <1>6, <1>7, <1>9, <1>10, <1>12, <1>13, <1>14, <1>15 DEF p

\* One that is missing is added.
LEMMA WithOursIs ==
    ASSUME NEW s, IsArray(s)
    PROVE  /\ IsArray(WithOurs(s)) /\ HasOurs(WithOurs(s))
           /\ Firmware(WithOurs(s)) = Firmware(s)
           /\ AtMostOne(s) => AtMostOne(WithOurs(s))
           /\ HasOurs(s) => WithOurs(s) = s
           /\ ~HasOurs(s) => DOMAIN OursOf(WithOurs(s)) = {"id"}
<1>1. CASE HasOurs(s)
  BY <1>1, HasOursIs DEF WithOurs
<1>2. CASE ~HasOurs(s)
  <2> DEFINE e == [id |-> Ours]
             S == Range(s) \cup {e}
             t == Append(s, e)
  <2>1. IsOurs(e)
    BY DEF IsOurs
  <2>2. s \in Seq(S) /\ e \in S
    <3>1. Range(s) \subseteq S /\ s \in Seq(Range(s)) /\ e \in S
      BY DEF IsArray
    <3> HIDE DEF S, e
    <3>2. QED
      BY <3>1, SeqMonotonic
  <2>3. WithOurs(s) = t /\ DOMAIN e = {"id"}
    BY <1>2, HasOursIs DEF WithOurs
  <2> HIDE DEF S, e
  <2>4. /\ t \in Seq(S) /\ Len(t) = Len(s) + 1 /\ Len(s) \in Nat
        /\ \A i \in 1..Len(s) : t[i] = s[i]
        /\ t[Len(s) + 1] = e
        /\ DOMAIN s = 1..Len(s) /\ DOMAIN t = 1..(Len(s) + 1)
    BY <2>2
  <2> HIDE DEF t
  <2>5. IsOurs(t[Len(t)])
    BY <2>1, <2>4
  <2>6. Firmware(t) = Firmware(s)
    BY <2>4, <2>5, AppendedOurs
  <2>7. IsArray(t)
    BY <2>4, SeqIsArray
  <2>8. \A i \in DOMAIN t : IsOurs(t[i]) <=> i = Len(s) + 1
    <3>1. \A i \in 1..Len(s) : ~IsOurs(s[i])
      BY <1>2, <2>4 DEF HasOurs
    <3>2. QED
      BY <2>4, <2>5, <3>1
  <2>9. AtMostOne(t) /\ HasOurs(t)
    <3>1. Len(s) + 1 \in DOMAIN t
      BY <2>4
    <3>2. QED
      BY <2>8, <3>1 DEF AtMostOne, HasOurs, OursIn
  <2>10. OursOf(t) = e
    <3>1. First(t) \in 1..Len(t) /\ IsOurs(t[First(t)])
      BY <2>7, <2>9, FirstIs
    <3>2. First(t) = Len(s) + 1
      BY <2>4, <2>8, <3>1
    <3>3. QED
      BY <2>4, <3>2 DEF OursOf
  <2>11. QED
    BY <1>2, <2>3, <2>6, <2>7, <2>9, <2>10
<1>3. QED
  BY <1>1, <1>2

\* The entry of ours is taken out, and no other is there if there was only one.
LEMMA Removed ==
    ASSUME NEW s, IsArray(s), HasOurs(s), NEW t, t = RemoveAt(s, First(s))
    PROVE  /\ IsArray(t) /\ Firmware(t) = Firmware(s)
           /\ AtMostOne(s) => ~HasOurs(t) /\ AtMostOne(t)
<1> DEFINE p == First(s)
           n == Len(s)
           S == Range(s)
           u == SubSeq(s, 1, p - 1)
           v == SubSeq(s, p + 1, n)
<1>1. /\ DOMAIN s = 1..n /\ n \in Nat /\ s \in Seq(S)
      /\ p \in 1..n /\ IsOurs(s[p])
      /\ \A i \in 1..n : s[i] \in S
  BY ArrayIs, FirstIs DEF IsArray, Range
<1>2. t = u \o v
  BY DEF RemoveAt
<1> HIDE DEF p, n, S
<1>3. u \in Seq(S) /\ Len(u) = p - 1 /\ \A i \in 1..(p - 1) : u[i] = s[i]
  <2>1. 1 \in Int /\ p - 1 \in Int /\ \A i \in 1..(p - 1) : s[i] \in S
    BY <1>1
  <2>2. /\ u \in Seq(S) /\ Len(u) = IF 1 <= p - 1 THEN p - 1 - 1 + 1 ELSE 0
        /\ \A i \in 1..(p - 1 - 1 + 1) : u[i] = s[1 + i - 1]
    BY <2>1, SubSeqProperties
  <2> HIDE DEF u
  <2>3. QED
    BY <1>1, <2>2
<1>4. v \in Seq(S) /\ Len(v) = n - p /\ \A i \in 1..(n - p) : v[i] = s[p + i]
  <2>1. p + 1 \in Int /\ n \in Int /\ \A i \in (p + 1)..n : s[i] \in S
    BY <1>1
  <2>2. /\ v \in Seq(S) /\ Len(v) = IF p + 1 <= n THEN n - (p + 1) + 1 ELSE 0
        /\ \A i \in 1..(n - (p + 1) + 1) : v[i] = s[p + 1 + i - 1]
    BY <2>1, SubSeqProperties
  <2> HIDE DEF v
  <2>3. QED
    BY <1>1, <2>2
<1> HIDE DEF u, v
<1>5. /\ t \in Seq(S) /\ Len(t) = Len(u) + Len(v)
      /\ \A i \in 1..(Len(u) + Len(v)) :
            t[i] = IF i <= Len(u) THEN u[i] ELSE v[i - Len(u)]
  BY <1>2, <1>3, <1>4, ConcatProperties
<1>6. Len(t) = n - 1 /\ \A i \in 1..(n - 1) : t[i] = IF i < p THEN s[i] ELSE s[i + 1]
  <2>1. Len(t) = n - 1
    BY <1>1, <1>3, <1>4, <1>5
  <2>2. ASSUME NEW i \in 1..(n - 1) PROVE t[i] = IF i < p THEN s[i] ELSE s[i + 1]
    <3>1. t[i] = IF i <= p - 1 THEN u[i] ELSE v[i - (p - 1)]
      BY <1>1, <1>3, <1>4, <1>5
    <3>2. CASE i < p
      BY <1>1, <1>3, <3>1, <3>2
    <3>3. CASE ~(i < p)
      <4>1. /\ i - (p - 1) \in 1..(n - p) /\ p + (i - (p - 1)) = i + 1
            /\ ~(i <= p - 1)
        BY <1>1, <3>3
      <4>2. QED
        BY <1>4, <3>1, <3>3, <4>1
    <3>4. QED
      BY <3>2, <3>3
  <2>3. QED
    BY <2>1, <2>2
<1>7. IsArray(t)
  BY <1>5, SeqIsArray
<1>8. Firmware(t) = Firmware(s)
  BY <1>1, <1>6, RemovedOurs DEF n
<1>9. ASSUME AtMostOne(s) PROVE ~HasOurs(t)
  <2>1. \A i \in 1..n : IsOurs(s[i]) => i = p
    BY <1>1, <1>9 DEF AtMostOne, OursIn
  <2>2. DOMAIN t = 1..(n - 1)
    BY <1>6, <1>7, ArrayIs
  <2>3. \A i \in 1..(n - 1) : ~IsOurs(t[i])
    BY <1>1, <1>6, <2>1
  <2>4. QED
    BY <2>2, <2>3 DEF HasOurs
<1>10. ~HasOurs(t) => AtMostOne(t)
  BY DEF HasOurs, AtMostOne, OursIn
<1>11. QED
  BY <1>7, <1>8, <1>9, <1>10


-----------------------------------------------------------------------------
(* Writing a profile.                                                      *)

\* What the provers see of the patches: nothing of the empty name.
LEMMA Patches ==
    \A array, part :
       /\ Shown(part) =>
            /\ PatchAnimations(array, part) =
                 [WithOurs(array) EXCEPT ![First(WithOurs(array))] = Upsert(@, part)]
            /\ PatchSounds(array, part) =
                 [WithOurs(array) EXCEPT ![First(WithOurs(array))] = Replace(@, part)]
       /\ ~Shown(part) =>
            /\ PatchAnimations(array, part) =
                 IF OursIn(array) = {} THEN array ELSE RemoveAt(array, First(array))
            /\ PatchSounds(array, part) = array
BY Zenon DEF PatchAnimations, PatchSounds, Shown

LEMMA EnabledIsShown == \A part : part.enable /\ ~Refused(part) => Shown(part)
BY Zenon DEF Refused, Shown

LEMMA KeysAre ==
    /\ AnimationKeys = {"enable", "file", "number", "loop"}
    /\ SoundKeys = {"enable", "file", "number"}
    /\ "id" \notin AnimationKeys /\ "id" \notin SoundKeys
BY DEF AnimationKeys, SoundKeys

\* Written keys are those of the part, the others stay; writing twice is writing
\* once.
LEMMA Upserts ==
    ASSUME NEW keys, "id" \notin keys, NEW part, HasKeys(part, keys), NEW entry
    PROVE  /\ IsOurs(Upsert(entry, part)) <=> IsOurs(entry)
           /\ Upsert(Upsert(entry, part), part) = Upsert(entry, part)
           /\ \A e : Upsert(e, part) = e =>
                       /\ keys \subseteq DOMAIN e
                       /\ \A k \in keys : e[k] = part[k]
<1>1. DOMAIN part = keys
  BY DEF HasKeys
<1>2. IsOurs(Upsert(entry, part)) <=> IsOurs(entry)
  BY <1>1 DEF Upsert, IsOurs
<1>3. \A e : /\ DOMAIN Upsert(e, part) = DOMAIN e \cup keys
             /\ \A k \in DOMAIN e \cup keys :
                   Upsert(e, part)[k] = IF k \in keys THEN part[k] ELSE e[k]
             /\ Upsert(e, part) = [k \in DOMAIN e \cup keys |-> Upsert(e, part)[k]]
  BY <1>1 DEF Upsert
<1>4. Upsert(Upsert(entry, part), part) = Upsert(entry, part)
  <2> DEFINE once == Upsert(entry, part)
             twice == Upsert(once, part)
  <2>1. /\ DOMAIN once = DOMAIN entry \cup keys /\ once = [k \in DOMAIN once |-> once[k]]
        /\ \A k \in keys : once[k] = part[k]
    BY <1>3
  <2>2. /\ DOMAIN twice = DOMAIN once \cup keys /\ twice = [k \in DOMAIN twice |-> twice[k]]
        /\ \A k \in DOMAIN once : twice[k] = IF k \in keys THEN part[k] ELSE once[k]
    BY <1>3
  <2> HIDE DEF once, twice
  <2>3. DOMAIN twice = DOMAIN once
    BY <2>1, <2>2
  <2>4. \A k \in DOMAIN once : twice[k] = once[k]
    BY <2>1, <2>2
  <2>5. twice = once
    BY <2>1, <2>2, <2>3, <2>4
  <2>6. QED
    BY <2>5 DEF once, twice
<1>5. \A e : Upsert(e, part) = e => keys \subseteq DOMAIN e /\ \A k \in keys : e[k] = part[k]
  BY <1>3
<1>6. QED
  BY <1>2, <1>4, <1>5

LEMMA Replaces ==
    ASSUME NEW keys, "id" \notin keys, NEW part, HasKeys(part, keys), NEW entry
    PROVE  /\ IsOurs(Replace(entry, part)) <=> IsOurs(entry)
           /\ Replace(Replace(entry, part), part) = Replace(entry, part)
           /\ DOMAIN Replace(entry, part) = DOMAIN entry
           /\ \A e : Replace(e, part) = e =>
                       \A k \in keys \cap DOMAIN e : e[k] = part[k]
<1>1. DOMAIN part = keys
  BY DEF HasKeys
<1>2. IsOurs(Replace(entry, part)) <=> IsOurs(entry)
  BY <1>1 DEF Replace, IsOurs
<1>3. \A e : /\ DOMAIN Replace(e, part) = DOMAIN e
             /\ \A k \in DOMAIN e :
                   Replace(e, part)[k] = IF k \in keys THEN part[k] ELSE e[k]
             /\ Replace(e, part) = [k \in DOMAIN e |-> Replace(e, part)[k]]
  BY <1>1 DEF Replace
<1>4. Replace(Replace(entry, part), part) = Replace(entry, part)
  <2> DEFINE once == Replace(entry, part)
             twice == Replace(once, part)
  <2>1. /\ DOMAIN once = DOMAIN entry /\ once = [k \in DOMAIN once |-> once[k]]
        /\ \A k \in DOMAIN once : once[k] = IF k \in keys THEN part[k] ELSE entry[k]
    BY <1>3
  <2>2. /\ DOMAIN twice = DOMAIN once /\ twice = [k \in DOMAIN twice |-> twice[k]]
        /\ \A k \in DOMAIN once : twice[k] = IF k \in keys THEN part[k] ELSE once[k]
    BY <1>3
  <2> HIDE DEF once, twice
  <2>3. \A k \in DOMAIN once : twice[k] = once[k]
    BY <2>1, <2>2
  <2>4. twice = once
    BY <2>1, <2>2, <2>3
  <2>5. QED
    BY <2>4 DEF once, twice
<1>5. \A e : Replace(e, part) = e => \A k \in keys \cap DOMAIN e : e[k] = part[k]
  BY <1>3
<1>6. QED
  BY <1>2, <1>3, <1>4, <1>5

\* The animation of a profile is there afterwards, or none is.
LEMMA AnimationsPatched ==
    ASSUME NEW s, IsArray(s), NEW part, HasKeys(part, AnimationKeys),
           NEW t, t = PatchAnimations(s, part)
    PROVE  /\ IsArray(t) /\ Firmware(t) = Firmware(s)
           /\ AtMostOne(s) => AtMostOne(t)
           /\ Shown(part) => /\ HasOurs(t)
                             /\ Upsert(OursOf(t), part) = OursOf(t)
                             /\ (HasOurs(s) /\ Upsert(OursOf(s), part) = OursOf(s)) => t = s
           /\ ~Shown(part) => /\ AtMostOne(s) => ~HasOurs(t)
                              /\ ~HasOurs(s) => t = s
<1>1. CASE Shown(part)
  <2> DEFINE w == WithOurs(s)
             e == Upsert(OursOf(w), part)
  <2>1. /\ IsArray(w) /\ HasOurs(w) /\ Firmware(w) = Firmware(s)
        /\ AtMostOne(s) => AtMostOne(w)
        /\ HasOurs(s) => w = s
    BY WithOursIs
  <2>2. t = [w EXCEPT ![First(w)] = e]
    BY <1>1, Patches DEF OursOf
  <2> HIDE DEF w
  <2>3. IsOurs(OursOf(w))
    BY <2>1, FirstIs DEF OursOf
  <2>4. IsOurs(e) /\ Upsert(e, part) = e
    BY <2>3, KeysAre, Upserts
  <2> HIDE DEF e
  <2>5. /\ IsArray(t) /\ HasOurs(t) /\ Firmware(t) = Firmware(w)
        /\ OursOf(t) = e
        /\ AtMostOne(w) => AtMostOne(t)
        /\ e = OursOf(w) => t = w
    BY <2>1, <2>2, <2>4, Updated
  <2>6. (HasOurs(s) /\ Upsert(OursOf(s), part) = OursOf(s)) => t = s
    BY <2>1, <2>5 DEF e
  <2>7. QED
    BY <1>1, <2>1, <2>4, <2>5, <2>6
<1>2. CASE ~Shown(part) /\ HasOurs(s)
  <2>1. t = RemoveAt(s, First(s))
    BY <1>2, Patches, HasOursIs
  <2>2. QED
    BY <1>2, <2>1, Removed
<1>3. CASE ~Shown(part) /\ ~HasOurs(s)
  <2>1. t = s
    BY <1>3, Patches, HasOursIs
  <2>2. QED
    BY <1>3, <2>1
<1>4. QED
  BY <1>1, <1>2, <1>3

\* The sound of a profile is written over the one that is there.
LEMMA SoundsPatched ==
    ASSUME NEW s, IsArray(s), NEW part, HasKeys(part, SoundKeys),
           NEW t, t = PatchSounds(s, part)
    PROVE  /\ IsArray(t) /\ Firmware(t) = Firmware(s)
           /\ HasOurs(s) =>
                /\ DOMAIN t = DOMAIN s
                /\ \A i \in DOMAIN s : /\ IsOurs(t[i]) <=> IsOurs(s[i])
                                       /\ DOMAIN t[i] = DOMAIN s[i]
           /\ Shown(part) => /\ HasOurs(t)
                             /\ Replace(OursOf(t), part) = OursOf(t)
                             /\ HasOurs(s) => OursOf(t) = Replace(OursOf(s), part)
                             /\ (HasOurs(s) /\ Replace(OursOf(s), part) = OursOf(s)) => t = s
                             /\ ~HasOurs(s) => DOMAIN OursOf(t) = {"id"}
           /\ ~Shown(part) => t = s
<1>1. CASE Shown(part)
  <2> DEFINE w == WithOurs(s)
             e == Replace(OursOf(w), part)
  <2>1. /\ IsArray(w) /\ HasOurs(w) /\ Firmware(w) = Firmware(s)
        /\ HasOurs(s) => w = s
        /\ ~HasOurs(s) => DOMAIN OursOf(w) = {"id"}
    BY WithOursIs
  <2>2. t = [w EXCEPT ![First(w)] = e]
    BY <1>1, Patches DEF OursOf
  <2> HIDE DEF w
  <2>3. IsOurs(OursOf(w)) /\ First(w) \in 1..Len(w)
    BY <2>1, FirstIs DEF OursOf
  <2>4. IsOurs(e) /\ Replace(e, part) = e /\ DOMAIN e = DOMAIN OursOf(w)
    <3>1. "id" \notin SoundKeys
      BY KeysAre
    <3>2. IsOurs(e) <=> IsOurs(OursOf(w))
      BY <3>1, Replaces
    <3>3. Replace(e, part) = e
      BY <3>1, Replaces
    <3>4. DOMAIN e = DOMAIN OursOf(w)
      BY <3>1, Replaces
    <3>5. QED
      BY <2>3, <3>2, <3>3, <3>4
  <2> HIDE DEF e
  <2>5. /\ IsArray(t) /\ HasOurs(t) /\ Firmware(t) = Firmware(w)
        /\ Len(t) = Len(w) /\ OursOf(t) = e
        /\ \A i \in 1..Len(w) : IsOurs(t[i]) <=> IsOurs(w[i])
        /\ \A i \in 1..Len(w) : t[i] = IF i = First(w) THEN e ELSE w[i]
        /\ e = OursOf(w) => t = w
    <3>1. /\ IsArray(t) /\ HasOurs(t) /\ Firmware(t) = Firmware(w)
          /\ Len(t) = Len(w) /\ OursOf(t) = e
      BY <2>1, <2>2, <2>4, Updated
    <3>2. \A i \in 1..Len(w) : IsOurs(t[i]) <=> IsOurs(w[i])
      BY <2>1, <2>2, <2>4, Updated
    <3>3. \A i \in 1..Len(w) : t[i] = IF i = First(w) THEN e ELSE w[i]
      BY <2>1, <2>2, <2>4, Updated
    <3>4. e = OursOf(w) => t = w
      BY <2>1, <2>2, <2>4, Updated
    <3>5. QED
      BY <3>1, <3>2, <3>3, <3>4
  <2>6. DOMAIN t = 1..Len(w) /\ DOMAIN w = 1..Len(w)
    BY <2>1, <2>5, ArrayIs
  <2>7. \A i \in 1..Len(w) : DOMAIN t[i] = DOMAIN w[i]
    BY <2>4, <2>5 DEF OursOf
  <2>8. /\ HasOurs(s) => OursOf(t) = Replace(OursOf(s), part)
        /\ (HasOurs(s) /\ Replace(OursOf(s), part) = OursOf(s)) => t = s
    BY <2>1, <2>5 DEF e
  <2>9. HasOurs(s) => /\ DOMAIN t = DOMAIN s
                      /\ \A i \in DOMAIN s : /\ IsOurs(t[i]) <=> IsOurs(s[i])
                                             /\ DOMAIN t[i] = DOMAIN s[i]
    BY <2>1, <2>5, <2>6, <2>7
  <2>10. QED
    BY <1>1, <2>1, <2>4, <2>5, <2>8, <2>9
<1>2. CASE ~Shown(part)
  <2>1. t = s
    BY <1>2, Patches
  <2>2. QED
    BY <1>2, <2>1
<1>3. QED
  BY <1>1, <1>2


-----------------------------------------------------------------------------
(* Reading one.                                                            *)

ReadsOf(entry) ==
    [enable |-> Value(entry, "enable", FALSE), file |-> Value(entry, "file", ""),
     number |-> Value(entry, "number", 1)]
ReadNothing(without) == [enable |-> FALSE, file |-> "", number |-> without]

LEMMA Reads ==
    \A s, without :
       /\ HasOurs(s) => ReadPart(s, without) = ReadsOf(OursOf(s))
       /\ ~HasOurs(s) => ReadPart(s, without) = ReadNothing(without)
BY HasOursIs, Zenon DEF ReadPart, ReadsOf, ReadNothing, OursOf

\* What is read of an entry are its own values, and the same for every entry that
\* lacks one.
LEMMA ReadsOfIs ==
    \A entry :
       /\ HasKeys(ReadsOf(entry), SoundKeys)
       /\ \A k \in SoundKeys :
             ReadsOf(entry)[k] = IF k \in DOMAIN entry THEN entry[k] ELSE ReadSound(<<>>)[k]
<1> DEFINE blank == ""
           default == [enable |-> FALSE, file |-> blank, number |-> 1]
<1>1. ReadSound(<<>>) = default
  <2>1. ~HasOurs(<<>>)
    BY NoEntries DEF HasOurs
  <2>2. ReadSound(<<>>) = ReadNothing(1)
    BY <2>1, Reads, Zenon DEF ReadSound
  <2>3. QED
    BY <2>2, Zenon DEF ReadNothing
<1>2. \A entry : ReadsOf(entry) =
        [enable |-> Value(entry, "enable", FALSE), file |-> Value(entry, "file", blank),
         number |-> Value(entry, "number", 1)]
  BY Zenon DEF ReadsOf
<1> HIDE DEF blank
<1>3. ASSUME NEW entry
      PROVE  /\ HasKeys(ReadsOf(entry), SoundKeys)
             /\ \A k \in SoundKeys :
                  ReadsOf(entry)[k] = IF k \in DOMAIN entry THEN entry[k] ELSE default[k]
  <2>1. HasKeys(ReadsOf(entry), SoundKeys)
    BY <1>2, KeysAre DEF HasKeys
  <2>2. ReadsOf(entry)["enable"] =
          IF "enable" \in DOMAIN entry THEN entry["enable"] ELSE default["enable"]
    BY <1>2 DEF Value
  <2>3. ReadsOf(entry)["file"] =
          IF "file" \in DOMAIN entry THEN entry["file"] ELSE default["file"]
    BY <1>2 DEF Value
  <2>4. ReadsOf(entry)["number"] =
          IF "number" \in DOMAIN entry THEN entry["number"] ELSE default["number"]
    BY <1>2 DEF Value
  <2> HIDE DEF default
  <2>5. QED
    BY <2>1, <2>2, <2>3, <2>4, KeysAre
<1>4. QED
  BY <1>1, <1>3

LEMMA ReadNothingIs ==
    \A without : HasKeys(ReadNothing(without), SoundKeys) /\ ~ReadNothing(without).enable
<1> DEFINE blank == ""
<1>1. \A without : ReadNothing(without) =
                     [enable |-> FALSE, file |-> blank, number |-> without]
  BY Zenon DEF ReadNothing
<1> HIDE DEF blank
<1>2. QED
  BY <1>1, KeysAre DEF HasKeys

LEMMA ReadAnimationIs ==
    ASSUME NEW s
    PROVE  /\ HasKeys(ReadAnimation(s), AnimationKeys)
           /\ \A k \in SoundKeys : ReadAnimation(s)[k] = ReadPart(s, 0)[k]
           /\ ReadAnimation(s)["loop"] = FALSE
<1>1. SoundKeys \cup {"loop"} = AnimationKeys /\ "loop" \notin SoundKeys
  BY KeysAre
<1>2. QED
  BY <1>1 DEF ReadAnimation, HasKeys

\* An animation that was written over the entry reads as it was, but for the loop.
LEMMA AnimationReads ==
    ASSUME NEW s, HasOurs(s), NEW part, HasKeys(part, AnimationKeys),
           Upsert(OursOf(s), part) = OursOf(s)
    PROVE  ReadAnimation(s) = [part EXCEPT !.loop = FALSE]
<1>1. /\ AnimationKeys \subseteq DOMAIN OursOf(s)
      /\ \A k \in AnimationKeys : OursOf(s)[k] = part[k]
  BY KeysAre, Upserts
<1>2. ReadPart(s, 0) = ReadsOf(OursOf(s))
  BY Reads
<1>3. \A k \in SoundKeys : k \in AnimationKeys
  BY KeysAre
<1>4. \A k \in SoundKeys : ReadsOf(OursOf(s))[k] = part[k]
  BY <1>1, <1>3, ReadsOfIs
<1> DEFINE r == ReadAnimation(s)
<1>5. /\ HasKeys(r, AnimationKeys) /\ r["loop"] = FALSE
      /\ \A k \in SoundKeys : r[k] = part[k]
  BY <1>2, <1>4, ReadAnimationIs
<1> HIDE DEF r
<1>6. \A k \in AnimationKeys : k \in SoundKeys \/ k = "loop"
  BY KeysAre
<1>7. "loop" \in AnimationKeys /\ "loop" \notin SoundKeys
  BY KeysAre
<1> DEFINE p == [part EXCEPT !["loop"] = FALSE]
<1>8. /\ HasKeys(p, AnimationKeys) /\ p["loop"] = FALSE
      /\ \A k \in SoundKeys : p[k] = part[k]
  BY <1>3, <1>7 DEF HasKeys
<1>9. p = [part EXCEPT !.loop = FALSE]
  OBVIOUS
<1> HIDE DEF p
<1>10. \A k \in AnimationKeys : r[k] = p[k]
  BY <1>5, <1>6, <1>8
<1>11. r = p
  BY <1>5, <1>8, <1>10 DEF HasKeys
<1>12. QED
  BY <1>9, <1>11 DEF r

\* A sound reads as it was in every key that the entry has.
LEMMA SoundReads ==
    ASSUME NEW s, HasOurs(s), NEW part, HasKeys(part, SoundKeys),
           Replace(OursOf(s), part) = OursOf(s)
    PROVE  \A k \in SoundKeys :
              ReadSound(s)[k] = IF k \in DOMAIN OursOf(s) THEN part[k] ELSE ReadSound(<<>>)[k]
<1>1. \A k \in SoundKeys \cap DOMAIN OursOf(s) : OursOf(s)[k] = part[k]
  BY KeysAre, Replaces
<1>2. ReadSound(s) = ReadsOf(OursOf(s))
  BY Reads DEF ReadSound
<1>3. \A k \in SoundKeys :
         ReadsOf(OursOf(s))[k] = IF k \in DOMAIN OursOf(s) THEN OursOf(s)[k]
                                 ELSE ReadSound(<<>>)[k]
  BY ReadsOfIs
<1>4. QED
  BY <1>1, <1>2, <1>3

\* What was read of an entry can be written over it without a reader noticing.
LEMMA SoundReadsAgain ==
    ASSUME NEW s, HasOurs(s), NEW t, HasOurs(t),
           OursOf(t) = Replace(OursOf(s), ReadSound(s))
    PROVE  ReadSound(t) = ReadSound(s)
<1> DEFINE e == OursOf(s)
           r == ReadSound(s)
           q == ReadSound(t)
<1> DEFINE default == ReadSound(<<>>)
<1>1. \A entry :
        /\ HasKeys(ReadsOf(entry), SoundKeys)
        /\ \A k \in SoundKeys :
             ReadsOf(entry)[k] = IF k \in DOMAIN entry THEN entry[k] ELSE default[k]
  BY ReadsOfIs
<1>2. r = ReadsOf(e) /\ q = ReadsOf(Replace(e, r))
  BY Reads DEF ReadSound
<1> HIDE DEF e, r, q, default
<1>3. HasKeys(r, SoundKeys) /\ HasKeys(q, SoundKeys)
  BY <1>1, <1>2
<1>4. /\ DOMAIN Replace(e, r) = DOMAIN e
      /\ \A k \in DOMAIN e : Replace(e, r)[k] = IF k \in SoundKeys THEN r[k] ELSE e[k]
  BY <1>3 DEF Replace, HasKeys
<1>5. \A k \in SoundKeys : q[k] = r[k]
  BY <1>1, <1>2, <1>4
<1>6. q = r
  BY <1>3, <1>5 DEF HasKeys
<1>7. QED
  BY <1>6 DEF q, r

\* A description that has every key is loaded as it is.
LEMMA LoadIs ==
    ASSUME NEW description, NEW keys
    PROVE  /\ HasKeys(Load(description, keys), keys)
           /\ HasKeys(description, keys) => Load(description, keys) = description
<1> DEFINE zero == [k \in keys |-> CASE k \in {"enable", "loop"} -> FALSE
                                     [] k = "file" -> "" [] OTHER -> 0]
<1>1. Load(description, keys) =
        [k \in keys |-> IF k \in DOMAIN description THEN description[k] ELSE zero[k]]
  BY Zenon DEF Load
<1> HIDE DEF zero
<1>2. QED
  BY <1>1 DEF HasKeys


-----------------------------------------------------------------------------
(* The steps.                                                              *)

\* The parts that a step applies come from descriptions.
LEMMA AppliedAreLoaded ==
    ASSUME Next
    PROVE  \/ \E animation, sound : /\ HasKeys(animation, AnimationKeys)
                                    /\ HasKeys(sound, SoundKeys)
                                    /\ Apply(animation, sound)
           \/ Download
<1>1. CASE ApplyWritten
  <2>1. PICK animation \in WrittenAnimations, sound \in WrittenSounds : Apply(animation, sound)
    BY <1>1 DEF ApplyWritten
  <2>2. HasKeys(animation, AnimationKeys)
    BY <2>1, LoadIs DEF WrittenAnimations
  <2>3. HasKeys(sound, SoundKeys)
    BY <2>1, LoadIs DEF WrittenSounds
  <2>4. QED
    BY <2>1, <2>2, <2>3
<1>2. CASE ApplyDownloaded
  <2>1. PICK d \in saved : Apply(Load(d.animation, AnimationKeys), Load(d.sound, SoundKeys))
    BY <1>2 DEF ApplyDownloaded
  <2>2. HasKeys(Load(d.animation, AnimationKeys), AnimationKeys)
        /\ HasKeys(Load(d.sound, SoundKeys), SoundKeys)
    BY LoadIs
  <2>3. QED
    BY <2>1, <2>2
<1>3. CASE Download
  BY <1>3
<1>4. QED
  BY <1>1, <1>2, <1>3 DEF Next

LEMMA ConfInit == ASSUME Init PROVE ConfInv
<1>1. ASSUME NEW s \in Arrays PROVE IsArray(s)
  <2>1. PICK n \in 0..MaxEntries : s \in [1..n -> Entry]
    BY DEF Arrays
  <2>2. s \in Seq(Entry)
    BY <2>1
  <2>3. QED
    BY <2>2, SeqIsArray
<1>2. start.animations = animations /\ start.sounds = sounds
  BY DEF Init
<1>3. profile.animation = {} /\ profile.sound = {} /\ saved = {}
  BY DEF Init, NoProfile
<1>4. ArraysInv
  BY <1>1, <1>2 DEF Init, ArraysInv
<1>5. StartInv
  BY <1>2 DEF StartInv
<1>6. AppliedInv
  BY <1>3 DEF AppliedInv
<1>7. FirmwareIsKept
  BY <1>2 DEF FirmwareIsKept
<1>8. QED
  BY <1>4, <1>5, <1>6, <1>7 DEF ConfInv

LEMMA ApplyKeeps ==
    ASSUME ConfInv, NEW animation, HasKeys(animation, AnimationKeys),
           NEW sound, HasKeys(sound, SoundKeys), Apply(animation, sound)
    PROVE  ConfInv'
<1>1. /\ animations' = PatchAnimations(animations, animation)
      /\ sounds' = PatchSounds(sounds, sound)
      /\ profile'.animation = {animation} /\ profile'.sound = {sound}
      /\ start' = start /\ saved' = saved /\ ~Refused(animation) /\ ~Refused(sound)
  BY DEF Apply
<1>2. /\ IsArray(animations) /\ IsArray(sounds) /\ IsArray(start.animations)
  BY DEF ConfInv, ArraysInv
<1> DEFINE s == animations
           t == animations'
           u == sounds
           v == sounds'
<1>3. /\ IsArray(t) /\ Firmware(t) = Firmware(s)
      /\ AtMostOne(s) => AtMostOne(t)
      /\ Shown(animation) => HasOurs(t) /\ Upsert(OursOf(t), animation) = OursOf(t)
      /\ ~Shown(animation) => (AtMostOne(s) => ~HasOurs(t))
  BY <1>1, <1>2, AnimationsPatched
<1>4. /\ IsArray(v) /\ Firmware(v) = Firmware(u)
      /\ HasOurs(u) =>
           /\ DOMAIN v = DOMAIN u
           /\ \A i \in DOMAIN u : /\ IsOurs(v[i]) <=> IsOurs(u[i])
                                  /\ DOMAIN v[i] = DOMAIN u[i]
      /\ Shown(sound) => /\ HasOurs(v) /\ Replace(OursOf(v), sound) = OursOf(v)
                         /\ HasOurs(u) => OursOf(v) = Replace(OursOf(u), sound)
                         /\ ~HasOurs(u) => DOMAIN OursOf(v) = {"id"}
      /\ ~Shown(sound) => v = u
  BY <1>1, <1>2, SoundsPatched
<1> HIDE DEF s, t, u, v
<1>5. ArraysInv'
  BY <1>1, <1>2, <1>3, <1>4 DEF ArraysInv, IsArray, t, v
<1>6. StartInv'
  <2>1. AtMostOne(start.animations) => AtMostOne(t)
    BY <1>3 DEF ConfInv, StartInv, s
  <2>2. ASSUME HasOurs(start.sounds)
        PROVE  /\ DOMAIN v = DOMAIN start.sounds
               /\ \A i \in DOMAIN v : /\ IsOurs(v[i]) <=> IsOurs(start.sounds[i])
                                      /\ DOMAIN v[i] = DOMAIN start.sounds[i]
    <3>1. /\ DOMAIN u = DOMAIN start.sounds
          /\ \A i \in DOMAIN u : /\ IsOurs(u[i]) <=> IsOurs(start.sounds[i])
                                 /\ DOMAIN u[i] = DOMAIN start.sounds[i]
      BY <2>2 DEF ConfInv, StartInv, u
    <3>2. HasOurs(u)
      BY <2>2, <3>1 DEF HasOurs
    <3>3. QED
      BY <1>4, <3>1, <3>2
  <2>3. ASSUME ~HasOurs(start.sounds), HasOurs(v) PROVE DOMAIN OursOf(v) = {"id"}
    <3>1. HasOurs(u) => DOMAIN OursOf(u) = {"id"}
      BY <2>3 DEF ConfInv, StartInv, u
    <3>2. CASE ~Shown(sound)
      BY <1>4, <2>3, <3>1, <3>2
    <3>3. CASE Shown(sound) /\ ~HasOurs(u)
      BY <1>4, <3>3
    <3>4. CASE Shown(sound) /\ HasOurs(u)
      <4>1. OursOf(v) = Replace(OursOf(u), sound)
        BY <1>4, <3>4
      <4>2. DOMAIN Replace(OursOf(u), sound) = DOMAIN OursOf(u)
        BY DEF Replace
      <4>3. QED
        BY <3>1, <3>4, <4>1, <4>2
    <3>5. QED
      BY <3>2, <3>3, <3>4
  <2>4. QED
    <3>1. (AtMostOne(start.animations) => AtMostOne(animations))'
      BY <1>1, <2>1 DEF AtMostOne, OursIn, IsOurs, t
    <3>2. HasOurs(start.sounds)' => HasOurs(start.sounds)
      BY <1>1 DEF HasOurs, IsOurs
    <3>3. (HasOurs(start.sounds) =>
             /\ DOMAIN sounds = DOMAIN start.sounds
             /\ \A i \in DOMAIN sounds :
                  /\ IsOurs(sounds[i]) <=> IsOurs(start.sounds[i])
                  /\ DOMAIN sounds[i] = DOMAIN start.sounds[i])'
      BY <1>1, <2>2, <3>2 DEF HasOurs, IsOurs, v
    <3>4. (~HasOurs(start.sounds) /\ HasOurs(sounds) => DOMAIN OursOf(sounds) = {"id"})'
      BY <1>1, <2>3 DEF HasOurs, IsOurs, OursOf, First, OursIn, v
    <3>5. QED
      BY <3>1, <3>3, <3>4 DEF StartInv
<1>7. AppliedInv'
  <2>1. ASSUME NEW a \in profile'.animation
        PROVE  /\ HasKeys(a, AnimationKeys) /\ ~Refused(a)
               /\ Shown(a) => HasOurs(t) /\ Upsert(OursOf(t), a) = OursOf(t)
               /\ ~Shown(a) /\ AtMostOne(start.animations) => ~HasOurs(t)
    <3>1. a = animation
      BY <1>1, <2>1
    <3>2. AtMostOne(start.animations) => AtMostOne(s)
      BY DEF ConfInv, StartInv, s
    <3>3. QED
      BY <1>1, <1>3, <3>1, <3>2
  <2>2. ASSUME NEW a \in profile'.sound
        PROVE  /\ HasKeys(a, SoundKeys) /\ ~Refused(a)
               /\ Shown(a) => HasOurs(v) /\ Replace(OursOf(v), a) = OursOf(v)
    <3>1. a = sound
      BY <1>1, <2>2
    <3>2. QED
      BY <1>1, <1>4, <3>1
  <2>3. \A d, e \in saved' : d = e
    BY <1>1 DEF ConfInv, AppliedInv
  <2>4. QED
    BY <1>1, <2>1, <2>2, <2>3
       DEF AppliedInv, HasKeys, HasOurs, OursOf, First, OursIn, IsOurs, AtMostOne, t, v
<1>8. FirmwareIsKept'
  <2>1. Firmware(t) = Firmware(start.animations) /\ Firmware(v) = Firmware(start.sounds)
    BY <1>3, <1>4 DEF ConfInv, FirmwareIsKept, s, u
  <2>2. QED
    BY <1>1, <2>1 DEF FirmwareIsKept, t, v
<1>9. QED
  BY <1>5, <1>6, <1>7, <1>8 DEF ConfInv

LEMMA DownloadKeeps == ASSUME ConfInv, Download PROVE ConfInv'
<1>1. /\ animations' = animations /\ sounds' = sounds /\ start' = start /\ profile' = profile
      /\ \A d, e \in saved' : d = e
  BY DEF Download
<1>2. ArraysInv' /\ FirmwareIsKept'
  BY <1>1 DEF ConfInv, ArraysInv, FirmwareIsKept
<1>3. StartInv'
  BY <1>1 DEF ConfInv, StartInv
<1>4. AppliedInv'
  BY <1>1 DEF ConfInv, AppliedInv
<1>5. QED
  BY <1>2, <1>3, <1>4 DEF ConfInv

THEOREM ConfInvHolds == Spec => []ConfInv
<1>1. Init => ConfInv
  BY ConfInit
<1>2. ConfInv /\ [Next]_vars => ConfInv'
  <2>1. ASSUME ConfInv, Next PROVE ConfInv'
    BY <2>1, AppliedAreLoaded, ApplyKeeps, DownloadKeeps
  <2>2. ASSUME ConfInv, UNCHANGED vars PROVE ConfInv'
    <3>1. /\ animations' = animations /\ sounds' = sounds /\ start' = start
          /\ profile' = profile /\ saved' = saved
      BY <2>2 DEF vars
    <3>2. ArraysInv' /\ FirmwareIsKept'
      BY <2>2, <3>1 DEF ConfInv, ArraysInv, FirmwareIsKept
    <3>3. StartInv'
      BY <2>2, <3>1 DEF ConfInv, StartInv
    <3>4. AppliedInv'
      BY <2>2, <3>1 DEF ConfInv, AppliedInv
    <3>5. QED
      BY <3>2, <3>3, <3>4 DEF ConfInv
  <2>3. QED
    BY <2>1, <2>2
<1>3. QED
  BY <1>1, <1>2, PTL DEF Spec


-----------------------------------------------------------------------------
(* The theorems.                                                           *)

\* The patches of unifi_profile_conf.c write, add and remove only the entry of a
\* profile: whatever else the two arrays held is there, in its order, however often
\* profiles are applied and downloads made of them.
THEOREM FirmwareStays == Spec => []FirmwareIsKept
<1>1. ConfInv => FirmwareIsKept
  BY DEF ConfInv
<1>2. QED
  BY <1>1, ConfInvHolds, PTL

\* What unifi_profile_patch_* wrote is what unifi_profile_read_from_* reads: an
\* animation but for its loop, and a sound in just those keys that the firmware's
\* entry has, so that without them an enabled sound reads as one that is off.
THEOREM WrittenIsRead == Spec => []AppliedIsRead
<1>1. ASSUME ConfInv, NEW a \in profile.animation, a.enable
      PROVE  ReadAnimation(animations) = [a EXCEPT !.loop = FALSE]
  <2>1. HasKeys(a, AnimationKeys) /\ ~Refused(a)
    BY <1>1 DEF ConfInv, AppliedInv
  <2>2. Shown(a)
    BY <1>1, <2>1, EnabledIsShown
  <2>3. HasOurs(animations) /\ Upsert(OursOf(animations), a) = OursOf(animations)
    BY <1>1, <2>2 DEF ConfInv, AppliedInv
  <2>4. QED
    BY <2>1, <2>3, AnimationReads
<1>2. ASSUME ConfInv, NEW s \in profile.sound, s.enable
      PROVE  \A key \in SoundKeys :
                ReadSound(sounds)[key] = IF key \in FirmwareSoundKeys THEN s[key]
                                         ELSE ReadSound(<<>>)[key]
  <2>1. HasKeys(s, SoundKeys) /\ ~Refused(s)
    BY <1>2 DEF ConfInv, AppliedInv
  <2>2. Shown(s)
    BY <1>2, <2>1, EnabledIsShown
  <2>3. HasOurs(sounds) /\ Replace(OursOf(sounds), s) = OursOf(sounds)
    BY <1>2, <2>2 DEF ConfInv, AppliedInv
  <2>4. \A key \in SoundKeys :
           ReadSound(sounds)[key] = IF key \in DOMAIN OursOf(sounds) THEN s[key]
                                    ELSE ReadSound(<<>>)[key]
    BY <2>1, <2>3, SoundReads
  <2>5. CASE HasOurs(start.sounds)
    <3>1. /\ DOMAIN sounds = DOMAIN start.sounds
          /\ \A i \in DOMAIN sounds : /\ IsOurs(sounds[i]) <=> IsOurs(start.sounds[i])
                                      /\ DOMAIN sounds[i] = DOMAIN start.sounds[i]
      BY <1>2, <2>5 DEF ConfInv, StartInv
    <3>2. First(sounds) = First(start.sounds)
      <4>1. OursIn(sounds) = OursIn(start.sounds)
        BY <3>1 DEF OursIn
      <4>2. QED
        BY <4>1 DEF First
    <3>3. First(sounds) \in DOMAIN sounds
      <4>1. IsArray(sounds)
        BY <1>2 DEF ConfInv, ArraysInv
      <4>2. QED
        BY <2>3, <4>1, FirstIs, ArrayIs
    <3>4. DOMAIN OursOf(sounds) = FirmwareSoundKeys
      BY <2>5, <3>1, <3>2, <3>3, HasOursIs DEF OursOf, FirmwareSoundKeys
    <3>5. QED
      BY <2>4, <3>4
  <2>6. CASE ~HasOurs(start.sounds)
    <3>1. DOMAIN OursOf(sounds) = {"id"}
      BY <1>2, <2>3, <2>6 DEF ConfInv, StartInv
    <3>2. FirmwareSoundKeys = {}
      BY <2>6, HasOursIs DEF FirmwareSoundKeys
    <3>3. \A key \in SoundKeys : key # "id"
      BY KeysAre
    <3>4. QED
      BY <2>4, <3>1, <3>2, <3>3
  <2>7. QED
    BY <2>5, <2>6
<1>3. ConfInv => AppliedIsRead
  BY <1>1, <1>2 DEF AppliedIsRead
<1>4. QED
  BY <1>3, ConfInvHolds, PTL

\* unifi_profile_patch_lcm_gui_conf takes the animation out when the profile shows
\* none, and it is the only one if the firmware had one at most.
THEOREM RemovedIsGone == Spec => []AnimationIsRemoved
<1>1. ASSUME ConfInv, NEW a \in profile.animation, ~Shown(a)
      PROVE  \/ Len(animations) = Len(Firmware(animations))
             \/ Len(start.animations) > Len(Firmware(start.animations)) + 1
  <2>1. IsArray(animations) /\ IsArray(start.animations)
    BY <1>1 DEF ConfInv, ArraysInv
  <2>2. Len(start.animations) \in Nat /\ Len(Firmware(start.animations)) \in Nat
    BY <2>1, ArrayIs, FirmwareLength
  <2>3. CASE Len(start.animations) <= Len(Firmware(start.animations)) + 1
    <3>1. AtMostOne(start.animations)
      BY <2>1, <2>3, LengthsTell
    <3>2. ~HasOurs(animations)
      BY <1>1, <3>1 DEF ConfInv, AppliedInv
    <3>3. QED
      BY <2>1, <3>2, AllAreKept
  <2>4. QED
    BY <2>2, <2>3
<1>2. ConfInv => AnimationIsRemoved
  BY <1>1, Zenon DEF AnimationIsRemoved, Shown
<1>3. QED
  BY <1>2, ConfInvHolds, PTL

\* Applying the profile that was applied last changes neither configuration: the
\* second run of the patches finds everything as it would write it.
THEOREM ReappliedIsIdle == Spec => ReapplyIsIdle
<1> DEFINE A == (profile' = profile
                   /\ Len(start.animations) <= Len(Firmware(start.animations)) + 1)
                => UNCHANGED <<animations, sounds>>
<1>1. ASSUME ConfInv, Next, profile' = profile,
             Len(start.animations) <= Len(Firmware(start.animations)) + 1
      PROVE  animations' = animations /\ sounds' = sounds
  <2>1. CASE Download
    BY <2>1 DEF Download
  <2>2. ASSUME NEW animation, HasKeys(animation, AnimationKeys),
               NEW sound, HasKeys(sound, SoundKeys), Apply(animation, sound)
        PROVE  animations' = animations /\ sounds' = sounds
    <3>1. /\ animations' = PatchAnimations(animations, animation)
          /\ sounds' = PatchSounds(sounds, sound)
          /\ animation \in profile.animation /\ sound \in profile.sound
      BY <1>1, <2>2 DEF Apply
    <3>2. IsArray(animations) /\ IsArray(sounds) /\ IsArray(start.animations)
      BY <1>1 DEF ConfInv, ArraysInv
    <3>3. AtMostOne(start.animations)
      BY <1>1, <3>2, LengthsTell
    <3>4. /\ Shown(animation) => /\ HasOurs(animations)
                                 /\ Upsert(OursOf(animations), animation) = OursOf(animations)
          /\ ~Shown(animation) => ~HasOurs(animations)
          /\ Shown(sound) => HasOurs(sounds) /\ Replace(OursOf(sounds), sound) = OursOf(sounds)
      BY <1>1, <3>1, <3>3 DEF ConfInv, AppliedInv
    <3>5. animations' = animations
      BY <2>2, <3>1, <3>2, <3>4, AnimationsPatched
    <3>6. sounds' = sounds
      BY <2>2, <3>1, <3>2, <3>4, SoundsPatched
    <3>7. QED
      BY <3>5, <3>6
  <2>3. QED
    BY <1>1, <2>1, <2>2, AppliedAreLoaded
<1>2. ASSUME ConfInv, [Next]_vars PROVE [A]_vars
  BY <1>1, <1>2 DEF vars
<1>3. QED
  BY <1>2, ConfInvHolds, PTL DEF Spec, ReapplyIsIdle

\* To apply what unifi_profile_write_to_file wrote of a doorbell that has not
\* changed since changes nothing that a download reads.
THEOREM DownloadComesBack == Spec => DownloadIsFaithful
<1> DEFINE A == \A d \in saved :
                  (/\ ApplyDownloaded
                   /\ d = [animation |-> ReadAnimation(animations),
                           sound |-> ReadSound(sounds)]
                   /\ d.animation.enable \/ OursIn(animations) = {})
                  => d = [animation |-> ReadAnimation(animations'),
                          sound |-> ReadSound(sounds')]
<1>1. ASSUME ConfInv, NEW d \in saved, ApplyDownloaded,
             d = [animation |-> ReadAnimation(animations), sound |-> ReadSound(sounds)],
             d.animation.enable \/ OursIn(animations) = {}
      PROVE  d = [animation |-> ReadAnimation(animations'), sound |-> ReadSound(sounds')]
  <2> DEFINE a == ReadAnimation(animations)
             r == ReadSound(sounds)
  <2>1. d.animation = a /\ d.sound = r
    BY <1>1
  <2>2. HasKeys(a, AnimationKeys) /\ HasKeys(r, SoundKeys) /\ a["loop"] = FALSE
    BY ReadAnimationIs, Reads, ReadsOfIs, ReadNothingIs DEF ReadSound
  <2>3. /\ ~HasOurs(animations) => ~a.enable
        /\ ~HasOurs(sounds) => ~r.enable
    <3>1. "enable" \in SoundKeys
      BY KeysAre
    <3>2. ~HasOurs(animations) => ~a["enable"]
      BY <3>1, Reads, ReadNothingIs, ReadAnimationIs
    <3>3. QED
      BY <3>2, Reads, ReadNothingIs DEF ReadSound
  <2>4. r = ReadSound(sounds)
    OBVIOUS
  <2> HIDE DEF a, r
  <2>5. PICK e \in saved : Apply(Load(e.animation, AnimationKeys), Load(e.sound, SoundKeys))
    BY <1>1 DEF ApplyDownloaded
  <2>6. e = d
    BY <1>1, <2>5 DEF ConfInv, AppliedInv
  <2>7. Load(e.animation, AnimationKeys) = a /\ Load(e.sound, SoundKeys) = r
    BY <2>1, <2>2, <2>6, LoadIs
  <2>8. /\ ~Refused(a) /\ ~Refused(r)
        /\ animations' = PatchAnimations(animations, a) /\ sounds' = PatchSounds(sounds, r)
    BY <2>5, <2>7 DEF Apply
  <2>9. IsArray(animations) /\ IsArray(sounds)
    BY <1>1 DEF ConfInv, ArraysInv
  <2>10. ReadAnimation(animations') = a
    <3>1. CASE a.enable
      <4>1. Shown(a)
        BY <2>8, <3>1, EnabledIsShown
      <4>2. HasOurs(animations') /\ Upsert(OursOf(animations'), a) = OursOf(animations')
        BY <2>2, <2>8, <2>9, <4>1, AnimationsPatched
      <4>3. ReadAnimation(animations') = [a EXCEPT !.loop = FALSE]
        BY <2>2, <4>2, AnimationReads
      <4>4. [a EXCEPT !.loop = FALSE] = a
        BY <2>2 DEF HasKeys
      <4>5. QED
        BY <4>3, <4>4
    <3>2. CASE ~a.enable
      <4>1. ~HasOurs(animations)
        BY <1>1, <2>1, <3>2, HasOursIs
      <4>2. ~Shown(a)
        BY <3>2, Zenon DEF Shown
      <4>3. animations' = animations
        BY <2>2, <2>8, <2>9, <4>1, <4>2, AnimationsPatched
      <4>4. QED
        BY <4>3 DEF a
    <3>3. QED
      BY <3>1, <3>2
  <2>11. ReadSound(sounds') = r
    <3>1. CASE Shown(r)
      <4>1. HasOurs(sounds)
        BY <2>3, <3>1, Zenon DEF Shown
      <4>2. HasOurs(sounds') /\ OursOf(sounds') = Replace(OursOf(sounds), r)
        BY <2>2, <2>8, <2>9, <3>1, <4>1, SoundsPatched
      <4>3. QED
        BY <2>4, <4>1, <4>2, SoundReadsAgain
    <3>2. CASE ~Shown(r)
      <4>1. sounds' = sounds
        BY <2>2, <2>8, <2>9, <3>2, SoundsPatched
      <4>2. QED
        BY <2>4, <4>1
    <3>3. QED
      BY <3>1, <3>2
  <2>12. QED
    BY <1>1, <2>10, <2>11 DEF a, r
<1>2. ASSUME ConfInv, [Next]_vars PROVE [A]_vars
  BY <1>1, <1>2
<1>3. QED
  BY <1>2, ConfInvHolds, PTL DEF Spec, DownloadIsFaithful

=============================================================================
