----------------------- MODULE ProfileCommands_proof -----------------------
(***************************************************************************)
(* The invariants of ProfileCommands for every set of presets and of other *)
(* profiles, every kind of command sent, and every number of commands,     *)
(* losses and crashes.                                                     *)
(***************************************************************************)
EXTENDS ProfileCommands, SequenceTheorems, TLAPS

Topic == {"status", "last_error", "last_applied_profile", "preset/selected",
          "custom/directory"}
Code == {"PROFILE_NOT_FOUND", "PROFILE_INVALID", "SSH_CONNECTION_FAILED",
         "APPLY_FAILED"}
Value == Name \cup {TestName, "unset", "uploading", "idle", "none", ""} \cup Code
Publication == Topic \X Value
Record == [name : Name, preset : BOOLEAN]

\* Where shown is retained and todo is published with a session, topic t is left
\* with value v.
Leaves(shown, todo, t, v) ==
    \/ \E i \in 1..Len(todo) :
           /\ todo[i][1] = t /\ todo[i][2] = v
           /\ \A j \in 1..Len(todo) : i < j => todo[j][1] # t
    \/ (\A i \in 1..Len(todo) : todo[i][1] # t) /\ shown[t] = v

\* ShowsRecord for the record r, once todo is published.
AgreesAfter(shown, todo, r) ==
    \/ /\ Leaves(shown, todo, "last_applied_profile", r.name)
       /\ Leaves(shown, todo, "preset/selected", IF r.preset THEN r.name ELSE "none")
       /\ r.preset => Leaves(shown, todo, "custom/directory", "")
    \/ /\ Leaves(shown, todo, "last_applied_profile", TestName)
       /\ Leaves(shown, todo, "preset/selected", "none")
       /\ Leaves(shown, todo, "custom/directory", "")

WillShow(todo) == \A r \in file : AgreesAfter(topics, todo, r)
-----------------------------------------------------------------------------
(* The inductive invariant.                                                *)

CommandsTypeOK ==
    /\ topics \in [Topic -> Value] /\ link \in {"up", "down"} /\ connected \in BOOLEAN
    /\ file \subseteq Record
    /\ phase \in {"idle", "uploading", "script", "hung"}
    /\ worker \in [at : {"idle", "resolve", "load", "connect", "stuck", "apply",
                         "record", "write", "publish"},
                   cmd : Command \cup {NoCommand}, code : Code \cup {"NONE"},
                   todo : Seq(Publication)]
    /\ main \in [at : {"start", "flag", "load", "publish", "loop", "down"},
                 todo : Seq(Publication)]
    /\ failure \in Code \cup {"unset"}

\* Where the worker, the call and the two queues of publications may be.
PlaceInv ==
    /\ \A r, s \in file : r = s
    /\ worker.at # "idle" => worker.cmd \in Command
    /\ worker.at \in {"record", "write"} => worker.cmd.kind # "test"
    /\ worker.at = "publish" <=> Len(worker.todo) # 0
    /\ main.at = "publish" <=> Len(main.todo) # 0
    /\ \A i \in 1..Len(main.todo) : main.todo[i][1] \notin Transient

\* The handler is in its call exactly while the doorbell is.
CallInv ==
    /\ phase = "idle" <=> worker.at # "apply"
    /\ phase # "idle" => call = worker.cmd.name

\* What is recorded, or about to be, was applied.
RecordInv ==
    /\ FileNamesApplied
    /\ worker.at \in {"record", "write"}
           => <<worker.cmd.name, worker.cmd.kind = "preset">> \in applied

\* An error is published first, and is the latest.
ErrorInv ==
    /\ \A i \in 1..Len(worker.todo) :
           worker.todo[i][1] = "last_error" => i = 1 /\ worker.todo[1][2] = failure
    /\ \/ \E i \in 1..Len(worker.todo) : worker.todo[i][1] = "last_error"
       \/ "last_error" \in missed
       \/ topics["last_error"] = failure

\* The status stays at uploading until a handler publishes what it ends with, the
\* idle status, which only the test without a session leaves out.
NoSessionForTest == worker.cmd.kind = "test" /\ worker.code = "SSH_CONNECTION_FAILED"
Uploading == "status" \in missed \/ topics["status"] = "uploading"
StatusInv ==
    /\ StatusEndsIdle
    /\ worker.at \notin {"idle", "publish"} => Uploading /\ worker.code = "NONE"
    /\ worker.at = "publish" =>
           IF NoSessionForTest
           THEN /\ Uploading
                /\ \A i \in 1..Len(worker.todo) : worker.todo[i][1] # "status"
           ELSE worker.todo[Len(worker.todo)] = <<"status", "idle">>

\* Without an overlap one of the two threads is at rest, and what the other has
\* yet to publish will agree with the record.
OverlapInv ==
    ~skewed =>
        /\ Restoring => ~Busy
        /\ link = "up" /\ main.at = "loop" => WillShow(worker.todo)
        /\ link = "up" /\ main.at = "publish" => WillShow(main.todo)

PCInv ==
    /\ CommandsTypeOK /\ PlaceInv /\ CallInv /\ RecordInv /\ ErrorInv
    /\ StatusInv /\ OverlapInv

\* Between the start of a script and the file, the doorbell shows what is about
\* to be recorded unless something spoiled it; otherwise it shows what is recorded
\* unless the apply was cut short.
BellInv ==
    /\ {late, spoiled, cut} \subseteq BOOLEAN
    /\ late => cut \/ phase = "hung"
    /\ late /\ phase \in {"uploading", "script"} => spoiled
    /\ worker.at \in {"record", "write"} =>
           spoiled \/ (~late /\ shows = worker.cmd.name)
    /\ \/ worker.at \in {"record", "write"} \/ phase = "script"
       \/ cut \/ late \/ shows \notin Name
       \/ \E r \in file : r.name = shows
-----------------------------------------------------------------------------
(* Sequences of publications.                                              *)

LEMMA TailFacts ==
    ASSUME NEW todo \in Seq(Publication), Len(todo) # 0
    PROVE  /\ Tail(todo) \in Seq(Publication) /\ Len(Tail(todo)) = Len(todo) - 1
           /\ \A i \in 1..Len(Tail(todo)) : Tail(todo)[i] = todo[i + 1]
           /\ Head(todo) = todo[1] /\ todo[1] \in Publication
           /\ Len(todo) \in Nat \ {0}
  OBVIOUS

\* Publishing the first of todo leaves what publishing all of it leaves.
LEMMA LeavesPublished ==
    ASSUME NEW shown \in [Topic -> Value],
           NEW todo \in Seq(Publication), Len(todo) # 0,
           NEW t \in Topic, NEW v, Leaves(shown, todo, t, v)
    PROVE  Leaves([shown EXCEPT ![Head(todo)[1]] = Head(todo)[2]], Tail(todo), t, v)
<1> DEFINE next == [shown EXCEPT ![Head(todo)[1]] = Head(todo)[2]]
           rest == Tail(todo)
<1>1. /\ Len(rest) = Len(todo) - 1 /\ Len(todo) \in Nat \ {0}
      /\ \A i \in 1..Len(rest) : rest[i] = todo[i + 1]
      /\ Head(todo) = todo[1]
  BY TailFacts
<1>2. next[t] = IF todo[1][1] = t THEN todo[1][2] ELSE shown[t]
  BY <1>1
<1> HIDE DEF next, rest
<1>3. CASE \A i \in 1..Len(todo) : todo[i][1] # t
  <2>1. \A i \in 1..Len(rest) : rest[i][1] # t
    BY <1>1, <1>3
  <2>2. next[t] = v
    BY <1>1, <1>2, <1>3 DEF Leaves
  <2>3. QED
    BY <2>1, <2>2 DEF Leaves, next, rest
<1>4. ASSUME NEW i \in 1..Len(todo), todo[i][1] = t, todo[i][2] = v,
             \A j \in 1..Len(todo) : i < j => todo[j][1] # t
      PROVE  Leaves(next, rest, t, v)
  <2>1. CASE i = 1
    <3>1. next[t] = v
      BY <1>2, <1>4, <2>1
    <3>2. \A j \in 1..Len(rest) : rest[j][1] # t
      BY <1>1, <1>4, <2>1
    <3>3. QED
      BY <3>1, <3>2 DEF Leaves
  <2>2. CASE i # 1
    <3>1. i - 1 \in 1..Len(rest) /\ rest[i - 1] = todo[i]
      BY <1>1, <2>2
    <3>2. \A j \in 1..Len(rest) : i - 1 < j => rest[j][1] # t
      BY <1>1, <1>4
    <3>3. QED
      BY <1>4, <3>1, <3>2 DEF Leaves
  <2>3. QED
    BY <2>1, <2>2
<1>5. QED
  BY <1>3, <1>4 DEF Leaves, next, rest

LEMMA AgreesPublished ==
    ASSUME NEW shown \in [Topic -> Value],
           NEW todo \in Seq(Publication), Len(todo) # 0,
           NEW r \in Record, AgreesAfter(shown, todo, r)
    PROVE  AgreesAfter([shown EXCEPT ![Head(todo)[1]] = Head(todo)[2]], Tail(todo), r)
<1> DEFINE next == [shown EXCEPT ![Head(todo)[1]] = Head(todo)[2]]
           rest == Tail(todo)
<1>1. \A t \in Topic : \A v : Leaves(shown, todo, t, v) => Leaves(next, rest, t, v)
  BY LeavesPublished
<1> HIDE DEF next, rest
<1>2. AgreesAfter(next, rest, r)
  BY <1>1 DEF AgreesAfter, Topic
<1>3. QED
  BY <1>2 DEF next, rest

\* With nothing left to publish, agreement is about what is retained, and the
\* Transient topics do not matter.
LEMMA AgreesAtRest ==
    ASSUME NEW shown, NEW next, NEW todo, NEW rest, NEW r,
           Len(todo) = 0, Len(rest) = 0,
           \A t \in Topic \ Transient : next[t] = shown[t],
           AgreesAfter(shown, todo, r)
    PROVE  AgreesAfter(next, rest, r)
<1>1. \A t \in Topic \ Transient : \A v :
        Leaves(shown, todo, t, v) => Leaves(next, rest, t, v)
  BY DEF Leaves
<1>2. QED
  BY <1>1 DEF AgreesAfter, Topic, Transient
-----------------------------------------------------------------------------
(* What the handlers and the restore publish.                              *)

LEMMA CommandFacts ==
    ASSUME NEW c \in Command
    PROVE  /\ c.kind \in {"preset", "custom", "test"}
           /\ c.name \in Name \cup {TestName} /\ c.name \in Value
           /\ c.kind # "test" => c.name \in Name
           /\ c.kind = "test" => c.name = TestName
  BY KindsAssumption DEF Command, Name, Value

LEMMA ResultFacts ==
    ASSUME NEW c \in Command
    PROVE  /\ Result(c) \in Seq(Publication) /\ Len(Result(c)) \in {3, 4}
           /\ \A i \in 1..Len(Result(c)) : Result(c)[i][1] # "last_error"
           /\ Result(c)[Len(Result(c))] = <<"status", "idle">>
<1> DEFINE Ok(p) == p \in Publication /\ p[1] # "last_error"
           idle == <<"status", "idle">>
<1>0. /\ \A v \in Value : /\ Ok(<<"last_applied_profile", v>>)
                          /\ Ok(<<"preset/selected", v>>)
                          /\ Ok(<<"custom/directory", v>>)
      /\ Ok(idle)
  BY DEF Publication, Topic, Value
<1>1. c.name \in Value /\ TestName \in Value /\ "none" \in Value /\ "" \in Value
  BY CommandFacts DEF Value
<1> HIDE DEF Ok, idle
<1>2. ASSUME NEW p, NEW q, NEW d, Ok(p), Ok(q), Ok(d)
      PROVE  /\ <<p, q, d>> \in Seq(Publication) /\ Len(<<p, q, d>>) = 3
             /\ \A i \in 1..3 : <<p, q, d>>[i][1] # "last_error"
  BY <1>2 DEF Ok
<1>3. ASSUME NEW p, NEW q, NEW d, NEW e, Ok(p), Ok(q), Ok(d), Ok(e)
      PROVE  /\ <<p, q, d, e>> \in Seq(Publication) /\ Len(<<p, q, d, e>>) = 4
             /\ \A i \in 1..4 : <<p, q, d, e>>[i][1] # "last_error"
  BY <1>3 DEF Ok
<1>4. CASE c.kind = "custom"
  <2> DEFINE p == <<"last_applied_profile", c.name>>
             q == <<"preset/selected", "none">>
  <2>1. Ok(p) /\ Ok(q) /\ Ok(idle) /\ Result(c) = <<p, q, idle>>
    BY <1>0, <1>1, <1>4 DEF Result, idle
  <2> HIDE DEF p, q
  <2>2. QED
    BY <1>2, <2>1 DEF idle
<1>5. CASE c.kind = "preset"
  <2> DEFINE p == <<"last_applied_profile", c.name>>
             q == <<"preset/selected", c.name>>
             d == <<"custom/directory", "">>
  <2>1. Ok(p) /\ Ok(q) /\ Ok(d) /\ Ok(idle) /\ Result(c) = <<p, q, d, idle>>
    BY <1>0, <1>1, <1>5 DEF Result, idle
  <2> HIDE DEF p, q, d
  <2>2. QED
    BY <1>3, <2>1 DEF idle
<1>6. CASE c.kind = "test"
  <2> DEFINE p == <<"last_applied_profile", TestName>>
             q == <<"preset/selected", "none">>
             d == <<"custom/directory", "">>
  <2>1. Ok(p) /\ Ok(q) /\ Ok(d) /\ Ok(idle) /\ Result(c) = <<p, q, d, idle>>
    BY <1>0, <1>1, <1>6 DEF Result, idle
  <2> HIDE DEF p, q, d
  <2>2. QED
    BY <1>3, <2>1 DEF idle
<1>7. QED
  BY <1>4, <1>5, <1>6, CommandFacts

\* What a handler publishes at its end agrees with the record it leaves, and what
\* a test publishes with any.
LEMMA ResultAgrees ==
    ASSUME NEW c \in Command, NEW shown
    PROVE  /\ AgreesAfter(shown, Result(c),
                          [name |-> c.name, preset |-> c.kind = "preset"])
           /\ \A r : c.kind = "test" => AgreesAfter(shown, Result(c), r)
<1> DEFINE todo == Result(c)
           blank == ""
           Only(i, t, v) == /\ i \in 1..Len(todo)
                            /\ todo[i][1] = t /\ todo[i][2] = v
                            /\ \A j \in 1..Len(todo) : j # i => todo[j][1] # t
<1>0. \A i, t, v : Only(i, t, v) => Leaves(shown, todo, t, v)
  BY DEF Leaves
<1>1. CASE c.kind = "preset"
  <2>1. /\ Len(todo) = 4
        /\ todo[1] = <<"last_applied_profile", c.name>>
        /\ todo[2] = <<"preset/selected", c.name>>
        /\ todo[3] = <<"custom/directory", blank>>
        /\ todo[4] = <<"status", "idle">>
    BY <1>1 DEF Result
  <2> HIDE DEF todo, blank
  <2>2. /\ Only(1, "last_applied_profile", c.name)
        /\ Only(2, "preset/selected", c.name)
        /\ Only(3, "custom/directory", blank)
    <3>1. /\ todo[1][1] = "last_applied_profile" /\ todo[1][2] = c.name
          /\ todo[2][1] = "preset/selected" /\ todo[2][2] = c.name
          /\ todo[3][1] = "custom/directory" /\ todo[3][2] = blank
          /\ todo[4][1] = "status"
      BY <2>1
    <3>2. 1..Len(todo) = {1, 2, 3, 4}
      BY <2>1
    <3>3. QED
      BY <3>1, <3>2
  <2> HIDE DEF Only
  <2>3. QED
    BY <1>0, <1>1, <2>2 DEF AgreesAfter, todo, blank
<1>2. CASE c.kind = "custom"
  <2>1. /\ Len(todo) = 3
        /\ todo[1] = <<"last_applied_profile", c.name>>
        /\ todo[2] = <<"preset/selected", "none">>
        /\ todo[3] = <<"status", "idle">>
    BY <1>2 DEF Result
  <2> HIDE DEF todo, blank
  <2>2. /\ Only(1, "last_applied_profile", c.name)
        /\ Only(2, "preset/selected", "none")
    BY <2>1
  <2> HIDE DEF Only
  <2>3. QED
    BY <1>0, <1>2, <2>2 DEF AgreesAfter, todo, blank
<1>3. CASE c.kind = "test"
  <2>1. /\ Len(todo) = 4
        /\ todo[1] = <<"last_applied_profile", TestName>>
        /\ todo[2] = <<"preset/selected", "none">>
        /\ todo[3] = <<"custom/directory", blank>>
        /\ todo[4] = <<"status", "idle">>
    BY <1>3 DEF Result
  <2> HIDE DEF todo, blank
  <2>2. /\ Only(1, "last_applied_profile", TestName)
        /\ Only(2, "preset/selected", "none")
        /\ Only(3, "custom/directory", blank)
    <3>1. /\ todo[1][1] = "last_applied_profile" /\ todo[1][2] = TestName
          /\ todo[2][1] = "preset/selected" /\ todo[2][2] = "none"
          /\ todo[3][1] = "custom/directory" /\ todo[3][2] = blank
          /\ todo[4][1] = "status"
      BY <2>1
    <3>2. 1..Len(todo) = {1, 2, 3, 4}
      BY <2>1
    <3>3. QED
      BY <3>1, <3>2
  <2> HIDE DEF Only
  <2>3. QED
    BY <1>0, <1>3, <2>2 DEF AgreesAfter, todo, blank
<1>4. QED
  BY <1>1, <1>2, <1>3, CommandFacts

\* Neither the status nor an error published first changes what is left of the
\* other topics.
LEMMA AgreesLater ==
    ASSUME NEW shown, NEW r, NEW todo \in Seq(Publication),
           NEW p \in Publication, p[1] \in Transient, AgreesAfter(shown, todo, r)
    PROVE  AgreesAfter(shown, <<p>> \o todo, r)
<1> DEFINE all == <<p>> \o todo
<1>1. /\ Len(todo) \in Nat /\ Len(all) = Len(todo) + 1 /\ all[1] = p
      /\ \A i \in 1..Len(todo) : all[i + 1] = todo[i]
  OBVIOUS
<1> HIDE DEF all
<1>2. ASSUME NEW t, t \notin Transient, NEW v, Leaves(shown, todo, t, v)
      PROVE  Leaves(shown, all, t, v)
  <2>0. p[1] # t /\ \A i \in 1..Len(all) :
          i # 1 => i - 1 \in 1..Len(todo) /\ all[i] = todo[i - 1]
    BY <1>1, <1>2
  <2>1. CASE \A i \in 1..Len(todo) : todo[i][1] # t
    <3>1. \A i \in 1..Len(all) : all[i][1] # t
      BY <1>1, <2>0, <2>1
    <3>2. shown[t] = v
      BY <1>2, <2>1 DEF Leaves
    <3>3. QED
      BY <3>1, <3>2 DEF Leaves
  <2>2. ASSUME NEW i \in 1..Len(todo), todo[i][1] = t, todo[i][2] = v,
               \A j \in 1..Len(todo) : i < j => todo[j][1] # t
        PROVE  Leaves(shown, all, t, v)
    <3>1. i + 1 \in 1..Len(all) /\ all[i + 1] = todo[i]
      BY <1>1
    <3>2. ASSUME NEW j \in 1..Len(all), i + 1 < j
          PROVE  all[j][1] # t
      <4>1. j - 1 \in 1..Len(todo) /\ all[j] = todo[j - 1] /\ i < j - 1
        BY <2>0, <3>2
      <4>2. QED
        BY <2>2, <4>1
    <3>3. QED
      BY <2>2, <3>1, <3>2 DEF Leaves
  <2>3. QED
    BY <1>2, <2>1, <2>2 DEF Leaves
<1>3. AgreesAfter(shown, all, r)
  BY <1>2 DEF AgreesAfter, Transient
<1>4. QED
  BY <1>3 DEF all

LEMMA FailedFacts ==
    ASSUME NEW c \in Command, NEW code \in Code
    PROVE  /\ Failed(c, code) \in Seq(Publication) /\ Len(Failed(c, code)) # 0
           /\ Failed(c, code)[1] = <<"last_error", code>>
           /\ \A i \in 1..Len(Failed(c, code)) :
                  Failed(c, code)[i][1] = "last_error" => i = 1
           /\ IF c.kind = "test" /\ code = "SSH_CONNECTION_FAILED"
              THEN \A i \in 1..Len(Failed(c, code)) : Failed(c, code)[i][1] # "status"
              ELSE Failed(c, code)[Len(Failed(c, code))] = <<"status", "idle">>
           /\ \A shown, r, todo :
                  Len(todo) = 0 /\ AgreesAfter(shown, todo, r)
                      => AgreesAfter(shown, Failed(c, code), r)
<1> DEFINE e == <<"last_error", code>>
           idle == <<"status", "idle">>
           Ends(s) == Len(s) # 0 => s[Len(s)] = idle
           Rest(s) == /\ s \in Seq(Publication)
                      /\ \A i \in 1..Len(s) : s[i][1] # "last_error"
                      /\ Ends(s)
           none == << >>
<1>1. /\ e \in Publication /\ e[1] = "last_error" /\ e[1] \in Transient
      /\ idle \in Publication /\ idle[1] = "status" /\ idle[1] \in Transient
  BY DEF Publication, Topic, Transient, Value
<1>2. none \in Seq(Publication) /\ Len(none) = 0 /\ Rest(none)
  BY EmptySeq
<1>3. Rest(Result(c))
  BY ResultFacts
<1> HIDE DEF e, idle, none
<1>4. ASSUME NEW s, Rest(s)
      PROVE  /\ Rest(<<idle>> \o s) /\ Len(<<idle>> \o s) # 0
  BY <1>1, <1>4
<1>5. ASSUME NEW s, Rest(s)
      PROVE  /\ <<e>> \o s \in Seq(Publication) /\ Len(<<e>> \o s) # 0
             /\ (<<e>> \o s)[1] = e
             /\ \A i \in 1..Len(<<e>> \o s) : (<<e>> \o s)[i][1] = "last_error" => i = 1
             /\ Len(s) # 0 => (<<e>> \o s)[Len(<<e>> \o s)] = idle
  BY <1>1, <1>5
<1>6. \A shown, r, todo : Len(todo) = 0 /\ AgreesAfter(shown, todo, r)
                              => AgreesAfter(shown, none, r)
  BY <1>2, AgreesAtRest
<1>7. <<idle>> \o none = <<idle>>
  BY <1>1, ConcatEmptySeq DEF none
<1>8. CASE c.kind # "test"
  <2>1. Failed(c, code) = <<e>> \o (<<idle>> \o none)
    BY <1>7, <1>8 DEF Failed, e, idle
  <2>2. \A shown, r, todo : Len(todo) = 0 /\ AgreesAfter(shown, todo, r)
                              => AgreesAfter(shown, <<e>> \o (<<idle>> \o none), r)
    BY <1>1, <1>2, <1>4, <1>6, AgreesLater
  <2> DEFINE x == <<idle>> \o none
  <2>3. Rest(x) /\ Len(x) # 0
    BY <1>2, <1>4
  <2> HIDE DEF x, Rest
  <2>4. /\ <<e>> \o x \in Seq(Publication) /\ Len(<<e>> \o x) # 0
        /\ (<<e>> \o x)[1] = e
        /\ \A i \in 1..Len(<<e>> \o x) : (<<e>> \o x)[i][1] = "last_error" => i = 1
        /\ (<<e>> \o x)[Len(<<e>> \o x)] = idle
    BY <1>5, <2>3
  <2>5. QED
    BY <1>8, <2>1, <2>2, <2>4 DEF e, idle, x
<1>9. CASE c.kind = "test" /\ code = "SSH_CONNECTION_FAILED"
  <2>1. Failed(c, code) = <<e>> \o none
    BY <1>9 DEF Failed, e, none
  <2>2. \A shown, r, todo : Len(todo) = 0 /\ AgreesAfter(shown, todo, r)
                              => AgreesAfter(shown, <<e>> \o none, r)
    BY <1>1, <1>2, <1>6, AgreesLater
  <2>3. Failed(c, code) = <<e>> /\ e[1] # "status"
    BY <1>9 DEF Failed, e
  <2>4. \A i \in 1..Len(Failed(c, code)) : Failed(c, code)[i][1] # "status"
    BY <2>3
  <2>5. QED
    BY <1>2, <1>5, <1>9, <2>1, <2>2, <2>4 DEF e
<1>10. CASE c.kind = "test" /\ code # "SSH_CONNECTION_FAILED"
  <2>1. Failed(c, code) = <<e>> \o (<<idle>> \o Result(c))
    BY <1>10 DEF Failed, e, idle
  <2>2. \A shown, r : AgreesAfter(shown, <<e>> \o (<<idle>> \o Result(c)), r)
    BY <1>1, <1>3, <1>4, <1>10, ResultAgrees, AgreesLater
  <2> DEFINE x == <<idle>> \o Result(c)
  <2>3. Rest(x) /\ Len(x) # 0
    BY <1>3, <1>4
  <2> HIDE DEF x, Rest
  <2>4. /\ <<e>> \o x \in Seq(Publication) /\ Len(<<e>> \o x) # 0
        /\ (<<e>> \o x)[1] = e
        /\ \A i \in 1..Len(<<e>> \o x) : (<<e>> \o x)[i][1] = "last_error" => i = 1
        /\ (<<e>> \o x)[Len(<<e>> \o x)] = idle
    BY <1>5, <2>3
  <2>5. QED
    BY <1>10, <2>1, <2>2, <2>4 DEF e, idle, x
<1>11. QED
  BY <1>8, <1>9, <1>10

LEMMA RestoredFacts ==
    ASSUME NEW r \in Record
    PROVE  /\ Restored(r) \in Seq(Publication) /\ Len(Restored(r)) # 0
           /\ \A i \in 1..Len(Restored(r)) : Restored(r)[i][1] \notin Transient
           /\ \A shown : AgreesAfter(shown, Restored(r), r)
<1> DEFINE blank == ""
           todo == Restored(r)
           Only(i, t, v) == /\ i \in 1..Len(todo)
                            /\ todo[i][1] = t /\ todo[i][2] = v
                            /\ \A j \in 1..Len(todo) : j # i => todo[j][1] # t
<1>0. \A shown, i, t, v : Only(i, t, v) => Leaves(shown, todo, t, v)
  BY DEF Leaves
<1>1. r.name \in Value /\ "none" \in Value /\ blank \in Value
  BY DEF Record, Value
<1>2. CASE r.preset
  <2> DEFINE p == <<"last_applied_profile", r.name>>
             q == <<"preset/selected", r.name>>
             d == <<"custom/directory", blank>>
  <2>1. todo = << p >> \o << q, d >>
    BY <1>2 DEF Restored
  <2>2. /\ p \in Publication /\ p[1] = "last_applied_profile" /\ p[2] = r.name
        /\ q \in Publication /\ q[1] = "preset/selected" /\ q[2] = r.name
        /\ d \in Publication /\ d[1] = "custom/directory" /\ d[2] = blank
    BY <1>1 DEF Publication, Topic
  <2> HIDE DEF p, q, d, todo, blank
  <2>3. /\ todo \in Seq(Publication) /\ Len(todo) = 3
        /\ todo[1] = p /\ todo[2] = q /\ todo[3] = d
    BY <2>1, <2>2
  <2>4. /\ Only(1, "last_applied_profile", r.name)
        /\ Only(2, "preset/selected", r.name)
        /\ Only(3, "custom/directory", blank)
        /\ \A i \in 1..Len(todo) : todo[i][1] \notin Transient
    BY <2>2, <2>3 DEF Transient
  <2> HIDE DEF Only
  <2>5. \A shown : AgreesAfter(shown, todo, r)
    BY <1>0, <1>2, <2>4 DEF AgreesAfter, blank
  <2>6. QED
    BY <2>3, <2>4, <2>5 DEF todo
<1>3. CASE ~r.preset
  <2> DEFINE p == <<"last_applied_profile", r.name>>
             d == <<"custom/directory", r.name>>
             q == <<"preset/selected", "none">>
  <2>1. todo = << p >> \o << d, q >>
    BY <1>3 DEF Restored
  <2>2. /\ p \in Publication /\ p[1] = "last_applied_profile" /\ p[2] = r.name
        /\ q \in Publication /\ q[1] = "preset/selected" /\ q[2] = "none"
        /\ d \in Publication /\ d[1] = "custom/directory"
    BY <1>1 DEF Publication, Topic
  <2> HIDE DEF p, q, d, todo
  <2>3. /\ todo \in Seq(Publication) /\ Len(todo) = 3
        /\ todo[1] = p /\ todo[2] = d /\ todo[3] = q
    BY <2>1, <2>2
  <2>4. /\ Only(1, "last_applied_profile", r.name)
        /\ Only(3, "preset/selected", "none")
        /\ \A i \in 1..Len(todo) : todo[i][1] \notin Transient
    BY <2>2, <2>3 DEF Transient
  <2> HIDE DEF Only
  <2>5. \A shown : AgreesAfter(shown, todo, r)
    BY <1>0, <1>3, <2>4 DEF AgreesAfter
  <2>6. QED
    BY <2>3, <2>4, <2>5 DEF todo
<1>4. QED
  BY <1>2, <1>3
-----------------------------------------------------------------------------
(* The steps.                                                              *)

LEMMA PublishFacts ==
    ASSUME CommandsTypeOK, NEW t \in Topic, NEW v \in Value, Publish(t, v)
    PROVE  /\ topics' \in [Topic -> Value]
           /\ link = "up" =>
                  topics' = [topics EXCEPT ![t] = v] /\ missed' = missed \ {t}
           /\ link # "up" =>
                  topics' = topics /\ missed' = missed \cup ({t} \cap Transient)
  BY DEF CommandsTypeOK, Publish

\* What every step needs to know of the two queues and of the command.
LEMMA StateFacts ==
    ASSUME PCInv
    PROVE  /\ worker.at # "idle" => worker.cmd \in Command
           /\ worker.at = "publish" =>
                  /\ Tail(worker.todo) \in Seq(Publication)
                  /\ Len(Tail(worker.todo)) = Len(worker.todo) - 1
                  /\ \A i \in 1..Len(Tail(worker.todo)) :
                         Tail(worker.todo)[i] = worker.todo[i + 1]
                  /\ Head(worker.todo) = worker.todo[1]
                  /\ worker.todo[1][1] \in Topic /\ worker.todo[1][2] \in Value
                  /\ Len(worker.todo) \in Nat \ {0}
           /\ main.at = "publish" =>
                  /\ Tail(main.todo) \in Seq(Publication)
                  /\ Len(Tail(main.todo)) = Len(main.todo) - 1
                  /\ \A i \in 1..Len(Tail(main.todo)) :
                         Tail(main.todo)[i] = main.todo[i + 1]
                  /\ Head(main.todo) = main.todo[1]
                  /\ main.todo[1][1] \in Topic \ Transient
                  /\ main.todo[1][2] \in Value
                  /\ Len(main.todo) \in Nat \ {0}
           /\ << >> \in Seq(Publication) /\ Len(<< >>) = 0
           /\ << <<"status", "idle">> >> \in Seq(Publication)
           /\ "status" \in Topic /\ "uploading" \in Value
<1>1. \A p \in Publication : p[1] \in Topic /\ p[2] \in Value
  BY DEF Publication
<1>2. << >> \in Seq(Publication) /\ Len(<< >>) = 0
  BY EmptySeq
<1>3. "status" \in Topic /\ "uploading" \in Value /\ <<"status", "idle">> \in Publication
  BY DEF Publication, Topic, Value
<1>4. worker.at # "idle" => worker.cmd \in Command
  BY DEF PCInv, PlaceInv
<1>5. /\ worker.todo \in Seq(Publication) /\ main.todo \in Seq(Publication)
      /\ worker.at = "publish" => Len(worker.todo) # 0
      /\ main.at = "publish" => Len(main.todo) # 0
      /\ \A i \in 1..Len(main.todo) : main.todo[i][1] \notin Transient
  BY DEF PCInv, PlaceInv, CommandsTypeOK
<1>6. main.at = "publish" => main.todo[1][1] \notin Transient
  BY <1>5, TailFacts
<1>7. << <<"status", "idle">> >> \in Seq(Publication)
  BY <1>3
<1>8. QED
  BY <1>1, <1>2, <1>3, <1>4, <1>5, <1>6, <1>7, TailFacts

\* Every step keeps the types.
LEMMA CommandsTypeStep ==
    ASSUME PCInv, [Next]_vars
    PROVE  CommandsTypeOK'
<1> USE DEF bounds, bell, client
<1> USE StateFacts
<1>0. CommandsTypeOK /\ PCInv
  BY DEF PCInv
<1>1. ASSUME NEW c \in Command, Begin(c)
      PROVE  CommandsTypeOK'
  <2>1. topics' \in [Topic -> Value]
    BY <1>0, <1>1, PublishFacts DEF Begin
  <2>2. QED
    BY <1>0, <1>1, <2>1 DEF Begin, CommandsTypeOK
<1>2. ASSUME NEW from \in {"resolve", "load"}, NEW to \in {"load", "connect"},
             Proceed(from, to)
      PROVE  CommandsTypeOK'
  BY <1>0, <1>2 DEF Proceed, CommandsTypeOK
<1>3. ASSUME NEW at \in {"resolve", "load", "connect"}, NEW code \in Code, Fail(at, code)
      PROVE  CommandsTypeOK'
  BY <1>0, <1>3, FailedFacts DEF Fail, CommandsTypeOK
<1>4. CASE FailPath
  BY <1>0, <1>4 DEF FailPath, CommandsTypeOK
<1>5. CASE SessionHangs
  BY <1>0, <1>5 DEF SessionHangs, Proceed, CommandsTypeOK
<1>6. CASE Call
  BY <1>0, <1>6 DEF Call, Doorbell!Begin, CommandsTypeOK
<1>7. CASE Applying(Doorbell!Send)
  BY <1>0, <1>7 DEF Applying, Doorbell!Send, CommandsTypeOK
<1>8. CASE Applying(Doorbell!Progress)
  BY <1>0, <1>8 DEF Applying, Doorbell!Progress, CommandsTypeOK
<1>9. CASE Applying(Doorbell!Spoil)
  BY <1>0, <1>9 DEF Applying, Doorbell!Spoil, CommandsTypeOK
<1>10. CASE Applying(Doorbell!Hang)
  BY <1>0, <1>10 DEF Applying, Doorbell!Hang, CommandsTypeOK
<1>11. CASE Returns
  <2>1. phase' = "idle" /\ outcome' \in {"NONE", "APPLY_FAILED"}
    BY <1>11 DEF Returns, Doorbell!Succeed, Doorbell!FailEarly, Doorbell!FailLate,
       Doorbell!Abandon, Doorbell!Return
  <2>2. worker.cmd \in Command
    BY <1>0, <1>11 DEF Returns
  <2>3. /\ worker' \in [at : {"record", "publish"},
                        cmd : Command \cup {NoCommand}, code : Code \cup {"NONE"},
                        todo : Seq(Publication)]
        /\ failure' \in Code \cup {"unset"}
    BY <1>0, <1>11, <2>1, <2>2, FailedFacts, ResultFacts
    DEF Returns, Succeeds, Records, CommandsTypeOK, Code
  <2>4. QED
    BY <1>0, <1>11, <2>1, <2>3 DEF Returns, CommandsTypeOK
<1>12. CASE ScriptGoesOn
  BY <1>0, <1>12 DEF ScriptGoesOn, Doorbell!GoesOn, CommandsTypeOK
<1>13. ASSUME NEW ok \in BOOLEAN, OpenRecord(ok)
      PROVE  CommandsTypeOK'
  <2>1. Result(worker.cmd) \in Seq(Publication)
    BY <1>0, <1>13, ResultFacts DEF OpenRecord
  <2>2. worker' \in [at : {"write", "publish"}, cmd : Command \cup {NoCommand},
                    code : Code \cup {"NONE"}, todo : Seq(Publication)]
    BY <1>0, <1>13, <2>1 DEF OpenRecord, CommandsTypeOK
  <2>3. file' \subseteq Record
    BY <1>0, <1>13 DEF OpenRecord, CommandsTypeOK
  <2>4. UNCHANGED <<topics, link, connected, phase, main, failure>>
    BY <1>13 DEF OpenRecord
  <2>5. QED
    BY <1>0, <2>2, <2>3, <2>4 DEF CommandsTypeOK
<1>14. ASSUME NEW ok \in BOOLEAN, WriteRecord(ok)
      PROVE  CommandsTypeOK'
  <2>1. worker.cmd \in Command /\ worker.cmd.kind # "test"
    BY <1>0, <1>14 DEF WriteRecord, PCInv, PlaceInv
  <2>2. [name |-> worker.cmd.name, preset |-> worker.cmd.kind = "preset"] \in Record
    BY <2>1, CommandFacts DEF Record
  <2>3. QED
    BY <1>0, <1>14, <2>1, <2>2, ResultFacts DEF WriteRecord, CommandsTypeOK
<1>15. CASE WorkerPublish
  <2>1. topics' \in [Topic -> Value]
    BY <1>0, <1>15, PublishFacts DEF WorkerPublish
  <2>2. Tail(worker.todo) \in Seq(Publication)
    BY <1>0, <1>15 DEF WorkerPublish, CommandsTypeOK
  <2>3. worker' \in [at : {"idle", "publish"}, cmd : Command \cup {NoCommand},
                    code : Code \cup {"NONE"}, todo : Seq(Publication)]
    BY <1>0, <1>15, <2>2 DEF WorkerPublish, CommandsTypeOK
  <2>4. UNCHANGED <<link, connected, file, phase, main, failure>>
    BY <1>15 DEF WorkerPublish
  <2>5. QED
    BY <1>0, <2>1, <2>3, <2>4 DEF CommandsTypeOK
<1>16. CASE Reconnect \/ SetConnected
  BY <1>0, <1>16 DEF Reconnect, SetConnected, OnConnect, CommandsTypeOK
<1>17. CASE Load
  <2>0. \A r \in file : Restored(r) \in Seq(Publication)
    BY <1>0, RestoredFacts DEF CommandsTypeOK
  <2>1. main'.todo \in Seq(Publication) /\ main'.at \in {"publish", "loop"}
    <3>1. \/ \E r \in file : main' = [at |-> "publish", todo |-> Restored(r)]
          \/ main' = [at |-> "loop", todo |-> <<>>]
      BY <1>17 DEF Load
    <3>2. ASSUME NEW r \in file, main' = [at |-> "publish", todo |-> Restored(r)]
          PROVE  main'.todo \in Seq(Publication) /\ main'.at \in {"publish", "loop"}
      BY <2>0, <3>2
    <3>3. CASE main' = [at |-> "loop", todo |-> <<>>]
      <4>1. main'.todo = <<>> /\ main'.at = "loop"
        BY <3>3
      <4>2. QED
        BY <4>1, EmptySeq
    <3>4. QED
      BY <3>1, <3>2, <3>3
  <2>2. DOMAIN main' = {"at", "todo"}
        /\ main' = [at |-> main'.at, todo |-> main'.todo]
    BY <1>17 DEF Load
  <2>3. main' \in [at : {"publish", "loop"}, todo : Seq(Publication)]
    BY <2>1, <2>2
  <2>4. QED
    BY <1>0, <1>17, <2>3 DEF Load, CommandsTypeOK
<1>18. CASE MainPublish
  <2>1. topics' \in [Topic -> Value]
    BY <1>0, <1>18, PublishFacts DEF MainPublish
  <2>2. main'.todo = Tail(main.todo) /\ main'.at \in {"publish", "loop"}
        /\ main' = [main EXCEPT !.todo = main'.todo, !.at = main'.at]
    BY <1>0, <1>18 DEF MainPublish, CommandsTypeOK
  <2>3. Tail(main.todo) \in Seq(Publication)
    BY <1>0, <1>18 DEF MainPublish, CommandsTypeOK
  <2>4. main' \in [at : {"publish", "loop"}, todo : Seq(Publication)]
    BY <1>0, <2>2, <2>3 DEF CommandsTypeOK
  <2>5. UNCHANGED <<link, connected, file, phase, worker, failure>>
    BY <1>18 DEF MainPublish
  <2>6. QED
    BY <1>0, <2>1, <2>4, <2>5 DEF CommandsTypeOK
<1>19. CASE LinkLost
  <2>1. /\ link' = "down" /\ connected' = FALSE
        /\ UNCHANGED <<topics, file, phase, worker, main, failure>>
    BY <1>19 DEF LinkLost
  <2>2. link' \in {"up", "down"} /\ connected' \in BOOLEAN
    BY <2>1
  <2>3. QED
    BY <1>0, <2>1, <2>2 DEF CommandsTypeOK
<1>20. CASE Crash
  BY <1>0, <1>20 DEF Crash, Doorbell!Abandon, Doorbell!Return, CommandsTypeOK
<1>21. CASE Restart
  <2>1. main' \in [at : {"start"}, todo : Seq(Publication)]
    BY <1>0, <1>21 DEF Restart, CommandsTypeOK
  <2>2. UNCHANGED <<topics, link, connected, file, phase, worker, failure>>
    BY <1>21 DEF Restart
  <2>3. QED
    BY <1>0, <2>1, <2>2 DEF CommandsTypeOK
<1>22. CASE UNCHANGED vars
  BY <1>0, <1>22 DEF vars, CommandsTypeOK
<1>23. \/ UNCHANGED vars
      \/ (\E c \in Command : Begin(c)) \/ (\E from \in {"resolve", "load"},
         to \in {"load", "connect"} : Proceed(from, to))
         \/ (\E at \in {"resolve", "load", "connect"}, code \in Code : Fail(at,
            code)) \/ FailPath \/ SessionHangs \/ Call
            \/ Applying(Doorbell!Send) \/ Applying(Doorbell!Progress)
            \/ Applying(Doorbell!Spoil) \/ Applying(Doorbell!Hang)
            \/ Returns \/ ScriptGoesOn
            \/ (\E ok \in BOOLEAN : OpenRecord(ok))
            \/ (\E ok \in BOOLEAN : WriteRecord(ok)) \/ WorkerPublish
            \/ Reconnect \/ SetConnected \/ Load \/ MainPublish \/ LinkLost
            \/ Crash \/ Restart
  BY DEF Next, WorkerStep, DoorbellStep, MainStep, NoSession, vars, Code
<1>24. QED
  BY <1>1, <1>2, <1>3, <1>4, <1>5, <1>6, <1>7, <1>8, <1>9, <1>10, <1>11, <1>12,
     <1>13, <1>14, <1>15, <1>16, <1>17, <1>18, <1>19, <1>20, <1>21, <1>22, <1>23

\* Every step leaves the two threads where PlaceInv has them.
LEMMA PlaceStep ==
    ASSUME PCInv, [Next]_vars
    PROVE  PlaceInv'
<1> USE DEF bounds, bell, client
<1> USE StateFacts
<1>0. PCInv /\ CommandsTypeOK /\ PlaceInv
  BY DEF PCInv
<1>1. ASSUME NEW c \in Command, Begin(c)
      PROVE  PlaceInv'
  BY <1>0, <1>1, CommandFacts DEF Begin, CommandsTypeOK, PlaceInv
<1>2. ASSUME NEW from \in {"resolve", "load"}, NEW to \in {"load", "connect"},
             Proceed(from, to)
      PROVE  PlaceInv'
  BY <1>0, <1>2 DEF Proceed, CommandsTypeOK, PlaceInv
<1>3. ASSUME NEW at \in {"resolve", "load", "connect"}, NEW code \in Code, Fail(at, code)
      PROVE  PlaceInv'
  BY <1>0, <1>3, FailedFacts DEF Fail, CommandsTypeOK, PlaceInv
<1>4. CASE FailPath
  BY <1>0, <1>4 DEF FailPath, CommandsTypeOK, PlaceInv
<1>5. CASE SessionHangs
  BY <1>0, <1>5 DEF SessionHangs, Proceed, Proceed, CommandsTypeOK, PlaceInv
<1>6. CASE Call
  BY <1>0, <1>6 DEF Call, Doorbell!Begin, CommandsTypeOK, PlaceInv
<1>7. CASE Returns
  <2>1. worker.cmd \in Command /\ worker.cmd.kind \in {"preset", "custom", "test"}
    BY <1>0, <1>7, CommandFacts DEF Returns
  <2>2. outcome' # "NONE" => outcome' \in Code
    BY <1>7 DEF Returns, Doorbell!Succeed, Doorbell!FailEarly, Doorbell!FailLate,
       Doorbell!Abandon, Doorbell!Return, Code
  <2>3. /\ worker'.cmd = worker.cmd
        /\ \/ /\ outcome' # "NONE" /\ worker'.at = "publish"
              /\ worker'.todo = Failed(worker.cmd, outcome')
           \/ /\ worker.cmd.kind \in {"preset", "custom"} /\ worker'.at = "record"
              /\ worker'.todo = worker.todo
           \/ worker'.at = "publish" /\ worker'.todo = Result(worker.cmd)
    BY <1>0, <1>7 DEF Returns, Succeeds, Records, CommandsTypeOK
  <2>4. outcome' # "NONE" => Len(Failed(worker.cmd, outcome')) # 0
    BY <2>1, <2>2, FailedFacts
  <2>5. Len(Result(worker.cmd)) # 0
    BY <2>1, ResultFacts
  <2>6. /\ worker'.cmd = worker.cmd
        /\ \/ worker'.at = "record" /\ worker.cmd.kind # "test"
              /\ worker'.todo = worker.todo
           \/ worker'.at = "publish" /\ Len(worker'.todo) # 0
    BY <2>3, <2>4, <2>5
  <2>7. worker.at = "apply" /\ UNCHANGED <<file, main>>
    BY <1>7 DEF Returns
  <2>8. QED
    BY <1>0, <2>1, <2>6, <2>7 DEF PlaceInv
<1>8. ASSUME NEW ok \in BOOLEAN, OpenRecord(ok)
      PROVE  PlaceInv'
  <2>1. Len(Result(worker.cmd)) # 0
    BY <1>0, <1>8, ResultFacts DEF OpenRecord
  <2>2. QED
    BY <1>0, <1>8, <2>1 DEF OpenRecord, CommandsTypeOK, PlaceInv
<1>9. ASSUME NEW ok \in BOOLEAN, WriteRecord(ok)
      PROVE  PlaceInv'
  <2>0. worker.at = "write"
    BY <1>9 DEF WriteRecord
  <2>1. Len(Result(worker.cmd)) # 0
    BY <1>0, <2>0, ResultFacts
  <2>2. \A r, s \in file' : r = s
    BY <1>9 DEF WriteRecord
  <2>3. QED
    BY <1>0, <1>9, <2>1, <2>2 DEF WriteRecord, CommandsTypeOK, PlaceInv
<1>10. CASE WorkerPublish
  BY <1>0, <1>10 DEF WorkerPublish, CommandsTypeOK, PlaceInv
<1>11. CASE Reconnect \/ SetConnected
  BY <1>0, <1>11 DEF Reconnect, SetConnected, OnConnect, CommandsTypeOK, PlaceInv
<1>12. CASE Load
  <2>1. \A r \in file : /\ Len(Restored(r)) # 0
                       /\ \A i \in 1..Len(Restored(r)) : Restored(r)[i][1] \notin Transient
    BY <1>0, RestoredFacts DEF CommandsTypeOK
  <2>2. /\ main'.at = "publish" <=> Len(main'.todo) # 0
        /\ \A i \in 1..Len(main'.todo) : main'.todo[i][1] \notin Transient
    BY <1>0, <1>12, <2>1 DEF Load
  <2>3. UNCHANGED <<file, worker>>
    BY <1>12 DEF Load
  <2>4. QED
    BY <1>0, <2>2, <2>3 DEF PlaceInv
<1>13. CASE MainPublish
  <2>1. /\ main.todo \in Seq(Publication) /\ Len(main.todo) # 0
        /\ main'.todo = Tail(main.todo)
        /\ main'.at = IF Len(main.todo) = 1 THEN "loop" ELSE "publish"
    BY <1>0, <1>13 DEF MainPublish, CommandsTypeOK
  <2>2. /\ Len(Tail(main.todo)) = Len(main.todo) - 1
        /\ \A i \in 1..Len(Tail(main.todo)) : /\ i + 1 \in 1..Len(main.todo)
                                             /\ Tail(main.todo)[i] = main.todo[i + 1]
    BY <2>1
  <2>3. main'.at = "publish" <=> Len(main'.todo) # 0
    BY <2>1, <2>2
  <2>4. \A i \in 1..Len(main'.todo) : main'.todo[i][1] \notin Transient
    BY <1>0, <2>1, <2>2 DEF PlaceInv
  <2>5. UNCHANGED <<file, worker>>
    BY <1>13 DEF MainPublish
  <2>6. QED
    BY <1>0, <2>3, <2>4, <2>5 DEF PlaceInv
<1>14. CASE Crash
  BY <1>0, <1>14 DEF Crash, CommandsTypeOK, PlaceInv
<1>15. CASE Restart
  BY <1>0, <1>15 DEF Restart, CommandsTypeOK, PlaceInv
<1>16. CASE UNCHANGED <<file, worker, main>>
  BY <1>0, <1>16 DEF CommandsTypeOK, PlaceInv
<1>17. \/ UNCHANGED <<file, worker, main>>
      \/ (\E c \in Command : Begin(c)) \/ (\E from \in {"resolve", "load"},
         to \in {"load", "connect"} : Proceed(from, to))
         \/ (\E at \in {"resolve", "load", "connect"}, code \in Code : Fail(at,
            code)) \/ FailPath \/ SessionHangs \/ Call \/ Returns
            \/ (\E ok \in BOOLEAN : OpenRecord(ok))
            \/ (\E ok \in BOOLEAN : WriteRecord(ok)) \/ WorkerPublish
            \/ Reconnect \/ SetConnected \/ Load \/ MainPublish \/ Crash \/ Restart
  BY DEF Next, WorkerStep, DoorbellStep, MainStep, NoSession, vars, Code,
     Applying, Doorbell!Send, Doorbell!Progress, Doorbell!Spoil, Doorbell!Hang,
        ScriptGoesOn, LinkLost
<1>18. QED
  BY <1>1, <1>2, <1>3, <1>4, <1>5, <1>6, <1>7, <1>8, <1>9, <1>10, <1>11, <1>12,
     <1>13, <1>14, <1>15, <1>16, <1>17

\* The call begins and ends with the place of the worker.
LEMMA CallStep ==
    ASSUME PCInv, [Next]_vars
    PROVE  CallInv'
<1> USE DEF bounds, bell, client
<1> USE StateFacts
<1>0. PCInv /\ CommandsTypeOK /\ CallInv
  BY DEF PCInv
<1>1. ASSUME NEW c \in Command, Begin(c)
      PROVE  CallInv'
  BY <1>0, <1>1 DEF Begin, Busy, CommandsTypeOK, CallInv
<1>2. ASSUME NEW from \in {"resolve", "load"}, NEW to \in {"load", "connect"},
             Proceed(from, to)
      PROVE  CallInv'
  BY <1>0, <1>2 DEF Proceed, CommandsTypeOK, CallInv
<1>3. ASSUME NEW at \in {"resolve", "load", "connect"}, NEW code \in Code, Fail(at, code)
      PROVE  CallInv'
  BY <1>0, <1>3 DEF Fail, CommandsTypeOK, CallInv
<1>4. CASE FailPath
  BY <1>0, <1>4 DEF FailPath, CommandsTypeOK, CallInv
<1>5. CASE SessionHangs
  BY <1>0, <1>5 DEF SessionHangs, Proceed, Proceed, CommandsTypeOK, CallInv
<1>6. CASE Call
  BY <1>0, <1>6 DEF Call, Doorbell!Begin, CommandsTypeOK, CallInv
<1>7. CASE Applying(Doorbell!Send)
  BY <1>0, <1>7 DEF Applying, Doorbell!Send, CommandsTypeOK, CallInv
<1>8. CASE Applying(Doorbell!Progress)
  BY <1>0, <1>8 DEF Applying, Doorbell!Progress, CommandsTypeOK, CallInv
<1>9. CASE Applying(Doorbell!Spoil)
  BY <1>0, <1>9 DEF Applying, Doorbell!Spoil, CommandsTypeOK, CallInv
<1>10. CASE Applying(Doorbell!Hang)
  BY <1>0, <1>10 DEF Applying, Doorbell!Hang, CommandsTypeOK, CallInv
<1>11. CASE Returns
  BY <1>0, <1>11 DEF Returns, Succeeds, Records, Doorbell!Succeed,
     Doorbell!FailEarly, Doorbell!FailLate, Doorbell!Abandon, Doorbell!Return,
        CommandsTypeOK, CallInv
<1>12. CASE ScriptGoesOn
  BY <1>0, <1>12 DEF ScriptGoesOn, Doorbell!GoesOn, CommandsTypeOK, CallInv
<1>13. ASSUME NEW ok \in BOOLEAN, OpenRecord(ok)
      PROVE  CallInv'
  BY <1>0, <1>13 DEF OpenRecord, CommandsTypeOK, CallInv
<1>14. ASSUME NEW ok \in BOOLEAN, WriteRecord(ok)
      PROVE  CallInv'
  BY <1>0, <1>14 DEF WriteRecord, CommandsTypeOK, CallInv
<1>15. CASE WorkerPublish
  BY <1>0, <1>15 DEF WorkerPublish, CommandsTypeOK, CallInv
<1>16. CASE Crash
  BY <1>0, <1>16
  DEF Crash, Doorbell!Abandon, Doorbell!Return, CommandsTypeOK, CallInv
<1>17. CASE UNCHANGED <<worker, call, phase>>
  BY <1>0, <1>17 DEF CommandsTypeOK, CallInv
<1>18. \/ UNCHANGED <<worker, call, phase>>
      \/ (\E c \in Command : Begin(c)) \/ (\E from \in {"resolve", "load"},
         to \in {"load", "connect"} : Proceed(from, to))
         \/ (\E at \in {"resolve", "load", "connect"}, code \in Code : Fail(at,
            code)) \/ FailPath \/ SessionHangs \/ Call
            \/ Applying(Doorbell!Send) \/ Applying(Doorbell!Progress)
            \/ Applying(Doorbell!Spoil) \/ Applying(Doorbell!Hang)
            \/ Returns \/ ScriptGoesOn
            \/ (\E ok \in BOOLEAN : OpenRecord(ok))
            \/ (\E ok \in BOOLEAN : WriteRecord(ok)) \/ WorkerPublish \/ Crash
  BY DEF Next, WorkerStep, DoorbellStep, MainStep, NoSession, vars, Code,
     Reconnect, SetConnected, Load, MainPublish, LinkLost, Restart
<1>19. QED
  BY <1>1, <1>2, <1>3, <1>4, <1>5, <1>6, <1>7, <1>8, <1>9, <1>10, <1>11, <1>12,
     <1>13, <1>14, <1>15, <1>16, <1>17, <1>18

\* Only an apply that returned ERROR_NONE is ever recorded.
LEMMA RecordStep ==
    ASSUME PCInv, [Next]_vars
    PROVE  RecordInv'
<1> USE DEF bounds, bell, client
<1> USE StateFacts
<1>0. PCInv /\ CommandsTypeOK /\ RecordInv
  BY DEF PCInv
<1>1. ASSUME NEW c \in Command, Begin(c)
      PROVE  RecordInv'
  BY <1>0, <1>1 DEF Begin, CommandsTypeOK, RecordInv, FileNamesApplied
<1>2. ASSUME NEW from \in {"resolve", "load"}, NEW to \in {"load", "connect"},
             Proceed(from, to)
      PROVE  RecordInv'
  BY <1>0, <1>2 DEF Proceed, CommandsTypeOK, RecordInv, FileNamesApplied
<1>3. ASSUME NEW at \in {"resolve", "load", "connect"}, NEW code \in Code, Fail(at, code)
      PROVE  RecordInv'
  BY <1>0, <1>3 DEF Fail, CommandsTypeOK, RecordInv, FileNamesApplied
<1>4. CASE FailPath
  BY <1>0, <1>4 DEF FailPath, CommandsTypeOK, RecordInv, FileNamesApplied
<1>5. CASE SessionHangs
  BY <1>0, <1>5 DEF SessionHangs, Proceed, Proceed, CommandsTypeOK, RecordInv,
     FileNamesApplied
<1>6. CASE Call
  BY <1>0, <1>6
  DEF Call, Doorbell!Begin, CommandsTypeOK, RecordInv, FileNamesApplied
<1>7. CASE Returns
  BY <1>0, <1>7
  DEF Returns, Succeeds, Records, CommandsTypeOK, RecordInv, FileNamesApplied
<1>8. ASSUME NEW ok \in BOOLEAN, OpenRecord(ok)
      PROVE  RecordInv'
  BY <1>0, <1>8 DEF OpenRecord, CommandsTypeOK, RecordInv, FileNamesApplied
<1>9. ASSUME NEW ok \in BOOLEAN, WriteRecord(ok)
      PROVE  RecordInv'
  <2>1. \A r \in file' : /\ r.name = worker.cmd.name
                        /\ r.preset = (worker.cmd.kind = "preset")
    BY <1>9 DEF WriteRecord
  <2>2. <<worker.cmd.name, worker.cmd.kind = "preset">> \in applied
    BY <1>0, <1>9 DEF WriteRecord, RecordInv
  <2>3. applied' = applied /\ worker'.at = "publish"
    BY <1>0, <1>9 DEF WriteRecord, CommandsTypeOK
  <2>4. FileNamesApplied'
    BY <2>1, <2>2, <2>3 DEF FileNamesApplied
  <2>5. QED
    BY <2>3, <2>4 DEF RecordInv
<1>10. CASE WorkerPublish
  BY <1>0, <1>10 DEF WorkerPublish, CommandsTypeOK, RecordInv, FileNamesApplied
<1>11. CASE Crash
  BY <1>0, <1>11 DEF Crash, CommandsTypeOK, RecordInv, FileNamesApplied
<1>12. CASE UNCHANGED <<worker, file, applied>>
  BY <1>0, <1>12 DEF CommandsTypeOK, RecordInv, FileNamesApplied
<1>13. \/ UNCHANGED <<worker, file, applied>>
      \/ (\E c \in Command : Begin(c)) \/ (\E from \in {"resolve", "load"},
         to \in {"load", "connect"} : Proceed(from, to))
         \/ (\E at \in {"resolve", "load", "connect"}, code \in Code : Fail(at,
            code)) \/ FailPath \/ SessionHangs \/ Call \/ Returns
            \/ (\E ok \in BOOLEAN : OpenRecord(ok))
            \/ (\E ok \in BOOLEAN : WriteRecord(ok)) \/ WorkerPublish \/ Crash
  BY DEF Next, WorkerStep, DoorbellStep, MainStep, NoSession, vars, Code,
     Applying, Doorbell!Send, Doorbell!Progress, Doorbell!Spoil, Doorbell!Hang,
        ScriptGoesOn, Reconnect, SetConnected, Load, MainPublish, LinkLost, Restart
<1>14. QED
  BY <1>1, <1>2, <1>3, <1>4, <1>5, <1>6, <1>7, <1>8, <1>9, <1>10, <1>11, <1>12,
     <1>13

\* No step comes between an error and its publication, and none publishes an
\* older one.
LEMMA ErrorStep ==
    ASSUME PCInv, [Next]_vars
    PROVE  ErrorInv'
<1> USE DEF bounds, bell, client
<1> USE StateFacts
<1>0. PCInv /\ CommandsTypeOK /\ PlaceInv /\ ErrorInv
  BY DEF PCInv
<1>1. ASSUME NEW c \in Command, Begin(c)
      PROVE  ErrorInv'
  <2>1. UNCHANGED <<failure>> /\ Len(worker.todo) = 0 /\ Len(worker'.todo) = 0
    BY <1>0, <1>1 DEF Begin, Busy, PlaceInv, CommandsTypeOK
  <2>2. /\ topics'["last_error"] = topics["last_error"]
        /\ "last_error" \in missed => "last_error" \in missed'
    BY <1>0, <1>1, PublishFacts DEF Begin, CommandsTypeOK, Topic
  <2>3. QED
    BY <1>0, <2>1, <2>2 DEF ErrorInv
<1>2. ASSUME NEW from \in {"resolve", "load"}, NEW to \in {"load", "connect"},
             Proceed(from, to)
      PROVE  ErrorInv'
  BY <1>0, <1>2 DEF Proceed, CommandsTypeOK, ErrorInv
<1>3. ASSUME NEW at \in {"resolve", "load", "connect"}, NEW code \in Code, Fail(at, code)
      PROVE  ErrorInv'
  <2>1. worker'.todo = Failed(worker.cmd, code) /\ failure' = code
    BY <1>0, <1>3 DEF Fail, CommandsTypeOK
  <2>2. worker.cmd \in Command
    BY <1>0, <1>3 DEF Fail
  <2>3. /\ \A i \in 1..Len(worker'.todo) : worker'.todo[i][1] = "last_error" => i = 1
        /\ worker'.todo[1][1] = "last_error" /\ worker'.todo[1][2] = failure'
        /\ worker'.todo \in Seq(Publication) /\ Len(worker'.todo) # 0
    BY <2>1, <2>2, FailedFacts
  <2>4. 1 \in 1..Len(worker'.todo)
    BY <2>3
  <2>5. QED
    BY <2>3, <2>4 DEF ErrorInv
<1>4. CASE FailPath
  <2>1. Len(worker.todo) = 0 /\ worker'.todo = << <<"status", "idle">> >>
    BY <1>0, <1>4 DEF FailPath, PlaceInv, CommandsTypeOK
  <2>2. \A i \in 1..Len(worker'.todo) : worker'.todo[i][1] # "last_error"
    BY <2>1
  <2>3. UNCHANGED <<topics, missed, failure>>
    BY <1>4 DEF FailPath
  <2>4. QED
    BY <1>0, <2>1, <2>2, <2>3 DEF ErrorInv
<1>5. CASE SessionHangs
  BY <1>0, <1>5 DEF SessionHangs, Proceed, Proceed, CommandsTypeOK, ErrorInv
<1>6. CASE Call
  BY <1>0, <1>6 DEF Call, Doorbell!Begin, CommandsTypeOK, ErrorInv
<1>7. CASE Returns
  <2>1. Len(worker.todo) = 0 /\ worker.cmd \in Command
    BY <1>0, <1>7 DEF Returns, PlaceInv, CommandsTypeOK
  <2>2. UNCHANGED <<topics, missed>>
    BY <1>7 DEF Returns
  <2>3. CASE outcome' # "NONE"
    <3>1. outcome' \in Code
      BY <1>7, <2>3 DEF Returns, Doorbell!Succeed, Doorbell!FailEarly,
         Doorbell!FailLate, Doorbell!Abandon, Doorbell!Return, Code
    <3>2. worker'.todo = Failed(worker.cmd, outcome') /\ failure' = outcome'
      BY <1>0, <1>7, <2>3 DEF Returns, Succeeds, CommandsTypeOK
    <3>3. /\ \A i \in 1..Len(worker'.todo) : worker'.todo[i][1] = "last_error" => i = 1
          /\ worker'.todo[1][1] = "last_error" /\ worker'.todo[1][2] = failure'
          /\ worker'.todo \in Seq(Publication) /\ Len(worker'.todo) # 0
      BY <2>1, <3>1, <3>2, FailedFacts
    <3>4. 1 \in 1..Len(worker'.todo)
      BY <3>3
    <3>5. QED
      BY <3>3, <3>4 DEF ErrorInv
  <2>4. CASE outcome' = "NONE"
    <3>1. failure' = failure
      BY <1>7, <2>4 DEF Returns, Succeeds
    <3>2. worker'.todo = worker.todo \/ worker'.todo = Result(worker.cmd)
      BY <1>0, <1>7, <2>4 DEF Returns, Succeeds, CommandsTypeOK
    <3>3. \A i \in 1..Len(worker'.todo) : worker'.todo[i][1] # "last_error"
      BY <2>1, <3>2, ResultFacts
    <3>4. QED
      BY <1>0, <2>1, <2>2, <3>1, <3>3 DEF ErrorInv
  <2>5. QED
    BY <2>3, <2>4
<1>8. ASSUME NEW ok \in BOOLEAN, OpenRecord(ok)
      PROVE  ErrorInv'
  <2>1. Len(worker.todo) = 0 /\ worker.cmd \in Command
    BY <1>0, <1>8 DEF OpenRecord, PlaceInv, CommandsTypeOK
  <2>2. worker'.todo = worker.todo \/ worker'.todo = Result(worker.cmd)
    BY <1>0, <1>8 DEF OpenRecord, CommandsTypeOK
  <2>3. \A i \in 1..Len(worker'.todo) : worker'.todo[i][1] # "last_error"
    BY <2>1, <2>2, ResultFacts
  <2>4. UNCHANGED <<topics, missed, failure>>
    BY <1>8 DEF OpenRecord
  <2>5. QED
    BY <1>0, <2>1, <2>3, <2>4 DEF ErrorInv
<1>9. ASSUME NEW ok \in BOOLEAN, WriteRecord(ok)
      PROVE  ErrorInv'
  <2>0. worker.at = "write"
    BY <1>9 DEF WriteRecord
  <2>1. Len(worker.todo) = 0 /\ worker.cmd \in Command
    BY <1>0, <2>0 DEF PlaceInv, CommandsTypeOK
  <2>2. worker'.todo = Result(worker.cmd)
    BY <1>0, <1>9 DEF WriteRecord, CommandsTypeOK
  <2>3. \A i \in 1..Len(worker'.todo) : worker'.todo[i][1] # "last_error"
    BY <2>1, <2>2, ResultFacts
  <2>4. UNCHANGED <<topics, missed, failure>>
    BY <1>9 DEF WriteRecord
  <2>5. QED
    BY <1>0, <2>1, <2>3, <2>4 DEF ErrorInv
<1>10. CASE WorkerPublish
  <2> DEFINE todo == worker.todo
             rest == Tail(worker.todo)
  <2>1. /\ worker'.todo = rest /\ failure' = failure
        /\ Publish(todo[1][1], todo[1][2])
    BY <1>0, <1>10 DEF WorkerPublish, CommandsTypeOK
  <2>2. /\ Len(rest) = Len(todo) - 1 /\ Len(todo) \in Nat \ {0}
        /\ \A i \in 1..Len(rest) : rest[i] = todo[i + 1]
        /\ todo[1][1] \in Topic /\ todo[1][2] \in Value
    BY <1>0, <1>10 DEF WorkerPublish
  <2>3. /\ link = "up" => /\ topics' = [topics EXCEPT ![todo[1][1]] = todo[1][2]]
                          /\ missed' = missed \ {todo[1][1]}
        /\ link # "up" => /\ topics' = topics
                          /\ missed' = missed \cup ({todo[1][1]} \cap Transient)
    BY <1>0, <2>1, <2>2, PublishFacts
  <2>4. /\ \A i \in 1..Len(todo) :
               todo[i][1] = "last_error" => i = 1 /\ todo[1][2] = failure
        /\ \/ \E i \in 1..Len(todo) : todo[i][1] = "last_error"
           \/ "last_error" \in missed
           \/ topics["last_error"] = failure
        /\ topics \in [Topic -> Value] /\ "last_error" \in Topic
    BY <1>0 DEF ErrorInv, CommandsTypeOK, Topic
  <2> HIDE DEF todo, rest
  <2>5. \A i \in 1..Len(rest) : rest[i][1] # "last_error"
    BY <2>2, <2>4
  <2>6. CASE todo[1][1] = "last_error"
    <3>1. todo[1][2] = failure
      BY <2>2, <2>4, <2>6
    <3>2. "last_error" \in missed' \/ topics'["last_error"] = failure
      BY <2>3, <2>4, <2>6, <3>1 DEF Transient
    <3>3. QED
      BY <2>1, <2>5, <3>2 DEF ErrorInv
  <2>7. CASE todo[1][1] # "last_error"
    <3>1. "last_error" \in missed \/ topics["last_error"] = failure
      BY <2>2, <2>4, <2>7
    <3>2. "last_error" \in missed' \/ topics'["last_error"] = failure
      BY <2>3, <2>4, <2>7, <3>1
    <3>3. QED
      BY <2>1, <2>5, <3>2 DEF ErrorInv
  <2>8. QED
    BY <2>6, <2>7
<1>11. CASE MainPublish
  <2>1. /\ main.todo[1][1] \in Topic \ Transient /\ main.todo[1][2] \in Value
        /\ Publish(main.todo[1][1], main.todo[1][2])
    BY <1>0, <1>11 DEF MainPublish
  <2>2. /\ topics'["last_error"] = topics["last_error"]
        /\ "last_error" \in missed => "last_error" \in missed'
    BY <1>0, <2>1, PublishFacts DEF CommandsTypeOK, Topic, Transient
  <2>3. UNCHANGED <<worker, failure>>
    BY <1>11 DEF MainPublish
  <2>4. QED
    BY <1>0, <2>2, <2>3 DEF ErrorInv
<1>12. CASE Crash
  <2>1. /\ Len(worker'.todo) = 0 /\ UNCHANGED <<topics, failure>>
        /\ missed \subseteq missed'
    BY <1>0, <1>12 DEF Crash, CommandsTypeOK
  <2>2. (\E i \in 1..Len(worker.todo) : worker.todo[i][1] = "last_error")
           => "last_error" \in missed'
    <3>1. DOMAIN worker.todo = 1..Len(worker.todo)
      BY <1>0 DEF CommandsTypeOK
    <3>2. QED
      BY <1>12, <3>1 DEF Crash, Unpublished, Transient
  <2>3. QED
    BY <1>0, <2>1, <2>2 DEF ErrorInv
<1>13. CASE UNCHANGED <<worker, topics, missed, failure>>
  BY <1>0, <1>13 DEF CommandsTypeOK, ErrorInv
<1>14. \/ UNCHANGED <<worker, topics, missed, failure>>
      \/ (\E c \in Command : Begin(c)) \/ (\E from \in {"resolve", "load"},
         to \in {"load", "connect"} : Proceed(from, to))
         \/ (\E at \in {"resolve", "load", "connect"}, code \in Code : Fail(at,
            code)) \/ FailPath \/ SessionHangs \/ Call \/ Returns
            \/ (\E ok \in BOOLEAN : OpenRecord(ok))
            \/ (\E ok \in BOOLEAN : WriteRecord(ok)) \/ WorkerPublish
            \/ MainPublish \/ Crash
  BY DEF Next, WorkerStep, DoorbellStep, MainStep, NoSession, vars, Code,
     Applying, Doorbell!Send, Doorbell!Progress, Doorbell!Spoil, Doorbell!Hang,
        ScriptGoesOn, Reconnect, SetConnected, Load, LinkLost, Restart
<1>15. QED
  BY <1>1, <1>2, <1>3, <1>4, <1>5, <1>6, <1>7, <1>8, <1>9, <1>10, <1>11, <1>12,
     <1>13, <1>14

\* A handler publishes the status last, except the test that found no session.
LEMMA StatusStep ==
    ASSUME PCInv, [Next]_vars
    PROVE  StatusInv'
<1> USE DEF bounds, bell, client
<1> USE StateFacts
<1>0. PCInv /\ CommandsTypeOK /\ StatusInv
  BY DEF PCInv
<1>1. ASSUME NEW c \in Command, Begin(c)
      PROVE  StatusInv'
  <2>0. Publish("status", "uploading") /\ "status" \in Topic /\ "uploading" \in Value
    BY <1>0, <1>1 DEF Begin
  <2>1. Uploading'
    <3>1. /\ link = "up" => topics' = [topics EXCEPT !["status"] = "uploading"]
          /\ link # "up" => missed' = missed \cup ({"status"} \cap Transient)
      BY <1>0, <2>0, PublishFacts
    <3>2. QED
      BY <1>0, <2>0, <3>1 DEF Uploading, CommandsTypeOK, Transient
  <2>2. worker'.at \notin {"idle", "publish"} /\ worker'.code = "NONE"
    BY <1>1 DEF Begin
  <2>3. QED
    BY <2>1, <2>2 DEF StatusInv, StatusEndsIdle, Busy
<1>2. ASSUME NEW from \in {"resolve", "load"}, NEW to \in {"load", "connect"},
             Proceed(from, to)
      PROVE  StatusInv'
  BY <1>0, <1>2
  DEF Proceed, CommandsTypeOK, StatusInv, Uploading, StatusEndsIdle, Busy
<1>3. ASSUME NEW at \in {"resolve", "load", "connect"}, NEW code \in Code, Fail(at, code)
      PROVE  StatusInv'
  <2>1. /\ worker'.todo = Failed(worker.cmd, code) /\ worker'.code = code
        /\ worker'.cmd = worker.cmd /\ worker'.at = "publish"
    BY <1>0, <1>3 DEF Fail, CommandsTypeOK
  <2>2. worker.cmd \in Command /\ Uploading'
    BY <1>0, <1>3 DEF Fail, StatusInv, Uploading
  <2>3. IF worker.cmd.kind = "test" /\ code = "SSH_CONNECTION_FAILED"
        THEN \A i \in 1..Len(worker'.todo) : worker'.todo[i][1] # "status"
        ELSE worker'.todo[Len(worker'.todo)] = <<"status", "idle">>
    BY <2>1, <2>2, FailedFacts
  <2>4. QED
    BY <2>1, <2>2, <2>3 DEF StatusInv, StatusEndsIdle, Busy, NoSessionForTest
<1>4. CASE FailPath
  <2>1. /\ worker'.todo = << <<"status", "idle">> >> /\ worker'.at = "publish"
        /\ worker'.code = "NONE"
    BY <1>0, <1>4 DEF FailPath, CommandsTypeOK, StatusInv
  <2>2. worker'.todo[Len(worker'.todo)] = <<"status", "idle">>
    BY <2>1
  <2>3. QED
    BY <2>1, <2>2 DEF StatusInv, StatusEndsIdle, Busy, NoSessionForTest
<1>5. CASE SessionHangs
  BY <1>0, <1>5 DEF SessionHangs, Proceed, CommandsTypeOK, StatusInv, Uploading,
     StatusEndsIdle, Busy
<1>6. CASE Call
  BY <1>0, <1>6 DEF Call, Doorbell!Begin, CommandsTypeOK, StatusInv, Uploading,
     StatusEndsIdle, Busy
<1>7. CASE Returns
  <2>1. worker.cmd \in Command /\ Uploading' /\ worker.code = "NONE"
    BY <1>0, <1>7 DEF Returns, StatusInv, Uploading
  <2>2. outcome' # "NONE" => outcome' = "APPLY_FAILED"
    BY <1>7 DEF Returns, Doorbell!Succeed, Doorbell!FailEarly, Doorbell!FailLate,
       Doorbell!Abandon, Doorbell!Return
  <2>3. \/ worker'.at = "record" /\ worker'.code = "NONE"
        \/ /\ worker'.at = "publish" /\ worker'.todo = Result(worker.cmd)
           /\ worker'.code = "NONE"
        \/ /\ worker'.at = "publish" /\ worker'.code = "APPLY_FAILED"
           /\ worker'.todo = Failed(worker.cmd, "APPLY_FAILED")
    BY <1>0, <1>7, <2>1, <2>2 DEF Returns, Succeeds, CommandsTypeOK
  <2>4. Failed(worker.cmd, "APPLY_FAILED")[Len(Failed(worker.cmd, "APPLY_FAILED"))]
          = <<"status", "idle">>
    BY <2>1, FailedFacts DEF Code
  <2>5. \/ worker'.at = "record" /\ worker'.code = "NONE"
        \/ /\ worker'.at = "publish" /\ ~NoSessionForTest'
           /\ worker'.todo[Len(worker'.todo)] = <<"status", "idle">>
    BY <2>1, <2>3, <2>4, ResultFacts DEF NoSessionForTest
  <2>6. QED
    BY <2>1, <2>5 DEF StatusInv, StatusEndsIdle, Busy
<1>8. ASSUME NEW ok \in BOOLEAN, OpenRecord(ok)
      PROVE  StatusInv'
  <2>1. worker.cmd \in Command /\ worker.code = "NONE" /\ Uploading'
    BY <1>0, <1>8 DEF OpenRecord, StatusInv, Uploading
  <2>2. /\ worker'.code = "NONE"
        /\ \/ worker'.at = "write"
           \/ worker'.at = "publish" /\ worker'.todo = Result(worker.cmd)
    <3>1. CASE ok
      BY <1>0, <1>8, <2>1, <3>1 DEF OpenRecord, CommandsTypeOK
    <3>2. CASE ~ok
      BY <1>0, <1>8, <2>1, <3>2 DEF OpenRecord, CommandsTypeOK
    <3>3. QED
      BY <3>1, <3>2
  <2>3. QED
    BY <2>1, <2>2, ResultFacts DEF StatusInv, StatusEndsIdle, Busy, NoSessionForTest
<1>9. ASSUME NEW ok \in BOOLEAN, WriteRecord(ok)
      PROVE  StatusInv'
  <2>0. worker.at = "write"
    BY <1>9 DEF WriteRecord
  <2>1. worker.cmd \in Command /\ worker.code = "NONE"
    BY <1>0, <2>0 DEF StatusInv
  <2>2. /\ worker'.at = "publish" /\ worker'.todo = Result(worker.cmd)
        /\ worker'.code = "NONE"
    BY <1>0, <1>9, <2>1 DEF WriteRecord, CommandsTypeOK
  <2>3. QED
    BY <2>1, <2>2, ResultFacts DEF StatusInv, StatusEndsIdle, Busy, NoSessionForTest
<1>10. CASE WorkerPublish
  <2> DEFINE todo == worker.todo
             rest == Tail(worker.todo)
  <2>1. /\ worker'.todo = rest /\ worker'.cmd = worker.cmd
        /\ worker'.code = worker.code
        /\ worker'.at = IF Len(todo) = 1 THEN "idle" ELSE "publish"
        /\ Publish(todo[1][1], todo[1][2])
    BY <1>0, <1>10 DEF WorkerPublish, CommandsTypeOK
  <2>2. /\ Len(rest) = Len(todo) - 1 /\ Len(todo) \in Nat \ {0}
        /\ \A i \in 1..Len(rest) : rest[i] = todo[i + 1]
        /\ todo[1][1] \in Topic /\ todo[1][2] \in Value
    BY <1>0, <1>10 DEF WorkerPublish
  <2>3. /\ link = "up" => /\ topics' = [topics EXCEPT ![todo[1][1]] = todo[1][2]]
                          /\ missed' = missed \ {todo[1][1]}
        /\ link # "up" => /\ topics' = topics
                          /\ missed' = missed \cup ({todo[1][1]} \cap Transient)
    BY <1>0, <2>1, <2>2, PublishFacts
  <2>4. IF NoSessionForTest
        THEN Uploading /\ \A i \in 1..Len(todo) : todo[i][1] # "status"
        ELSE todo[Len(todo)] = <<"status", "idle">>
    BY <1>0, <1>10 DEF WorkerPublish, StatusInv
  <2>5. /\ NoSessionForTest' <=> NoSessionForTest
        /\ worker.cmd # NoCommand
    BY <1>0, <1>10, <2>1, CommandFacts DEF NoSessionForTest, NoCommand, WorkerPublish
  <2> HIDE DEF todo, rest
  <2>6. CASE NoSessionForTest
    <3>1. todo[1][1] # "status" /\ \A i \in 1..Len(rest) : rest[i][1] # "status"
      BY <2>2, <2>4, <2>6
    <3>2. Uploading'
      BY <1>0, <2>2, <2>3, <2>4, <2>6, <3>1
      DEF Uploading, Transient, CommandsTypeOK, Topic
    <3>3. worker'.cmd.kind = "test" /\ worker'.code = "SSH_CONNECTION_FAILED"
      BY <2>5, <2>6 DEF NoSessionForTest
    <3>4. StatusEndsIdle'
      BY <2>1, <2>5, <3>2, <3>3 DEF StatusEndsIdle, Uploading
    <3>5. QED
      BY <2>1, <2>5, <2>6, <3>1, <3>2, <3>4 DEF StatusInv
  <2>7. CASE Len(todo) # 1 /\ ~NoSessionForTest
    <3>1. rest[Len(rest)] = todo[Len(todo)]
      BY <2>2, <2>7
    <3>2. QED
      BY <2>1, <2>4, <2>5, <2>7, <3>1 DEF StatusInv, StatusEndsIdle, Busy
  <2>8. CASE Len(todo) = 1 /\ ~NoSessionForTest
    <3>1. todo[1][1] = "status" /\ todo[1][2] = "idle"
      BY <2>4, <2>8
    <3>2. "status" \in missed' \/ topics'["status"] = "idle"
      BY <1>0, <2>3, <3>1 DEF Transient, CommandsTypeOK, Topic
    <3>3. ~(worker'.cmd.kind = "test" /\ worker'.code = "SSH_CONNECTION_FAILED")
      BY <2>5, <2>8 DEF NoSessionForTest
    <3>4. QED
      BY <2>1, <2>5, <2>8, <3>2, <3>3 DEF StatusInv, StatusEndsIdle
  <2>9. QED
    BY <2>6, <2>7, <2>8
<1>11. CASE MainPublish
  <2>1. /\ main.todo[1][1] \in Topic \ Transient /\ main.todo[1][2] \in Value
        /\ Publish(main.todo[1][1], main.todo[1][2])
    BY <1>0, <1>11 DEF MainPublish
  <2>2. /\ topics'["status"] = topics["status"]
        /\ "status" \in missed' <=> "status" \in missed
    BY <1>0, <2>1, PublishFacts DEF CommandsTypeOK, Topic, Transient
  <2>3. UNCHANGED worker
    BY <1>11 DEF MainPublish
  <2>4. QED
    BY <1>0, <2>2, <2>3
    DEF StatusInv, StatusEndsIdle, Uploading, Busy, NoSessionForTest
<1>12. CASE Crash
  <2>1. /\ worker'.at = "idle" /\ worker'.cmd = worker.cmd /\ worker'.code = worker.code
        /\ UNCHANGED topics /\ missed \subseteq missed'
    BY <1>0, <1>12 DEF Crash, CommandsTypeOK
  <2>2. Busy => "status" \in missed'
    BY <1>12 DEF Crash, Unpublished, Transient
  <2>3. QED
    BY <1>0, <2>1, <2>2 DEF StatusInv, StatusEndsIdle, Busy
<1>13. CASE UNCHANGED <<worker, topics, missed>>
  BY <1>0, <1>13
  DEF StatusInv, StatusEndsIdle, Uploading, NoSessionForTest, Busy
<1>14. \/ UNCHANGED <<worker, topics, missed>>
      \/ (\E c \in Command : Begin(c)) \/ (\E from \in {"resolve", "load"},
         to \in {"load", "connect"} : Proceed(from, to))
         \/ (\E at \in {"resolve", "load", "connect"}, code \in Code : Fail(at,
            code)) \/ FailPath \/ SessionHangs \/ Call \/ Returns
            \/ (\E ok \in BOOLEAN : OpenRecord(ok))
            \/ (\E ok \in BOOLEAN : WriteRecord(ok)) \/ WorkerPublish
            \/ MainPublish \/ Crash
  BY DEF Next, WorkerStep, DoorbellStep, MainStep, NoSession, vars, Code,
     Applying, Doorbell!Send, Doorbell!Progress, Doorbell!Spoil, Doorbell!Hang,
        ScriptGoesOn, Reconnect, SetConnected, Load, LinkLost, Restart
<1>15. QED
  BY <1>1, <1>2, <1>3, <1>4, <1>5, <1>6, <1>7, <1>8, <1>9, <1>10, <1>11, <1>12,
     <1>13, <1>14

\* What the doorbell shows is what the file says, or is about to say, unless the
\* apply was cut short or spoiled; a test is not a profile with a name.
LEMMA BellStep ==
    ASSUME TestName \notin Name, PCInv, BellInv, [Next]_vars
    PROVE  BellInv'
<1> USE DEF bounds, bell, client
<1> USE StateFacts
<1>0. PCInv /\ CommandsTypeOK /\ PlaceInv /\ CallInv /\ BellInv
  BY DEF PCInv
<1>1. ASSUME NEW c \in Command, Begin(c)
      PROVE  BellInv'
  BY <1>0, <1>1 DEF Begin, Busy, CommandsTypeOK, PlaceInv, CallInv, BellInv
<1>2. ASSUME NEW from \in {"resolve", "load"}, NEW to \in {"load", "connect"},
             Proceed(from, to)
      PROVE  BellInv'
  BY <1>0, <1>2 DEF Proceed, CommandsTypeOK, PlaceInv, CallInv, BellInv
<1>3. ASSUME NEW at \in {"resolve", "load", "connect"}, NEW code \in Code, Fail(at, code)
      PROVE  BellInv'
  BY <1>0, <1>3 DEF Fail, CommandsTypeOK, PlaceInv, CallInv, BellInv
<1>4. CASE FailPath
  BY <1>0, <1>4 DEF FailPath, CommandsTypeOK, PlaceInv, CallInv, BellInv
<1>5. CASE SessionHangs
  BY <1>0, <1>5
  DEF SessionHangs, Proceed, Proceed, CommandsTypeOK, PlaceInv, CallInv, BellInv
<1>6. CASE Call
  BY <1>0, <1>6
  DEF Call, Doorbell!Begin, CommandsTypeOK, PlaceInv, CallInv, BellInv
<1>7. CASE Applying(Doorbell!Send)
  BY <1>0, <1>7
  DEF Applying, Doorbell!Send, CommandsTypeOK, PlaceInv, CallInv, BellInv
<1>8. CASE Applying(Doorbell!Progress)
  BY <1>0, <1>8
  DEF Applying, Doorbell!Progress, CommandsTypeOK, PlaceInv, CallInv, BellInv
<1>9. CASE Applying(Doorbell!Spoil)
  BY <1>0, <1>9
  DEF Applying, Doorbell!Spoil, CommandsTypeOK, PlaceInv, CallInv, BellInv
<1>10. CASE Applying(Doorbell!Hang)
  BY <1>0, <1>10
  DEF Applying, Doorbell!Hang, CommandsTypeOK, PlaceInv, CallInv, BellInv
<1>11. CASE Returns
  <2>0. /\ worker.at = "apply" /\ worker.cmd \in Command
        /\ worker'.cmd = worker.cmd /\ UNCHANGED file
    BY <1>0, <1>11 DEF Returns, CommandsTypeOK
  <2>1. CASE Doorbell!Succeed
    <3>1. /\ phase = "script" /\ phase' = "idle" /\ outcome' = "NONE"
          /\ late' = late /\ (spoiled' = spoiled \/ spoiled' = TRUE)
          /\ spoiled' \/ shows' = call
      BY <2>1 DEF Doorbell!Succeed, Doorbell!Return
    <3>2. /\ worker'.at = IF Records(worker.cmd) THEN "record" ELSE "publish"
          /\ cut' = (cut \/ spoiled')
      BY <1>0, <1>11, <3>1 DEF Returns, Succeeds, CommandsTypeOK
    <3>3. call = worker.cmd.name
      BY <1>0, <3>1 DEF CallInv
    <3>4. late => spoiled'
      <4>1. late => spoiled
        BY <1>0, <3>1 DEF BellInv
      <4>2. spoiled => spoiled'
        BY <3>1
      <4>3. QED
        BY <4>1, <4>2
    <3>5. CASE Records(worker.cmd)
      BY <1>0, <2>0, <3>1, <3>2, <3>3, <3>4, <3>5 DEF BellInv
    <3>6. CASE ~Records(worker.cmd)
      <4>1. worker.cmd.name = TestName
        BY <2>0, <3>6, CommandFacts DEF Records
      <4>2. spoiled' \/ shows' \notin Name
        BY <3>1, <3>3, <4>1
      <4>3. QED
        BY <1>0, <2>0, <3>1, <3>2, <3>4, <3>6, <4>2 DEF BellInv
    <3>7. QED
      BY <3>5, <3>6
  <2>2. CASE Doorbell!FailEarly
    <3>1. /\ phase = "uploading" /\ phase' = "idle" /\ outcome' = "APPLY_FAILED"
          /\ UNCHANGED <<shows, late>> /\ spoiled' = FALSE
      BY <2>2 DEF Doorbell!FailEarly, Doorbell!Return
    <3>2. worker'.at = "publish" /\ cut' = cut
      BY <1>0, <1>11, <3>1 DEF Returns, Succeeds, CommandsTypeOK, BellInv
    <3>3. QED
      BY <1>0, <2>0, <3>1, <3>2 DEF BellInv
  <2>3. CASE Doorbell!FailLate \/ Doorbell!Abandon("APPLY_FAILED")
    <3>1. /\ phase = "script" /\ phase' = "idle" /\ outcome' = "APPLY_FAILED"
          /\ late' \in {late, TRUE} /\ spoiled' = FALSE
      BY <1>0, <2>3 DEF Doorbell!FailLate, Doorbell!Abandon, Doorbell!Return, BellInv
    <3>2. worker'.at = "publish" /\ cut' = TRUE
      BY <1>0, <1>11, <3>1 DEF Returns, Succeeds, CommandsTypeOK
    <3>3. QED
      BY <1>0, <3>1, <3>2 DEF BellInv
  <2>4. QED
    BY <1>11, <2>1, <2>2, <2>3 DEF Returns
<1>12. CASE ScriptGoesOn
  BY <1>0, <1>12
  DEF ScriptGoesOn, Doorbell!GoesOn, CommandsTypeOK, PlaceInv, CallInv, BellInv
<1>13. ASSUME NEW ok \in BOOLEAN, OpenRecord(ok)
      PROVE  BellInv'
  BY <1>0, <1>13 DEF OpenRecord, CommandsTypeOK, PlaceInv, CallInv, BellInv
<1>14. ASSUME NEW ok \in BOOLEAN, WriteRecord(ok)
      PROVE  BellInv'
  BY <1>0, <1>14 DEF WriteRecord, CommandsTypeOK, PlaceInv, CallInv, BellInv
<1>15. CASE WorkerPublish
  BY <1>0, <1>15 DEF WorkerPublish, CommandsTypeOK, PlaceInv, CallInv, BellInv
<1>16. CASE Crash
  BY <1>0, <1>16 DEF Crash, Doorbell!Abandon, Doorbell!Return, CommandsTypeOK,
     PlaceInv, CallInv, BellInv
<1>17. CASE UNCHANGED <<worker, file, phase, call, shows, late, spoiled, cut>>
  BY <1>0, <1>17 DEF CommandsTypeOK, PlaceInv, CallInv, BellInv
<1>18. \/ UNCHANGED <<worker, file, phase, call, shows, late, spoiled, cut>>
      \/ (\E c \in Command : Begin(c)) \/ (\E from \in {"resolve", "load"},
         to \in {"load", "connect"} : Proceed(from, to))
         \/ (\E at \in {"resolve", "load", "connect"}, code \in Code : Fail(at,
            code)) \/ FailPath \/ SessionHangs \/ Call
            \/ Applying(Doorbell!Send) \/ Applying(Doorbell!Progress)
            \/ Applying(Doorbell!Spoil) \/ Applying(Doorbell!Hang)
            \/ Returns \/ ScriptGoesOn
            \/ (\E ok \in BOOLEAN : OpenRecord(ok))
            \/ (\E ok \in BOOLEAN : WriteRecord(ok)) \/ WorkerPublish \/ Crash
  BY DEF Next, WorkerStep, DoorbellStep, MainStep, NoSession, vars, Code,
     Reconnect, SetConnected, Load, MainPublish, LinkLost, Restart
<1>19. QED
  BY <1>1, <1>2, <1>3, <1>4, <1>5, <1>6, <1>7, <1>8, <1>9, <1>10, <1>11, <1>12,
     <1>13, <1>14, <1>15, <1>16, <1>17, <1>18

\* What a thread has yet to publish goes on agreeing with the record, as long as no
\* command overlaps a restore.
LEMMA OverlapStep ==
    ASSUME PCInv, [Next]_vars
    PROVE  OverlapInv'
<1> USE DEF bounds, bell, client
<1> USE StateFacts
<1>0. PCInv /\ CommandsTypeOK /\ PlaceInv /\ OverlapInv
  BY DEF PCInv
<1>1. ASSUME NEW c \in Command, Begin(c)
      PROVE  OverlapInv'
  <2>1. /\ Len(worker.todo) = 0 /\ Len(worker'.todo) = 0
        /\ UNCHANGED <<link, file, main>> /\ skewed' = (skewed \/ Restoring)
    BY <1>0, <1>1 DEF Begin, Busy, PlaceInv, CommandsTypeOK
  <2>2. \A t \in Topic \ Transient : topics'[t] = topics[t]
    BY <1>0, <1>1, PublishFacts DEF Begin, CommandsTypeOK, Transient
  <2>3. WillShow(worker.todo) => WillShow(worker.todo)'
    BY <2>1, <2>2, AgreesAtRest DEF WillShow
  <2>4. QED
    BY <1>0, <2>1, <2>3 DEF OverlapInv, Restoring
<1>2. ASSUME NEW from \in {"resolve", "load"}, NEW to \in {"load", "connect"},
             Proceed(from, to)
      PROVE  OverlapInv'
  <2>1. /\ Busy /\ worker'.todo = worker.todo
        /\ UNCHANGED <<topics, link, file, main, skewed>>
    BY <1>0, <1>2 DEF Proceed, Busy, CommandsTypeOK
  <2>2. QED
    BY <1>0, <2>1 DEF OverlapInv, WillShow, Restoring
<1>3. ASSUME NEW at \in {"resolve", "load", "connect"}, NEW code \in Code, Fail(at, code)
      PROVE  OverlapInv'
  <2>1. /\ Busy /\ Len(worker.todo) = 0 /\ worker'.todo = Failed(worker.cmd, code)
        /\ UNCHANGED <<topics, link, file, main, skewed>>
    BY <1>0, <1>3 DEF Fail, Busy, PlaceInv, CommandsTypeOK
  <2>2. worker.cmd \in Command
    BY <1>0, <2>1 DEF Busy
  <2>3. WillShow(worker.todo) => WillShow(worker.todo)'
    BY <2>1, <2>2, FailedFacts DEF WillShow
  <2>4. QED
    BY <1>0, <2>1, <2>3 DEF OverlapInv, Restoring
<1>4. CASE FailPath
  <2> DEFINE p == <<"status", "idle">>
  <2>1. /\ Busy /\ Len(worker.todo) = 0 /\ worker'.todo = << p >>
        /\ UNCHANGED <<topics, link, file, main, skewed>>
    BY <1>0, <1>4 DEF FailPath, Busy, PlaceInv, CommandsTypeOK
  <2>2. p \in Publication /\ p[1] \in Transient
    BY DEF Publication, Topic, Transient, Value
  <2> HIDE DEF p
  <2>3. << p >> \o << >> = << p >>
    BY <2>2, ConcatEmptySeq
  <2>4. \A r \in file : AgreesAfter(topics, worker.todo, r) => AgreesAfter(topics, << >>, r)
    BY <1>0, <2>1, AgreesAtRest
  <2>5. \A r \in file : AgreesAfter(topics, << >>, r) => AgreesAfter(topics, << p >>, r)
    BY <1>0, <2>2, <2>3, AgreesLater
  <2>6. WillShow(worker.todo) => WillShow(worker.todo)'
    BY <2>1, <2>4, <2>5 DEF WillShow
  <2>7. QED
    BY <1>0, <2>1, <2>6 DEF OverlapInv, Restoring
<1>5. CASE SessionHangs
  <2>1. /\ Busy /\ worker'.todo = worker.todo
        /\ UNCHANGED <<topics, link, file, main, skewed>>
    BY <1>0, <1>5 DEF SessionHangs, Proceed, Busy, CommandsTypeOK
  <2>2. QED
    BY <1>0, <2>1 DEF OverlapInv, WillShow, Restoring
<1>6. CASE Call
  <2>1. /\ Busy /\ worker'.todo = worker.todo
        /\ UNCHANGED <<topics, link, file, main, skewed>>
    BY <1>0, <1>6 DEF Call, Busy, CommandsTypeOK
  <2>2. QED
    BY <1>0, <2>1 DEF OverlapInv, WillShow, Restoring
<1>7. CASE Returns
  <2>1. /\ Busy /\ Len(worker.todo) = 0 /\ worker.cmd \in Command
        /\ UNCHANGED <<topics, link, file, main, skewed>>
    BY <1>0, <1>7 DEF Returns, Busy, PlaceInv, CommandsTypeOK
  <2>2. outcome' # "NONE" => outcome' \in Code
    BY <1>7 DEF Returns, Doorbell!Succeed, Doorbell!FailEarly, Doorbell!FailLate,
       Doorbell!Abandon, Doorbell!Return, Code
  <2>3. \/ worker'.todo = worker.todo
        \/ worker.cmd.kind = "test" /\ worker'.todo = Result(worker.cmd)
        \/ outcome' \in Code /\ worker'.todo = Failed(worker.cmd, outcome')
    BY <1>0, <1>7, <2>1, <2>2, CommandFacts DEF Returns, Succeeds, Records, CommandsTypeOK
  <2>4. CASE worker'.todo = worker.todo
    BY <1>0, <2>1, <2>4 DEF OverlapInv, WillShow, Restoring
  <2>5. CASE worker.cmd.kind = "test" /\ worker'.todo = Result(worker.cmd)
    <3>1. WillShow(worker.todo)'
      BY <2>1, <2>5, ResultAgrees DEF WillShow
    <3>2. QED
      BY <1>0, <2>1, <3>1 DEF OverlapInv, Restoring
  <2>6. CASE outcome' \in Code /\ worker'.todo = Failed(worker.cmd, outcome')
    <3>1. WillShow(worker.todo) => WillShow(worker.todo)'
      BY <2>1, <2>6, FailedFacts DEF WillShow
    <3>2. QED
      BY <1>0, <2>1, <3>1 DEF OverlapInv, Restoring
  <2>7. QED
    BY <2>3, <2>4, <2>5, <2>6
<1>8. ASSUME NEW ok \in BOOLEAN, OpenRecord(ok)
      PROVE  OverlapInv'
  <2>1. Busy /\ skewed' = (skewed \/ ~ok) /\ UNCHANGED <<link, main>>
    BY <1>8 DEF OpenRecord, Busy
  <2>2. ok => \A r : r \notin file'
    BY <1>8 DEF OpenRecord
  <2>3. QED
    BY <1>0, <2>1, <2>2 DEF OverlapInv, WillShow, Restoring
<1>9. ASSUME NEW ok \in BOOLEAN, WriteRecord(ok)
      PROVE  OverlapInv'
  <2>0. worker.at = "write"
    BY <1>9 DEF WriteRecord
  <2>1. /\ worker.cmd \in Command /\ worker'.todo = Result(worker.cmd)
        /\ skewed' = (~ok \/ Restoring) /\ UNCHANGED <<link, main, topics>>
    BY <1>0, <1>9, <2>0 DEF WriteRecord, CommandsTypeOK
  <2>2. \A r \in file' :
           r = [name |-> worker.cmd.name, preset |-> worker.cmd.kind = "preset"]
    BY <1>9 DEF WriteRecord
  <2>3. WillShow(worker.todo)'
    BY <2>1, <2>2, ResultAgrees DEF WillShow
  <2>4. QED
    BY <2>1, <2>3 DEF OverlapInv, Restoring
<1>10. CASE WorkerPublish
  <2>1. /\ Busy /\ worker'.todo = Tail(worker.todo)
        /\ Publish(Head(worker.todo)[1], Head(worker.todo)[2])
        /\ UNCHANGED <<link, file, main, skewed>>
    BY <1>0, <1>10 DEF WorkerPublish, Busy, CommandsTypeOK
  <2>2. Head(worker.todo)[1] \in Topic /\ Head(worker.todo)[2] \in Value
    BY <1>0, <1>10 DEF WorkerPublish
  <2>3. link = "up" =>
           topics' = [topics EXCEPT ![Head(worker.todo)[1]] = Head(worker.todo)[2]]
    BY <1>0, <2>1, <2>2, PublishFacts
  <2>4. worker.todo \in Seq(Publication) /\ Len(worker.todo) # 0
    BY <1>0, <1>10 DEF WorkerPublish, CommandsTypeOK
  <2>5. link = "up" /\ WillShow(worker.todo) => WillShow(worker.todo)'
    <3>1. \A r \in file : AgreesAfter(topics, worker.todo, r) =>
             AgreesAfter([topics EXCEPT ![Head(worker.todo)[1]] = Head(worker.todo)[2]],
                         Tail(worker.todo), r)
      BY <1>0, <2>4, AgreesPublished DEF CommandsTypeOK
    <3>2. QED
      BY <2>1, <2>3, <3>1 DEF WillShow
  <2>6. QED
    BY <1>0, <2>1, <2>5 DEF OverlapInv, Restoring
<1>11. CASE Reconnect \/ SetConnected
  <2>1. \/ main'.at = "flag"
        \/ main'.at = "load" /\ skewed' = Busy /\ UNCHANGED worker
    BY <1>0, <1>11 DEF Reconnect, SetConnected, OnConnect, CommandsTypeOK
  <2>2. QED
    BY <2>1 DEF OverlapInv, Busy, Restoring
<1>12. CASE Load
  <2>1. Restoring /\ UNCHANGED <<topics, link, file, worker, skewed>>
    BY <1>12 DEF Load, Restoring
  <2>2. ASSUME NEW r \in file, main' = [at |-> "publish", todo |-> Restored(r)]
        PROVE  OverlapInv'
    <3>1. \A s \in file : s = r /\ s \in Record
      BY <1>0 DEF PlaceInv, CommandsTypeOK
    <3>2. WillShow(main.todo)'
      BY <2>1, <2>2, <3>1, RestoredFacts DEF WillShow
    <3>3. main'.at = "publish"
      BY <2>2
    <3>4. QED
      BY <1>0, <2>1, <3>2, <3>3 DEF OverlapInv, Busy
  <2>3. ASSUME file = {}, main' = [at |-> "loop", todo |-> << >>]
        PROVE  OverlapInv'
    <3>1. main'.at = "loop" /\ \A r : r \notin file'
      BY <2>1, <2>3
    <3>2. QED
      BY <1>0, <2>1, <3>1 DEF OverlapInv, WillShow, Restoring
  <2>4. QED
    BY <1>12, <2>2, <2>3 DEF Load
<1>13. CASE MainPublish
  <2>1. /\ Restoring /\ main'.todo = Tail(main.todo)
        /\ main.at = "publish"
        /\ main'.at = IF Len(main.todo) = 1 THEN "loop" ELSE "publish"
        /\ Publish(Head(main.todo)[1], Head(main.todo)[2])
        /\ UNCHANGED <<link, file, worker, skewed>>
    BY <1>0, <1>13 DEF MainPublish, Restoring, CommandsTypeOK
  <2>2. Head(main.todo)[1] \in Topic /\ Head(main.todo)[2] \in Value
    BY <1>0, <2>1
  <2>3. link = "up" =>
           topics' = [topics EXCEPT ![Head(main.todo)[1]] = Head(main.todo)[2]]
    BY <1>0, <2>1, <2>2, PublishFacts
  <2>4. main.todo \in Seq(Publication) /\ Len(main.todo) # 0
    BY <1>0, <2>1 DEF CommandsTypeOK
  <2>5. link = "up" /\ WillShow(main.todo) => WillShow(main.todo)'
    <3>1. \A r \in file : AgreesAfter(topics, main.todo, r) =>
             AgreesAfter([topics EXCEPT ![Head(main.todo)[1]] = Head(main.todo)[2]],
                         Tail(main.todo), r)
      BY <1>0, <2>4, AgreesPublished DEF CommandsTypeOK
    <3>2. QED
      BY <2>1, <2>3, <3>1 DEF WillShow
  <2>6. ~Busy => Len(worker'.todo) = 0
    BY <1>0, <2>1 DEF PlaceInv, Busy
  <2>7. Len(main.todo) = 1 => Len(main'.todo) = 0
    BY <1>0, <2>1
  <2>8. ~Busy /\ Len(main.todo) = 1 /\ WillShow(main.todo)' => WillShow(worker.todo)'
    BY <2>6, <2>7, AgreesAtRest DEF WillShow
  <2>9. QED
    BY <1>0, <2>1, <2>5, <2>8 DEF OverlapInv, Busy
<1>14. CASE LinkLost
  <2>1. link' = "down" /\ UNCHANGED <<worker, main, skewed>>
    BY <1>14 DEF LinkLost
  <2>2. QED
    BY <1>0, <2>1 DEF OverlapInv, Restoring, Busy
<1>15. CASE Crash
  BY <1>0, <1>15 DEF Crash, OverlapInv
<1>16. CASE Restart
  <2>1. main'.at = "start"
    BY <1>0, <1>16 DEF Restart, CommandsTypeOK
  <2>2. QED
    BY <2>1 DEF OverlapInv, Restoring
<1>17. CASE UNCHANGED <<worker, main, link, topics, file, skewed>>
  BY <1>0, <1>17 DEF OverlapInv, WillShow, Restoring, Busy
<1>18. \/ UNCHANGED <<worker, main, link, topics, file, skewed>>
      \/ (\E c \in Command : Begin(c)) \/ (\E from \in {"resolve", "load"},
         to \in {"load", "connect"} : Proceed(from, to))
         \/ (\E at \in {"resolve", "load", "connect"}, code \in Code : Fail(at,
            code)) \/ FailPath \/ SessionHangs \/ Call \/ Returns
            \/ (\E ok \in BOOLEAN : OpenRecord(ok))
            \/ (\E ok \in BOOLEAN : WriteRecord(ok)) \/ WorkerPublish
            \/ Reconnect \/ SetConnected \/ Load \/ MainPublish \/ LinkLost
            \/ Crash \/ Restart
  BY DEF Next, WorkerStep, DoorbellStep, MainStep, NoSession, vars, Code,
     Applying, Doorbell!Send, Doorbell!Progress, Doorbell!Spoil, Doorbell!Hang,
        ScriptGoesOn
<1>19. QED
  BY <1>1, <1>2, <1>3, <1>4, <1>5, <1>6, <1>7, <1>8, <1>9, <1>10, <1>11, <1>12,
     <1>13, <1>14, <1>15, <1>16, <1>17, <1>18
-----------------------------------------------------------------------------
(* The results.                                                            *)

LEMMA InitPCInv == Init => PCInv /\ ("other" \notin Name => BellInv)
<1> SUFFICES ASSUME Init PROVE PCInv /\ ("other" \notin Name => BellInv)
  OBVIOUS
<1>1. Len(<< >>) = 0 /\ << >> \in Seq(Publication)
  BY EmptySeq
<1>2. topics \in [Topic -> Value]
  BY DEF Init, Topic, Value
<1>3. /\ worker.at = "idle" /\ worker.cmd = NoCommand /\ worker.todo = << >>
      /\ main.at = "start" /\ main.todo = << >>
      /\ phase = "idle" /\ late = FALSE /\ spoiled = FALSE /\ shows = "other"
      /\ failure = "unset" /\ topics["status"] = "unset"
      /\ topics["last_error"] = "unset" /\ cut = FALSE /\ skewed = FALSE
      /\ \A r : r \notin file
  BY DEF Init, Doorbell!Init
<1>4. CommandsTypeOK
  BY <1>1, <1>2 DEF Init, Doorbell!Init, CommandsTypeOK
<1>5. PlaceInv /\ CallInv /\ RecordInv
  BY <1>1, <1>3 DEF PlaceInv, CallInv, RecordInv, FileNamesApplied
<1>6. ErrorInv /\ StatusInv
  BY <1>1, <1>3 DEF ErrorInv, StatusInv, StatusEndsIdle
<1>7. OverlapInv
  BY <1>3 DEF OverlapInv, Restoring
<1>8. "other" \notin Name => BellInv
  BY <1>3 DEF BellInv
<1>9. QED
  BY <1>4, <1>5, <1>6, <1>7, <1>8 DEF PCInv

LEMMA PCInvHolds == Spec => []PCInv
<1>1. Init => PCInv
  BY InitPCInv
<1>2. PCInv /\ [Next]_vars => PCInv'
  BY CommandsTypeStep, PlaceStep, CallStep, RecordStep, ErrorStep, StatusStep,
     OverlapStep DEF PCInv
<1>3. QED
  BY <1>1, <1>2, PTL DEF Spec

\* Whatever crash or failed write cuts a handler short, last_applied.json names an
\* apply that returned ERROR_NONE, as the kind it was.
THEOREM RecordedWasApplied == Spec => []FileNamesApplied
  BY PCInvHolds, PTL DEF PCInv, RecordInv

\* At rest, last_error is the failure of the latest command that reported one, or
\* its publication was lost.
THEOREM LatestErrorIsShown == Spec => []MostRecentError
<1>1. PCInv => MostRecentError
  <2> SUFFICES ASSUME PCInv, worker.at = "idle", "last_error" \notin missed
               PROVE  topics["last_error"] = failure
    BY DEF MostRecentError, Busy
  <2>1. Len(worker.todo) = 0
    BY DEF PCInv, PlaceInv
  <2>2. QED
    BY <2>1 DEF PCInv, ErrorInv
<1>2. QED
  BY <1>1, PCInvHolds, PTL

\* At rest the status is what StatusEndsIdle says, unless its publication was lost:
\* idle after a success and after a failure alike, and uploading for ever after a
\* test that found no SSH session.
THEOREM StatusComesToIdle == Spec => []StatusEndsIdle
  BY PCInvHolds, PTL DEF PCInv, StatusInv

\* At rest with a session, what is shown agrees with last_applied.json, whatever
\* was lost with the link before, unless a command overlapped the last restore.
THEOREM ShownAgrees == Spec => []ShownIsRecorded
<1>1. PCInv => ShownIsRecorded
  <2> SUFFICES ASSUME PCInv, ~Busy, main.at = "loop", link = "up", ~skewed
               PROVE  ShowsRecord
    BY DEF ShownIsRecorded
  <2>1. Len(worker.todo) = 0 /\ WillShow(worker.todo)
    BY DEF PCInv, PlaceInv, OverlapInv, Busy
  <2>2. \A t, v : Leaves(topics, worker.todo, t, v) => topics[t] = v
    BY <2>1 DEF Leaves
  <2>3. QED
    BY <2>1, <2>2 DEF WillShow, AgreesAfter, ShowsRecord
<1>2. QED
  BY <1>1, PCInvHolds, PTL

\* At rest, a doorbell that shows a profile shows the recorded one, unless an apply
\* was cut short between the doorbell and the file; provided that no profile has
\* the name that command_test_config publishes, nor the one that stands for what
\* the doorbell shows when it shows none.
THEOREM RecordIsOnDoorbell ==
    ASSUME TestName \notin Name, "other" \notin Name
    PROVE  Spec => []DoorbellIsRecorded
<1>1. Init => PCInv /\ BellInv
  BY InitPCInv
<1>2. PCInv /\ BellInv /\ [Next]_vars => BellInv'
  BY BellStep
<1>3. PCInv /\ BellInv => DoorbellIsRecorded
  <2> SUFFICES ASSUME PCInv, BellInv, worker.at = "idle", ~cut, shows \in Name
               PROVE  \E r \in file : r.name = shows
    BY DEF DoorbellIsRecorded, Busy
  <2>1. phase = "idle"
    BY DEF PCInv, CallInv
  <2>2. QED
    BY <2>1 DEF BellInv
<1>4. QED
  BY <1>1, <1>2, <1>3, PCInvHolds, PTL DEF Spec
=============================================================================
