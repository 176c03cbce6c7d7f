--------------------------- MODULE SharedLogProofs ---------------------------
(***************************************************************************)
(* For any threads, runs and file size: the types of the logging set-up,   *)
(* and that only overlapping log_event calls lose or misplace a line.      *)
(* Then, for any caps and any number of writes and deaths of the process:  *)
(* that the rotating files of one writer (LogRotation) keep to their caps  *)
(* and hold the newest lines.                                              *)
(*                                                                         *)
(* The argument for SharedLog: a call that no other overlaps finds every   *)
(* other thread idle for as long as it lasts, so that its sink, of its     *)
(* run, stays the configured one and open until it has written; and a live *)
(* file is missing only while some thread is between archiving and         *)
(* reopening it.                                                           *)
(***************************************************************************)
EXTENDS SharedLog, LogRotation, FiniteSetTheorems, WellFoundedInduction,
        SequenceTheorems, TLAPS

Alone(t) == at[t] # "idle" /\ t \notin overlapped

Solo == \A t \in Threads : Alone(t) => \A u \in Threads \ {t} : at[u] = "idle"

\* The cache holds sinks of the run they are filed under.
CacheIsRight ==
  /\ \A r \in Runs : open_sinks[r] # NoSink => sinks[open_sinks[r]].run = r
  /\ \A t \in Threads : at[t] = "caching" => sinks[sink[t]].run = run[t]
  /\ \A t \in Threads : at[t] = "binding" => configured # NoSink

\* The live file of a sink is there, unless a thread is about to reopen it.
FileIsThere ==
  \A k \in DOMAIN sinks : live[sinks[k].run] = NoFile =>
    \E u \in Threads : at[u] = "reopening" /\ sinks[sink[u]].run = sinks[k].run

AloneIsSound ==
  \A t \in Threads : Alone(t) =>
    /\ sinks[sink[t]].run = run[t]
    /\ at[t] \in {"caching", "configuring", "binding", "writing", "appending"} =>
         sinks[sink[t]].open
    /\ at[t] = "binding" => configured = sink[t]

IInv == TypeOK /\ Solo /\ CacheIsRight /\ FileIsThere /\ AloneIsSound /\ OnlyRacesHurt

Sinks == [run : Runs, open : BOOLEAN, count : Nat]
Lives == Nat \cup {NoFile}

LEMMA Types ==
  ASSUME IInv
  PROVE  /\ sinks \in Seq(Sinks) /\ Len(sinks) \in Nat /\ DOMAIN sinks = 1 .. Len(sinks)
         /\ \A k \in 1 .. Len(sinks) : sinks[k] \in Sinks
         /\ open_sinks \in [Runs -> 0 .. Len(sinks)] /\ configured \in 0 .. Len(sinks)
         /\ run \in [Threads -> Runs] /\ sink \in [Threads -> 0 .. Len(sinks)]
         /\ at \in [Threads -> {"idle", "caching", "configuring", "binding", "writing",
                                "closing", "archiving", "reopening", "appending"}]
         /\ \A t \in Threads : at[t] # "idle" => sink[t] \in 1 .. Len(sinks)
         /\ files \in [Runs -> Seq([of : Runs, overlapped : BOOLEAN])]
         /\ live \in [Runs -> Lives] /\ calls \in 0 .. MaxEvents
         /\ overlapped \subseteq Threads /\ raised \subseteq Threads \X BOOLEAN
         /\ Solo /\ CacheIsRight /\ FileIsThere /\ AloneIsSound
         /\ RaisesOnlyInRace /\ OwnFileAlone
<1>1. sinks \in Seq(Sinks)
  BY DEF IInv, TypeOK, Sinks
<1>2. Len(sinks) \in Nat /\ DOMAIN sinks = 1 .. Len(sinks)
  BY <1>1
<1>3. \A k \in 1 .. Len(sinks) : sinks[k] \in Sinks
  BY <1>1
<1>4. /\ open_sinks \in [Runs -> 0 .. Len(sinks)] /\ configured \in 0 .. Len(sinks)
      /\ run \in [Threads -> Runs] /\ sink \in [Threads -> 0 .. Len(sinks)]
      /\ at \in [Threads -> {"idle", "caching", "configuring", "binding", "writing",
                             "closing", "archiving", "reopening", "appending"}]
      /\ files \in [Runs -> Seq([of : Runs, overlapped : BOOLEAN])]
      /\ live \in [Runs -> Lives] /\ calls \in 0 .. MaxEvents
      /\ overlapped \subseteq Threads /\ raised \subseteq Threads \X BOOLEAN
  BY Zenon DEF IInv, TypeOK, Lives
<1>5. \A t \in Threads : at[t] # "idle" => sink[t] \in 1 .. Len(sinks)
  <2>1. \A t \in Threads : at[t] # "idle" => sink[t] # 0
    BY Zenon DEF IInv, TypeOK, NoSink
  <2> QED
    BY <1>2, <1>4, <2>1
<1>6. /\ Solo /\ CacheIsRight /\ FileIsThere /\ AloneIsSound
      /\ RaisesOnlyInRace /\ OwnFileAlone
  BY Zenon DEF IInv, OnlyRacesHurt
<1> QED
  BY <1>1, <1>2, <1>3, <1>4, <1>5, <1>6, Zenon

\* The types of a step, one variable after the other.
LEMMA TypesOfStep ==
  ASSUME IInv, NEW t \in Threads,
         at' \in [Threads -> {"idle", "caching", "configuring", "binding", "writing",
                              "closing", "archiving", "reopening", "appending"}],
         sinks' \in Seq(Sinks), sink'[t] # NoSink,
         \A u \in Threads \ {t} : at'[u] = at[u] /\ sink'[u] = sink[u],
         open_sinks' \in [Runs -> 0 .. Len(sinks')], configured' \in 0 .. Len(sinks'),
         run' \in [Threads -> Runs], sink' \in [Threads -> 0 .. Len(sinks')],
         files' \in [Runs -> Seq([of : Runs, overlapped : BOOLEAN])],
         live' \in [Runs -> Lives], calls' \in 0 .. MaxEvents,
         overlapped' \subseteq Threads, raised' \subseteq Threads \X BOOLEAN
  PROVE  TypeOK'
<1>1. \A u \in Threads : at'[u] # "idle" => sink'[u] # NoSink
  <2>1. \A u \in Threads \ {t} : at'[u] = at[u] /\ (at[u] # "idle" => sink[u] # NoSink)
    BY Types DEF NoSink
  <2> QED
    BY <2>1, Zenon
<1> QED
  BY <1>1, Zenon DEF TypeOK, Sinks, Lives

\* Steps that change a sink but not its run.
LEMMA CacheStaysRight ==
  ASSUME IInv, NEW t \in Threads, Len(sinks') = Len(sinks),
         \A k \in 1 .. Len(sinks) : sinks'[k].run = sinks[k].run,
         at'[t] \notin {"caching", "binding"},
         \A u \in Threads \ {t} : at'[u] = at[u],
         UNCHANGED <<open_sinks, configured, run, sink>>
  PROVE  CacheIsRight'
<1>1. ASSUME NEW r \in Runs, open_sinks[r] # NoSink PROVE sinks'[open_sinks[r]].run = r
  <2>1. open_sinks[r] \in 1 .. Len(sinks) /\ sinks[open_sinks[r]].run = r
    BY <1>1, Types DEF CacheIsRight, NoSink
  <2> QED
    BY <2>1
<1>2. ASSUME NEW u \in Threads, at'[u] = "caching" PROVE sinks'[sink[u]].run = run[u]
  <2>1. at[u] = "caching" /\ sink[u] \in 1 .. Len(sinks) /\ sinks[sink[u]].run = run[u]
    BY <1>2, Types DEF CacheIsRight
  <2> QED
    BY <2>1
<1>3. ASSUME NEW u \in Threads, at'[u] = "binding" PROVE configured # NoSink
  BY <1>3, Types DEF CacheIsRight
<1> QED
  BY <1>1, <1>2, <1>3 DEF CacheIsRight

LEMMA FileStaysThere ==
  ASSUME IInv, NEW t \in Threads, DOMAIN sinks' = DOMAIN sinks,
         \A k \in 1 .. Len(sinks) : sinks'[k].run = sinks[k].run,
         \A u \in Threads \ {t} : at'[u] = at[u], UNCHANGED sink,
         at[t] # "idle", \A r \in Runs : live'[r] = NoFile => live[r] = NoFile,
         at[t] = "reopening" => live'[sinks[sink[t]].run] # NoFile
  PROVE  FileIsThere'
<1> SUFFICES ASSUME NEW k \in 1 .. Len(sinks), live'[sinks'[k].run] = NoFile
             PROVE  \E u \in Threads : at'[u] = "reopening" /\ sinks'[sink'[u]].run = sinks'[k].run
  BY Types DEF FileIsThere
<1>1. sinks'[k].run = sinks[k].run /\ sinks[k].run \in Runs
  BY Types DEF Sinks
<1>2. live[sinks[k].run] = NoFile
  BY <1>1
<1>3. PICK u \in Threads : at[u] = "reopening" /\ sinks[sink[u]].run = sinks[k].run
  BY <1>2, Types DEF FileIsThere
<1>4. u # t
  BY <1>1, <1>3
<1>5. sink[u] \in 1 .. Len(sinks)
  BY <1>3, Types
<1> QED
  BY <1>1, <1>3, <1>4, <1>5

\* While a thread is in a call, no other thread is alone in one.
LEMMA OnlyOneAlone ==
  ASSUME IInv, NEW t \in Threads, at[t] # "idle"
  PROVE  \A u \in Threads \ {t} : ~Alone(u)
  BY Types DEF Solo, Alone

\* A call that begins is overlapped by the calls it meets, and overlaps them.
LEMMA BeginningOverlaps ==
  ASSUME IInv, NEW t \in Threads, at[t] = "idle", Begins(t),
         NEW where \in {"caching", "configuring"}, Moves(t, where)
  PROVE  /\ overlapped' \subseteq Threads /\ calls' \in 0 .. MaxEvents
         /\ \A u \in Threads \ {t} : ~Alone(u)'
         /\ Solo'
<1> DEFINE others == {u \in Threads : at[u] # "idle"}
<1>1. /\ overlapped' = IF others = {} THEN overlapped \ {t} ELSE overlapped \cup others \cup {t}
      /\ at' = [at EXCEPT ![t] = where]
  BY DEF Begins, Moves
<1>2. overlapped' \subseteq Threads
  BY <1>1, Types
<1>3. calls' \in 0 .. MaxEvents
  BY Types, SharedLogAssumption DEF Begins
<1>4. \A u \in Threads \ {t} : at'[u] = at[u]
  BY <1>1, Types
<1>5. \A u \in Threads \ {t} : ~Alone(u)'
  BY <1>1, <1>4 DEF Alone
<1>6. Solo'
  BY <1>1, <1>4, <1>5 DEF Solo, Alone
<1> QED
  BY <1>2, <1>3, <1>5, <1>6

LEMMA CacheKeeps == ASSUME IInv, NEW t \in Threads, Cache(t) PROVE IInv'
<1>1. /\ at' = [at EXCEPT ![t] = "configuring"] /\ at[t] # "idle" /\ sink[t] \in 1 .. Len(sinks)
      /\ UNCHANGED <<sinks, configured, run, sink, files, live, overlapped, raised, calls>>
  BY Types DEF Cache, Moves, Same
<1>2. /\ at'[t] = "configuring"
      /\ \A u \in Threads \ {t} : at'[u] = at[u] /\ ~Alone(u) /\ ~Alone(u)'
  BY <1>1, Types, OnlyOneAlone DEF Alone
<1>3. open_sinks' = [open_sinks EXCEPT ![run[t]] = sink[t]] /\ at[t] = "caching"
  BY DEF Cache
<1>4. TypeOK'
  <2>1. /\ sinks' \in Seq(Sinks) /\ Len(sinks') = Len(sinks)
        /\ open_sinks' \in [Runs -> 0 .. Len(sinks)] /\ configured' \in 0 .. Len(sinks)
        /\ run' \in [Threads -> Runs] /\ sink' \in [Threads -> 0 .. Len(sinks)]
    BY <1>1, <1>3, Types
  <2>2. /\ files' \in [Runs -> Seq([of : Runs, overlapped : BOOLEAN])]
        /\ live' \in [Runs -> Lives] /\ calls' \in 0 .. MaxEvents
    BY <1>1, <1>3, Types
  <2>3. overlapped' \subseteq Threads /\ raised' \subseteq Threads \X BOOLEAN
    BY <1>1, <1>3, Types, Zenon
  <2>4. /\ sink'[t] # NoSink /\ \A u \in Threads \ {t} : at'[u] = at[u] /\ sink'[u] = sink[u]
        /\ at' \in [Threads -> {"idle", "caching", "configuring", "binding", "writing",
                               "closing", "archiving", "reopening", "appending"}]
    BY <1>1, <1>3, Types DEF NoSink
  <2> QED
    BY <2>1, <2>2, <2>3, <2>4, TypesOfStep
<1>5. Solo'
  BY <1>1, <1>2, Types DEF Solo, Alone
<1>6. CacheIsRight'
  BY <1>1, <1>2, <1>3, Types DEF CacheIsRight, NoSink
<1>7. FileIsThere'
  BY <1>1, <1>2, Types DEF FileIsThere, Cache
<1>8. AloneIsSound'
  BY <1>1, <1>2, Types DEF AloneIsSound, Alone, Cache
<1>9. OnlyRacesHurt'
  BY <1>1, Types DEF OnlyRacesHurt, RaisesOnlyInRace, OwnFileAlone
<1> QED
  BY <1>4, <1>5, <1>6, <1>7, <1>8, <1>9 DEF IInv

LEMMA ConfigureKeeps == ASSUME IInv, NEW t \in Threads, Configure(t) PROVE IInv'
<1>1. /\ at' = [at EXCEPT ![t] = "binding"] /\ at[t] # "idle" /\ sink[t] \in 1 .. Len(sinks)
      /\ UNCHANGED <<sinks, open_sinks, run, sink, files, live, overlapped, raised, calls>>
  BY Types DEF Configure, Moves, Same
<1>2. /\ at'[t] = "binding"
      /\ \A u \in Threads \ {t} : at'[u] = at[u] /\ ~Alone(u) /\ ~Alone(u)'
  BY <1>1, Types, OnlyOneAlone DEF Alone
<1>3. configured' = sink[t] /\ at[t] = "configuring"
  BY DEF Configure, SinkToUse
<1>4. TypeOK'
  <2>1. /\ sinks' \in Seq(Sinks) /\ Len(sinks') = Len(sinks)
        /\ open_sinks' \in [Runs -> 0 .. Len(sinks)] /\ configured' \in 0 .. Len(sinks)
        /\ run' \in [Threads -> Runs] /\ sink' \in [Threads -> 0 .. Len(sinks)]
    BY <1>1, <1>3, Types
  <2>2. /\ files' \in [Runs -> Seq([of : Runs, overlapped : BOOLEAN])]
        /\ live' \in [Runs -> Lives] /\ calls' \in 0 .. MaxEvents
    BY <1>1, <1>3, Types
  <2>3. overlapped' \subseteq Threads /\ raised' \subseteq Threads \X BOOLEAN
    BY <1>1, <1>3, Types, Zenon
  <2>4. /\ sink'[t] # NoSink /\ \A u \in Threads \ {t} : at'[u] = at[u] /\ sink'[u] = sink[u]
        /\ at' \in [Threads -> {"idle", "caching", "configuring", "binding", "writing",
                               "closing", "archiving", "reopening", "appending"}]
    BY <1>1, <1>3, Types DEF NoSink
  <2> QED
    BY <2>1, <2>2, <2>3, <2>4, TypesOfStep
<1>5. Solo'
  BY <1>1, <1>2, Types DEF Solo, Alone
<1>6. CacheIsRight'
  BY <1>1, <1>2, <1>3, Types DEF CacheIsRight, NoSink
<1>7. FileIsThere'
  BY <1>1, <1>2, <1>3, Types DEF FileIsThere
<1>8. AloneIsSound'
  BY <1>1, <1>2, <1>3, Types DEF AloneIsSound, Alone
<1>9. OnlyRacesHurt'
  BY <1>1, Types DEF OnlyRacesHurt, RaisesOnlyInRace, OwnFileAlone
<1> QED
  BY <1>4, <1>5, <1>6, <1>7, <1>8, <1>9 DEF IInv

LEMMA BindKeeps == ASSUME IInv, NEW t \in Threads, Bind(t) PROVE IInv'
<1>1. /\ at' = [at EXCEPT ![t] = "writing"] /\ at[t] # "idle" /\ sink[t] \in 1 .. Len(sinks)
      /\ UNCHANGED <<sinks, open_sinks, configured, run, files, live, overlapped, raised, calls>>
  BY Types DEF Bind, Moves, Same
<1>2. /\ at'[t] = "writing"
      /\ \A u \in Threads \ {t} : at'[u] = at[u] /\ ~Alone(u) /\ ~Alone(u)'
  BY <1>1, Types, OnlyOneAlone DEF Alone
<1>3. /\ sink' = [sink EXCEPT ![t] = configured] /\ at[t] = "binding"
      /\ configured \in 1 .. Len(sinks)
  BY Types DEF Bind, Holds, CacheIsRight, NoSink
<1>4. TypeOK'
  <2>1. /\ sinks' \in Seq(Sinks) /\ Len(sinks') = Len(sinks)
        /\ open_sinks' \in [Runs -> 0 .. Len(sinks)] /\ configured' \in 0 .. Len(sinks)
        /\ run' \in [Threads -> Runs] /\ sink' \in [Threads -> 0 .. Len(sinks)]
    BY <1>1, <1>3, Types
  <2>2. /\ files' \in [Runs -> Seq([of : Runs, overlapped : BOOLEAN])]
        /\ live' \in [Runs -> Lives] /\ calls' \in 0 .. MaxEvents
    BY <1>1, <1>3, Types
  <2>3. overlapped' \subseteq Threads /\ raised' \subseteq Threads \X BOOLEAN
    BY <1>1, <1>3, Types, Zenon
  <2>4. /\ sink'[t] # NoSink /\ \A u \in Threads \ {t} : at'[u] = at[u] /\ sink'[u] = sink[u]
        /\ at' \in [Threads -> {"idle", "caching", "configuring", "binding", "writing",
                               "closing", "archiving", "reopening", "appending"}]
    BY <1>1, <1>3, Types DEF NoSink
  <2> QED
    BY <2>1, <2>2, <2>3, <2>4, TypesOfStep
<1>5. Solo'
  BY <1>1, <1>2, Types DEF Solo, Alone
<1>6. CacheIsRight'
  BY <1>1, <1>2, <1>3, Types DEF CacheIsRight
<1>7. FileIsThere'
  BY <1>1, <1>2, <1>3, Types DEF FileIsThere
<1>8. AloneIsSound'
  BY <1>1, <1>2, <1>3, Types DEF AloneIsSound, Alone
<1>9. OnlyRacesHurt'
  BY <1>1, Types DEF OnlyRacesHurt, RaisesOnlyInRace, OwnFileAlone
<1> QED
  BY <1>4, <1>5, <1>6, <1>7, <1>8, <1>9 DEF IInv

LEMMA FindFullKeeps == ASSUME IInv, NEW t \in Threads, FindFull(t) PROVE IInv'
<1>1. /\ at' = [at EXCEPT ![t] = "closing"] /\ at[t] # "idle" /\ sink[t] \in 1 .. Len(sinks)
      /\ UNCHANGED <<sinks, open_sinks, configured, run, sink, files, live, overlapped, raised, calls>>
  BY Types DEF FindFull, Moves, Same
<1>2. /\ at'[t] = "closing"
      /\ \A u \in Threads \ {t} : at'[u] = at[u] /\ ~Alone(u) /\ ~Alone(u)'
  BY <1>1, Types, OnlyOneAlone DEF Alone
<1>3. at[t] = "writing"
  BY DEF FindFull
<1>4. TypeOK'
  <2>1. /\ sinks' \in Seq(Sinks) /\ Len(sinks') = Len(sinks)
        /\ open_sinks' \in [Runs -> 0 .. Len(sinks)] /\ configured' \in 0 .. Len(sinks)
        /\ run' \in [Threads -> Runs] /\ sink' \in [Threads -> 0 .. Len(sinks)]
    BY <1>1, Types
  <2>2. /\ files' \in [Runs -> Seq([of : Runs, overlapped : BOOLEAN])]
        /\ live' \in [Runs -> Lives] /\ calls' \in 0 .. MaxEvents
    BY <1>1, Types
  <2>3. overlapped' \subseteq Threads /\ raised' \subseteq Threads \X BOOLEAN
    BY <1>1, Types, Zenon
  <2>4. /\ sink'[t] # NoSink /\ \A u \in Threads \ {t} : at'[u] = at[u] /\ sink'[u] = sink[u]
        /\ at' \in [Threads -> {"idle", "caching", "configuring", "binding", "writing",
                               "closing", "archiving", "reopening", "appending"}]
    BY <1>1, Types DEF NoSink
  <2> QED
    BY <2>1, <2>2, <2>3, <2>4, TypesOfStep
<1>5. Solo'
  BY <1>1, <1>2, Types DEF Solo, Alone
<1>6. CacheIsRight'
  BY <1>1, <1>2, Types DEF CacheIsRight
<1>7. FileIsThere'
  BY <1>1, <1>2, <1>3, Types DEF FileIsThere
<1>8. AloneIsSound'
  BY <1>1, <1>2, <1>3, Types DEF AloneIsSound, Alone
<1>9. OnlyRacesHurt'
  BY <1>1, Types DEF OnlyRacesHurt, RaisesOnlyInRace, OwnFileAlone
<1> QED
  BY <1>4, <1>5, <1>6, <1>7, <1>8, <1>9 DEF IInv

LEMMA HasRoomKeeps == ASSUME IInv, NEW t \in Threads, HasRoom(t) PROVE IInv'
<1>1. /\ at' = [at EXCEPT ![t] = "appending"] /\ at[t] # "idle" /\ sink[t] \in 1 .. Len(sinks)
      /\ UNCHANGED <<sinks, open_sinks, configured, run, sink, files, live, overlapped, raised, calls>>
  BY Types DEF HasRoom, Moves, Same
<1>2. /\ at'[t] = "appending"
      /\ \A u \in Threads \ {t} : at'[u] = at[u] /\ ~Alone(u) /\ ~Alone(u)'
  BY <1>1, Types, OnlyOneAlone DEF Alone
<1>3. at[t] = "writing"
  BY DEF HasRoom
<1>4. TypeOK'
  <2>1. /\ sinks' \in Seq(Sinks) /\ Len(sinks') = Len(sinks)
        /\ open_sinks' \in [Runs -> 0 .. Len(sinks)] /\ configured' \in 0 .. Len(sinks)
        /\ run' \in [Threads -> Runs] /\ sink' \in [Threads -> 0 .. Len(sinks)]
    BY <1>1, Types
  <2>2. /\ files' \in [Runs -> Seq([of : Runs, overlapped : BOOLEAN])]
        /\ live' \in [Runs -> Lives] /\ calls' \in 0 .. MaxEvents
    BY <1>1, Types
  <2>3. overlapped' \subseteq Threads /\ raised' \subseteq Threads \X BOOLEAN
    BY <1>1, Types, Zenon
  <2>4. /\ sink'[t] # NoSink /\ \A u \in Threads \ {t} : at'[u] = at[u] /\ sink'[u] = sink[u]
        /\ at' \in [Threads -> {"idle", "caching", "configuring", "binding", "writing",
                               "closing", "archiving", "reopening", "appending"}]
    BY <1>1, Types DEF NoSink
  <2> QED
    BY <2>1, <2>2, <2>3, <2>4, TypesOfStep
<1>5. Solo'
  BY <1>1, <1>2, Types DEF Solo, Alone
<1>6. CacheIsRight'
  BY <1>1, <1>2, Types DEF CacheIsRight
<1>7. FileIsThere'
  BY <1>1, <1>2, <1>3, Types DEF FileIsThere
<1>8. AloneIsSound'
  BY <1>1, <1>2, <1>3, Types DEF AloneIsSound, Alone
<1>9. OnlyRacesHurt'
  BY <1>1, Types DEF OnlyRacesHurt, RaisesOnlyInRace, OwnFileAlone
<1> QED
  BY <1>4, <1>5, <1>6, <1>7, <1>8, <1>9 DEF IInv

LEMMA CloseKeeps == ASSUME IInv, NEW t \in Threads, Close(t) PROVE IInv'
<1>1. /\ at' = [at EXCEPT ![t] = "archiving"] /\ at[t] # "idle" /\ sink[t] \in 1 .. Len(sinks)
      /\ UNCHANGED <<open_sinks, configured, run, sink, files, live, overlapped, raised, calls>>
  BY Types DEF Close, Moves, Same
<1>2. /\ at'[t] = "archiving"
      /\ \A u \in Threads \ {t} : at'[u] = at[u] /\ ~Alone(u) /\ ~Alone(u)'
  BY <1>1, Types, OnlyOneAlone DEF Alone
<1>3. /\ sinks' = [sinks EXCEPT ![sink[t]].open = FALSE] /\ at[t] = "closing"
      /\ sinks' \in Seq(Sinks) /\ Len(sinks') = Len(sinks) /\ DOMAIN sinks' = DOMAIN sinks
      /\ \A k \in 1 .. Len(sinks) : sinks'[k].run = sinks[k].run
  <2>1. sinks' = [sinks EXCEPT ![sink[t]] = [sinks[sink[t]] EXCEPT !.open = FALSE]]
        /\ at[t] = "closing"
    BY DEF Close
  <2>2. [sinks[sink[t]] EXCEPT !.open = FALSE] \in Sinks
    BY <1>1, Types DEF Sinks
  <2> QED
    BY <1>1, <2>1, <2>2, Types DEF Close
<1>4. TypeOK'
  <2>1. /\ sinks' \in Seq(Sinks) /\ Len(sinks') = Len(sinks)
        /\ open_sinks' \in [Runs -> 0 .. Len(sinks)] /\ configured' \in 0 .. Len(sinks)
        /\ run' \in [Threads -> Runs] /\ sink' \in [Threads -> 0 .. Len(sinks)]
    BY <1>1, <1>3, Types
  <2>2. /\ files' \in [Runs -> Seq([of : Runs, overlapped : BOOLEAN])]
        /\ live' \in [Runs -> Lives] /\ calls' \in 0 .. MaxEvents
    BY <1>1, <1>3, Types
  <2>3. overlapped' \subseteq Threads /\ raised' \subseteq Threads \X BOOLEAN
    BY <1>1, <1>3, Types, Zenon
  <2>4. /\ sink'[t] # NoSink /\ \A u \in Threads \ {t} : at'[u] = at[u] /\ sink'[u] = sink[u]
        /\ at' \in [Threads -> {"idle", "caching", "configuring", "binding", "writing",
                               "closing", "archiving", "reopening", "appending"}]
    BY <1>1, <1>3, Types DEF NoSink
  <2> QED
    BY <2>1, <2>2, <2>3, <2>4, TypesOfStep
<1>5. Solo'
  BY <1>1, <1>2, Types DEF Solo, Alone
<1>6. CacheIsRight'
  BY <1>1, <1>2, <1>3, Types, CacheStaysRight
<1>7. FileIsThere'
  BY <1>1, <1>2, <1>3, Types, FileStaysThere
<1>8. AloneIsSound'
  BY <1>1, <1>2, <1>3, Types DEF AloneIsSound, Alone
<1>9. OnlyRacesHurt'
  BY <1>1, Types DEF OnlyRacesHurt, RaisesOnlyInRace, OwnFileAlone
<1> QED
  BY <1>4, <1>5, <1>6, <1>7, <1>8, <1>9 DEF IInv

LEMMA ArchiveKeeps == ASSUME IInv, NEW t \in Threads, Archive(t) PROVE IInv'
<1>1. /\ at' = [at EXCEPT ![t] = "reopening"] /\ at[t] # "idle" /\ sink[t] \in 1 .. Len(sinks)
      /\ UNCHANGED <<sinks, open_sinks, configured, run, sink, files, overlapped, raised, calls>>
  BY Types DEF Archive, Moves, Same
<1>2. /\ at'[t] = "reopening"
      /\ \A u \in Threads \ {t} : at'[u] = at[u] /\ ~Alone(u) /\ ~Alone(u)'
  BY <1>1, Types, OnlyOneAlone DEF Alone
<1>3. live' = [live EXCEPT ![sinks[sink[t]].run] = NoFile] /\ at[t] = "archiving"
  BY DEF Archive, Sink
<1>a. live' \in [Runs -> Lives]
  BY <1>3, Types DEF Lives
<1>4. TypeOK'
  <2>1. /\ sinks' \in Seq(Sinks) /\ Len(sinks') = Len(sinks)
        /\ open_sinks' \in [Runs -> 0 .. Len(sinks)] /\ configured' \in 0 .. Len(sinks)
        /\ run' \in [Threads -> Runs] /\ sink' \in [Threads -> 0 .. Len(sinks)]
    BY <1>1, <1>3, <1>a, Types
  <2>2. /\ files' \in [Runs -> Seq([of : Runs, overlapped : BOOLEAN])]
        /\ live' \in [Runs -> Lives] /\ calls' \in 0 .. MaxEvents
    BY <1>1, <1>3, <1>a, Types
  <2>3. overlapped' \subseteq Threads /\ raised' \subseteq Threads \X BOOLEAN
    BY <1>1, <1>3, <1>a, Types, Zenon
  <2>4. /\ sink'[t] # NoSink /\ \A u \in Threads \ {t} : at'[u] = at[u] /\ sink'[u] = sink[u]
        /\ at' \in [Threads -> {"idle", "caching", "configuring", "binding", "writing",
                               "closing", "archiving", "reopening", "appending"}]
    BY <1>1, <1>3, <1>a, Types DEF NoSink
  <2> QED
    BY <2>1, <2>2, <2>3, <2>4, TypesOfStep
<1>5. Solo'
  BY <1>1, <1>2, Types DEF Solo, Alone
<1>6. CacheIsRight'
  BY <1>1, <1>2, <1>3, Types DEF CacheIsRight
<1>7. FileIsThere'
  BY <1>1, <1>2, <1>3, Types DEF FileIsThere
<1>8. AloneIsSound'
  BY <1>1, <1>2, <1>3, Types DEF AloneIsSound, Alone
<1>9. OnlyRacesHurt'
  BY <1>1, Types DEF OnlyRacesHurt, RaisesOnlyInRace, OwnFileAlone
<1> QED
  BY <1>4, <1>5, <1>6, <1>7, <1>8, <1>9 DEF IInv

LEMMA ReopenKeeps == ASSUME IInv, NEW t \in Threads, Reopen(t) PROVE IInv'
<1>1. /\ at' = [at EXCEPT ![t] = "appending"] /\ at[t] # "idle" /\ sink[t] \in 1 .. Len(sinks)
      /\ UNCHANGED <<open_sinks, configured, run, sink, files, overlapped, raised, calls>>
  BY Types DEF Reopen, Moves, Same
<1>2. /\ at'[t] = "appending"
      /\ \A u \in Threads \ {t} : at'[u] = at[u] /\ ~Alone(u) /\ ~Alone(u)'
  BY <1>1, Types, OnlyOneAlone DEF Alone
<1>3. /\ at[t] = "reopening"
      /\ sinks' \in Seq(Sinks) /\ Len(sinks') = Len(sinks) /\ DOMAIN sinks' = DOMAIN sinks
      /\ \A k \in 1 .. Len(sinks) : sinks'[k].run = sinks[k].run
      /\ sinks'[sink[t]].open = TRUE
  <2>1. sinks' = [sinks EXCEPT ![sink[t]] = [sinks[sink[t]] EXCEPT !.open = TRUE, !.count = 0]]
        /\ at[t] = "reopening"
    BY <1>1, Types DEF Reopen, Sinks
  <2>2. [sinks[sink[t]] EXCEPT !.open = TRUE, !.count = 0] \in Sinks
    BY <1>1, Types DEF Sinks
  <2> QED
    BY <1>1, <2>1, <2>2, Types DEF Sinks
<1>a. /\ live' = [live EXCEPT ![sinks[sink[t]].run] = Lines(sinks[sink[t]].run)]
      /\ live' \in [Runs -> Lives] /\ live'[sinks[sink[t]].run] # NoFile
  <2>1. sinks[sink[t]].run \in Runs
    BY <1>1, Types DEF Sinks
  <2> QED
    BY <2>1, Types DEF Reopen, Sink, Lines, Lives, NoFile
<1>4. TypeOK'
  <2>1. /\ sinks' \in Seq(Sinks) /\ Len(sinks') = Len(sinks)
        /\ open_sinks' \in [Runs -> 0 .. Len(sinks)] /\ configured' \in 0 .. Len(sinks)
        /\ run' \in [Threads -> Runs] /\ sink' \in [Threads -> 0 .. Len(sinks)]
    BY <1>1, <1>3, <1>a, Types
  <2>2. /\ files' \in [Runs -> Seq([of : Runs, overlapped : BOOLEAN])]
        /\ live' \in [Runs -> Lives] /\ calls' \in 0 .. MaxEvents
    BY <1>1, <1>3, <1>a, Types
  <2>3. overlapped' \subseteq Threads /\ raised' \subseteq Threads \X BOOLEAN
    BY <1>1, <1>3, <1>a, Types, Zenon
  <2>4. /\ sink'[t] # NoSink /\ \A u \in Threads \ {t} : at'[u] = at[u] /\ sink'[u] = sink[u]
        /\ at' \in [Threads -> {"idle", "caching", "configuring", "binding", "writing",
                               "closing", "archiving", "reopening", "appending"}]
    BY <1>1, <1>3, <1>a, Types DEF NoSink
  <2> QED
    BY <2>1, <2>2, <2>3, <2>4, TypesOfStep
<1>5. Solo'
  BY <1>1, <1>2, Types DEF Solo, Alone
<1>6. CacheIsRight'
  BY <1>1, <1>2, <1>3, Types, CacheStaysRight
<1>7. FileIsThere'
  BY <1>1, <1>2, <1>3, <1>a, Types, FileStaysThere
<1>8. AloneIsSound'
  BY <1>1, <1>2, <1>3, Types DEF AloneIsSound, Alone
<1>9. OnlyRacesHurt'
  BY <1>1, Types DEF OnlyRacesHurt, RaisesOnlyInRace, OwnFileAlone
<1> QED
  BY <1>4, <1>5, <1>6, <1>7, <1>8, <1>9 DEF IInv

LEMMA PutKeeps == ASSUME IInv, NEW t \in Threads, Put(t) PROVE IInv'
<1>1. /\ at' = [at EXCEPT ![t] = "idle"] /\ at[t] # "idle" /\ sink[t] \in 1 .. Len(sinks)
      /\ UNCHANGED <<open_sinks, configured, run, sink, overlapped, raised, calls>>
  BY Types DEF Put, Moves, Same
<1>2. /\ at'[t] = "idle"
      /\ \A u \in Threads \ {t} : at'[u] = at[u] /\ ~Alone(u) /\ ~Alone(u)'
  BY <1>1, Types, OnlyOneAlone DEF Alone
<1>3. /\ at[t] = "appending"
      /\ sinks' \in Seq(Sinks) /\ Len(sinks') = Len(sinks) /\ DOMAIN sinks' = DOMAIN sinks
      /\ \A k \in 1 .. Len(sinks) : sinks'[k].run = sinks[k].run
  <2>1. sinks' = [sinks EXCEPT ![sink[t]] = [sinks[sink[t]] EXCEPT !.count = @ + 1]]
        /\ at[t] = "appending"
    BY DEF Put
  <2>2. [sinks[sink[t]] EXCEPT !.count = @ + 1] \in Sinks
    <3>1. sinks[sink[t]] \in Sinks
      BY <1>1, Types
    <3> QED
      BY <3>1 DEF Sinks
  <2> QED
    BY <1>1, <2>1, <2>2, Types
<1>a. /\ sinks[sink[t]].run \in Runs
      /\ live' = [live EXCEPT ![sinks[sink[t]].run] = IF @ = NoFile THEN @ ELSE @ + 1]
      /\ live' \in [Runs -> Lives]
      /\ \A r \in Runs : live'[r] = NoFile => live[r] = NoFile
  <2>1. sinks[sink[t]].run \in Runs
    BY <1>1, Types DEF Sinks
  <2> QED
    BY <2>1, Types DEF Put, Sink, Lives, NoFile
<1>b. /\ files' = [files EXCEPT ![sinks[sink[t]].run] =
                     Append(@, [of |-> run[t], overlapped |-> t \in overlapped])]
      /\ files' \in [Runs -> Seq([of : Runs, overlapped : BOOLEAN])]
  <2>1. files' = [files EXCEPT ![sinks[sink[t]].run] =
                     Append(@, [of |-> run[t], overlapped |-> t \in overlapped])]
    BY DEF Put, Sink
  <2> DEFINE line == [of |-> run[t], overlapped |-> t \in overlapped]
             Line == [of : Runs, overlapped : BOOLEAN]
  <2>2. line \in Line
    BY Types
  <2>3. files[sinks[sink[t]].run] \in Seq(Line)
    BY <1>a, Types
  <2> HIDE DEF line, Line
  <2>4. Append(files[sinks[sink[t]].run], line) \in Seq(Line)
    BY <2>2, <2>3
  <2>5. files' = [files EXCEPT ![sinks[sink[t]].run] = Append(@, line)]
    BY <2>1 DEF line
  <2>6. files' \in [Runs -> Seq(Line)]
    BY <2>4, <2>5, Types DEF Line
  <2> QED
    BY <2>1, <2>6 DEF Line
<1>c. sinks[sink[t]].run = run[t] \/ t \in overlapped
  BY <1>3, Types DEF AloneIsSound, Alone
<1>4. TypeOK'
  <2>1. /\ sinks' \in Seq(Sinks) /\ Len(sinks') = Len(sinks)
        /\ open_sinks' \in [Runs -> 0 .. Len(sinks)] /\ configured' \in 0 .. Len(sinks)
        /\ run' \in [Threads -> Runs] /\ sink' \in [Threads -> 0 .. Len(sinks)]
    BY <1>1, <1>3, <1>a, <1>b, Types
  <2>2. /\ files' \in [Runs -> Seq([of : Runs, overlapped : BOOLEAN])]
        /\ live' \in [Runs -> Lives] /\ calls' \in 0 .. MaxEvents
    BY <1>1, <1>3, <1>a, <1>b, Types
  <2>3. overlapped' \subseteq Threads /\ raised' \subseteq Threads \X BOOLEAN
    BY <1>1, <1>3, <1>a, <1>b, Types, Zenon
  <2>4. /\ sink'[t] # NoSink /\ \A u \in Threads \ {t} : at'[u] = at[u] /\ sink'[u] = sink[u]
        /\ at' \in [Threads -> {"idle", "caching", "configuring", "binding", "writing",
                               "closing", "archiving", "reopening", "appending"}]
    BY <1>1, <1>3, <1>a, <1>b, Types DEF NoSink
  <2> QED
    BY <2>1, <2>2, <2>3, <2>4, TypesOfStep
<1>5. Solo'
  BY <1>1, <1>2, Types DEF Solo, Alone
<1>6. CacheIsRight'
  BY <1>1, <1>2, <1>3, Types, CacheStaysRight
<1>7. FileIsThere'
  BY <1>1, <1>2, <1>3, <1>a, Types, FileStaysThere
<1>8. AloneIsSound'
  BY <1>1, <1>2, <1>3, Types DEF AloneIsSound, Alone
<1>9. OnlyRacesHurt'
  <2>1. ASSUME NEW r \in Runs, NEW i \in DOMAIN files'[r]
        PROVE  files'[r][i].of = r \/ files'[r][i].overlapped
    <3> DEFINE own == sinks[sink[t]].run
               line == [of |-> run[t], overlapped |-> t \in overlapped]
    <3>1. files' = [files EXCEPT ![own] = Append(files[own], line)]
      BY <1>b
    <3>2. line.of = own \/ line.overlapped
      BY <1>c
    <3>3. files[r] \in Seq([of : Runs, overlapped : BOOLEAN])
      BY Types
    <3> HIDE DEF own, line
    <3>4. CASE i \in DOMAIN files[r]
      <4>1. files'[r][i] = files[r][i]
        BY <3>1, <3>3, <3>4, Types
      <4> QED
        BY <4>1, <3>4, Types DEF OwnFileAlone
    <3>5. CASE i \notin DOMAIN files[r]
      <4>1. r = own /\ files'[r] = Append(files[r], line)
        BY <3>1, <3>5, Types
      <4>2. files'[r][i] = line
        BY <4>1, <3>3, <3>5
      <4> QED
        BY <3>2, <4>1, <4>2
    <3> QED
      BY <3>4, <3>5
  <2>2. RaisesOnlyInRace'
    BY <1>1, Types DEF RaisesOnlyInRace
  <2> QED
    BY <2>1, <2>2 DEF OnlyRacesHurt, OwnFileAlone
<1> QED
  BY <1>4, <1>5, <1>6, <1>7, <1>8, <1>9 DEF IInv

LEMMA WriteRaisesKeeps == ASSUME IInv, NEW t \in Threads, WriteRaises(t) PROVE IInv'
<1>1. /\ at' = [at EXCEPT ![t] = "idle"] /\ at[t] # "idle" /\ sink[t] \in 1 .. Len(sinks)
      /\ UNCHANGED <<sinks, open_sinks, configured, run, sink, files, live, overlapped, calls>>
  BY Types DEF WriteRaises, Moves, Same
<1>2. /\ at'[t] = "idle"
      /\ \A u \in Threads \ {t} : at'[u] = at[u] /\ ~Alone(u) /\ ~Alone(u)'
  BY <1>1, Types, OnlyOneAlone DEF Alone
<1>3. at[t] \in {"appending", "archiving"} /\ raised' = raised \cup {<<t, t \in overlapped>>}
  BY DEF WriteRaises
<1>a. t \in overlapped
  <2> SUFFICES ASSUME Alone(t) PROVE FALSE
    BY <1>1 DEF Alone
  <2>1. at[t] = "appending" => sinks[sink[t]].open
    BY Types DEF AloneIsSound
  <2>2. at[t] = "archiving" => live[sinks[sink[t]].run] # NoFile
    BY <1>1, Types DEF FileIsThere, Solo
  <2> QED
    BY <2>1, <2>2 DEF WriteRaises, Sink
<1>b. raised' \subseteq Threads \X BOOLEAN
  <2>1. (t \in overlapped) = TRUE
    BY <1>a, Zenon
  <2>2. raised' = raised \cup {<<t, TRUE>>}
    BY <1>3, <2>1, Zenon
  <2>3. <<t, TRUE>> \in Threads \X BOOLEAN
    OBVIOUS
  <2> QED
    BY <2>2, <2>3, Types, Zenon
<1>4. TypeOK'
  <2>1. /\ sinks' \in Seq(Sinks) /\ Len(sinks') = Len(sinks)
        /\ open_sinks' \in [Runs -> 0 .. Len(sinks)] /\ configured' \in 0 .. Len(sinks)
        /\ run' \in [Threads -> Runs] /\ sink' \in [Threads -> 0 .. Len(sinks)]
    BY <1>1, <1>3, <1>b, Types
  <2>2. /\ files' \in [Runs -> Seq([of : Runs, overlapped : BOOLEAN])]
        /\ live' \in [Runs -> Lives] /\ calls' \in 0 .. MaxEvents
    BY <1>1, <1>3, <1>b, Types
  <2>3. overlapped' \subseteq Threads /\ raised' \subseteq Threads \X BOOLEAN
    BY <1>1, <1>3, <1>b, Types, Zenon
  <2>4. /\ sink'[t] # NoSink /\ \A u \in Threads \ {t} : at'[u] = at[u] /\ sink'[u] = sink[u]
        /\ at' \in [Threads -> {"idle", "caching", "configuring", "binding", "writing",
                               "closing", "archiving", "reopening", "appending"}]
    BY <1>1, <1>3, <1>b, Types DEF NoSink
  <2> QED
    BY <2>1, <2>2, <2>3, <2>4, TypesOfStep
<1>5. Solo'
  BY <1>1, <1>2, Types DEF Solo, Alone
<1>6. CacheIsRight'
  BY <1>1, <1>2, Types DEF CacheIsRight
<1>7. FileIsThere'
  BY <1>1, <1>2, <1>3, Types DEF FileIsThere
<1>8. AloneIsSound'
  BY <1>1, <1>2, <1>3, Types DEF AloneIsSound, Alone
<1>9. OnlyRacesHurt'
  <2>1. \A x \in raised' : x \in raised \/ x[2] = (t \in overlapped)
    BY <1>3
  <2>2. RaisesOnlyInRace'
    BY <1>a, <2>1, Types DEF RaisesOnlyInRace
  <2>3. OwnFileAlone'
    BY <1>1, Types DEF OwnFileAlone
  <2> QED
    BY <2>2, <2>3 DEF OnlyRacesHurt
<1> QED
  BY <1>4, <1>5, <1>6, <1>7, <1>8, <1>9 DEF IInv

LEMMA ReuseKeeps == ASSUME IInv, NEW t \in Threads, NEW r \in Runs, Reuse(t, r) PROVE IInv'
<1>1. /\ at' = [at EXCEPT ![t] = "configuring"] /\ at[t] = "idle"
      /\ run' = [run EXCEPT ![t] = r] /\ sink' = [sink EXCEPT ![t] = open_sinks[r]]
      /\ UNCHANGED <<sinks, open_sinks, configured, files, live, raised>>
  BY DEF Reuse, Moves, Holds
<1>2. /\ overlapped' \subseteq Threads /\ calls' \in 0 .. MaxEvents /\ Solo'
      /\ \A u \in Threads \ {t} : ~Alone(u)'
  BY BeginningOverlaps DEF Reuse
<1>3. /\ open_sinks[r] \in 1 .. Len(sinks) /\ sinks[open_sinks[r]].open
      /\ sinks[open_sinks[r]].run = r
  BY Types DEF Reuse, Cached, CacheIsRight, NoSink
<1>4. TypeOK'
  <2>1. /\ sinks' \in Seq(Sinks) /\ Len(sinks') = Len(sinks)
        /\ open_sinks' \in [Runs -> 0 .. Len(sinks)] /\ configured' \in 0 .. Len(sinks)
        /\ run' \in [Threads -> Runs] /\ sink' \in [Threads -> 0 .. Len(sinks)]
    BY <1>1, <1>3, Types
  <2>2. /\ files' \in [Runs -> Seq([of : Runs, overlapped : BOOLEAN])]
        /\ live' \in [Runs -> Lives] /\ raised' \subseteq Threads \X BOOLEAN
    BY <1>1, Types, Zenon
  <2>3. /\ sink'[t] # NoSink /\ \A u \in Threads \ {t} : at'[u] = at[u] /\ sink'[u] = sink[u]
        /\ at' \in [Threads -> {"idle", "caching", "configuring", "binding", "writing",
                               "closing", "archiving", "reopening", "appending"}]
    BY <1>1, <1>3, Types DEF NoSink
  <2> QED
    BY <1>2, <2>1, <2>2, <2>3, TypesOfStep
<1>5. CacheIsRight'
  BY <1>1, <1>3, Types DEF CacheIsRight
<1>6. FileIsThere'
  BY <1>1, Types DEF FileIsThere
<1>7. AloneIsSound'
  BY <1>1, <1>2, <1>3, Types DEF AloneIsSound
<1>8. OnlyRacesHurt'
  BY <1>1, Types DEF OnlyRacesHurt, RaisesOnlyInRace, OwnFileAlone
<1> QED
  BY <1>2, <1>4, <1>5, <1>6, <1>7, <1>8 DEF IInv

LEMMA MakeKeeps == ASSUME IInv, NEW t \in Threads, NEW r \in Runs, Make(t, r) PROVE IInv'
<1> DEFINE new == [run |-> r, open |-> TRUE, count |-> Lines(r)]
<1>1. /\ at' = [at EXCEPT ![t] = "caching"] /\ at[t] = "idle"
      /\ run' = [run EXCEPT ![t] = r] /\ sink' = [sink EXCEPT ![t] = Len(sinks) + 1]
      /\ sinks' = Append(sinks, new) /\ live' = [live EXCEPT ![r] = Lines(r)]
      /\ UNCHANGED <<open_sinks, configured, files, raised>>
  BY DEF Make, Moves, Holds
<1>2. /\ overlapped' \subseteq Threads /\ calls' \in 0 .. MaxEvents /\ Solo'
      /\ \A u \in Threads \ {t} : ~Alone(u)'
  BY BeginningOverlaps DEF Make
<1>3. Lines(r) \in Nat /\ new \in Sinks /\ new.open /\ new.run = r
  BY Types DEF Lines, Lives, Sinks
<1> HIDE DEF new
<1>4. /\ sinks' \in Seq(Sinks) /\ Len(sinks') = Len(sinks) + 1
      /\ DOMAIN sinks' = 1 .. Len(sinks) + 1 /\ sinks'[Len(sinks) + 1] = new
      /\ \A k \in 1 .. Len(sinks) : sinks'[k] = sinks[k]
  BY <1>1, <1>3, Types
<1>5. TypeOK'
  <2>1. /\ open_sinks' \in [Runs -> 0 .. Len(sinks')] /\ configured' \in 0 .. Len(sinks')
        /\ run' \in [Threads -> Runs] /\ sink' \in [Threads -> 0 .. Len(sinks')]
    BY <1>1, <1>4, Types
  <2>2. live' \in [Runs -> Lives]
    BY <1>1, <1>3, Types DEF Lives
  <2>3. /\ files' \in [Runs -> Seq([of : Runs, overlapped : BOOLEAN])]
        /\ raised' \subseteq Threads \X BOOLEAN
    BY <1>1, Types, Zenon
  <2>4. /\ sink'[t] # NoSink /\ \A u \in Threads \ {t} : at'[u] = at[u] /\ sink'[u] = sink[u]
        /\ at' \in [Threads -> {"idle", "caching", "configuring", "binding", "writing",
                               "closing", "archiving", "reopening", "appending"}]
    BY <1>1, Types DEF NoSink
  <2> QED
    BY <1>2, <1>4, <2>1, <2>2, <2>3, <2>4, TypesOfStep
<1>6. CacheIsRight'
  <2>1. ASSUME NEW q \in Runs, open_sinks'[q] # NoSink PROVE sinks'[open_sinks'[q]].run = q
    <3>1. open_sinks[q] \in 1 .. Len(sinks) /\ sinks[open_sinks[q]].run = q
      BY <1>1, <2>1, Types DEF CacheIsRight, NoSink
    <3> QED
      BY <1>1, <1>4, <3>1
  <2>2. ASSUME NEW u \in Threads, at'[u] = "caching" PROVE sinks'[sink'[u]].run = run'[u]
    <3>1. CASE u = t
      BY <1>1, <1>3, <1>4, <3>1, Types
    <3>2. CASE u # t
      <4>1. at[u] = "caching" /\ sink'[u] = sink[u] /\ run'[u] = run[u]
        BY <1>1, <2>2, <3>2, Types
      <4>2. sink[u] \in 1 .. Len(sinks) /\ sinks[sink[u]].run = run[u]
        BY <4>1, Types DEF CacheIsRight
      <4> QED
        BY <1>4, <4>1, <4>2
    <3> QED
      BY <3>1, <3>2
  <2>3. ASSUME NEW u \in Threads, at'[u] = "binding" PROVE configured' # NoSink
    BY <1>1, <2>3, Types DEF CacheIsRight
  <2> QED
    BY <2>1, <2>2, <2>3 DEF CacheIsRight
<1>7. FileIsThere'
  <2> SUFFICES ASSUME NEW k \in 1 .. Len(sinks) + 1, live'[sinks'[k].run] = NoFile
               PROVE  \E u \in Threads : at'[u] = "reopening"
                                         /\ sinks'[sink'[u]].run = sinks'[k].run
    BY <1>4 DEF FileIsThere
  <2>1. live'[r] # NoFile
    BY <1>1, <1>3, Types DEF NoFile
  <2>2. k \in 1 .. Len(sinks)
    BY <1>3, <1>4, <2>1, Types
  <2>3. sinks'[k] = sinks[k] /\ sinks[k].run \in Runs
    BY <1>4, <2>2, Types DEF Sinks
  <2>4. live[sinks[k].run] = NoFile
    BY <1>1, <2>1, <2>3, Types
  <2>5. PICK u \in Threads : at[u] = "reopening" /\ sinks[sink[u]].run = sinks[k].run
    BY <2>2, <2>4, Types DEF FileIsThere
  <2>6. u # t /\ sink[u] \in 1 .. Len(sinks)
    BY <1>1, <2>5, Types
  <2>7. at'[u] = "reopening" /\ sink'[u] = sink[u]
    BY <1>1, <2>5, <2>6, Types
  <2> QED
    BY <1>4, <2>3, <2>5, <2>6, <2>7
<1>8. AloneIsSound'
  <2>1. sinks'[sink'[t]] = new /\ run'[t] = r /\ at'[t] = "caching"
    BY <1>1, <1>4, Types
  <2> QED
    BY <1>2, <1>3, <2>1 DEF AloneIsSound
<1>9. OnlyRacesHurt'
  BY <1>1, Types DEF OnlyRacesHurt, RaisesOnlyInRace, OwnFileAlone
<1> QED
  BY <1>2, <1>5, <1>6, <1>7, <1>8, <1>9 DEF IInv

LEMMA InitEstablishes == Init => IInv
<1> SUFFICES ASSUME Init PROVE IInv
  OBVIOUS
<1>1. /\ sinks = <<>> /\ Len(sinks) = 0 /\ sinks \in Seq([run : Runs, open : BOOLEAN, count : Nat])
      /\ DOMAIN sinks = {}
  BY DEF Init
<1>2. /\ open_sinks \in [Runs -> 0 .. Len(sinks)] /\ configured \in 0 .. Len(sinks)
      /\ sink \in [Threads -> 0 .. Len(sinks)] /\ calls \in 0 .. MaxEvents
  BY <1>1, SharedLogAssumption DEF Init, NoSink
<1>3. run \in [Threads -> Runs] /\ \A t \in Threads : at[t] = "idle"
  BY DEF Init
<1>4. at \in [Threads -> {"idle", "caching", "configuring", "binding", "writing",
                          "closing", "archiving", "reopening", "appending"}]
  BY DEF Init
<1>5. files \in [Runs -> Seq([of : Runs, overlapped : BOOLEAN])] /\ \A r \in Runs : files[r] = <<>>
  <2>1. <<>> \in Seq([of : Runs, overlapped : BOOLEAN])
    OBVIOUS
  <2> QED
    BY <2>1 DEF Init
<1>6. live \in [Runs -> Nat \cup {NoFile}] /\ overlapped = {} /\ raised = {}
  BY DEF Init
<1>7. TypeOK
  BY <1>1, <1>2, <1>3, <1>4, <1>5, <1>6 DEF TypeOK
<1>8. Solo /\ AloneIsSound /\ FileIsThere
  BY <1>1, <1>3 DEF Solo, AloneIsSound, FileIsThere, Alone
<1>9. CacheIsRight
  BY <1>3 DEF Init, CacheIsRight
<1>10. OnlyRacesHurt
  BY <1>5, <1>6 DEF OnlyRacesHurt, RaisesOnlyInRace, OwnFileAlone
<1> QED
  BY <1>7, <1>8, <1>9, <1>10 DEF IInv

LEMMA StutterKeeps == IInv /\ UNCHANGED vars => IInv'
<1> SUFFICES ASSUME IInv, UNCHANGED vars PROVE IInv'
  OBVIOUS
<1>1. TypeOK'
  BY DEF vars, IInv, TypeOK
<1>2. (Solo /\ CacheIsRight /\ FileIsThere /\ AloneIsSound)'
  BY DEF vars, IInv, Solo, CacheIsRight, FileIsThere, AloneIsSound, Alone
<1>3. OnlyRacesHurt'
  BY DEF vars, IInv, OnlyRacesHurt, RaisesOnlyInRace, OwnFileAlone
<1> QED
  BY <1>1, <1>2, <1>3 DEF IInv

LEMMA NextKeeps == IInv /\ [Next]_vars => IInv'
<1> SUFFICES ASSUME IInv, [Next]_vars PROVE IInv'
  OBVIOUS
<1>1. ASSUME NEW t \in Threads, NEW r \in Runs, Reuse(t, r) \/ Make(t, r) PROVE IInv'
  BY <1>1, ReuseKeeps, MakeKeeps
<1>2. ASSUME NEW t \in Threads,
             \/ Cache(t) \/ Configure(t) \/ Bind(t)
             \/ FindFull(t) \/ Close(t) \/ Archive(t) \/ Reopen(t) \/ HasRoom(t)
             \/ Put(t) \/ WriteRaises(t)
      PROVE  IInv'
  BY <1>2, CacheKeeps, ConfigureKeeps, BindKeeps, FindFullKeeps, CloseKeeps, ArchiveKeeps,
     ReopenKeeps, HasRoomKeeps, PutKeeps, WriteRaisesKeeps
<1>3. CASE Over \/ UNCHANGED vars
  BY <1>3, StutterKeeps DEF Over
<1> QED
  BY <1>1, <1>2, <1>3 DEF Next

LEMMA Invariance == Spec => []IInv
  BY InitEstablishes, NextKeeps, PTL DEF Spec

\* The sinks, the cache, the configuration and every thread's call stay in
\* their types, and a thread in a call holds a sink (_setup.py:46-98).
THEOREM TypeCorrect == Spec => []TypeOK
  BY Invariance, PTL DEF IInv

\* Whatever overlapping calls did before, a log_event call that none overlaps
\* does not raise and puts its event in the file of its run (_setup.py:75-98,
\* _rotation.py:120-144).
THEOREM LogSafe == Spec => []OnlyRacesHurt
  BY Invariance, PTL DEF IInv

-----------------------------------------------------------------------------
(* The rotating files.  An archive is shifted only where there is none, so *)
(* a rename keeps the order of the lines; only the highest archive goes, and *)
(* while no process died its lines lie Keep full files back.               *)

\* A bounded, inhabited set of naturals has a first and a last element.
LEMMA LeastNat ==
  ASSUME NEW T \in SUBSET Nat, T # {}
  PROVE  \E x \in T : \A y \in T : x <= y
<1> DEFINE R == OpToRel(<, Nat)
<1>1. IsWellFoundedOn(R, Nat)
  BY NatLessThanWellFounded
<1>2. \A x, y \in Nat : <<y, x>> \in R <=> y < x
  BY DEF OpToRel
<1> HIDE DEF R
<1>3. PICK x \in T : \A y \in T : ~(<<y, x>> \in R)
  BY <1>1, WFMin
<1>4. \A y \in T : ~(y < x)
  BY <1>2, <1>3
<1>5. \A y \in T : x <= y
  BY <1>4
<1> QED
  BY <1>5

LEMMA MinIsLeast ==
  ASSUME NEW T \in SUBSET Nat, T # {}
  PROVE  Min(T) \in T /\ \A y \in T : Min(T) <= y
<1>1. \E x \in T : \A y \in T : x =< y
  BY LeastNat
<1> QED
  BY <1>1 DEF Min

LEMMA MaxIsLast ==
  ASSUME NEW m \in Nat, NEW T \in SUBSET (0 .. m), T # {}
  PROVE  Max(T) \in T /\ \A y \in T : y <= Max(T)
<1> DEFINE U == {m - x : x \in T}
<1>1. U \in SUBSET Nat /\ U # {}
  <2>1. \A x \in T : m - x \in Nat
    OBVIOUS
  <2> QED
    BY <2>1
<1>2. PICK u \in U : \A y \in U : u <= y
  BY <1>1, LeastNat
<1>3. PICK x \in T : u = m - x
  BY <1>2
<1>4. \A y \in T : m - y \in U
  BY Zenon
<1> HIDE DEF U
<1>5. \A y \in T : m - x <= m - y
  BY <1>2, <1>3, <1>4
<1>6. \A y \in T : x >= y
  BY <1>5
<1> QED
  BY <1>6 DEF Max

\* What a write has done so far in its rotation.
WriteInStep ==
  /\ disk[max_files] = Missing
  /\ step \notin {"idle", "down"} => written < Writes
  /\ step \in {"rotating", "evicting", "shifting", "retiring"} =>
       disk[0] # Missing /\ Len(disk[0]) = MaxLinesPerFile
  /\ step = "reopening" => disk[0] = Missing
  /\ step \in {"evicting", "shifting", "retiring"} => max_files > 1
  /\ step = "appending" => Len(disk[0]) < MaxLinesPerFile

\* No archive is shifted onto another one.
ShiftsInStep ==
  /\ step \notin {"evicting", "shifting"} => existing = {}
  /\ step = "evicting" => existing = Archives
  /\ step = "shifting" =>
       /\ existing \subseteq Archives /\ \A i \in existing : i < Keep
       /\ \A j \in Archives \ existing : j > 1 /\ \A i \in existing : j > i + 1
  /\ step = "retiring" => disk[1] = Missing

\* The lines written before those of the live file, and how many full files
\* an archive lies behind it.
Behind == written - (IF disk[0] = Missing THEN 0 ELSE Len(disk[0]))
Rank(i) == IF step \in {"shifting", "retiring"} /\ i \notin existing THEN i - 1 ELSE i

AgedInTurn ==
  crashes = 0 => \A i \in Archives : \A k \in DOMAIN disk[i] :
    disk[i][k] <= Behind - (Rank(i) - 1) * MaxLinesPerFile

RInv == RotationTypeOK /\ WriteInStep /\ ShiftsInStep /\ NewestKept /\ AgedInTurn

Contents == Seq(1 .. Writes) \cup {Missing}

LEMMA RotationTypes ==
  ASSUME RInv
  PROVE  /\ max_files \in FileCaps /\ max_files \in Nat \ {0}
         /\ MaxLinesPerFile \in Nat \ {0} /\ Writes \in Nat
         /\ written \in 0 .. Writes /\ written \in Nat /\ crashes \in Nat
         /\ line_count \in 0 .. MaxLinesPerFile
         /\ Indices = 0 .. max_files /\ 0 \in Indices /\ Keep = max_files - 1
         /\ disk \in [Indices -> Contents]
         /\ Files \subseteq Indices /\ Archives = Files \ {0}
         /\ existing \subseteq 1 .. max_files
         /\ WriteInStep /\ ShiftsInStep /\ InOrder /\ EnoughKept /\ AgedInTurn
         /\ Held \subseteq 1 .. written /\ \A n \in Held : n .. written \subseteq Held
<1>1. /\ max_files \in FileCaps /\ written \in 0 .. Writes /\ crashes \in 0 .. MaxCrashes
      /\ line_count \in 0 .. MaxLinesPerFile /\ disk \in [Indices -> Contents]
      /\ existing \subseteq Indices \ {0}
  BY DEF RInv, RotationTypeOK, Contents
<1>2. max_files \in Nat \ {0} /\ MaxLinesPerFile \in Nat \ {0} /\ Writes \in Nat
  BY <1>1, LogRotationAssumption
<1>3. Indices = 0 .. max_files /\ 0 \in Indices /\ existing \subseteq 1 .. max_files
  BY <1>1, <1>2 DEF Indices
<1>4. written \in Nat /\ crashes \in Nat
  BY <1>1, LogRotationAssumption
<1>5. Files \subseteq Indices /\ Archives = Files \ {0}
  BY DEF Files, Archives
<1> QED
  BY <1>1, <1>2, <1>3, <1>4, <1>5 DEF RInv, NewestKept, Keep

LEMMA FileTypes ==
  ASSUME NEW d, d \in Contents, d # Missing
  PROVE  /\ d \in Seq(1 .. Writes) /\ Len(d) \in Nat /\ DOMAIN d = 1 .. Len(d)
         /\ \A k \in DOMAIN d : d[k] \in 1 .. Writes
<1>1. d \in Seq(1 .. Writes)
  BY DEF Contents
<1>2. Len(d) \in Nat /\ DOMAIN d = 1 .. Len(d)
  BY <1>1, LenProperties
<1>3. \A k \in 1 .. Len(d) : d[k] \in 1 .. Writes
  BY <1>1, ElementOfSeq
<1> QED
  BY <1>1, <1>2, <1>3

\* A file of writes is not taken for a missing one.
LEMMA LinesAreThere == \A d \in Seq(1 .. Writes) : d # Missing
<1>1. SUFFICES ASSUME Missing \in Seq(1 .. Writes) PROVE FALSE
  OBVIOUS
<1>2. Missing[1] = 0 /\ 1 \in DOMAIN Missing
  BY DEF Missing
<1>3. Missing[1] \in 1 .. Writes
  BY <1>1, <1>2, ElementOfSeq, LenProperties
<1> QED
  BY <1>2, <1>3

LEMMA FewNumbers ==
  ASSUME NEW m \in Nat, NEW S \in SUBSET (0 .. m - 1)
  PROVE  Cardinality(S) <= m
<1>1. IsFiniteSet(0 .. m - 1) /\ Cardinality(0 .. m - 1) = m
  BY FS_Interval
<1>2. Cardinality(S) <= Cardinality(0 .. m - 1)
  BY <1>1, FS_Subset
<1> QED
  BY <1>1, <1>2

LEMMA CapsKept ==
  ASSUME RInv, max_files' = max_files, disk' \in [Indices -> Contents],
         disk'[max_files] = Missing,
         \A i \in Indices : disk'[i] # Missing => Len(disk'[i]) <= MaxLinesPerFile
  PROVE  CapsHold'
<1>1. Files' = {i \in Indices : disk'[i] # Missing}
  BY DEF Files, Indices
<1>2. Files' \in SUBSET (0 .. max_files - 1)
  BY <1>1, RotationTypes
<1>3. Cardinality(Files') <= max_files
  BY <1>2, FewNumbers, RotationTypes
<1> QED
  BY <1>1, <1>3 DEF CapsHold

\* What leaves the files alone keeps what they hold.
LEMMA FilesKept ==
  ASSUME RInv, UNCHANGED <<max_files, disk, written>>, crashes' = 0 => crashes = 0
  PROVE  NewestKept' /\ CapsHold' /\ disk' \in [Indices' -> Contents] /\ Files' = Files
<1>1. Indices' = Indices /\ Files' = Files /\ Keep' = Keep
  BY DEF Indices, Files, Keep
<1>2. Held' = Held
  BY <1>1 DEF Held
<1>3. InOrder' /\ EnoughKept'
  BY <1>1, <1>2, RotationTypes DEF InOrder, EnoughKept
<1>4. NewestKept'
  BY <1>2, <1>3, RotationTypes DEF NewestKept
<1>5. CapsHold'
  BY <1>1 DEF RInv, RotationTypeOK, CapsHold
<1> QED
  BY <1>1, <1>4, <1>5, RotationTypes

LEMMA BeginWriteKeeps == RInv /\ BeginWrite => RInv'
<1> SUFFICES ASSUME RInv, BeginWrite PROVE RInv'
  OBVIOUS
<1>1. /\ step = "idle" /\ written < Writes
      /\ step' = IF Full THEN "rotating" ELSE "appending"
      /\ max_files' = max_files /\ written' = written /\ crashes' = crashes
      /\ disk' = disk /\ line_count' = line_count /\ existing' = existing
  BY DEF BeginWrite, Goes
<1>2. disk[0] # Missing /\ line_count = Len(disk[0])
  BY <1>1 DEF RInv, RotationTypeOK
<1>3. NewestKept' /\ CapsHold' /\ Files' = Files
  BY <1>1, FilesKept
<1>4. Full <=> Len(disk[0]) = MaxLinesPerFile
  BY <1>2, RotationTypes DEF Full
<1>5. RotationTypeOK'
  BY <1>1, <1>2, <1>3 DEF RInv, RotationTypeOK, Indices
<1>6. WriteInStep'
  BY <1>1, <1>2, <1>4, RotationTypes DEF WriteInStep, Full
<1>7. ShiftsInStep'
  BY <1>1, RotationTypes DEF ShiftsInStep
<1>8. AgedInTurn'
  BY <1>1, RotationTypes DEF AgedInTurn, Behind, Rank, Archives, Indices
<1> QED
  BY <1>3, <1>5, <1>6, <1>7, <1>8 DEF RInv

LEMMA ListKeeps == RInv /\ List => RInv'
<1> SUFFICES ASSUME RInv, List PROVE RInv'
  OBVIOUS
<1>1. /\ step = "rotating" /\ max_files > 1 /\ step' = "evicting" /\ existing' = Archives
      /\ max_files' = max_files /\ written' = written /\ crashes' = crashes
      /\ disk' = disk /\ line_count' = line_count
  BY DEF List, Goes
<1>2. NewestKept' /\ CapsHold' /\ Files' = Files /\ Archives' = Archives
  BY <1>1, FilesKept, RotationTypes DEF Archives, Indices
<1>3. RotationTypeOK'
  BY <1>1, <1>2 DEF RInv, RotationTypeOK, Indices, Archives
<1>4. WriteInStep'
  BY <1>1, RotationTypes DEF WriteInStep
<1>5. ShiftsInStep'
  BY <1>1, <1>2, RotationTypes DEF ShiftsInStep
<1>6. AgedInTurn'
  BY <1>1, <1>2, RotationTypes DEF AgedInTurn, Behind, Rank
<1> QED
  BY <1>2, <1>3, <1>4, <1>5, <1>6 DEF RInv

LEMMA RotationCrashKeeps == RInv /\ Crash => RInv'
<1> SUFFICES ASSUME RInv, Crash PROVE RInv'
  OBVIOUS
<1>1. /\ crashes < MaxCrashes /\ crashes' = crashes + 1 /\ step' = "down"
      /\ existing' = {} /\ line_count' = 0
      /\ max_files' = max_files /\ written' = written /\ disk' = disk
  BY DEF Crash
<1>2. crashes' # 0
  BY <1>1, RotationTypes
<1>3. NewestKept' /\ CapsHold' /\ Files' = Files
  BY <1>1, <1>2, FilesKept
<1>4. crashes' \in 0 .. MaxCrashes
  BY <1>1, RotationTypes, LogRotationAssumption
<1>5. RotationTypeOK'
  BY <1>1, <1>3, <1>4, RotationTypes DEF RInv, RotationTypeOK, Indices
<1>6. WriteInStep' /\ ShiftsInStep'
  BY <1>1, RotationTypes DEF WriteInStep, ShiftsInStep
<1>7. AgedInTurn'
  BY <1>2 DEF AgedInTurn
<1> QED
  BY <1>3, <1>5, <1>6, <1>7 DEF RInv

LEMMA RotationStutters == RInv /\ UNCHANGED rotationVars => RInv'
<1> SUFFICES ASSUME RInv, UNCHANGED rotationVars PROVE RInv'
  OBVIOUS
<1>1. /\ max_files' = max_files /\ written' = written /\ disk' = disk
      /\ crashes' = crashes /\ step' = step /\ existing' = existing
      /\ line_count' = line_count
  BY DEF rotationVars
<1>2. NewestKept' /\ CapsHold' /\ Files' = Files
  BY <1>1, FilesKept
<1>3. RotationTypeOK'
  BY <1>1, <1>2 DEF RInv, RotationTypeOK, Indices
<1>4. WriteInStep' /\ ShiftsInStep' /\ AgedInTurn'
  BY <1>1, RotationTypes DEF WriteInStep, ShiftsInStep, AgedInTurn, Archives, Indices,
     Behind, Rank, Keep
<1> QED
  BY <1>2, <1>3, <1>4 DEF RInv

\* A file that becomes the next one, where none is, keeps its place in the
\* order of the lines.
LEMMA FileMoved ==
  ASSUME RInv, NEW i \in Files, i + 1 \in Indices, disk[i + 1] = Missing,
         UNCHANGED <<max_files, written, crashes>>,
         disk' = [disk EXCEPT ![i + 1] = disk[i], ![i] = Missing]
  PROVE  /\ NewestKept' /\ disk' \in [Indices -> Contents] /\ Indices' = Indices
         /\ Files' = (Files \ {i}) \cup {i + 1} /\ i + 1 \notin Files
         /\ disk'[i + 1] = disk[i] /\ disk'[i] = Missing
         /\ \A j \in Indices \ {i, i + 1} : disk'[j] = disk[j]
<1> DEFINE Old(j) == IF j = i + 1 THEN i ELSE j
<1>1. Indices' = Indices /\ Keep' = Keep /\ i \in Indices /\ i \in Nat /\ disk[i] # Missing
  BY RotationTypes DEF Indices, Keep, Files
<1>2. disk[i] \in Contents /\ Missing \in Contents
  BY <1>1, RotationTypes DEF Contents
<1>3. disk' \in [Indices -> Contents]
  BY <1>2, RotationTypes
<1>4. /\ disk'[i + 1] = disk[i] /\ disk'[i] = Missing
      /\ \A j \in Indices \ {i, i + 1} : disk'[j] = disk[j]
  BY <1>1, RotationTypes
<1>5. Files' = (Files \ {i}) \cup {i + 1} /\ i + 1 \notin Files
  BY <1>1, <1>4 DEF Files
<1>6. \A j \in Files' : disk'[j] = disk[Old(j)] /\ Old(j) \in Files
  BY <1>1, <1>4, <1>5, RotationTypes
<1>7. \A a, b \in Files' : /\ (a > b => Old(a) > Old(b)) /\ (a = b => Old(a) = Old(b))
  BY <1>1, <1>5, RotationTypes
<1>8. InOrder'
  <2>1. \A a, b \in Files' : \A k \in DOMAIN disk'[a], l \in DOMAIN disk'[b] :
          a > b \/ (a = b /\ k < l) => disk'[a][k] < disk'[b][l]
    <3> TAKE a, b \in Files'
    <3>1. Old(a) \in Files /\ Old(b) \in Files
      BY <1>6
    <3>2. \A k \in DOMAIN disk[Old(a)], l \in DOMAIN disk[Old(b)] :
            Old(a) > Old(b) \/ (Old(a) = Old(b) /\ k < l)
              => disk[Old(a)][k] < disk[Old(b)][l]
      BY <3>1, RotationTypes DEF InOrder
    <3> HIDE DEF Old
    <3> QED
      BY <3>2, <1>6, <1>7
  <2> QED
    BY <2>1 DEF InOrder
<1>9. Held' = Held
  <2>1. \A n \in Held' : n \in Held
    <3> TAKE n \in Held'
    <3>1. PICK j \in Files' : \E k \in DOMAIN disk'[j] : n = disk'[j][k]
      BY DEF Held
    <3>2. Old(j) \in Files /\ \E k \in DOMAIN disk[Old(j)] : n = disk[Old(j)][k]
      BY <3>1, <1>6
    <3> QED
      BY <3>2 DEF Held
  <2>2. \A n : (\E j \in Files' : \E k \in DOMAIN disk'[j] : n = disk'[j][k]) => n \in Held'
    <3> SUFFICES ASSUME NEW j \in Files', NEW k \in DOMAIN disk'[j]
                 PROVE  disk'[j][k] \in Held'
      OBVIOUS
    <3>1. disk'[j][k] \in {disk'[j][l] : l \in DOMAIN disk'[j]}
      OBVIOUS
    <3>2. {disk'[j][l] : l \in DOMAIN disk'[j]} \in
            {{disk'[e][l] : l \in DOMAIN disk'[e]} : e \in Files'}
      OBVIOUS
    <3> QED
      BY <3>1, <3>2, Zenon DEF Held
  <2>3. \A n \in Held : n \in Held'
    <3> TAKE n \in Held
    <3>1. PICK j \in Files : \E k \in DOMAIN disk[j] : n = disk[j][k]
      BY DEF Held
    <3>2. CASE j = i
      <4>1. i + 1 \in Files' /\ \E k \in DOMAIN disk'[i + 1] : n = disk'[i + 1][k]
        BY <3>1, <3>2, <1>4, <1>5
      <4> QED
        BY <4>1, <2>2
    <3>3. CASE j # i
      <4>1. j \in Files' /\ disk'[j] = disk[j]
        BY <3>1, <3>3, <1>4, <1>5, RotationTypes
      <4>2. \E k \in DOMAIN disk'[j] : n = disk'[j][k]
        BY <3>1, <4>1
      <4> QED
        BY <4>1, <4>2, <2>2
    <3> QED
      BY <3>2, <3>3
  <2> QED
    BY <2>1, <2>3
<1>10. EnoughKept'
  BY <1>1, <1>9, RotationTypes DEF EnoughKept
<1>11. NewestKept'
  BY <1>8, <1>9, <1>10, RotationTypes DEF NewestKept
<1> QED
  BY <1>1, <1>3, <1>4, <1>5, <1>11

LEMMA LensOf ==
  ASSUME RInv
  PROVE  \A i \in Files : Len(disk[i]) <= MaxLinesPerFile /\ disk[i] # Missing
  BY DEF RInv, RotationTypeOK, CapsHold, Files

LEMMA ShiftKeeps == RInv /\ Shift => RInv'
<1> SUFFICES ASSUME RInv, Shift PROVE RInv'
  OBVIOUS
<1>1. /\ step = "shifting" /\ max_files' = max_files /\ written' = written
      /\ crashes' = crashes /\ line_count' = line_count
  BY DEF Shift, Goes
<1>2. /\ existing \subseteq Archives /\ \A i \in existing : i < Keep
      /\ \A j \in Archives \ existing : j > 1 /\ \A i \in existing : j > i + 1
  BY <1>1, RotationTypes DEF ShiftsInStep
<1>3. /\ disk[max_files] = Missing /\ written < Writes /\ max_files > 1
      /\ disk[0] # Missing /\ Len(disk[0]) = MaxLinesPerFile
  BY <1>1, RotationTypes DEF WriteInStep
<1>4. CASE existing = {}
  <2>1. step' = "retiring" /\ disk' = disk /\ existing' = existing
    BY <1>4 DEF Shift, Goes
  <2>2. NewestKept' /\ CapsHold' /\ Files' = Files /\ Archives' = Archives
    BY <1>1, <2>1, FilesKept, RotationTypes DEF Archives, Indices
  <2>3. RotationTypeOK'
    BY <1>1, <2>1, <2>2 DEF RInv, RotationTypeOK, Indices
  <2>4. WriteInStep'
    BY <1>1, <1>3, <2>1, RotationTypes DEF WriteInStep
  <2>5. disk[1] = Missing
    <3>1. 1 \notin Archives /\ 1 \in Indices
      BY <1>2, <1>3, <1>4, RotationTypes
    <3> QED
      BY <3>1 DEF Archives
  <2>6. ShiftsInStep'
    BY <1>4, <2>1, <2>5 DEF ShiftsInStep
  <2>7. AgedInTurn'
    BY <1>1, <2>1, <2>2, RotationTypes DEF AgedInTurn, Behind, Rank
  <2> QED
    BY <2>2, <2>3, <2>4, <2>6, <2>7 DEF RInv
<1>5. CASE existing # {}
  <2> DEFINE i == Max(existing)
  <2>1. i \in existing /\ \A j \in existing : j <= i
    <3>1. existing \in SUBSET (0 .. max_files)
      BY RotationTypes
    <3> QED
      BY <1>5, <3>1, MaxIsLast, RotationTypes
  <2>2. /\ step' = "shifting" /\ existing' = existing \ {i}
        /\ disk' = [disk EXCEPT ![i + 1] = disk[i], ![i] = Missing]
    BY <1>5 DEF Shift, Goes, NextShifted
  <2> HIDE DEF i
  <2>3. i \in Archives /\ i < Keep /\ i \in Nat /\ i >= 1 /\ i \in Files
    BY <1>2, <2>1, RotationTypes
  <2>4. i + 1 \in Indices /\ i + 1 # max_files /\ i + 1 # 0
    BY <2>3, RotationTypes
  <2>5. disk[i + 1] = Missing
    <3>1. i + 1 \notin existing
      BY <2>1, <2>3
    <3>2. i + 1 \notin Archives
      BY <1>2, <2>1, <2>3, <3>1
    <3> QED
      BY <2>4, <3>2 DEF Archives
  <2>6. /\ NewestKept' /\ disk' \in [Indices -> Contents] /\ Indices' = Indices
        /\ Files' = (Files \ {i}) \cup {i + 1} /\ i + 1 \notin Files
        /\ disk'[i + 1] = disk[i] /\ disk'[i] = Missing
        /\ \A j \in Indices \ {i, i + 1} : disk'[j] = disk[j]
    BY <1>1, <2>2, <2>3, <2>4, <2>5, FileMoved
  <2>7. /\ disk'[max_files] = Missing /\ disk'[0] = disk[0]
        /\ max_files \in Indices /\ i # max_files /\ i # 0
    BY <1>3, <2>3, <2>4, <2>6, RotationTypes
  <2>8. \A j \in Indices : disk'[j] # Missing => Len(disk'[j]) <= MaxLinesPerFile
    BY <2>3, <2>6, LensOf DEF Files
  <2>9. CapsHold'
    BY <1>1, <2>6, <2>7, <2>8, CapsKept
  <2>10. existing' \subseteq Indices \ {0}
    BY <2>2, RotationTypes
  <2>11. RotationTypeOK'
    BY <1>1, <2>2, <2>6, <2>9, <2>10 DEF RInv, RotationTypeOK, Contents
  <2>12. WriteInStep'
    BY <1>1, <1>3, <2>2, <2>7 DEF WriteInStep
  <2>13. Archives' = (Archives \ {i}) \cup {i + 1}
    BY <2>3, <2>4, <2>6, RotationTypes DEF Archives, Files
  <2>14. ShiftsInStep'
    <3>1. existing' \subseteq Archives'
      BY <1>2, <2>2, <2>13
    <3>2. \A j \in existing' : j < Keep /\ j < i
      BY <1>2, <2>1, <2>2, <2>3, RotationTypes
    <3>3. \A j \in Archives' \ existing' : j = i + 1 \/ j \in Archives \ existing
      BY <2>2, <2>13
    <3>4. \A j \in Archives' \ existing' : j > 1 /\ \A e \in existing' : j > e + 1
      <4> TAKE j \in Archives' \ existing'
      <4>1. CASE j = i + 1
        BY <4>1, <2>3, <3>2, <2>2, RotationTypes
      <4>2. CASE j \in Archives \ existing
        BY <4>2, <1>2, <2>2
      <4> QED
        BY <3>3, <4>1, <4>2
    <3>5. Keep' = Keep
      BY <1>1 DEF Keep
    <3> QED
      BY <2>2, <3>1, <3>2, <3>4, <3>5 DEF ShiftsInStep
  <2>15. AgedInTurn'
    <3> SUFFICES ASSUME crashes' = 0, NEW j \in Archives', NEW k \in DOMAIN disk'[j]
                 PROVE  disk'[j][k] <= Behind' - (Rank(j)' - 1) * MaxLinesPerFile
      BY DEF AgedInTurn
    <3>1. Behind' = Behind
      BY <1>1, <2>7 DEF Behind
    <3>2. CASE j = i + 1
      <4>1. Rank(j)' = i /\ Rank(i) = i
        BY <1>1, <2>1, <2>2, <2>3, <2>4, <2>5, <3>2, <1>2 DEF Rank, Archives
      <4> QED
        BY <1>1, <2>3, <2>6, <3>1, <3>2, <4>1, RotationTypes DEF AgedInTurn
    <3>3. CASE j # i + 1
      <4>1. j \in Archives /\ j # i /\ disk'[j] = disk[j]
        BY <2>13, <3>3, <2>6, <2>3, RotationTypes
      <4>2. Rank(j)' = Rank(j)
        BY <1>1, <2>2, <4>1 DEF Rank
      <4> QED
        BY <1>1, <3>1, <4>1, <4>2, RotationTypes DEF AgedInTurn
    <3> QED
      BY <3>2, <3>3
  <2> QED
    BY <2>6, <2>11, <2>12, <2>14, <2>15 DEF RInv
<1> QED
  BY <1>4, <1>5

LEMMA Steps == \A a, m \in Int : (a - 1) * m + m = a * m /\ (a - 1 - 1) * m + m = (a - 1) * m
  OBVIOUS

LEMMA HeldBy == \A j \in Files : \A k \in DOMAIN disk[j] : disk[j][k] \in Held
<1> TAKE j \in Files
<1> TAKE k \in DOMAIN disk[j]
<1>1. /\ disk[j][k] \in {disk[j][l] : l \in DOMAIN disk[j]}
      /\ {disk[j][l] : l \in DOMAIN disk[j]} \in
            {{disk[e][l] : l \in DOMAIN disk[e]} : e \in Files}
  OBVIOUS
<1> QED
  BY <1>1, Zenon DEF Held

LEMMA LinesTyped ==
  ASSUME RInv
  PROVE  \A j \in Files : \A k \in DOMAIN disk[j] : disk[j][k] \in 1 .. Writes
  BY FileTypes, RotationTypes DEF Files

\* The oldest file goes: every other line is newer than its lines, and they
\* are older than Keep full files.
LEMMA TopEvicted ==
  ASSUME RInv, step = "evicting", UNCHANGED <<max_files, written, crashes>>,
         disk[0] # Missing, Len(disk[0]) = MaxLinesPerFile,
         \A i \in Files : i < max_files, Keep \in Archives, existing = Archives,
         Files' = Files \ {Keep}, \A j \in Indices \ {Keep} : disk'[j] = disk[j]
  PROVE  NewestKept'
<1>1. Keep \in Files /\ Keep' = Keep /\ \A j \in Files' : j \in Files /\ disk'[j] = disk[j]
  BY RotationTypes DEF Archives, Files, Keep
<1>2. \A j \in Files' : j < Keep
  BY <1>1, RotationTypes
<1>3. InOrder'
  <2>1. \A a, b \in Files' : \A k \in DOMAIN disk'[a], l \in DOMAIN disk'[b] :
          a > b \/ (a = b /\ k < l) => disk'[a][k] < disk'[b][l]
    BY <1>1, RotationTypes DEF InOrder
  <2> QED
    BY <2>1 DEF InOrder
<1>4. Held' \subseteq Held
  BY <1>1 DEF Held
<1>5. \A n \in Held' : \E j \in Files' : \E k \in DOMAIN disk[j] : n = disk[j][k]
  BY <1>1 DEF Held
<1>6. \A n \in Held : n \in Held' \/ \E k \in DOMAIN disk[Keep] : n = disk[Keep][k]
  <2> TAKE n \in Held
  <2>1. PICK j \in Files : \E k \in DOMAIN disk[j] : n = disk[j][k]
    BY DEF Held
  <2>2. CASE j # Keep
    <3>1. j \in Files' /\ n \in {disk'[j][k] : k \in DOMAIN disk'[j]}
      BY <1>1, <2>1, <2>2
    <3>2. {disk'[j][l] : l \in DOMAIN disk'[j]} \in
            {{disk'[e][l] : l \in DOMAIN disk'[e]} : e \in Files'}
      BY <3>1
    <3> QED
      BY <3>1, <3>2, Zenon DEF Held
  <2> QED
    BY <2>1, <2>2
<1>7. \A n \in Held' : n .. written' \subseteq Held'
  <2> SUFFICES ASSUME NEW n \in Held', NEW m \in n .. written, m \notin Held'
               PROVE  FALSE
    OBVIOUS
  <2>1. n \in Held /\ m \in Held
    BY <1>4, RotationTypes
  <2>2. PICK k \in DOMAIN disk[Keep] : m = disk[Keep][k]
    BY <1>6, <2>1
  <2>3. PICK j \in Files' : \E l \in DOMAIN disk[j] : n = disk[j][l]
    BY <1>5
  <2>4. m < n
    BY <1>1, <1>2, <2>2, <2>3, RotationTypes DEF InOrder
  <2> QED
    BY <2>1, <2>4, RotationTypes
<1>8. EnoughKept'
  <2> SUFFICES ASSUME crashes = 0, NEW n \in 1 .. written,
                      n > written - Keep * MaxLinesPerFile, n \notin Held'
               PROVE  FALSE
    BY <1>1 DEF EnoughKept
  <2>1. n \in Held
    BY RotationTypes DEF EnoughKept
  <2>2. PICK k \in DOMAIN disk[Keep] : n = disk[Keep][k]
    BY <1>6, <2>1
  <2>3. Behind = written - MaxLinesPerFile /\ Rank(Keep) = Keep
    BY DEF Behind, Rank
  <2>4. n <= (written - MaxLinesPerFile) - (Keep - 1) * MaxLinesPerFile
    BY <2>2, <2>3, RotationTypes DEF AgedInTurn
  <2>5. /\ Keep \in Int /\ MaxLinesPerFile \in Int /\ written \in Int /\ n \in Int
        /\ (Keep - 1) * MaxLinesPerFile \in Int
    BY RotationTypes
  <2>6. (Keep - 1) * MaxLinesPerFile + MaxLinesPerFile = Keep * MaxLinesPerFile
    BY <2>5, Steps
  <2> QED
    BY <2>4, <2>5, <2>6
<1>9. Held' \subseteq 1 .. written'
  BY <1>4, RotationTypes
<1> QED
  BY <1>3, <1>7, <1>8, <1>9 DEF NewestKept

LEMMA RetireKeeps == RInv /\ Retire => RInv'
<1> SUFFICES ASSUME RInv, Retire PROVE RInv'
  OBVIOUS
<1>1. /\ step = "retiring" /\ step' = "reopening" /\ max_files' = max_files
      /\ written' = written /\ crashes' = crashes /\ line_count' = line_count
      /\ existing' = existing
      /\ disk' = [disk EXCEPT ![1] = disk[0], ![0] = Missing]
  BY DEF Retire, Goes
<1>2. /\ disk[max_files] = Missing /\ written < Writes /\ max_files > 1
      /\ disk[0] # Missing /\ Len(disk[0]) = MaxLinesPerFile
      /\ disk[1] = Missing /\ existing = {}
  BY <1>1, RotationTypes DEF WriteInStep, ShiftsInStep
<1>3. 0 \in Files /\ 1 \in Indices /\ max_files \in Indices \ {0, 1}
  BY <1>2, RotationTypes DEF Files
<1>4. /\ NewestKept' /\ disk' \in [Indices -> Contents] /\ Indices' = Indices
      /\ Files' = (Files \ {0}) \cup {1} /\ 1 \notin Files
      /\ disk'[1] = disk[0] /\ disk'[0] = Missing
      /\ \A j \in Indices \ {0, 1} : disk'[j] = disk[j]
  <2>1. 0 + 1 = 1
    OBVIOUS
  <2> QED
    BY ONLY RInv, <1>1, <1>2, <1>3, <2>1, FileMoved
<1>5. disk'[max_files] = Missing
  BY <1>2, <1>3, <1>4
<1>6. \A j \in Indices : disk'[j] # Missing => Len(disk'[j]) <= MaxLinesPerFile
  BY <1>3, <1>4, LensOf DEF Files
<1>7. CapsHold'
  BY <1>1, <1>4, <1>5, <1>6, CapsKept
<1>8. RotationTypeOK'
  BY <1>1, <1>4, <1>7 DEF RInv, RotationTypeOK, Contents
<1>9. WriteInStep'
  BY <1>1, <1>2, <1>4, <1>5 DEF WriteInStep
<1>10. ShiftsInStep'
  BY <1>1, <1>2 DEF ShiftsInStep
<1>11. AgedInTurn'
  <2> SUFFICES ASSUME crashes' = 0, NEW j \in Archives', NEW k \in DOMAIN disk'[j]
               PROVE  disk'[j][k] <= Behind' - (Rank(j)' - 1) * MaxLinesPerFile
    BY DEF AgedInTurn
  <2>1. Behind' = written /\ Behind = written - MaxLinesPerFile
    BY <1>1, <1>2, <1>4, RotationTypes DEF Behind
  <2>2. Rank(j)' = j
    BY <1>1 DEF Rank
  <2>3. j \in Files' /\ j \in Int /\ j # 0
    BY <1>4, RotationTypes DEF Archives, Files
  <2>4. CASE j = 1
    <3>1. disk[0][k] \in Held
      <4>1. k \in DOMAIN disk[0]
        BY <2>4, <1>4
      <4> QED
        BY <4>1, <1>3, HeldBy
    <3>2. disk'[j][k] \in 1 .. written
      BY <3>1, <2>4, <1>4, RotationTypes
    <3>3. (Rank(j)' - 1) * MaxLinesPerFile = 0
      BY <2>2, <2>4, RotationTypes
    <3> QED
      BY <3>2, <3>3, <2>1, RotationTypes
  <2>5. CASE j # 1
    <3>1. j \in Archives /\ disk'[j] = disk[j]
      BY <2>3, <2>5, <1>4, RotationTypes
    <3>2. Rank(j) = j - 1
      BY <1>1, <1>2 DEF Rank
    <3>3. disk[j][k] <= Behind - (j - 1 - 1) * MaxLinesPerFile
      BY <1>1, <3>1, <3>2, RotationTypes DEF AgedInTurn
    <3>4. (j - 1 - 1) * MaxLinesPerFile + MaxLinesPerFile = (j - 1) * MaxLinesPerFile
      BY <2>3, Steps, RotationTypes
    <3>5. /\ disk[j][k] \in Int /\ MaxLinesPerFile \in Int /\ written \in Int
          /\ (j - 1 - 1) * MaxLinesPerFile \in Int
      <4>1. disk[j] \in Contents /\ disk[j] # Missing
        BY <3>1, RotationTypes DEF Archives
      <4>2. disk[j][k] \in 1 .. Writes
        BY <3>1, <4>1, FileTypes
      <4> QED
        BY <2>3, <4>2, RotationTypes
    <3> QED
      BY <2>1, <2>2, <3>1, <3>3, <3>4, <3>5
  <2> QED
    BY <2>4, <2>5
<1> QED
  BY <1>4, <1>8, <1>9, <1>10, <1>11 DEF RInv

LEMMA EvictKeeps == RInv /\ Evict => RInv'
<1> SUFFICES ASSUME RInv, Evict PROVE RInv'
  OBVIOUS
<1>1. /\ step = "evicting" /\ max_files' = max_files /\ written' = written
      /\ crashes' = crashes /\ line_count' = line_count
  BY DEF Evict, Goes
<1>2. existing = Archives
  BY <1>1, RotationTypes DEF ShiftsInStep
<1>3. /\ disk[max_files] = Missing /\ written < Writes /\ max_files > 1
      /\ disk[0] # Missing /\ Len(disk[0]) = MaxLinesPerFile
  BY <1>1, RotationTypes DEF WriteInStep
<1>4. \A i \in Files : i < max_files
  BY <1>3, RotationTypes DEF Files
<1>5. CASE Overflowing = {}
  <2>1. step' = "shifting" /\ disk' = disk /\ existing' = existing
    BY <1>5 DEF Evict, Goes
  <2>2. NewestKept' /\ CapsHold' /\ Files' = Files /\ Archives' = Archives /\ Keep' = Keep
    BY <1>1, <2>1, FilesKept, RotationTypes DEF Archives, Indices, Keep
  <2>3. RotationTypeOK'
    BY <1>1, <2>1, <2>2 DEF RInv, RotationTypeOK, Indices
  <2>4. WriteInStep'
    BY <1>1, <1>3, <2>1 DEF WriteInStep
  <2>5. \A i \in existing : i < Keep
    BY <1>5, RotationTypes DEF Overflowing
  <2>6. ShiftsInStep'
    BY <1>2, <2>1, <2>2, <2>5 DEF ShiftsInStep
  <2>7. AgedInTurn'
    BY <1>1, <1>2, <2>1, <2>2, RotationTypes DEF AgedInTurn, Behind, Rank
  <2> QED
    BY <2>2, <2>3, <2>4, <2>6, <2>7 DEF RInv
<1>6. CASE Overflowing # {}
  <2> DEFINE i == Min(Overflowing)
  <2>1. i \in Overflowing
    <3>1. Overflowing \in SUBSET Nat
      BY RotationTypes DEF Overflowing
    <3> QED
      BY <1>6, <3>1, MinIsLeast
  <2>2. /\ step' = "evicting" /\ existing' = existing \ {i}
        /\ disk' = [disk EXCEPT ![i] = Missing]
    BY <1>6 DEF Evict, Goes
  <2> HIDE DEF i
  <2>3. i = Keep /\ i \in Archives /\ i \in Files /\ i \in Indices /\ i # 0 /\ i # max_files
    BY <2>1, <1>2, <1>3, <1>4, RotationTypes DEF Overflowing
  <2>4. Indices' = Indices /\ Keep' = Keep /\ disk' \in [Indices -> Contents]
    BY <1>1, <2>2, RotationTypes DEF Indices, Keep, Contents
  <2>5. /\ disk'[i] = Missing /\ \A j \in Indices \ {i} : disk'[j] = disk[j]
        /\ Files' = Files \ {i} /\ Archives' = Archives \ {i}
    BY <2>2, <2>3, <2>4, RotationTypes DEF Files, Archives
  <2>6. disk'[max_files] = Missing /\ disk'[0] = disk[0]
    BY <1>3, <2>3, <2>5, RotationTypes
  <2>7. \A j \in Indices : disk'[j] # Missing => Len(disk'[j]) <= MaxLinesPerFile
    BY <2>5, LensOf DEF Files
  <2>8. CapsHold'
    BY <1>1, <2>4, <2>6, <2>7, CapsKept
  <2>9. RotationTypeOK'
    BY <1>1, <2>2, <2>4, <2>8 DEF RInv, RotationTypeOK, Contents
  <2>10. WriteInStep'
    BY <1>1, <1>3, <2>2, <2>6 DEF WriteInStep
  <2>11. ShiftsInStep'
    BY <1>2, <2>2, <2>5 DEF ShiftsInStep
  <2>12. AgedInTurn'
    BY <1>1, <2>2, <2>5, <2>6, RotationTypes DEF AgedInTurn, Behind, Rank, Archives
  <2>13. NewestKept'
    BY <1>1, <1>2, <1>3, <1>4, <2>3, <2>5, TopEvicted
  <2> QED
    BY <2>9, <2>10, <2>11, <2>12, <2>13 DEF RInv
<1> QED
  BY <1>5, <1>6

\* The live file is created anew: nothing that was held is in it.
LEMMA LiveCreated ==
  ASSUME RInv, disk[0] = Missing, disk' = [disk EXCEPT ![0] = <<>>],
         UNCHANGED <<max_files, written, crashes>>
  PROVE  /\ NewestKept' /\ CapsHold' /\ disk' \in [Indices -> Contents] /\ Indices' = Indices
         /\ Archives' = Archives /\ disk'[0] = <<>> /\ Behind' = Behind
         /\ \A j \in Indices \ {0} : disk'[j] = disk[j]
<1>1. /\ Indices' = Indices /\ Keep' = Keep /\ <<>> \in Contents /\ <<>> # Missing
      /\ Len(<<>>) = 0 /\ DOMAIN <<>> = {}
  <2>1. <<>> \in Seq(1 .. Writes) /\ Len(<<>>) = 0
    BY EmptySeq
  <2>2. <<>> # Missing
    BY <2>1, LinesAreThere
  <2> QED
    BY <2>1, <2>2, RotationTypes DEF Indices, Keep, Contents
<1>2. /\ disk' \in [Indices -> Contents] /\ disk'[0] = <<>>
      /\ \A j \in Indices \ {0} : disk'[j] = disk[j]
  BY <1>1, RotationTypes
<1>3. Files' = Files \cup {0} /\ 0 \notin Files /\ Archives' = Archives
  BY <1>1, <1>2, RotationTypes DEF Files, Archives
<1>4. \A j \in Files' : j = 0 \/ (j \in Files /\ disk'[j] = disk[j])
  BY <1>2, <1>3, RotationTypes
<1>5. InOrder'
  <2>1. \A a, b \in Files' : \A k \in DOMAIN disk'[a], l \in DOMAIN disk'[b] :
          a > b \/ (a = b /\ k < l) => disk'[a][k] < disk'[b][l]
    BY <1>1, <1>2, <1>4, RotationTypes DEF InOrder
  <2> QED
    BY <2>1 DEF InOrder
<1>6. \A n \in Held' : n \in Held
  <2> TAKE n \in Held'
  <2>1. PICK j \in Files' : \E k \in DOMAIN disk'[j] : n = disk'[j][k]
    BY DEF Held
  <2>2. j \in Files /\ \E k \in DOMAIN disk[j] : n = disk[j][k]
    BY <1>1, <1>2, <1>4, <2>1
  <2> QED
    BY <2>2, HeldBy
<1>7. \A n \in Held : n \in Held'
  <2> TAKE n \in Held
  <2>1. PICK j \in Files : \E k \in DOMAIN disk[j] : n = disk[j][k]
    BY DEF Held
  <2>2. j \in Files' /\ n \in {disk'[j][k] : k \in DOMAIN disk'[j]}
    BY <1>3, <1>4, <2>1
  <2>3. {disk'[j][l] : l \in DOMAIN disk'[j]} \in
          {{disk'[e][l] : l \in DOMAIN disk'[e]} : e \in Files'}
    BY <2>2
  <2> QED
    BY <2>2, <2>3, Zenon DEF Held
<1>8. NewestKept'
  <2>1. Held' = Held
    BY <1>6, <1>7
  <2>2. EnoughKept'
    BY <1>1, <2>1, RotationTypes DEF EnoughKept
  <2> QED
    BY <1>5, <2>1, <2>2, RotationTypes DEF NewestKept
<1>9. CapsHold'
  <2>1. disk'[max_files] = Missing
    BY <1>2, RotationTypes DEF WriteInStep
  <2>2. \A j \in Indices : disk'[j] # Missing => Len(disk'[j]) <= MaxLinesPerFile
    BY <1>1, <1>2, LensOf, RotationTypes DEF Files
  <2> QED
    BY <1>2, <2>1, <2>2, CapsKept
<1>10. Behind' = Behind
  BY <1>1, <1>2 DEF Behind
<1> QED
  BY <1>1, <1>2, <1>3, <1>8, <1>9, <1>10

LEMMA ReopenLiveKeeps == RInv /\ ReopenLive => RInv'
<1> SUFFICES ASSUME RInv, ReopenLive PROVE RInv'
  OBVIOUS
<1>1. /\ step = "reopening" /\ step' = "appending" /\ line_count' = 0
      /\ disk' = [disk EXCEPT ![0] = <<>>]
      /\ max_files' = max_files /\ written' = written /\ crashes' = crashes
      /\ existing' = existing
  BY DEF ReopenLive, Goes
<1>2. disk[0] = Missing /\ written < Writes /\ disk[max_files] = Missing /\ existing = {}
  BY <1>1, RotationTypes DEF WriteInStep, ShiftsInStep
<1>3. /\ NewestKept' /\ CapsHold' /\ disk' \in [Indices -> Contents] /\ Indices' = Indices
      /\ Archives' = Archives /\ disk'[0] = <<>> /\ Behind' = Behind
      /\ \A j \in Indices \ {0} : disk'[j] = disk[j]
  BY <1>1, <1>2, LiveCreated
<1>4. <<>> # Missing /\ Len(<<>>) = 0
  BY EmptySeq, LinesAreThere
<1>5. RotationTypeOK'
  BY <1>1, <1>3, <1>4, RotationTypes DEF RInv, RotationTypeOK, Contents
<1>6. WriteInStep'
  BY <1>1, <1>2, <1>3, <1>4, RotationTypes DEF WriteInStep
<1>7. ShiftsInStep'
  BY <1>1, <1>2 DEF ShiftsInStep
<1>8. AgedInTurn'
  BY <1>1, <1>2, <1>3, RotationTypes DEF AgedInTurn, Rank, Archives
<1> QED
  BY <1>3, <1>5, <1>6, <1>7, <1>8 DEF RInv

LEMMA RotationOpenKeeps == RInv /\ Open => RInv'
<1> SUFFICES ASSUME RInv, Open PROVE RInv'
  OBVIOUS
<1>1. /\ step = "down" /\ step' = "idle" /\ line_count' = ExistingLines
      /\ disk' = [disk EXCEPT ![0] = LiveOpened]
      /\ max_files' = max_files /\ written' = written /\ crashes' = crashes
      /\ existing' = existing
  BY DEF Open, Goes
<1>2. existing = {} /\ disk[max_files] = Missing
  BY <1>1, RotationTypes DEF ShiftsInStep, WriteInStep
<1>3. ShiftsInStep'
  BY <1>1, <1>2 DEF ShiftsInStep
<1>4. CASE disk[0] = Missing
  <2>1. disk' = [disk EXCEPT ![0] = <<>>] /\ line_count' = 0
    BY <1>1, <1>4 DEF LiveOpened, ExistingLines
  <2>2. /\ NewestKept' /\ CapsHold' /\ disk' \in [Indices -> Contents] /\ Indices' = Indices
        /\ Archives' = Archives /\ disk'[0] = <<>> /\ Behind' = Behind
        /\ \A j \in Indices \ {0} : disk'[j] = disk[j]
    BY <1>1, <1>4, <2>1, LiveCreated
  <2>3. <<>> # Missing /\ Len(<<>>) = 0
    BY EmptySeq, LinesAreThere
  <2>4. RotationTypeOK'
    BY <1>1, <2>1, <2>2, <2>3, RotationTypes DEF RInv, RotationTypeOK, Contents
  <2>5. WriteInStep'
    BY <1>1, <1>2, <2>2, RotationTypes DEF WriteInStep
  <2>6. AgedInTurn'
    BY <1>1, <1>2, <2>2, RotationTypes DEF AgedInTurn, Rank, Archives
  <2> QED
    BY <1>3, <2>2, <2>4, <2>5, <2>6 DEF RInv
<1>5. CASE disk[0] # Missing
  <2>1. disk' = disk /\ line_count' = Len(disk[0])
    BY <1>1, <1>5, RotationTypes DEF LiveOpened, ExistingLines
  <2>2. NewestKept' /\ CapsHold' /\ Files' = Files
    BY <1>1, <2>1, FilesKept
  <2>3. line_count' \in 0 .. MaxLinesPerFile
    <3>1. Len(disk[0]) \in Nat
      BY <1>5, FileTypes, RotationTypes
    <3>2. Len(disk[0]) <= MaxLinesPerFile
      BY <1>5, LensOf, RotationTypes DEF Files
    <3> QED
      BY <2>1, <3>1, <3>2, RotationTypes
  <2>4. RotationTypeOK'
    BY <1>1, <1>5, <2>1, <2>2, <2>3 DEF RInv, RotationTypeOK, Indices
  <2>5. WriteInStep'
    BY <1>1, <1>2, <2>1 DEF WriteInStep
  <2>6. AgedInTurn'
    BY <1>1, <1>2, <2>1, RotationTypes DEF AgedInTurn, Rank, Archives, Behind, Indices
  <2> QED
    BY <1>3, <2>2, <2>4, <2>5, <2>6 DEF RInv
<1> QED
  BY <1>4, <1>5

LEMMA TruncateKeeps == RInv /\ Truncate => RInv'
<1> SUFFICES ASSUME RInv, Truncate PROVE RInv'
  OBVIOUS
<1>1. /\ step = "rotating" /\ step' = "appending" /\ line_count' = 0 /\ max_files = 1
      /\ disk' = [disk EXCEPT ![0] = <<>>]
      /\ max_files' = max_files /\ written' = written /\ crashes' = crashes
      /\ existing' = existing
  BY DEF Truncate, Goes
<1>2. disk[1] = Missing /\ written < Writes /\ existing = {}
  BY <1>1, RotationTypes DEF WriteInStep, ShiftsInStep
<1>3. <<>> \in Seq(1 .. Writes) /\ <<>> # Missing /\ Len(<<>>) = 0 /\ DOMAIN <<>> = {}
  <2>1. <<>> \in Seq(1 .. Writes) /\ Len(<<>>) = 0
    BY EmptySeq
  <2>2. <<>> # Missing
    BY <2>1, LinesAreThere
  <2>3. DOMAIN <<>> = {}
    OBVIOUS
  <2> QED
    BY <2>1, <2>2, <2>3
<1>4. /\ Indices' = Indices /\ Indices = {0, 1} /\ Keep' = 0
      /\ disk' \in [Indices -> Contents] /\ disk'[0] = <<>> /\ disk'[1] = Missing
  BY <1>1, <1>2, <1>3, RotationTypes DEF Indices, Keep, Contents
<1>5. Files' = {0} /\ Archives' = {}
  BY <1>3, <1>4 DEF Files, Archives
<1>6. Held' = {}
  BY <1>3, <1>4, <1>5 DEF Held
<1>7. NewestKept'
  <2>1. InOrder'
    BY <1>3, <1>4, <1>5 DEF InOrder
  <2>2. Keep' * MaxLinesPerFile = 0
    BY <1>4, RotationTypes
  <2>3. EnoughKept'
    BY <1>1, <2>2, RotationTypes DEF EnoughKept
  <2> QED
    BY <1>6, <2>1, <2>3 DEF NewestKept
<1>8. CapsHold'
  <2>1. \A j \in Indices : disk'[j] # Missing => Len(disk'[j]) <= MaxLinesPerFile
    BY <1>3, <1>4, RotationTypes
  <2> QED
    BY <1>1, <1>4, <2>1, CapsKept
<1>9. RotationTypeOK'
  BY <1>1, <1>3, <1>4, <1>8, RotationTypes DEF RInv, RotationTypeOK, Contents
<1>10. WriteInStep'
  BY <1>1, <1>2, <1>3, <1>4, RotationTypes DEF WriteInStep
<1>11. ShiftsInStep'
  BY <1>1, <1>2 DEF ShiftsInStep
<1>12. AgedInTurn'
  BY <1>5 DEF AgedInTurn
<1> QED
  BY <1>7, <1>9, <1>10, <1>11, <1>12 DEF RInv

\* The next line is the newest, and the last one of the live file.
LEMMA AppendLineKeeps == RInv /\ AppendLine => RInv'
<1> SUFFICES ASSUME RInv, AppendLine PROVE RInv'
  OBVIOUS
<1> DEFINE current == disk[0]
           n == Len(current)
           w == written + 1
<1>1. /\ step = "appending" /\ step' = "idle" /\ line_count' = line_count + 1
      /\ disk' = [disk EXCEPT ![0] = Append(current, w)] /\ written' = w
      /\ max_files' = max_files /\ crashes' = crashes /\ existing' = existing
  BY DEF AppendLine
<1>2. /\ current # Missing /\ line_count = n /\ n < MaxLinesPerFile /\ written < Writes
      /\ disk[max_files] = Missing /\ existing = {}
  BY <1>1, RotationTypes DEF RInv, RotationTypeOK, WriteInStep, ShiftsInStep
<1>3. current \in Seq(1 .. Writes) /\ n \in Nat /\ DOMAIN current = 1 .. n /\ w \in 1 .. Writes
  <2>1. current \in Contents
    BY RotationTypes
  <2>2. w \in 1 .. Writes
    BY <1>2, RotationTypes
  <2> QED
    BY <1>2, <2>1, <2>2, FileTypes
<1> DEFINE longer == Append(current, w)
<1>4. /\ longer \in Seq(1 .. Writes) /\ Len(longer) = n + 1 /\ DOMAIN longer = 1 .. n + 1
      /\ longer[n + 1] = w /\ \A k \in 1 .. n : longer[k] = current[k]
  <2>1. /\ longer \in Seq(1 .. Writes) /\ Len(longer) = n + 1
        /\ longer[n + 1] = w /\ \A k \in 1 .. n : longer[k] = current[k]
    BY <1>3, AppendProperties
  <2> QED
    BY <2>1, LenProperties
<1>5. longer # Missing
  BY <1>4, LinesAreThere
<1>6. /\ disk' = [disk EXCEPT ![0] = longer] /\ Indices' = Indices /\ Keep' = Keep
      /\ longer \in Contents
  BY <1>1, <1>4 DEF Indices, Keep, Contents
<1> HIDE DEF longer, w, n
<1>7. /\ disk' \in [Indices -> Contents] /\ disk'[0] = longer
      /\ \A j \in Indices \ {0} : disk'[j] = disk[j]
  BY <1>6, RotationTypes
<1>8. Files' = Files /\ Archives' = Archives /\ 0 \in Files
  BY <1>2, <1>5, <1>6, <1>7, RotationTypes DEF Files, Archives
<1>9. \A j \in Files \ {0} : disk'[j] = disk[j] /\ j \in Nat /\ j > 0
  BY <1>7, RotationTypes
<1>10. \A j \in Files : \A k \in DOMAIN disk[j] : disk[j][k] \in Nat /\ disk[j][k] < w
  <2>1. \A j \in Files : \A k \in DOMAIN disk[j] : disk[j][k] \in 1 .. written
    BY HeldBy, RotationTypes
  <2> QED
    BY <2>1, RotationTypes DEF w
<1>11. InOrder'
  <2> SUFFICES ASSUME NEW a \in Files, NEW b \in Files,
                      NEW k \in DOMAIN disk'[a], NEW l \in DOMAIN disk'[b],
                      a > b \/ (a = b /\ k < l)
               PROVE  disk'[a][k] < disk'[b][l]
    BY <1>8 DEF InOrder
  <2>1. a # 0 \/ (a = 0 /\ b = 0 /\ k < l)
    BY RotationTypes
  <2>2. k \in DOMAIN disk[a] /\ disk'[a][k] = disk[a][k]
    BY <2>1, <1>3, <1>4, <1>7, <1>9
  <2>3. CASE b = 0 /\ l = n + 1
    BY <2>2, <2>3, <1>4, <1>7, <1>10
  <2>4. CASE b # 0 \/ l # n + 1
    <3>1. l \in DOMAIN disk[b] /\ disk'[b][l] = disk[b][l]
      BY <2>4, <1>3, <1>4, <1>7, <1>9
    <3> QED
      BY <2>2, <3>1, RotationTypes DEF InOrder
  <2> QED
    BY <2>3, <2>4
<1>12. \A m \in Held' : m \in Held \cup {w}
  <2> TAKE m \in Held'
  <2>1. PICK j \in Files' : \E k \in DOMAIN disk'[j] : m = disk'[j][k]
    BY DEF Held
  <2>2. PICK k \in DOMAIN disk'[j] : m = disk'[j][k]
    BY <2>1
  <2>3. CASE j = 0 /\ k = n + 1
    BY <2>2, <2>3, <1>4, <1>7
  <2>4. CASE j # 0 \/ k # n + 1
    <3>1. j \in Files /\ k \in DOMAIN disk[j] /\ m = disk[j][k]
      BY <2>1, <2>2, <2>4, <1>3, <1>4, <1>7, <1>8, <1>9
    <3> QED
      BY <3>1, HeldBy
  <2> QED
    BY <2>3, <2>4
<1>13. \A m \in Held \cup {w} : m \in Held'
  <2>1. \A j \in Files' : \A k \in DOMAIN disk'[j] : disk'[j][k] \in Held'
    <3> TAKE j \in Files'
    <3> TAKE k \in DOMAIN disk'[j]
    <3>1. /\ disk'[j][k] \in {disk'[j][l] : l \in DOMAIN disk'[j]}
          /\ {disk'[j][l] : l \in DOMAIN disk'[j]} \in
                {{disk'[e][l] : l \in DOMAIN disk'[e]} : e \in Files'}
      OBVIOUS
    <3> QED
      BY <3>1, Zenon DEF Held
  <2>2. w \in Held'
    <3>1. n + 1 \in DOMAIN disk'[0] /\ disk'[0][n + 1] = w
      BY <1>3, <1>4, <1>7
    <3> QED
      BY <2>1, <3>1, <1>8
  <2>3. \A m \in Held : m \in Held'
    <3> TAKE m \in Held
    <3>1. PICK j \in Files : \E k \in DOMAIN disk[j] : m = disk[j][k]
      BY DEF Held
    <3>2. PICK k \in DOMAIN disk[j] : m = disk[j][k]
      BY <3>1
    <3>3. k \in DOMAIN disk'[j] /\ m = disk'[j][k]
      BY <3>2, <1>3, <1>4, <1>7, <1>9
    <3> QED
      BY <2>1, <3>3, <1>8
  <2> QED
    BY <2>2, <2>3
<1>14. NewestKept'
  <2>1. Held' = Held \cup {w}
    BY <1>12, <1>13
  <2>2. w \in Nat /\ w = written + 1
    BY RotationTypes DEF w
  <2>3. Held' \subseteq 1 .. written'
    BY <1>1, <2>1, <2>2, RotationTypes
  <2>4. \A m \in Held' : m .. written' \subseteq Held'
    <3> SUFFICES ASSUME NEW m \in Held', NEW o \in m .. w PROVE o \in Held'
      BY <1>1
    <3>1. m \in Nat /\ o \in Nat /\ (o = w \/ o \in m .. written)
      BY <1>1, <2>2, <2>3, RotationTypes
    <3>2. o = w \/ m \in Held
      BY <2>1, <2>2, <3>1, RotationTypes
    <3> QED
      BY <2>1, <3>1, <3>2, RotationTypes
  <2>5. EnoughKept'
    <3> SUFFICES ASSUME crashes = 0, NEW m \in 1 .. w, m > w - Keep * MaxLinesPerFile
                 PROVE  m \in Held'
      BY <1>1, <1>6 DEF EnoughKept
    <3>1. Keep * MaxLinesPerFile \in Int
      BY RotationTypes
    <3>2. m = w \/ (m \in 1 .. written /\ m > written - Keep * MaxLinesPerFile)
      BY <2>2, <3>1, RotationTypes
    <3> QED
      BY <2>1, <3>2, RotationTypes DEF EnoughKept
  <2> QED
    BY <1>11, <2>3, <2>4, <2>5 DEF NewestKept
<1>15. CapsHold'
  <2>1. disk'[max_files] = Missing
    BY <1>2, <1>7, RotationTypes
  <2>2. Len(longer) <= MaxLinesPerFile
    BY <1>2, <1>3, <1>4, RotationTypes
  <2>3. \A j \in Indices : disk'[j] # Missing => Len(disk'[j]) <= MaxLinesPerFile
    BY <1>7, <2>2, LensOf DEF Files
  <2> QED
    BY <1>1, <1>7, <2>1, <2>3, CapsKept
<1>16. RotationTypeOK'
  <2>1. line_count' = Len(disk'[0]) /\ line_count' \in 0 .. MaxLinesPerFile
    BY <1>1, <1>2, <1>3, <1>4, <1>7, RotationTypes
  <2>2. written' \in 0 .. Writes
    BY <1>1, <1>3, RotationTypes
  <2> QED
    BY <1>1, <1>5, <1>6, <1>7, <1>15, <2>1, <2>2 DEF RInv, RotationTypeOK, Contents
<1>17. WriteInStep'
  BY <1>1, <1>2, <1>7, RotationTypes DEF WriteInStep
<1>18. ShiftsInStep'
  BY <1>1, <1>2 DEF ShiftsInStep
<1>19. AgedInTurn'
  <2>1. Behind' = Behind
    <3>1. Behind = written - n
      BY <1>2 DEF Behind, n
    <3>2. Behind' = w - (n + 1)
      BY <1>1, <1>4, <1>5, <1>7 DEF Behind
    <3>3. w = written + 1
      BY DEF w
    <3> QED
      BY <3>1, <3>2, <3>3, <1>3, RotationTypes
  <2>2. \A j \in Archives : Rank(j)' = Rank(j) /\ disk'[j] = disk[j]
    BY <1>1, <1>9, RotationTypes DEF Rank
  <2> QED
    BY <1>1, <1>8, <2>1, <2>2, RotationTypes DEF AgedInTurn
<1> QED
  BY <1>14, <1>16, <1>17, <1>18, <1>19 DEF RInv

LEMMA RotationStarts == RotationInit => RInv
<1> SUFFICES ASSUME RotationInit PROVE RInv
  OBVIOUS
<1>1. /\ max_files \in Nat \ {0} /\ Missing \in Contents
      /\ Writes \in Nat /\ MaxCrashes \in Nat
  BY LogRotationAssumption DEF RotationInit, Contents
<1>2. disk \in [Indices -> Contents] /\ Files = {} /\ Archives = {}
  BY <1>1 DEF RotationInit, Files, Archives
<1>3. CapsHold
  <2>1. Cardinality(Files) = 0
    BY <1>2, FS_EmptySet
  <2> QED
    BY <1>1, <1>2, <2>1 DEF CapsHold
<1>4. RotationTypeOK
  BY <1>1, <1>2, <1>3, LogRotationAssumption DEF RotationInit, RotationTypeOK, Contents
<1>5. WriteInStep /\ ShiftsInStep
  BY <1>1, <1>2 DEF RotationInit, WriteInStep, ShiftsInStep, Indices
<1>6. NewestKept
  <2>1. Held = {}
    BY <1>2 DEF Held
  <2> QED
    BY <1>2, <2>1 DEF RotationInit, NewestKept, InOrder, EnoughKept
<1>7. AgedInTurn
  BY <1>2 DEF AgedInTurn
<1> QED
  BY <1>4, <1>5, <1>6, <1>7 DEF RInv

LEMMA RotationKeeps == RInv /\ [RotationNext]_rotationVars => RInv'
  BY BeginWriteKeeps, TruncateKeeps, ListKeeps, EvictKeeps, ShiftKeeps, RetireKeeps,
     ReopenLiveKeeps, AppendLineKeeps, RotationCrashKeeps, RotationOpenKeeps,
     RotationStutters DEF RotationNext, RotationOver

LEMMA RotationInvariance == RotationSpec => []RInv
<1>1. RotationInit => RInv
  BY RotationStarts
<1>2. RInv /\ [RotationNext]_rotationVars => RInv'
  BY RotationKeeps
<1> QED
  BY <1>1, <1>2, PTL DEF RotationSpec

\* The types of a rotating sink, its count of the live file and the caps on
\* files and lines, whatever they are and wherever the process dies
\* (_rotation.py:132-144).
THEOREM RotationTypeCorrect == RotationSpec => []RotationTypeOK
  BY RotationInvariance, PTL DEF RInv

\* However many rotations and deaths in the middle of one, the files hold the
\* newest lines in order, without a gap or a repetition, and without a death
\* nothing is dropped early (_rotation.py:132-144).
THEOREM NewestSafe == RotationSpec => []NewestKept
  BY RotationInvariance, PTL DEF RInv
=============================================================================
