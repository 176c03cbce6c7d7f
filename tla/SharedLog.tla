------------------------------ MODULE SharedLog ------------------------------
(***************************************************************************)
(* The logging set-up shared by every thread of the process                *)
(* (log/_setup.py, _api.py and the handle of _rotation.py).  Each log_event *)
(* call opens or reuses the sink of its run's file, points structlog's     *)
(* process-wide configuration at it, binds a logger to whatever that       *)
(* configuration is by then, and writes its line through the logger's      *)
(* sink.  Nothing here takes a lock: the debate threads of two runs, or a  *)
(* debate thread and the workers it abandoned, interleave.  What a rotation *)
(* does to the files is LogRotation; here it only closes and reopens the   *)
(* sink's handle.                                                          *)
(***************************************************************************)
EXTENDS Integers, Sequences, FiniteSets

CONSTANTS
  Threads,   \* threads that log
  RunOf,     \* thread -> the runs it logs events of
  MaxLines,  \* max_lines_per_file
  MaxEvents  \* bound: log_event calls

ASSUME SharedLogAssumption ==
  /\ RunOf \in [Threads -> SUBSET UNION {RunOf[t] : t \in Threads}]
  /\ MaxLines \in Nat \ {0} /\ MaxEvents \in Nat

Runs == UNION {RunOf[t] : t \in Threads}

VARIABLES
  sinks,       \* the sinks made so far: the run of the file, whether the handle
               \* is open, _line_count
  open_sinks,  \* _OPEN_SINKS: run -> its sink, 0 if none
  configured,  \* the sink in structlog's configuration, 0 at first
  at,          \* thread -> what its log_event call does next
  run,         \* thread -> the run of that call
  sink,        \* thread -> the sink it holds: of its run, then of its logger
  files,       \* run -> the events written to its files: the run of each, and
               \* whether its call was overlapped
  live,        \* run -> the lines of its live file, NoFile when there is none
  overlapped,  \* threads whose call another call has overlapped (history)
  raised,      \* thread and overlapped? of each write that raised: I/O on a closed
               \* file, or a live file another thread has already archived
  calls        \* log_event calls made

vars == <<sinks, open_sinks, configured, at, run, sink, files, live, overlapped, raised,
          calls>>

NoSink == 0
NoFile == -1

Moves(t, where) == at' = [at EXCEPT ![t] = where]
Holds(t, k) == sink' = [sink EXCEPT ![t] = k]
Begins(t) ==
  LET others == {u \in Threads : at[u] # "idle"} IN
  /\ calls < MaxEvents
  /\ calls' = calls + 1
  /\ overlapped' = IF others = {} THEN overlapped \ {t}
                   ELSE overlapped \cup others \cup {t}
Same == UNCHANGED <<files, live, overlapped, raised, calls>>

-----------------------------------------------------------------------------
Cached(r) == open_sinks[r] # NoSink /\ sinks[open_sinks[r]].open

\* _open_sink finds the sink in the cache ...
Reuse(t, r) ==
  /\ at[t] = "idle" /\ r \in RunOf[t] /\ Begins(t)
  /\ Cached(r)
  /\ run' = [run EXCEPT ![t] = r]
  /\ Holds(t, open_sinks[r])
  /\ Moves(t, "configuring")
  /\ UNCHANGED <<sinks, open_sinks, configured, files, live, raised>>

\* _count_existing_lines
Lines(r) == IF live[r] = NoFile THEN 0 ELSE live[r]

\* ... or opens one, for appending ...
Make(t, r) ==
  /\ at[t] = "idle" /\ r \in RunOf[t] /\ Begins(t)
  /\ ~Cached(r)
  /\ sinks' = Append(sinks, [run |-> r, open |-> TRUE, count |-> Lines(r)])
  /\ live' = [live EXCEPT ![r] = Lines(r)]
  /\ run' = [run EXCEPT ![t] = r]
  /\ Holds(t, Len(sinks) + 1)
  /\ Moves(t, "caching")
  /\ UNCHANGED <<open_sinks, configured, files, raised>>

\* ... and puts it there.
Cache(t) ==
  /\ at[t] = "caching"
  /\ open_sinks' = [open_sinks EXCEPT ![run[t]] = sink[t]]
  /\ Moves(t, "configuring")
  /\ UNCHANGED <<sinks, configured, run, sink>> /\ Same

\* Mutant: structlog is configured once, by the first call.
ConfiguredOnce(t) == IF configured = NoSink THEN sink[t] ELSE configured

SinkToUse(t) == sink[t]

Configure(t) ==
  /\ at[t] = "configuring"
  /\ configured' = SinkToUse(t)
  /\ Moves(t, "binding")
  /\ UNCHANGED <<sinks, open_sinks, run, sink>> /\ Same

\* structlog.get_logger().bind() takes the processors configured by now.
Bind(t) ==
  /\ at[t] = "binding"
  /\ Holds(t, configured)
  /\ Moves(t, "writing")
  /\ UNCHANGED <<sinks, open_sinks, configured, run>> /\ Same

-----------------------------------------------------------------------------
(* RotatingJsonlSink.write, called by _DualSinkRenderer. *)

Sink(t) == sinks[sink[t]]

FindFull(t) ==
  /\ at[t] = "writing" /\ Sink(t).count >= MaxLines
  /\ Moves(t, "closing")
  /\ UNCHANGED <<sinks, open_sinks, configured, run, sink>> /\ Same

Close(t) ==
  /\ at[t] = "closing"
  /\ sinks' = [sinks EXCEPT ![sink[t]].open = FALSE]
  /\ Moves(t, "archiving")
  /\ UNCHANGED <<open_sinks, configured, run, sink>> /\ Same

Archive(t) ==
  /\ at[t] = "archiving" /\ live[Sink(t).run] # NoFile
  /\ live' = [live EXCEPT ![Sink(t).run] = NoFile]
  /\ Moves(t, "reopening")
  /\ UNCHANGED <<sinks, open_sinks, configured, run, sink, files, overlapped, raised,
                 calls>>

\* Mutant: the new file's handle is not kept.
ReopenElsewhere(t) ==
  /\ at[t] = "reopening"
  /\ sinks' = [sinks EXCEPT ![sink[t]].count = 0]
  /\ live' = [live EXCEPT ![Sink(t).run] = Lines(Sink(t).run)]
  /\ Moves(t, "appending")
  /\ UNCHANGED <<open_sinks, configured, run, sink, files, overlapped, raised,
                 calls>>

Reopen(t) ==
  /\ at[t] = "reopening"
  /\ sinks' = [sinks EXCEPT ![sink[t]].open = TRUE, ![sink[t]].count = 0]
  /\ live' = [live EXCEPT ![Sink(t).run] = Lines(Sink(t).run)]
  /\ Moves(t, "appending")
  /\ UNCHANGED <<open_sinks, configured, run, sink, files, overlapped, raised,
                 calls>>

HasRoom(t) ==
  /\ at[t] = "writing" /\ Sink(t).count < MaxLines
  /\ Moves(t, "appending")
  /\ UNCHANGED <<sinks, open_sinks, configured, run, sink>> /\ Same

\* The line goes to the file the handle was opened on: the live file, unless
\* another thread has just archived it.
Put(t) ==
  /\ at[t] = "appending" /\ Sink(t).open
  /\ LET r == Sink(t).run IN
       /\ files' = [files EXCEPT ![r] = Append(@, [of |-> run[t], overlapped |-> t \in overlapped])]
       /\ live' = [live EXCEPT ![r] = IF @ = NoFile THEN @ ELSE @ + 1]
  /\ sinks' = [sinks EXCEPT ![sink[t]].count = @ + 1]
  /\ Moves(t, "idle")
  /\ UNCHANGED <<open_sinks, configured, run, sink, overlapped, raised,
                 calls>>

WriteRaises(t) ==
  /\ \/ at[t] = "appending" /\ ~Sink(t).open
     \/ at[t] = "archiving" /\ live[Sink(t).run] = NoFile
  /\ raised' = raised \cup {<<t, t \in overlapped>>}
  /\ Moves(t, "idle")
  /\ UNCHANGED <<sinks, open_sinks, configured, run, sink, files, live, overlapped,
                 calls>>

Over == calls = MaxEvents /\ (\A t \in Threads : at[t] = "idle") /\ UNCHANGED vars

Init ==
  /\ sinks = <<>> /\ configured = NoSink /\ overlapped = {} /\ raised = {} /\ calls = 0
  /\ open_sinks = [r \in Runs |-> NoSink]
  /\ at = [t \in Threads |-> "idle"]
  /\ run \in {f \in [Threads -> Runs] : \A t \in Threads : f[t] \in RunOf[t]}
  /\ sink = [t \in Threads |-> NoSink]
  /\ files = [r \in Runs |-> <<>>]
  /\ live = [r \in Runs |-> NoFile]

Next ==
  \/ \E t \in Threads : \E r \in Runs : Reuse(t, r) \/ Make(t, r)
  \/ \E t \in Threads :
       \/ Cache(t) \/ Configure(t) \/ Bind(t)
       \/ FindFull(t) \/ Close(t) \/ Archive(t) \/ Reopen(t) \/ HasRoom(t)
       \/ Put(t) \/ WriteRaises(t)
  \/ Over

Spec == Init /\ [][Next]_vars

-----------------------------------------------------------------------------
\* Every variable has its type; a thread past _open_sink holds a sink.
TypeOK ==
  /\ sinks \in Seq([run : Runs, open : BOOLEAN, count : Nat])
  /\ open_sinks \in [Runs -> 0..Len(sinks)] /\ configured \in 0..Len(sinks)
  /\ run \in [Threads -> Runs] /\ sink \in [Threads -> 0..Len(sinks)]
  /\ at \in [Threads -> {"idle", "caching", "configuring", "binding", "writing",
                          "closing", "archiving", "reopening", "appending"}]
  /\ \A t \in Threads : at[t] # "idle" => sink[t] # NoSink
  /\ files \in [Runs -> Seq([of : Runs, overlapped : BOOLEAN])]
  /\ live \in [Runs -> Nat \cup {NoFile}]
  /\ overlapped \subseteq Threads /\ raised \subseteq Threads \X BOOLEAN
  /\ calls \in 0..MaxEvents

\* Whatever overlapping calls do to each other's handles and files, they do no
\* lasting damage: a log_event call that no other overlaps never raises, because
\* the next rotation or _open_sink gives a sink left closed a handle again
\* (_setup.py:75-79, _rotation.py:120-132).
RaisesOnlyInRace == \A x \in raised : x[2]

\* Nor do they confuse the configuration for good: an event logged by a call
\* that no other overlaps goes to the file of its run, whatever runs the calls
\* before it have left the process configured for (_setup.py:87-98).
OwnFileAlone ==
  \A r \in Runs : \A i \in DOMAIN files[r] :
    files[r][i].of = r \/ files[r][i].overlapped

\* A race over the set-up is the only thing that loses or misplaces an event,
\* and it passes (the two above).
OnlyRacesHurt == RaisesOnlyInRace /\ OwnFileAlone
=============================================================================
