------------------------------- MODULE Logger -------------------------------
(***************************************************************************)
(* The logger of the backend (Logger.cpp): two files behind one mutex.     *)
(* The threads of a backend process log lines; a line is written with      *)
(* write(2), which may write any part of what is left of it, or fail.  The *)
(* process ends in order or by a crash, and may be started again, which    *)
(* truncates the files.                                                    *)
(*                                                                         *)
(* A file is the sequence of what each successful write(2) added to it.    *)
(* Where a part ends is told apart only as far as a reader of the file can *)
(* tell: see LogMonitor.                                                   *)
(***************************************************************************)
EXTENDS Integers, Sequences, FiniteSets, SequencesExt

CONSTANTS Threads,
          NoThread,    \* the logger's mutex is free
          Levels,      \* the levels system lines are logged with
          Quantities,  \* the quantities of logged trades
          WritesFail,  \* whether write(2) may fail
          MaxLines,    \* bound: lines logged, over all runs of the backend
          MaxRuns,     \* bound: starts of the backend
          MaxShort     \* bound: short writes a file holds at a time

LogLevels == {"DEBUG", "INFO", "TRADE", "WARNING", "ERROR_L"}

ASSUME LoggerConstants ==
  /\ NoThread \notin Threads
  /\ Levels \subseteq LogLevels
  /\ Quantities \subseteq Nat
  /\ WritesFail \in BOOLEAN
  /\ MaxLines \in Nat /\ MaxRuns \in Nat /\ MaxShort \in Nat

VARIABLES files,    \* per log, what has been written to it
          exists,   \* the logs whose file exists
          running,  \* the backend runs, with both files open
          mutex,    \* m_mutex: the thread in logTrade or logSystem
          call,     \* per thread, the line it is writing, and how far it is
          runs,     \* history: starts of the backend
          lines     \* history: the lines logged, over all runs

loggerVars == <<files, exists, running, mutex, call, runs, lines>>

Logs == {"trade", "system"}

\* How much of a line has been written, as far as its reader can tell: from
\* nothing (0) up to the timestamp or a part of it; to the rest of a trade before
\* its last field, or to the level of a system line; to a digit of the seller, or
\* to the text of a system line; to all but the newline; to the end.
Stamp   == 1
Middle  == 2
Ending  == 3
Newline == 4
Whole   == 5

\* Where write(2) may stop short in a line of a log.
Cuts(log) == IF log = "trade" THEN Stamp .. Newline ELSE Stamp .. Ending

\* What stands in a line for its level.
LevelStr == [level \in LogLevels |->
  CASE level = "DEBUG"   -> "DEBUG"
    [] level = "INFO"    -> "INFO "
    [] level = "TRADE"   -> "TRADE"
    [] level = "WARNING" -> "WARN "
    [] level = "ERROR_L" -> "ERROR"]

Line  == [log : Logs, level : LogLevels, qty : Nat, run : Nat]
Piece == [id : Nat, from : 0 .. Newline, to : Stamp .. Whole]
Call  == [id : Nat, at : 0 .. Newline]

Idle == [id |-> 0, at |-> 0]

\* The line with this id, counted over all runs, goes to this log.
LineOf(log, id) == id \in DOMAIN lines /\ lines[id].log = log

LoggerInit ==
  /\ files = [log \in Logs |-> <<>>] /\ exists = {}
  /\ running = FALSE /\ mutex = NoThread /\ call = [t \in Threads |-> Idle]
  /\ runs = 0 /\ lines = <<>>

-----------------------------------------------------------------------------
\* The process starts: init opens both files and truncates those that open;
\* if one does not, the process ends at once.
OpenLogs(opened) ==
  /\ ~running /\ runs < MaxRuns
  /\ files' = [log \in Logs |-> IF log \in opened THEN <<>> ELSE files[log]]
  /\ exists' = exists \cup opened
  /\ running' = (opened = Logs)
  /\ runs' = runs + 1
  /\ UNCHANGED <<mutex, call, lines>>

Unlocked_Lock(t) == mutex' = t

\* pthread_mutex_lock on m_mutex.
Lock(t) == mutex = NoThread /\ mutex' = t

\* logTrade or logSystem (log only calls it), up to the first write.
BeginLog(t, log, level, qty) ==
  /\ running /\ call[t] = Idle /\ Len(lines) < MaxLines
  /\ Lock(t)
  /\ lines' = Append(lines, [log |-> log, level |-> level, qty |-> qty, run |-> runs])
  /\ call' = [call EXCEPT ![t].id = Len(lines) + 1]
  /\ UNCHANGED <<files, exists, running, runs>>

\* write(2) adds t's line to its file, from where it is to another place.
Wrote(t, to) ==
  LET log == lines[call[t].id].log
  IN  files' = [files EXCEPT ![log] =
                  Append(@, [id |-> call[t].id, from |-> call[t].at, to |-> to])]

Writing(t) == call[t].id > 0

\* The short writes of a file's content, those of all its lines.
ShortWrites(log) == {i \in DOMAIN files[log] : files[log][i].to # Whole}

\* The loop of writeToFd is over, and with it the call.
EndLog(t) == call' = [call EXCEPT ![t] = Idle] /\ mutex' = NoThread

Retried_ShortWrite(t, to) ==
  /\ Writing(t) /\ call[t].at <= to /\ call[t].at # Newline
  /\ Cardinality(ShortWrites(lines[call[t].id].log)) < MaxShort
  /\ Wrote(t, to)
  /\ IF call[t].at = 0 THEN call' = [call EXCEPT ![t].at = to] /\ UNCHANGED mutex
                       ELSE EndLog(t)
  /\ UNCHANGED <<exists, running, runs, lines>>

\* write(2) writes less than is left of the line, and the loop goes on: as often
\* as it takes, with more than one write between two places or in one of them,
\* but for the newline, which is a single byte.
ShortWrite(t, to) ==
  /\ Writing(t) /\ call[t].at <= to /\ call[t].at # Newline
  /\ Cardinality(ShortWrites(lines[call[t].id].log)) < MaxShort
  /\ Wrote(t, to)
  /\ call' = [call EXCEPT ![t].at = to]
  /\ UNCHANGED <<exists, running, mutex, runs, lines>>

\* write(2) writes all that is left of the line.
LastWrite(t) ==
  /\ Writing(t)
  /\ Wrote(t, Whole)
  /\ EndLog(t)
  /\ UNCHANGED <<exists, running, runs, lines>>

\* write(2) fails; what is left of the line is dropped and nobody is told.
FailedWrite(t) ==
  /\ WritesFail /\ Writing(t)
  /\ EndLog(t)
  /\ UNCHANGED <<files, exists, running, runs, lines>>

\* main closes the files and returns, once every thread has been joined.
CloseLogs ==
  /\ running /\ \A t \in Threads : call[t] = Idle
  /\ running' = FALSE
  /\ UNCHANGED <<files, exists, mutex, call, runs, lines>>

\* The process is killed, at any point of any line.
Crash ==
  /\ running
  /\ running' = FALSE /\ mutex' = NoThread
  /\ call' = [t \in Threads |-> Idle]
  /\ UNCHANGED <<files, exists, runs, lines>>

LoggerNext ==
  \/ \E opened \in SUBSET Logs : OpenLogs(opened)
  \/ \E t \in Threads :
       \/ \E qty \in Quantities : BeginLog(t, "trade", "TRADE", qty)
       \/ \E level \in Levels : BeginLog(t, "system", level, 0)
       \/ Writing(t) /\ \E to \in Cuts(lines[call[t].id].log) : ShortWrite(t, to)
       \/ LastWrite(t)
       \/ FailedWrite(t)
  \/ CloseLogs
  \/ Crash

LoggerSpec == LoggerInit /\ [][LoggerNext]_loggerVars

-----------------------------------------------------------------------------
\* The lines of this run that go to a log and have been written to the end.
Logged(log) == {p.id : p \in {q \in ToSet(files[log]) : q.to = Whole}}

\* Type correctness of the logger.  A thread holds the mutex exactly while it
\* writes a line, and gives it back on every path out of the loop; only a
\* running backend writes.
LoggerInv ==
  /\ files \in [Logs -> Seq(Piece)]
  /\ exists \subseteq Logs
  /\ running \in BOOLEAN
  /\ mutex \in Threads \cup {NoThread}
  /\ call \in [Threads -> Call]
  /\ runs \in Nat
  /\ lines \in Seq(Line)
  /\ \A t \in Threads : Writing(t) <=> mutex = t
  /\ mutex # NoThread => running /\ call[mutex].id = Len(lines)

\* The mutex keeps the lines of concurrent callers apart: whatever writes are
\* cut short or fail, a file holds lines of its own, in the order of the calls,
\* and what is added to a line stands right behind what there was of it.
LinesKeptTogether ==
  \A log \in Logs : LET f == files[log] IN
    \A i \in DOMAIN f :
      /\ LineOf(log, f[i].id)
      /\ f[i].from # 0 => i > 1 /\ f[i - 1].id = f[i].id /\ f[i - 1].to = f[i].from
      /\ f[i].from = 0 => \A j \in 1 .. i - 1 : f[j].id < f[i].id

\* If write(2) never fails, each call that has returned has left its whole line
\* in its file, however many writes it took ("loop handles partial writes").
EverythingLogged ==
  ~WritesFail /\ running =>
    \A log \in Logs :
      Logged(log) = {id \in DOMAIN lines :
                       /\ LineOf(log, id) /\ lines[id].run = runs
                       /\ \A t \in Threads : call[t].id # id}

=============================================================================
